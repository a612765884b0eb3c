SPECIFICATION FairSpec
CONSTANTS
  t1 = t1
  t2 = t2
  t3 = t3
  c1 = c1
  c2 = c2
  s1 = s1
  s2 = s2
  s3 = s3
  NoThread = NoThread
  NoContext = NoContext
  NoState = NoState
  ExceptionCodes <- MCExceptionCodes
  RecoverableCodes <- MCRecoverableCodes
  Threads <- MCThreads2
  Contexts <- MCContexts1
  States <- MCStates2
PROPERTIES
  FullLockReleased
  LostStateReclaimed
  CallsReturn
