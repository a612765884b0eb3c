SPECIFICATION Spec
CONSTANTS
  t1 = t1
  t2 = t2
  c1 = c1
  c2 = c2
  s1 = s1
  s2 = s2
  s3 = s3
  p1 = p1
  p2 = p2
  NoThread = NoThread
  Budget = 3
  Threads <- MCThreads
  Contexts <- MCContexts
  States <- MCStates
  AllParams <- MCAllParams
  ContextOf <- MCContextOf
  HostOf <- MCHostOf
  Order <- MCOrder
INVARIANTS
  PanicReachesCaller
CHECK_DEADLOCK FALSE
