SPECIFICATION MCSpec
CONSTANTS
  IntMax = 7
  InitialCapacity = 3
  MaxLength = 9
  UsizeMax = 2147483647
  MaxDtwMemSize = 1073741824
  ObjectSize = 1024
  Wishes = {0, 134217727, 200000000, 300000000, 1073741825, 2147483647}
  TextCtxs = {1, 447, 448, 449}
  Threads = {t1, t2, t3}
  NoThread = NoThread
  SegmentIterators = {outer}
  TokenIterators = {inner, back}
  NoItem = NoItem
  MaxSegments = 2
  MaxTokens = 2
INVARIANTS
  CompleteOrNone
  DecodesFit
  DtwAsAsked
  OneAnswerPerProcess
  IndicesInRange
PROPERTIES
  CallsReturn
  IteratesAll
