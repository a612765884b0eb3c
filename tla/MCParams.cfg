SPECIFICATION MCSpec
CONSTANTS
  I32Max = 4095
  MinSamples = 201
  Models <- MCModels
  LanguageIds = {0, 1, 2, 3}
  Millis <- MCMillis
  Prompts <- MCPrompts
  Lengths = {200, 201, 3207, 4096}
  Precision = 64
  One = 1024
  Eps = 1
  MinInc = 64
  DefaultInc = 204
  Quanta <- MCQuanta
  RungCap = 40
  Concurrency = {0, 1, 8}
  Counts <- MCCounts
  MaxBeamSize = 4
  CStrings = {x1, x2}
  TokenBuffers = {b1, b2}
  Closures = {k1, k2}
  Null = Null
  EnLiteral = EnLiteral
  MaxTokens = 2
  MaxDepth = 2
  Texts <- MCTexts
  Length <- MCLength
  NonLetters <- MCNonLetters
  UpToNul <- MCUpToNul
  Named = {"en", "haw"}
  Table <- MCTable
  Tongues <- MCTongues
INVARIANTS
  WindowInsideAudio
  TokensSuitTheModel
  RefusalsAreJust
  LadderIsShort
  FailuresAreCaught
  PointersAreOwned
  CallsReadLiveMemory
  ForcedLanguageComesBack
  HintAndTokenAgree
