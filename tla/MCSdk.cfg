SPECIFICATION SdkSpec
CONSTANTS
  Callers = {c1}
  Runners = {x1}
  Targets = {0, 4}
  Replaces = {8, 44}
  NumWords = 8
  Length <- Lengths
  PageWords = 3
  BRange = 12
  AdrpRange = 14
  Failing = {"alloc", "begin", "rwx", "rx"}
  MaxBlocks = 3
  NumPages = 6
  Capacity = 4
  Sizes = {1, 3}
  Nears = {9, 17}
  NearRange = 8
  StubSize = 2
  Libraries = {2, 5}
  MaxHanded = 3
  None = None
INVARIANTS
  CodeMatchesRegistry
  OrigRunsOriginal
  NoPatchFault
  TornOnlyByLongPatch
  NullOnlyInInstall
  BlocksDisjoint
  InOwnPage
PROPERTY
  ImplementsTable
CHECK_DEADLOCK FALSE
