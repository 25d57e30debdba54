SPECIFICATION Spec
CONSTANTS
  Callers = {c1, c2}
  Runners = {}
  Targets = {0, 4}
  Replaces = {8}
  NumWords = 8
  Length <- Lengths
  PageWords = 8
  BRange = 12
  AdrpRange = 14
  Failing = {}
  MaxBlocks = 2
  None = None
INVARIANT NoPatchFault
CHECK_DEADLOCK FALSE
