SPECIFICATION AllocSpec
CONSTANTS
  NumPages = 6
  Capacity = 4
  Sizes = {1, 3}
  Nears = {9, 17}
  NearRange = 8
  StubSize = 2
  Libraries = {2, 5}
  MaxHanded = 1
  None = None
INVARIANT GapsOnly
CHECK_DEADLOCK FALSE
