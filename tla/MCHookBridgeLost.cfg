SPECIFICATION BridgeSpec
CONSTANTS
  h1 = h1
  h2 = h2
  a = a
  b = b
  Hookers = {h1, h2}
  Callers = {c1}
  Callbacks = {a, b}
  Owns <- Own
  Priority <- Usual
  Width = 3
  MaxEntries = 2
  None = None
INVARIANT
  HookTakesEffect
CHECK_DEADLOCK FALSE
