SPECIFICATION JavaSpec
CONSTANTS
    Targets = {s}
    Static = {s}
    MaxBackups = 2
    Platforms <- Found
    Threads = {t1, t2}
    Hooks = {m1, m2, m3}
    NumPerPage = 1
    CountRange = 8
    MaxPages = 3
    MaxFail = 1
    a = a
    Hookers = {h1, h2}
    Callers = {c1}
    Callbacks = {a, b}
    Owns <- Shared
    Priority <- Usual
    Width = 3
    MaxEntries = 2
    None = None
CONSTRAINT Explored
INVARIANTS
    HookLive OriginalRuns DeoptimizedStays
    OwnTrampoline SlotInOwnPage
    Nested FinalControl HighestFirst IsHookedTrue HookStays
PROPERTIES CallsReturn NoLateCallback FailsOnlyInHook
CHECK_DEADLOCK FALSE
