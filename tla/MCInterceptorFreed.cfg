SPECIFICATION ScriptSpec
CONSTANTS
    None = None
    Scripters = {s1}
    Apps = {a1}
    Functions = {f1, f2}
    MaxEntries = 2
    MaxDepth = 3
    MaxWork = 4
INVARIANT NoUseAfterFree
CHECK_DEADLOCK FALSE
