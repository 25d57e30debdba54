SPECIFICATION ScriptsSpec
CONSTANTS
    Scripters = {s1}
    Apps = {a1}
    Functions = {f1, f2}
    MaxEntries = 2
    MaxDepth = 3
    MaxWork = 4
    Insts <- MCInsts
    Sizes = {1, 3, 4}
    SrcAddr = 100
    DstAddr = 203
    PageSize = 16
    XRegs = {0, 17, 30}
    VRegs = {0}
    States <- MCStates
    None = None
INVARIANTS
    OneInJS OrigKnown HookedAlive HooksTracked
    RegistersKept
    Equivalent NoDataExecuted FitsBlock
PROPERTY Finishes
CHECK_DEADLOCK FALSE
