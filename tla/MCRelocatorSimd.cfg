SPECIFICATION Spec
CONSTANTS
    Insts <- MCSimd
    Sizes = {1, 3}
    SrcAddr = 100
    DstAddr = 203
    PageSize = 16
    XRegs = {0, 17, 30}
    VRegs = {0}
    States <- MCStates
INVARIANT Equivalent
CHECK_DEADLOCK FALSE
