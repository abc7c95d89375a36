CONSTANTS
    n1 = n1
    n2 = n2
    n3 = n3
    v1 = v1
    nul = nul
    NULL <- nul
    Names <- MC_Names
    Values <- MC_Values
    PhysBase = 2
    MemPages = 20
    Wrap = 32
    MaxChosen = 2
    InitrdSizes = {0, 2}
    FdtSizes = {1, 2}
    Extra = 1
    LogPages = 1
    MaxReqs = 4
SPECIFICATION Spec
INVARIANT FreeOnlyHeap
CHECK_DEADLOCK FALSE
