CONSTANTS
    NSec = 6
    IoRanges <- MC_IoRanges
    PhysBase = 2
    MemSize = 3
    Align = 2
    AdtCases = {TRUE, FALSE}
    InitSctlr <- MC_InitSctlr
SPECIFICATION Spec
INVARIANT TypeOK LiveTableMapsIdentity
PROPERTY CleanBeforeCacheOff
CHECK_DEADLOCK FALSE
