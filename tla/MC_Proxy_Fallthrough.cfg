CONSTANTS
    NAddr <- MC_NAddr
    Mapped <- MC_Mapped
    GuardArgs <- MC_GuardArgs
    MaxUnits <- MC_MaxUnits
    TimerPresent = TRUE
SPECIFICATION Spec
PROPERTY BadcmdNoSideEffect
CHECK_DEADLOCK FALSE
