CONSTANTS
    LineSize <- MC_LineSize
    MaxAddr <- MC_MaxAddr
    MaxLength <- MC_MaxLength
SPECIFICATION Spec
INVARIANT TypeOK
INVARIANT LinesAtExit
CHECK_DEADLOCK FALSE
