CONSTANTS
    LineSize <- MC_LineSize
    MaxAddr <- MC_MaxAddr
    MaxLength <- MC_MaxLength
SPECIFICATION Spec
INVARIANT AllRangeLines
CHECK_DEADLOCK FALSE
