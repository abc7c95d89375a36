CONSTANTS
    NBytes <- MC_NBytes
    Offsets <- MC_Offsets
    MaxSize <- MC_MaxSize
    SetWidths = {}
    CopyWidths = {1}
SPECIFICATION Spec
INVARIANT TouchesOnlyTruncated
CHECK_DEADLOCK FALSE
