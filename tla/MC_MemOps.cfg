CONSTANTS
    NBytes <- MC_NBytes
    Offsets <- MC_Offsets
    MaxSize <- MC_MaxSize
    SetWidths = {1, 2, 4, 8}
    CopyWidths = {2, 4, 8}
SPECIFICATION Spec
INVARIANT TypeOK
INVARIANT TouchesOnlyTruncated
PROPERTY BulkRefinement
CHECK_DEADLOCK FALSE
