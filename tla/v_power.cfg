SPECIFICATION Spec
CONSTANTS
    NG = 1
    RecSize <- ThreeByteRecords
    NStr <- NoStrings
    StrLens = {0}
    ChunkSize = 4
    BufCap = 4
    Align = 2
    Compress = FALSE
    MaxRecords = 2
    IoErrors = FALSE
    PowerFails = TRUE
INVARIANTS PowerLossKeepsFlushed
CHECK_DEADLOCK FALSE
