SPECIFICATION Spec
CONSTANTS
    NG = 1
    RecSize <- OneGroup
    NStr <- OneString
    StrLens = {1}
    ChunkSize = 2
    BufCap = 4
    Align = 2
    Compress = FALSE
    MaxRecords = 3
    IoErrors = FALSE
    PowerFails = FALSE
INVARIANTS ClosedRoundTrip
CHECK_DEADLOCK FALSE
