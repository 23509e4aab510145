SPECIFICATION Spec
CONSTANTS
    NG = 2
    RecSize <- TwoGroups
    NStr <- FirstHasString
    StrLens = {0, 2}
    ChunkSize = 3
    BufCap = 5
    Align = 2
    Compress = TRUE
    MaxRecords = 3
    IoErrors = TRUE
    PowerFails = FALSE
INVARIANTS ClosedRoundTrip ClosedStrings FinalizedIsComplete
CHECK_DEADLOCK FALSE
