SPECIFICATION FairSpec
CONSTANTS
    NG = 1
    RecSize <- ThreeByteRecords
    NStr <- NoStrings
    StrLens = {0}
    ChunkSize = 4
    BufCap = 4
    Align = 2
    Compress = FALSE
    MaxRecords = 4
    IoErrors = TRUE
    PowerFails = TRUE
INVARIANTS ClosedRoundTrip FinalizedIsComplete KilledFileIsPrefix FlushedIsReadable ErrorIsFinal
PROPERTIES ImplementsLog CallsReturn
CHECK_DEADLOCK FALSE
