SPECIFICATION FairSpec
CONSTANTS
    GroupIDs = {1, 2}
    VlsdIDs = {3}
    ElemIDs = {257}
    AlienIDs = {4}
    RecSize <- Sizes
    PointsTo <- Pointers
    ValueLens = {0, 2}
    IdSize = 2
    BufCap = 4
    MaxRecords = 3
    IoErrors = TRUE
INVARIANTS StreamsAreProjections NoFalseAlarm OffsetsResolve GroupCountsAreRight
PROPERTIES PassEnds
CHECK_DEADLOCK FALSE
