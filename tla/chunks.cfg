SPECIFICATION FairSpec
CONSTANTS
    Requests <- SomeRequests
    Froms <- SomeFroms
    Counts <- SomeCounts
    Windows = {0, 1, 2, 100, 127}
    RecSizes = {0, 2, 8}
    RecordCounts = {0, 3, 4}
    ChunkBytes = 4
    MaxAlloc = 60
    MaxInt = 127
INVARIANTS WindowsTile WindowAligned AgreesWithRead
PROPERTIES StopsForGood IterationEnds
CHECK_DEADLOCK FALSE
