SPECIFICATION FairSpec
CONSTANTS
    r1 = r1
    r2 = r2
    Readers = {r1, r2}
    NSeg = 3
    Keys = {1, 2, 3}
    Size <- Sizes3
    Budget = 3
    NumCPU = 2
    Corrupt = {2}
    MaxReads = 1
INVARIANTS ReadsAreRight
PROPERTIES ReadsReturn
CHECK_DEADLOCK FALSE
