SPECIFICATION Spec
CONSTANTS
    r1 = r1
    r2 = r2
    Readers = {r1, r2}
    NSeg = 4
    Keys = {1, 2, 3, 4}
    Size <- Sizes4
    Budget = 3
    NumCPU = 2
    Corrupt = {}
    MaxReads = 1
INVARIANTS TypeOK OrderIsKeys BudgetKept NoStrayWorkers
PROPERTIES EvictsOnlyWhatItMust
SYMMETRY ReaderSymmetry
CHECK_DEADLOCK FALSE
