SPECIFICATION FairSpec
CONSTANTS
    NChan = 4
    NameOf <- Names
    GroupOf <- GroupsOf
    MasterOf <- Masters
    DGOf <- DataGroups
    Unsorted = {1}
    NumCPU = 2
    Windowed = FALSE
    MaxFaults = 1
INVARIANTS ReturnsWhatReadsGive ComputedByOne
PROPERTIES ReadAllReturns
CHECK_DEADLOCK FALSE
