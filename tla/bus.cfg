SPECIFICATION Spec
CONSTANTS
    ByteBits = 2
    WordBytes = 2
    ExtFlag = 8
    Inputs <- AllCalls
INVARIANTS DatabasesAsWritten SignalsAreProjections
CHECK_DEADLOCK FALSE
