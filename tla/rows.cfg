SPECIFICATION Spec
CONSTANTS
    Types <- AllTypes
    Setters <- SetterCalls
    Batches <- SomeBatches
    Slots = {s1, s2}
    MaxChans = 2
    MaxRows = 2
SYMMETRY Symmetry
INVARIANTS RowsReadBack DefinedInTime
PROPERTIES BatchesEndWhole
CHECK_DEADLOCK FALSE
