SPECIFICATION ReadsSpec
CONSTANTS
    WordBits = 16
    MaxElements = 4
    Files <- AllFiles
    RecSize = 4
    InvalSize = 2
    RecByte <- RecPattern
    InvByte <- InvPattern
    Channels <- SomeChannels
    MaxSamples = 5
    MaxConversionDepth = 2
    Rules <- SomeRules
    Rule <- TheRule
    RawColumns <- SomeRawColumns
    Reductions <- SomeReductions
    RedByte <- RedPattern
    Fields <- SomeFields
    Master <- TheMaster
    MaxRange = 4
INVARIANTS SamplesReadBack InvalidReadBack  ConvertedRight ReducedReadBack
CHECK_DEADLOCK FALSE
