CONSTANTS
    Bytes <- MCBytes
    Keys <- MCKeys
    NumAggr = 1
    Samples <- MCSamples
    NoValue = NoValue
    EntriesPerBlock = 2
    MaxBlocks = 4
    DblMax = 100
    DblMinPos = 1
    Reentrant = FALSE
    MaxIngest = 3
    MaxFlush = 2
SPECIFICATION Spec
INVARIANT TypeOK
INVARIANT TrieIsTree
PROPERTY AggregateRefinement
CHECK_DEADLOCK FALSE
