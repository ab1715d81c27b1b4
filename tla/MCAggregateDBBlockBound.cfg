CONSTANTS
    Bytes <- MCBytes
    Keys <- MCKeys
    NumAggr = 1
    Samples <- MCSamples
    NoValue = NoValue
    EntriesPerBlock = 2
    MaxBlocks = 1
    DblMax = 100
    DblMinPos = 1
    Reentrant = FALSE
    MaxIngest = 3
    MaxFlush = 2
SPECIFICATION Spec
INVARIANT BlockIndexInRange
CHECK_DEADLOCK FALSE
