\* Three threads racing ingests, exits and flushes: list and lifetime safety, and every flush_cb returns.
CONSTANTS
    t1 = t1
    t2 = t2
    t3 = t3
    k1 = k1
    NoDB = NoDB
    Threads <- MCThreadsThree
    Main = t1
    Keys <- MCKeys
    MaxIngest = 2
    MaxFlush = 2
    SetSpecificFails = TRUE
SPECIFICATION Spec
INVARIANT TypeOK
INVARIANT ListIntegrity
INVARIANT NoUseOfDeleted
PROPERTY RegistryRefinement
PROPERTY FlushCompletes
CHECK_DEADLOCK FALSE
