\* A single thread whose pthread_setspecific fails: its snapshots go to a database no flush sees.
CONSTANTS
    t1 = t1
    t2 = t2
    t3 = t3
    k1 = k1
    NoDB = NoDB
    Threads <- MCThreadsOne
    Main = t1
    Keys <- MCKeys
    MaxIngest = 4
    MaxFlush = 3
    SetSpecificFails = TRUE
SPECIFICATION Spec
INVARIANT Conservation
CHECK_DEADLOCK FALSE
