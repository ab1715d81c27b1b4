\* Two threads: the owner may be inside process_snapshot while flush_cb drains its database.
CONSTANTS
    t1 = t1
    t2 = t2
    t3 = t3
    k1 = k1
    NoDB = NoDB
    Threads <- MCThreadsTwo
    Main = t1
    Keys <- MCKeys
    MaxIngest = 2
    MaxFlush = 1
    SetSpecificFails = FALSE
SPECIFICATION Spec
INVARIANT OwnerQuiescentDuringFlush
CHECK_DEADLOCK FALSE
