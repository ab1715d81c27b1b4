\* Two threads: ++s_global_num_dropped on an ingesting thread races with the fold in flush_cb.
CONSTANTS
    t1 = t1
    t2 = t2
    t3 = t3
    k1 = k1
    NoDB = NoDB
    Threads <- MCThreadsTwo
    Main = t1
    Keys <- MCKeys
    MaxIngest = 2
    MaxFlush = 1
    SetSpecificFails = FALSE
SPECIFICATION Spec
INVARIANT GlobalDropsCounted
CHECK_DEADLOCK FALSE
