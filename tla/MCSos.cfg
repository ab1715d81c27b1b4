CONSTANTS
    Threads = {t1, t2}
    Attrs <- MCAttrs
    TypeOf <- MCTypeOf
    TriggerName = "iteration"
    Snapshots <- MCSnapshots
    MaxDepth = 2
    MaxPublish = 3
INIT Init
NEXT Next
CHECK_DEADLOCK FALSE
INVARIANTS TypeOK TriggerResolved
