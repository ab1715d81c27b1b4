\* Two threads, no nesting: each opens and closes one region of the same name.
CONSTANTS
    Threads = {t1, t2}
    Names <- MCNames
    NumColors = 7
    MaxDepth = 1
    MaxRanges = 2
INIT Init
NEXT Next
CHECK_DEADLOCK FALSE
INVARIANT RangesBalanced
