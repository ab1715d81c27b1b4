CONSTANTS
    Threads = {t1}
    Names <- MCNames
    NumColors = 7
    MaxDepth = 2
    MaxRanges = 6
INIT Init
NEXT Next
CHECK_DEADLOCK FALSE
INVARIANT RangesBalanced
