CONSTANTS
    Annots = {"function", "loop"}
    Groups <- MCGroups
    Places = {"a.json", "b.json"}
    Config <- MCConfigTwoFiles
    InitFiles <- MCInitFilesEmpty
    Durations = {1, 2}
    MaxCycles = 2
    MaxSnaps = 2
INIT Init
NEXT Next
CHECK_DEADLOCK FALSE
INVARIANT NoAbort
