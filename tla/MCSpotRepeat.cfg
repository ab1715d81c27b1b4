CONSTANTS
    Annots = {"function", "loop"}
    Groups <- MCGroups
    Places = {"a.json", "b.json"}
    Config <- MCConfigTwoFiles
    InitFiles <- MCInitFiles
    Durations = {1, 2}
    MaxCycles = 2
    MaxSnaps = 2
INIT Init
NEXT Next
CHECK_DEADLOCK FALSE
PROPERTY ExactlyOnce
