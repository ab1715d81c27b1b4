CONSTANTS
    MaxKeyLen = 128
    SnapMax = 80
    Inv = Inv
    KeyNames <- MCShiftKeyNames
    Names <- MCShiftNames
    Inputs <- MCShiftInputs
INIT Init
NEXT Next
INVARIANT RoundTrip
