CONSTANTS
    MaxKeyLen = 16
    SnapMax = 80
    Inv = Inv
    KeyNames <- MCKeyNames
    Names <- MCNames
    Inputs <- MCInputs
INIT Init
NEXT Next
INVARIANTS TypeOK KeyInBounds RoundTrip
