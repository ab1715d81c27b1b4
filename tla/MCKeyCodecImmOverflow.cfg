CONSTANTS
    MaxKeyLen = 128
    SnapMax = 80
    Inv = Inv
    KeyNames <- MCWideKeyNames
    Names <- MCWideNames
    Inputs <- MCWideInputs
INIT Init
NEXT Next
INVARIANT ImmWriteInBounds
