CONSTANTS
    MaxKeyLen = 128
    SnapMax = 80
    Inv = Inv
    KeyNames <- MCKeyNames
    Names <- MCNames
    Inputs <- MCManyNodesInputs
INIT Init
NEXT Next
INVARIANT RoundTrip
