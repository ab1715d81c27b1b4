CONSTANTS
    MaxKeyLen = 16
    SnapMax = 80
    Inv = Inv
    KeyNames <- MCBreakKeyNames
    Names <- MCNames
    Inputs <- MCBreakInputs
INIT Init
NEXT Next
INVARIANT ImmediatesAsSpecified
