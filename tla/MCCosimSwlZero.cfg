CONSTANTS
    Band <- MCBand
    Bor <- MCBor
    Bxor <- MCBxor
    UseInterpCheck = FALSE
    ByteBits = 1
    NumPages = 2
    FpArith <- MCFpArith
    Loads = {"lw"}
    Stores = {"swl"}
    Offsets = {0}
    Insns <- MCNoInsns
SPECIFICATION Spec
INVARIANT InterpCheck
