CONSTANTS
    Band <- MCBand
    Bor <- MCBor
    Bxor <- MCBxor
    UseInterpCheck = FALSE
    ByteBits = 1
    NumPages = 2
    FpArith <- MCFpArith
    Loads = {"lb"}
    Stores = {"swl"}
    Offsets = {1, 2, 3}
    Insns <- MCNoInsns
SPECIFICATION Spec
INVARIANT InterpCheck
