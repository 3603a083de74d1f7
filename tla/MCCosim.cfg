CONSTANTS
    Band <- MCBand
    Bor <- MCBor
    Bxor <- MCBxor
    UseInterpCheck = FALSE
    ByteBits = 1
    NumPages = 2
    FpArith <- MCFpArith
    Loads = {"lb", "lbu", "lh", "lhu", "lw", "lwl", "lwr"}
    Stores = {"sb", "sh", "sw", "swr"}
    Offsets = {0, 1, 2, 3}
    Insns <- MCInsns
SPECIFICATION Spec
INVARIANTS
    InterpCheck
    MemCheck
    UnalignedLoad
