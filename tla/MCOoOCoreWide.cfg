CONSTANTS
    Band <- MCBand
    Bor <- MCBor
    Bxor <- MCBxor
    UseInterpCheck = TRUE
    ByteBits = 3
    FpArith <- MCFpArith
    Program <- MCProgram
    StartPcs <- MCStartPcs
    Regs <- MCRegs
    InitRegs <- MCInitRegs
    InitMem <- MCInitMem
    HostResults <- MCHostResults
    LoadVals <- MCLoadVals
    NumPrf <- MorePrf
    FetchqSize = 4
    DecodeqSize = 4
    RobSize = 8
    LoadTblSize = 2
    StoreTblSize = 2
    SchedEntries <- MCSched
    FetchBw = 4
    DecodeBw = 4
    AllocBw = 4
    RetireBw = 2
    SchedPerCycle = 2
    TakenBranchesPerCycle = 1
    StackSize = 2
    FlashRestart = FALSE
    UseL1d = FALSE
    LoadLats <- OneLat
    MaxIcnt = 22
SPECIFICATION Spec
INVARIANTS
    NoDangling
    Stream
PROPERTIES
    ImplementsIsa
    Terminates
