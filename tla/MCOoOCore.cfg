CONSTANTS
    Band <- MCBand
    Bor <- MCBor
    Bxor <- MCBxor
    UseInterpCheck = FALSE
    ByteBits = 3
    FpArith <- MCFpArith
    Program <- MCProgram
    StartPcs <- MCStartPcs
    Regs <- MCRegs
    InitRegs <- MCInitRegs
    InitMem <- MCInitMem
    HostResults <- MCHostResults
    LoadVals <- MCLoadVals
    NumPrf <- MCNumPrf
    FetchqSize = 2
    DecodeqSize = 2
    RobSize = 4
    LoadTblSize = 2
    StoreTblSize = 2
    SchedEntries <- MCSched
    FetchBw = 2
    DecodeBw = 2
    AllocBw = 2
    RetireBw = 2
    SchedPerCycle = 1
    TakenBranchesPerCycle = 1
    StackSize = 2
    FlashRestart = TRUE
    UseL1d = TRUE
    LoadLats <- MCLoadLats
    MaxIcnt = 22
SPECIFICATION Spec
INVARIANTS
    TypeOK
    RenameExact
    NoDangling
    NoMissedCompletion
    Stream
    LoadsFresh
    BlockedHasOwner
PROPERTIES
    ImplementsIsa
    Terminates
