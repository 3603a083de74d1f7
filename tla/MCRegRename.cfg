CONSTANTS
    r1 = r1
    r2 = r2
    p1 = p1
    p2 = p2
    p3 = p3
    p4 = p4
    p5 = p5
    Regs <- MCRegs
    Pregs <- MCPregs
    Val <- MCVal
    Ops <- MCOps
    Src <- MCSrc
    Dst <- MCDst
    WriteAt <- MCWriteAt
    Eval <- MCEval
    InitMap <- MCInitMap
    RobSize = 3
SPECIFICATION Spec
INVARIANTS
    TypeOK
    SequentialDataflow
    FreevecExact
    RetiredPopcount
    SourcesHeld
    ArchPrecise
    IInv
PROPERTY InOrderSpec
SYMMETRY Pool
