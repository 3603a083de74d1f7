CONSTANTS
    a = a
    b = b
    c = c
    d = d
    e = e
    nullptr = nullptr
    Sizes <- MCSizes
    Values <- MCValues
    Band <- MCBand
    Granule <- MCGranule
SPECIFICATION Spec
INVARIANTS
    TypeOK
    FullAtGranule
    SlotsExact
    RobIdxHeld
    PeekNext
PROPERTY ImplementsFifo
