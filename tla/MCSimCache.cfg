CONSTANTS
    MaxNodes = 5
    Configs <- MCConfigs
    Addrs = {0, 1, 2, 3, 4}
    MemLatency = 9
SPECIFICATION Spec
INVARIANTS
    ListIntact
    KeepsRecent
    WaysExact
PROPERTY ImplementsLru
