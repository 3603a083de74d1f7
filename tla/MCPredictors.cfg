CONSTANTS
    Bxor <- MCBxor
    Programs <- MCPrograms
    Kinds = {"gshare", "gnoalias", "bimode"}
    LgPht = 1
    HistBits = 1
    Hash <- MCHash
    LoopSizes = {0, 1}
    WindowSize = 2
    MaxLimit = 2
SPECIFICATION Spec
INVARIANT LimitWithinRun
PROPERTY Learns
