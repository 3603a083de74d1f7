CONSTANTS
    Threads <- MCThreads
    nullptr = nullptr
    MemLatency = 6
    WatchdogMin = 6
    StageDelays <- MCStageDelays
    BranchLag = 1
    MaxSleep = 2
SPECIFICATION Spec
PROPERTIES
    ImplementsReadyQueue
    Shutdown
    WatchdogEnds
\* the simulation ends
CHECK_DEADLOCK FALSE
