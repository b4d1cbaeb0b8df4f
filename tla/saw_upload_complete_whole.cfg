SPECIFICATION Spec
CONSTANTS
    NChunks = 2
    Capacity = 2
    NetFaults <- Perfect
    Leaves <- Anyone
    EarlyTimers = FALSE
INVARIANT
    CompleteIsWhole
