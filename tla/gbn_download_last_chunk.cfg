SPECIFICATION Spec
CONSTANTS
    NChunks = 4
    Window = 2
    Capacity = 2
    NetFaults <- Lossy
    Leaves <- Nobody
    EarlyTimers = FALSE
INVARIANT
    LastChunkIsSent
