SPECIFICATION Spec
CONSTANTS
    NChunks = 3
    Window = 2
    Capacity = 2
    NetFaults <- Lossy
    GivesUp <- OnceAdmitted
    EarlyTimers = TRUE
INVARIANT
    CompletedIsKept
