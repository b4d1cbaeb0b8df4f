SPECIFICATION FairSpec
CONSTANTS
    NChunks = 4
    Window = 2
    Capacity = 2
    NetFaults <- Reorders
    GivesUp <- Nobody
    EarlyTimers = FALSE
PROPERTY
    ReachesLastChunk
CHECK_DEADLOCK FALSE
