SPECIFICATION FairSpec
CONSTANTS
    NChunks = 2
    Window = 2
    Capacity = 2
    NetFaults <- Lossy
    GivesUp <- Nobody
    EarlyTimers = FALSE
PROPERTY
    LastChunkArrives
CHECK_DEADLOCK FALSE
