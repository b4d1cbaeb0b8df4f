SPECIFICATION FairSpec
CONSTANTS
    NChunks = 5
    Capacity = 2
    NetFaults <- InOrder
    Leaves <- Anyone
    EarlyTimers = TRUE
INVARIANTS
    ReceivedIsPrefix
    OneAhead
    CompletedIsKept
    SInv
PROPERTIES
    ImplementsTransfer
    UploadCompletes
