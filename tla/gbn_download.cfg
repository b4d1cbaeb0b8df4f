SPECIFICATION ServerAloneSpec
CONSTANTS
    NChunks = 4
    Window = 2
    Capacity = 2
    NetFaults <- AnyFault
    Leaves <- Anyone
    EarlyTimers = TRUE
INVARIANTS
    ReceivedIsPrefix
    BaseIsStored
    DoneMissesOne
    LeavesNoPart
    AnswerIsRight
    GInv
PROPERTIES
    ImplementsTransfer
    ServerLetsGo
