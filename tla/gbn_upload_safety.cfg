SPECIFICATION ServerFairSpec
CONSTANTS
    NChunks = 3
    Window = 2
    Capacity = 2
    NetFaults <- AnyFault
    GivesUp <- Anyone
    EarlyTimers = TRUE
INVARIANTS
    CompletedMissesOne
    ReceivedIsPrefix
    BaseIsStored
    IInv
    CompleteIsWhole
    FailedIsRemoved
    AdmittedWithItsSize
PROPERTIES
    ImplementsTransfer
    ServerLetsGo
