SPECIFICATION FairSpec
CONSTANTS
    c1 = c1
    c2 = c2
    f1 = f1
    Clients <- WithForeign
    Foreign <- OneForeign
    Protocol = "saw"
    MaxPorts = 2
    Capacity = 2
    NetFaults <- Lossy
    GivesUp <- Nobody
    MayStop = FALSE
INVARIANTS
    HInv
    OneConnection
    TransferIsKnown
PROPERTY
    EveryClientIsAnswered
CHECK_DEADLOCK FALSE
