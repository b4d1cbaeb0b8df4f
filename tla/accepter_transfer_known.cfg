SPECIFICATION Spec
CONSTANTS
    c1 = c1
    c2 = c2
    f1 = f1
    Clients <- TwoClients
    Foreign <- AllOurs
    Protocol = "saw"
    MaxPorts = 3
    Capacity = 2
    NetFaults <- Lossy
    GivesUp <- Nobody
    MayStop = FALSE
INVARIANT
    TransferIsKnown
CHECK_DEADLOCK FALSE
