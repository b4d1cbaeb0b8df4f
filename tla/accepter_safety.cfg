SPECIFICATION AccepterFairSpec
CONSTANTS
    c1 = c1
    c2 = c2
    f1 = f1
    Clients <- TwoClients
    Foreign <- AllOurs
    Protocol = "gbn"
    MaxPorts = 2
    Capacity = 1
    NetFaults <- Lossy
    GivesUp <- Anyone
    MayStop = TRUE
INVARIANTS
    RunningIsPooled
    AtMostOneOutlives
PROPERTIES
    ImplementsPool
    AccepterMovesOn
    StopEnds
CHECK_DEADLOCK FALSE
