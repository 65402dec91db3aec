SPECIFICATION FairSpec
CONSTANTS
    o1 = o1
    o2 = o2
    i1 = i1
    NULL = NULL
    OutMsgs <- Sent
    InMsgs <- Got
    Setups <- ManySetups
    MaxInflight = 1
    MaxWire = 2
    MaxLosses = 1
    MaxElapses = 1
INVARIANTS TypeOK Window ConnectFirst
PROPERTIES DeliverySpec OutEnds StallEnds
CHECK_DEADLOCK FALSE
