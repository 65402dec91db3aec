SPECIFICATION FairSpec
CONSTANTS
    a1 = a1
    a2 = a2
    k1 = k1
    k2 = k2
    NULL = NULL
    Apps <- OneApp
    Devices <- OneDevice
    ConnSize = 2
    EventSize = 2
    MaxFd = 5
    MaxBuffer = 1
    MaxEvents = 1
    MaxDeaths = 1
    MaxRestarts = 2
    MaxPlugs = 1
INVARIANT TypeOK
PROPERTY BusSpec
PROPERTY SendEnds
PROPERTY Delivered
CHECK_DEADLOCK FALSE
