CONSTANTS
    key22 = key22
    Breakers <- OneBreaker
    Uses = {"key", "query", "restart"}
    Fails = {}
    MaxWait = 1
SPECIFICATION Spec
CHECK_DEADLOCK FALSE
INVARIANTS TypeOK NoSelfWait MicHeld
