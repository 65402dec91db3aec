CONSTANTS
    key22 = key22
    Breakers <- OneBreaker
    Uses = {"key", "restart"}
    Fails = {}
    MaxWait = 1
SPECIFICATION FairSpec
CHECK_DEADLOCK FALSE
PROPERTIES SessionEnds BreakReturns
