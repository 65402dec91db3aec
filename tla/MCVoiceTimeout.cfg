CONSTANTS
    key22 = key22
    Breakers <- OneBreaker
    Uses = {}
    Fails = {}
    MaxWait = 1
SPECIFICATION Spec
CHECK_DEADLOCK FALSE
PROPERTIES TimeoutGoesToAec
