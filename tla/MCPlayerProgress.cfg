CONSTANTS
    NULL = NULL
    FOREIGN = FOREIGN
    key = key
    phone = phone
    s1 = s1
    s2 = s2
    Songs <- OneSong
    Callers <- TwoCallers
    Ops = {"start", "insert", "play", "halt", "stop"}
    Fails = {"stop"}
    Answers = {"RESPONSE_DONE"}
    Oss = TRUE
    MaxCalls = 3
    MaxList = 1
    MaxEnds = 1
SPECIFICATION FairSpec
CHECK_DEADLOCK FALSE
INVARIANTS NoFalseActive AnsweredOwner
PROPERTIES LockReleased MusicGoesOn
