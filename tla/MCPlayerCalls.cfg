CONSTANTS
    NULL = NULL
    FOREIGN = FOREIGN
    key = key
    phone = phone
    s1 = s1
    s2 = s2
    Songs <- TwoSongs
    Callers <- OneCaller
    Ops = {"startup", "shutdown", "start", "insert", "delete", "clean", "play", "next", "prev", "toggle", "halt", "stop", "mode"}
    Fails = {"playurl", "connect"}
    Answers = {"RESPONSE_DONE", "RESPONSE_CANCEL"}
    Oss = TRUE
    MaxCalls = 6
    MaxList = 2
    MaxEnds = 1
SPECIFICATION Spec
CHECK_DEADLOCK FALSE
INVARIANTS TypeOK ChosenIsCurrent LockHeld ReleasedIsQuiet
PROPERTIES ServiceSpec
