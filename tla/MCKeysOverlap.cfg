SPECIFICATION Spec
CONSTANTS
    Buttons <- TwoButtons
    Config = 22
    Tests = 1
    Again = 2
    IntMax = 2
    MaxQueue = 2
    MaxPresses = 2
    MaxTimers = 2
    MaxSessions = 1
PROPERTY KeysComeBack
CHECK_DEADLOCK FALSE
