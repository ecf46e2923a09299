SPECIFICATION Spec
CONSTANTS
    Node = {2, 3}
    Fanout = 2
    Role <- PairRole
    Running = {}
    Initial <- Unwritten
    DialAttempts = 3
    MaxDialFaults = 0
    MaxHung = 0
    MaxFaults = 1
    MaxCleanUps = 2
PROPERTIES
    OnlyDeadDeregistered
CHECK_DEADLOCK FALSE
