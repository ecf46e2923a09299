SPECIFICATION FairSpec
CONSTANTS
    Node = {2, 3}
    Fanout = 2
    Role <- PairRole
    Running = {}
    Initial <- Unwritten
    DialAttempts = 3
    MaxDialFaults = 2
    MaxHung = 0
    MaxFaults = 0
    MaxCleanUps = 2
PROPERTIES
    EdgeReconnects
CHECK_DEADLOCK FALSE
