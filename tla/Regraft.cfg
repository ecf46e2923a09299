SPECIFICATION FairSpec
CONSTANTS
    Node = {1, 2, 3, 4}
    Fanout = 1
    Role <- RegraftRole
    Running = {1, 3, 4}
    Initial <- RegraftStart
    DialAttempts = 1
    MaxDialFaults = 0
    MaxHung = 0
    MaxFaults = 0
    MaxCleanUps = 0
INVARIANTS
    InStep
PROPERTIES
    RemovedEdgeCloses
    EdgeServed
CHECK_DEADLOCK FALSE
