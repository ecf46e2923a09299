SPECIFICATION FairSpec
CONSTANTS
    Node = {2, 3}
    Fanout = 2
    Role <- PairRole
    Running = {}
    Initial <- Unwritten
    DialAttempts = 2
    MaxDialFaults = 1
    MaxHung = 1
    MaxFaults = 1
    MaxCleanUps = 1
INVARIANTS
    TypeOK
    InStep
    IdsExclusive
    AloneOnlyWithoutPlace
PROPERTIES
    RemovedEdgeCloses
    EdgeServed
CHECK_DEADLOCK FALSE
