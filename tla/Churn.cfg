SPECIFICATION Spec
CONSTANTS
    Node = {1, 2, 3, 4, 5}
    Fanout = 2
    Call = {"leave1", "lost1", "lost3", "sub4"}
    Op <- ChurnOp
    Who <- ChurnWho
    Start <- ChurnStart
    MaxRetries = 3
    MaxCleanups = 2
    MaxFaults = 1
INVARIANTS
    TypeOK
    Rooted
    GivesUpOnlyUnderContention
    RegisteredAreNamed
PROPERTIES
    OnlyDetachOrphans
    OnlyCleanUpDeregisters
    OneAtomicUpdate
CHECK_DEADLOCK FALSE
