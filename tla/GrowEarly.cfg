SPECIFICATION Spec
CONSTANTS
    Node = {2, 3, 4, 5}
    Fanout = 3
    Call = {"sub2", "sub4"}
    Op <- ContendOp
    Who <- ContendWho
    Start <- ContendStart
    MaxRetries = 3
    MaxCleanups = 2
    MaxFaults = 0
PROPERTIES GrowsOnlyWhenFull
CHECK_DEADLOCK FALSE
