SPECIFICATION FairSpec
CONSTANTS
    Node = {1, 2, 3, 4, 5, 6}
    Fanout = 2
    Call = {"regProxy", "regPub", "sub4", "sub4b"}
    Op <- JoinOp
    Who <- JoinWho
    Start <- JoinStart
    MaxRetries = 3
    MaxCleanups = 2
    MaxFaults = 0
INVARIANTS
    FanoutBound
    SingleParent
    
    Rooted
    NothingRestored
PROPERTIES
    OneAtomicUpdate
    EveryCallReturns
CHECK_DEADLOCK FALSE
