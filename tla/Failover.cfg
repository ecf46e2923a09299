SPECIFICATION FairSpec
CONSTANTS
    Node = {1, 2, 3}
    Fanout = 1
    Role <- ChainRole
    Running = {1, 3}
    Initial <- ChainStart
    DialAttempts = 2
    MaxDialFaults = 0
    MaxHung = 0
    MaxFaults = 1
    MaxCleanUps = 1
INVARIANTS
    AloneOnlyWithoutPlace
    OnlySubscribersJoin

    
CHECK_DEADLOCK FALSE
