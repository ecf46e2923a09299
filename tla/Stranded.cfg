SPECIFICATION FairSpec
CONSTANTS
    DialAttempts = 3
    MaxFails = 0
PROPERTIES
    EndsMeet
CHECK_DEADLOCK FALSE
