SPECIFICATION EdgeFairSpec
CONSTANTS
    DialAttempts = 2
    MaxFails = 1
    Message = {"zeros", "packet"}
    Payload <- MCPayload
    ReceiveBuffer = 4
    MaxParseRetries = 1
    MaxForeign = 2
INVARIANTS
    EdgeTypeOK
    
    InOrder
PROPERTIES
    
    Delivered
CHECK_DEADLOCK FALSE
