SPECIFICATION FairSpec
CONSTANTS
    Id = {"ab", "ac", "ba", "x"}
    NodeOf <- NodeOfId
    NoNode = "none"
    Conn = {"a1", "a2", "a3", "x1"}
    IdOf <- ExchangeConn
    Message = {"offer", "answer"}
    From <- ExchangeFrom
    To <- ExchangeTo
    None = "none"
INVARIANTS
    TypeOK
    NoGhost
    OneCopy

    
CHECK_DEADLOCK FALSE
