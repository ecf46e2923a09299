SPECIFICATION Spec
CONSTANTS
    Id = {"ab", "ac", "ba", "x"}
    NodeOf <- NodeOfId
    NoNode = "none"
    Conn = {"a1", "a2", "a3"}
    IdOf <- ReconnectConn
    Message = {"offer"}
    From <- ReconnectFrom
    To <- ReconnectTo
    None = "none"
PROPERTIES OnlyOwnEntryRemoved
CHECK_DEADLOCK FALSE
