SPECIFICATION LibSpec
CONSTANTS
    Clients = {c1, c2}
    MaxSends = 1
    QueueBound = 2
    Null = Null
    HandleReuse = TRUE
    ReceiveMayFail = TRUE
    ReplyMayFail = TRUE
SYMMETRY Symmetry
CHECK_DEADLOCK FALSE
INVARIANT
    ObjectsHoldConnections
PROPERTY
    IsUaSystem
