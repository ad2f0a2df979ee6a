SPECIFICATION Spec
CONSTANTS
    Clients = {c1, c2}
    MaxSends = 2
    QueueBound = 3
    Null = Null
    HandleReuse = FALSE
    ReceiveMayFail = TRUE
    ReplyMayFail = TRUE
SYMMETRY Symmetry
CHECK_DEADLOCK FALSE
PROPERTY
    IsRpcService
