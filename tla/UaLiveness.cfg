SPECIFICATION FairSpec
CONSTANTS
    Clients = {c1, c2}
    MaxSends = 1
    QueueBound = 2
    Null = Null
    HandleReuse = FALSE
    ReceiveMayFail = TRUE
    ReplyMayFail = TRUE
CHECK_DEADLOCK FALSE
PROPERTIES
    CallReturns
    TerminateReturns
    DisconnectReclaims
