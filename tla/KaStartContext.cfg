SPECIFICATION KaSpec
CONSTANTS
    Clients = {c1}
    MaxSends = 1
    QueueBound = 1
    Null = Null
    HandleReuse = FALSE
    ReceiveMayFail = FALSE
    ReplyMayFail = FALSE
    StartContext = Null
CHECK_DEADLOCK FALSE
INVARIANT
    WorkerIsGivenServer
