SPECIFICATION FirstSpec
CONSTANTS
    Clients = {c1, c2}
    MaxSends = 1
    QueueBound = 2
    Null = Null
    HandleReuse = TRUE
    ReceiveMayFail = TRUE
    ReplyMayFail = TRUE
CHECK_DEADLOCK FALSE
INVARIANTS
    OnlyTheUnservedEndWorker
    ClientHeapIsRight
PROPERTIES
    IsRpcService
    CallsEndOrWorkerDoes
