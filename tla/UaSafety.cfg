SPECIFICATION Spec
CONSTANTS
    Clients = {c1, c2}
    MaxSends = 2
    QueueBound = 3
    Null = Null
    HandleReuse = TRUE
    ReceiveMayFail = TRUE
    ReplyMayFail = TRUE
SYMMETRY Symmetry
CHECK_DEADLOCK FALSE
INVARIANTS
    TypeOK
    NoUseAfterFree
    CreateAllOrNothing
    NoticeFindsContext
    ContextHoldsHandle
    HandlesAreLiveOrDue
    ReplyMatchesRequest
    WorkerEndsAtReceive
    NoForgottenClient
    NothingRetained
PROPERTIES
    HandledInOrder
