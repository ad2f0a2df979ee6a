SPECIFICATION FairSpec
CONSTANTS
    Null = Null
    Clients = {datagram, sync}
    DatagramTest = datagram
    SyncTest = sync
    MaxSends = 4
    QueueBound = 0
    Failures = TRUE
INVARIANTS
    TypeOK
    WorkerBuffersLive
    NoPortWithoutWorker
    TestsDoNotOverlap
    LeaksOnlyRefused
    BlockedIsServed
PROPERTIES
    CountersInOrder
    BlocksOnlyOnDeadWorker
CHECK_DEADLOCK FALSE
