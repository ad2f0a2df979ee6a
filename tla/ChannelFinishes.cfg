SPECIFICATION FairSpec
CONSTANTS
    Null = Null
    Clients = {datagram, sync}
    DatagramTest = datagram
    SyncTest = sync
    MaxSends = 6
    QueueBound = 0
    Failures = FALSE
PROPERTIES
    ProgramEnds
    EverythingArrives
CHECK_DEADLOCK FALSE
