SPECIFICATION Spec
CONSTANTS
    Servers = {s1, s2}
    Outside = {a, b}
    MaxCalls = 2
    ReceiveMayFail = TRUE
    ReplyMayFail = TRUE
    HandleReuse = TRUE
    Null = Null
CHECK_DEADLOCK FALSE
INVARIANTS
    FreedServerIsQuiet
    WhoIsWaitedForGoesOn
PROPERTIES
    CallsHangOnlyForCause
    TerminateHangsOnlyForCause
