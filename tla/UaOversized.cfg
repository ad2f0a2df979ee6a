SPECIFICATION Spec
CONSTANTS
    WordSize = 65536
    HeaderSize = 40
    MaxAllowed = 65535
    Lengths <- Boundaries
INVARIANT
    OversizedIsRejected
