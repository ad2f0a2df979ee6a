SPECIFICATION Spec
CONSTANTS
    WordSize = 65536
    HeaderSize = 24
    MaxAllowed = 65519
    Lengths <- Boundaries
INVARIANTS
    TypeOK
    CopiesFit
    RejectsExactlyTooLong
    AnswerFits
