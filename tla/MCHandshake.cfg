SPECIFICATION Spec
CONSTANTS
    Streams <- MCStreams
    Users <- MCUsers
    Capacity = 24
CHECK_DEADLOCK FALSE
INVARIANTS
    TypeOK
    AnswersSeparate
    Authenticated
PROPERTIES
    ImplementsNegotiation
    Answered
