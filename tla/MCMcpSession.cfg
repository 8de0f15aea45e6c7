SPECIFICATION Spec
CONSTANTS
    MaxAttempts = 2
    MaxCalls = 2
    Transports <- BothTransports
    Backlog = 2
INVARIANTS
    EveryCallIsAnswered
    QuestionHasItsCard
    ConnectionsMatch
CHECK_DEADLOCK FALSE
