SPECIFICATION Spec
CONSTANTS
    NServers = 1
    Kinds <- AllKinds
    RawIds <- OneRawId
    MaxRounds = 2
    MaxCalls = 2
    MaxSends = 1
    Backlog = 2
INVARIANTS
    TypeOK
    ConsentFirst
    QuestionsCanBeAnswered
    TurnIsSettled
PROPERTIES
    NothingAfterStop
CHECK_DEADLOCK FALSE
