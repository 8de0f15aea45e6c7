SPECIFICATION Spec
CONSTANTS
    NServers = 1
    Kinds <- AllKinds
    RawIds <- OneRawId
    MaxRounds = 2
    MaxCalls = 1
    MaxSends = 1
    Backlog = 2
PROPERTIES
    StopEndsTurn
    NothingOutlivesTheTab
CHECK_DEADLOCK FALSE
