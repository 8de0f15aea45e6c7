SPECIFICATION Spec
CONSTANTS
    Tabs = {t1}
    MaxAttempts = 2
    Backlog = 2
    RetryCount = 1
    LiveErrors = TRUE
    NoThen = NoThen
INVARIANTS
    MapsMatchSockets
    OpenIsSomebodys
PROPERTIES
    UserClosedStaysClosed
    AttemptsAreSettled
CHECK_DEADLOCK FALSE
