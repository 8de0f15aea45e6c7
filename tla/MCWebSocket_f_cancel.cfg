SPECIFICATION Spec
CONSTANTS
    Tabs = {t1}
    MaxAttempts = 1
    Backlog = 2
    RetryCount = 1
    LiveErrors = FALSE
    NoThen = NoThen
PROPERTIES
    GivenUpIsClosed
CHECK_DEADLOCK FALSE
