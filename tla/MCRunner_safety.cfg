SPECIFICATION Spec
CONSTANTS
    NSetup = 1
    NMain = 2
    NTeardown = 2
    Iterations = 2
    VisitBudget = 4
    StopOnError = TRUE
    Delay = TRUE
    IterationDelay = TRUE
    HasPre = TRUE
    HasPost = TRUE
    HasFail = TRUE
    Critical = {2}
    MayThrow = TRUE
    Jumps <- OnlyLinear
    Outcomes <- OutcomeKinds
INVARIANTS
    TalliesMatchRows
    StopReasonMatchesRows
    FlowReportedOnce
    HardStopSkipsCleanup
    AbortHandleIsCurrent
    FailScriptForRedRuns
PROPERTIES
    CleanupKeepsVerdict
    HardStopSendsNothing
