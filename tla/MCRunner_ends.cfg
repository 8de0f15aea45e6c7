SPECIFICATION Spec
CONSTANTS
    NSetup = 1
    NMain = 2
    NTeardown = 2
    Iterations = 1
    VisitBudget = 4
    StopOnError = FALSE
    Delay = FALSE
    IterationDelay = FALSE
    HasPre = FALSE
    HasPost = TRUE
    HasFail = TRUE
    Critical = {}
    MayThrow = FALSE
    Jumps <- AnyJump
    Outcomes = {"reject"}
PROPERTIES
    RunEnds
    HardStopEndsRun
    KeepsPromise
