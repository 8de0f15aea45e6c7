SPECIFICATION Spec
CONSTANTS
    Tasks = {t1, t2}
    Schedules <- TwoSchedules
    Horizon = 3
    MaxDelay = 9
    EmptyLists = TRUE
    NoTimer = NoTimer
INVARIANTS
    NeverOverlaps
    TimersFollowRows
    TimersAreOnTime
PROPERTIES
    GoneProjectArmsNothing
    DueTasksMoveOn
