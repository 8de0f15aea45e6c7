SPECIFICATION Spec
CONSTANTS
    Builds = {1, 2, 3}
    Keep = 1
    MaxEdits = 1
    MaxStarts = 4
INVARIANTS
    CleanCopyStays
    CopiesAreSealed
PROPERTIES
    OnlyOldCopiesGo
CHECK_DEADLOCK FALSE
