SPECIFICATION Spec
CONSTANTS
    p1 = p1
    p2 = p2
    r1 = r1
    r2 = r2
    s1 = s1
    s2 = s2
    Projects <- ProjectSet
    Rows <- RowSet
    Secrets <- SecretSet
    MaxActs = 2
    MaxStarts = 2
SYMMETRY Symmetry
INVARIANTS
    ChoicesStay
    MaskMarkMeansMasked
PROPERTIES
    SealMarkMeansClean
CHECK_DEADLOCK FALSE
