CONSTANTS
    None = None
    s1 = s1
    s2 = s2
    s3 = s3
    a1 = a1
    a2 = a2
    a3 = a3
    q1 = q1
    q2 = q2
    f1 = f1
    f2 = f2
    Browsers = {1, 2}
    Shown = {1}
    Silent = {1}
    Budget = 1
    Ends <- MCEnds
SPECIFICATION MCSpec
INVARIANTS Converged NoneStarved
PROPERTIES ReadNeverRewound MarkHeld PaletteStands
CHECK_DEADLOCK FALSE
