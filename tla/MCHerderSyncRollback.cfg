CONSTANTS
    Keys = {k1}
    Tabs = {t1}
    BigKeys = {}
    MaxChunk = 1
    MaxTime = 1
    MaxAge = 0
    MaxWid = 1
    Writes = 1
    PeerWrites = 0
    RollsBack = TRUE
    Faults = 0
    Refuses = FALSE
SPECIFICATION Spec
INVARIANT RollbackHolds
CHECK_DEADLOCK FALSE
