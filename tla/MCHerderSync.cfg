CONSTANTS
    k0 = k0
    k1 = k1
    t1 = t1
    t2 = t2
    Keys = {k1}
    Tabs = {t1}
    BigKeys = {}
    MaxChunk = 1
    MaxTime = 2
    MaxAge = 2
    MaxWid = 1
    Writes = 2
    PeerWrites = 1
    RollsBack = TRUE
    Faults = 1
    Refuses = FALSE
SPECIFICATION MCSpec
INVARIANTS NothingSkipped NoResurrection
PROPERTIES NoStepBack EditsArrive
CHECK_DEADLOCK FALSE
