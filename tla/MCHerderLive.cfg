CONSTANTS
    Agents = {a1}
    Files = {f1}
    MaxLog = 1
    MaxSession = 2
    Sends = {s1}
    Acts = 3
    Panes = {p1, p2}
    NoPane = NoPane
    Sizes = {g1, g2}
    NoSize = NoSize
    MaxSockets = 3
    Moves = 4
SPECIFICATION MCSpec
INVARIANTS StillCurrent WakeAnswered OneClient AtRest
PROPERTY EndedWaits
CHECK_DEADLOCK FALSE
