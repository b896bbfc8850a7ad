CONSTANTS
    Agents = {x, y}
    s1 = s1
    s2 = s2
    Order <- MCOrder
    None = None
    MaxStack = 3
    Budget = 1
    Names = {m, s}
    Main = m
    Panels = {p, q}
    Tabs = {t1, t2}
    Edits = 3
    Faults = 1
    Prompt = TRUE
    SpacesActs = 3
SYMMETRY Symmetry
SPECIFICATION MCSpec
INVARIANTS NothingLost AddressTrue
PROPERTIES HistorySteps
CHECK_DEADLOCK FALSE
