CONSTANTS
    Browsers = {"b1", "b2"}
    Members = {"x", "y"}
    Spaces = {"old", "lane"}
    From = "old"
    To = "lane"
    Moves = TRUE
    Shows = {"lane"}
    Starts <- MCStarts
    MaxActs = 2
    Edits = 2
    Faults = 1
    None = None
    a1 = a1
    a2 = a2
SPECIFICATION MCSpec
INVARIANTS NoWriteLoop OncePerTurn
PROPERTIES MembersSteps AllArrives
CHECK_DEADLOCK FALSE
