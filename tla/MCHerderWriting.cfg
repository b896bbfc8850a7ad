SPECIFICATION MCSpec
CONSTANTS
    a1 = a1
    a2 = a2
    a3 = a3
    w1 = w1
    w2 = w2
    Agents = {a1, a2, a3}
    Born <- MCBorn
    Owners <- MCOwners
    Home <- MCHome
    Workspaces = {w1, w2}
    MainOf <- MCMain
    Lanes = {l1}
    Human = human
    Unknown = unknown
    Nobody = nobody
    Root = root
    Nothing = nothing
    MaxChanges <- MCMaxChanges
    MaxCalls = 1
    MaxToggles = 1
    n1 = n1
    Words = {v1, v2}
    Dock = dock
    Peek = peek
    Free = free
    Tomb = tomb
SYMMETRY Symmetry
INVARIANT FoldsKept
PROPERTIES WordsKept ForestKept CirclesNeedOldBoards
CHECK_DEADLOCK FALSE
