SPECIFICATION Spec
CONSTANTS
    e1 = e1
    e2 = e2
    d1 = d1
    d2 = d2
    h1 = h1
    h2 = h2
    p1 = p1
    p2 = p2
    None = None
    LogEntry <- MCLogEntry
    DoneEntry <- MCDoneEntry
    Topic <- MCTopic
    HeadingOf <- MCHeadingOf
    Items = 1
    Claims <- MCClaims
    Pruner <- MCPruner
    Recent <- MCRecent
    DefaultRecent = 0
    Days = 2
    MaxEdits = 3
    MaxCrashes = 0
INVARIANTS
    NeverDeletes
SYMMETRY MCSymmetry
CHECK_DEADLOCK FALSE
