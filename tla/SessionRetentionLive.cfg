SPECIFICATION FairSpec
CONSTANTS
    s1 = s1
    p1 = p1
    p2 = p2
    Sid <- MCSid
    Starter <- MCOneStarter
    MoveAfter = 1
    DeleteAfter = 1
    RetainDays = 1
    Slots = 2
    MaxCrashes = 1
PROPERTIES
    EndedGone
