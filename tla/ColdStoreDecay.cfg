SPECIFICATION DecaySpec
CONSTANTS
    a = a
    b = b
    k1 = k1
    Slug <- MCSlug
    TopicRank <- MCRank
    Check <- MCCheck
    NoItem = NoItem
    SurfaceCap = 1
    Threshold = 2
    RunsPage = 2
    MaxDay = 2
    MaxCommits = 1
    MaxRuns = 1
    MaxEdits = 0
    MaxColdCrashes = 0
PROPERTIES
    DecayAfterCampaigns
CHECK_DEADLOCK FALSE
