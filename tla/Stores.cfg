SPECIFICATION StoresSpec
CONSTANTS
    a = a
    b = b
    k1 = k1
    Slug <- MCSlug
    TopicRank <- MCRank
    Check <- MCCheck
    NoItem = NoItem
    SurfaceCap = 1
    Threshold = 2
    RunsPage = 2
    MaxDay = 2
    MaxCommits = 1
    MaxRuns = 2
    MaxEdits = 1
    MaxColdCrashes = 1
    Glob <- MCGlob
    Target <- MCTarget
    Doc <- MCDoc
    DocState <- MCDocState
    Injects <- MCInjects
    EngineCompat <- MCEngineCompat
    SchemaVersion <- MCSchemaVersion
    MaxPriority = 1
    MaxRoutes = 2
    MaxBudget = 1
    c1 = c1
    c2 = c2
    override = override
    greenGateOverride = greenGateOverride
    x1 = x1
    r1 = r1
    Clerk <- MCClerk
    Signal <- MCSignal
    Context <- MCContext
    Ref <- MCRef
    EndsIn <- MCEndsIn
    MaxDate = 1
    MaxLines = 3
    v1 = v1
    v2 = v2
    Section <- MCSection
    NoSection = NoSection
    p1 = p1
    alien = alien
    seed1 = seed1
    seed2 = seed2
    Path <- MCPath
    NoPath = NoPath
    Repo <- MCRepo
    Hostable <- MCHostable
    Handoffs <- MCHandoffs
    Risks <- MCRisks
    Slots = 2
    Nothing = Nothing
    Broken = Broken
    MaxClock = 3
    Seed <- MCSeed
SYMMETRY MCSymmetry
INVARIANTS
    StoresTypeOK
    InjectedProved
    
    NotSurfacedTwice
    GlobMeansWhatItSays
    SelectionRight
    LedgerKept
    NoDuplicateCandidate
    OnlyHumansJudge
    RunsTrusted
    RefusalStands
PROPERTIES
    AttributionKept
    PinHonoured
    DecayNotEarly
    
\* Each part has a bound, and some end there.
CHECK_DEADLOCK FALSE
