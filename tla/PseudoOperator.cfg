SPECIFICATION Spec
CONSTANTS
    N = 3
    Claude <- ClaudeTwo
    MaxIterations = 2
    MaxFailures = 2
    MaxReset = 2
    Buffer = 1
    DefaultDelay = 1
    MaxDelay = 2
INVARIANTS
    TypeOK
    NoClaudeUnderGlobalLimit
    
    ScheduleUsedUp
    
PROPERTIES
    SpawnedOnce
    CooldownKept
    ResetSleepSuffices
