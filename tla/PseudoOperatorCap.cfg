SPECIFICATION Spec
CONSTANTS
    N = 2
    Claude <- ClaudeOne
    MaxIterations = 2
    MaxFailures = 1
    MaxReset = 1
    Buffer = 1
    DefaultDelay = 1
    MaxDelay = 2
INVARIANTS
    FailureCap
