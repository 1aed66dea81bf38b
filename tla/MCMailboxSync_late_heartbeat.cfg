SPECIFICATION Spec

CONSTANTS
    r1 = r1
    r2 = r2
    r3 = r3
    NULL = NULL
    Runs <- TwoRuns
    LeaseTTL = 2
    HeartbeatInterval = 1
    MaxTime = 3
    MaxHistory = 3
    Lag = 0
    ProviderProblems <- NoProblems
    RenewalFailures <- NoProblems
    Faults <- NoFaults

SYMMETRY TwoRunsSymmetry

PROPERTY
    CompletedRunStaysCompleted

CHECK_DEADLOCK FALSE
