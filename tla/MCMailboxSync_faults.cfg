SPECIFICATION Spec

CONSTANTS
    r1 = r1
    r2 = r2
    r3 = r3
    NULL = NULL
    Runs <- TwoRuns
    LeaseTTL = 2
    HeartbeatInterval = 1
    MaxTime = 3
    MaxHistory = 1
    Lag = 0
    ProviderProblems <- OnlyInvalidCursor
    RenewalFailures <- RenewalProblems
    Faults <- HarmfulFaults

SYMMETRY TwoRunsSymmetry

INVARIANTS
    LeaseNamesAnOpenExecution
    HealthyMailboxHasCursor
PROPERTIES
    TakeoverOnlyAfterExpiry

CHECK_DEADLOCK FALSE
