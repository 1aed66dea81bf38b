SPECIFICATION Spec

CONSTANTS
    r1 = r1
    r2 = r2
    r3 = r3
    NULL = NULL
    Runs <- TwoRuns
    LeaseTTL = 2
    HeartbeatInterval = 1
    MaxTime = 3
    MaxHistory = 3
    Lag = 1
    ProviderProblems <- CursorAndCredential
    RenewalFailures <- NoProblems
    Faults <- CrashAndExhaustion

SYMMETRY TwoRunsSymmetry

INVARIANTS
    TypeOK
    SingleWriter
    CanonicalCoversCursor
PROPERTIES
    CursorNeverRegresses
    ImplementsSingleFlight

CHECK_DEADLOCK FALSE
