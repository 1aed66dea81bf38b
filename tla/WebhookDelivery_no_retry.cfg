SPECIFICATION Spec
CONSTANTS
    Workers = {w1, w2}
    MaxAttempts = 2
    Starts = {1, 2}
    MaxReplays = 0
    MaxFaults = 0
INVARIANTS
    FailedAfterAllAttempts
CHECK_DEADLOCK FALSE
