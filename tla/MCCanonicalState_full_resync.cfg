SPECIFICATION Spec
CONSTANTS
    LastMessage = 3
    ThreadOf <- TwoThreads
    NULL = NULL
    MaxHistory = 4
    MaxResets = 1
INVARIANTS
    DeletionsNotMissed
CHECK_DEADLOCK FALSE
