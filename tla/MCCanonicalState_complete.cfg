SPECIFICATION Spec
CONSTANTS
    LastMessage = 3
    ThreadOf <- TwoThreads
    NULL = NULL
    MaxHistory = 4
    MaxResets = 1
INVARIANTS
    TypeOK
    NothingMissed
    ThreadsFollowMessages
    EventsTellState
PROPERTIES
    EventsCarryCommittedState
CHECK_DEADLOCK FALSE
