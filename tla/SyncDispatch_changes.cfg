SPECIFICATION DispatchSpec
CONSTANTS
    Messages = {1, 2}
    MaxTries = 2
    MaxHead = 2
    MaxDispatchFaults = 2
    Stalls = TRUE
INVARIANTS
    DispatchTypeOK
PROPERTIES
    ChangeIsSynced
    LeaseComesFree
    DeadLetterShows
CHECK_DEADLOCK FALSE
