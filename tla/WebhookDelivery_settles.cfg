SPECIFICATION Spec
CONSTANTS
    Workers = {w1, w2}
    MaxAttempts = 2
    Starts = {1, 2}
    MaxReplays = 1
    MaxFaults = 2
INVARIANTS
    TypeOK
    DeliveredWasAccepted
    AttemptBudget
PROPERTIES
    OutcomeStands
    ArmedDeliverySettles
CHECK_DEADLOCK FALSE
