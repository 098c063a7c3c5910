CONSTANTS
    Retention = 2
    MaxAttempts = 2
    MaxRequests = 2
    MaxFaults = 0
SPECIFICATION PSpec
CHECK_DEADLOCK FALSE
INVARIANTS
    ActiveAndPreviousRetained
