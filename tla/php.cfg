CONSTANTS
    Retention = 2
    MaxAttempts = 2
    MaxRequests = 2
    MaxFaults = 1
SPECIFICATION PFairSpec
CHECK_DEADLOCK FALSE
INVARIANTS
    PTypeOK
    ServedIsInstalled
    OneIsHealthy
PROPERTIES
    NewestIntentWins
    HostFollowsPanel
