CONSTANTS
    p1 = p1
    p2 = p2
    Plan = {p1, p2}
    NoPlan = NoPlan
    MaxRev = 2
    MaxAttempts = 2
    PurgeAttempts = 2
    MaxFaults = 2
    MaxLate = 1
SPECIFICATION FirstPlanSpec
CHECK_DEADLOCK FALSE
PROPERTIES
    ConvergenceSettles
