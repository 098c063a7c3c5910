CONSTANTS
    p1 = p1
    p2 = p2
    Plan = {p1, p2}
    NoPlan = NoPlan
    MaxRev = 2
    MaxAttempts = 2
    PurgeAttempts = 2
    MaxFaults = 0
    MaxLate = 0
SYMMETRY PlanSymmetry
SPECIFICATION ASpec
CHECK_DEADLOCK FALSE
INVARIANTS
    PurgedStaysPurged
