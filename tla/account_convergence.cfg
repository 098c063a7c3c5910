CONSTANTS
    p1 = p1
    p2 = p2
    Plan = {p1, p2}
    NoPlan = NoPlan
    MaxRev = 3
    MaxAttempts = 1
    PurgeAttempts = 1
    MaxFaults = 1
    MaxLate = 1
SYMMETRY PlanSymmetry
SPECIFICATION ASpec
CHECK_DEADLOCK FALSE
INVARIANTS
    ATypeOK
    AckedIsApplied
PROPERTIES
    PurgeIsFinal
