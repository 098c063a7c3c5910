SPECIFICATION FFairSpec
CONSTANTS
    o1 = o1
    o2 = o2
    Op = {o1, o2}
    MaxAdmins = 1
    MaxFaults = 1
INVARIANTS
    FTypeOK
    VerdictsAreTrue
    UnconfirmedIsUndone
PROPERTIES
    StagesSettle
CHECK_DEADLOCK FALSE
