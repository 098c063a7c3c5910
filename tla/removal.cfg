CONSTANTS
    Worker = {w1, w2}
    NoWorker = NoWorker
    Task = {t1}
    Sweeper = {s1, s2}
    MaxRev = 2
    MaxAttempts = 2
    MaxFaults = 2
    MaxCleans = 1
SYMMETRY Symmetry
SPECIFICATION RSpec
CHECK_DEADLOCK FALSE
INVARIANTS
    RTypeOK
    TeardownIsAlone
    RowsOutliveTheHost
PROPERTIES
    FailedUntilRetried
    StaleVerdictsAreHarmless
