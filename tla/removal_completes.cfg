CONSTANTS
    Worker = {w1}
    NoWorker = NoWorker
    Task = {t1}
    Sweeper = {s1}
    MaxRev = 3
    MaxAttempts = 2
    MaxFaults = 2
    MaxCleans = 1
SPECIFICATION RetriedSpec
CHECK_DEADLOCK FALSE
PROPERTIES
    RemovalCompletes
