CONSTANTS
    Site = {1, 2, 3}
    Sub = {1, 2}
    Domain = {1, 2}
    User = {"u1", "u2"}
    NoUser = NoUser
    Request <- Requests
    Proc = {p1, p2, p3}
    NoProc = NoProc
    NoFile = NoFile
SYMMETRY Symmetry
SPECIFICATION Spec
INVARIANTS
    TypeOK
    LeaseExclusion
    WorkOnLiveIdentity
    AccountCleanupOwnsHostnames
    NoLockCycle
PROPERTIES
    TombstonesAreFinal
    HostnameHandover
