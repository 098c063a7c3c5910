CONSTANTS
    Site = {1, 2}
    Sub = {1, 2}
    Domain = {1}
    User = {"u1", "u2"}
    NoUser = NoUser
    Request <- Requests
    Proc = {p1, p2}
    NoProc = NoProc
    NoFile = NoFile
    Op = {1}
    Provided = {"files"}
SYMMETRY Symmetry
SPECIFICATION TSpec
INVARIANTS
    TTypeOK
    StageOwnsHostnames
    FinishedRemovalIsClean
PROPERTIES
    OnlyTargetsAreRemoved
    RegistrySpec
    AgentSpec
