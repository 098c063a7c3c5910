SPECIFICATION ISpec
CONSTANTS
    w1 = w1
    w2 = w2
    inbox = inbox
    archive = archive
    NoWorker = NoWorker
    N = 1
    Folder = {inbox}
    FolderOf <- TwoFolders
    Worker = {w1, w2}
    MaxRev = 3
    MaxFaults = 0
INVARIANTS
    PauseLeavesNoDoubt
CHECK_DEADLOCK FALSE
