SPECIFICATION IFairSpec
CONSTANTS
    w1 = w1
    w2 = w2
    inbox = inbox
    archive = archive
    NoWorker = NoWorker
    N = 2
    Folder = {inbox, archive}
    FolderOf <- TwoFolders
    Worker = {w1, w2}
    MaxRev = 3
    MaxFaults = 1
INVARIANTS
    ITypeOK
    NoMessageTwice
    LedgerIsTrue
    CompleteIsExact
    CredentialsOutliveTheImport
PROPERTIES
    StoppedStaysStopped
    RunsEnd
    FinishedIsDisposed
CHECK_DEADLOCK FALSE
