SPECIFICATION Spec
CONSTANTS
    a = a
    b = b
    folder = folder
    request = request
    case = case
    feature = feature
    Main = main
    Root = root
    Machines <- MachineSet
    Branches <- BranchSet
    Branchers <- BrancherSet
    Folders <- FolderSet
    Requests <- RequestSet
    Cases <- CaseSet
    Start <- Shared
    MaxEdits = 2
    MaxCommits = 4
    MaxMoves = 2
    Losers <- LoserSet
INVARIANTS
    FilesResolve
    InSync
PROPERTIES
    PushedWorkStays
    UnpushedRowsStay
CHECK_DEADLOCK FALSE
