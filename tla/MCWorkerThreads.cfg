SPECIFICATION Spec
CONSTANTS
    Requests = {r1, r2}
    r1 = r1
    r2 = r2
    Threads = {t1, t2}
    t1 = t1
    t2 = t2
    NoRequest = NoRequest
    Names = {f, g}
    MaxCancels = 2
    MaxCommands = 1
    Children = {1, 2}
    MaxBrowses = 2
    MaxStarts = 2
    PageSize = 1
    MaxRefs = 1
    MaxConnections = 2
    MaxEntries = 2
    MaxScanned = 2
    ReplyBudget = 3
    FileSize = 1
    FolderSize = 2
    MaxFolder = 2
    MaxBelow = 1
    MarkerLength = 2
    MaxOutput = 4
    ResultBudget = 3
    TextLimit = 2
    MaxBlocks = 2
    BlockSizes = {1, 3}
    PartSizes = {0, 1, 4}
    MaxImages = 1
    Window = 2
    MaxTime = 3
SYMMETRY Symmetry
INVARIANT BrowsesKeepTheirWord
INVARIANT RepliesSayWhatIsMissing
PROPERTY SideEffectsAreAccounted
CHECK_DEADLOCK FALSE
