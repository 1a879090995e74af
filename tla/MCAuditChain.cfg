SPECIFICATION Spec
CONSTANTS
    Inodes = {i1, i2, i3}
    Threads = {t1, t2}
    Commands = {c1, c2}
    Kinds = {"rotate", "verify-all", "export", "prune"}
    MaxWrites = 2
    MaxClock = 2
    MaxCounter = 1
    MaxRunning = 2
    NoFile = NoFile
    NoOne = NoOne
SYMMETRY Symmetry
INVARIANTS
    TypeOK
    AckedIsKept
PROPERTIES
    ReadsAreWhole
    ImplementsAuditLog
CHECK_DEADLOCK FALSE
