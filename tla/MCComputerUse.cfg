\* Two requests, two drivers, of which one may fail in the window.
SPECIFICATION Spec
CONSTANTS
    Callers = {c1, c2}
    Closer = Closer
    NoOne = NoOne
    MaxDrivers = 2
    MaxStarts = 1
    Sequenced = TRUE
    ListsTypes = FALSE
SYMMETRY Symmetry
INVARIANTS
    TypeOK
    ActsForSomeone
    BudgetCountsFailures
    ClipboardKeptPrivate
