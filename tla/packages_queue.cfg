SPECIFICATION MCSpec
CONSTANTS
    t1 = t1
    t2 = t2
    t3 = t3
    Packages = {a, b}
    Threads = {t1, t2, t3}
    Plan <- BusyPlan
    MAX_FILES_PER_PACKAGE = 3
    MAX_DEPTH = 1
    NameOrder <- NameList
    NoName = NoName
INVARIANTS
    QueueInv
    NothingLost
    PackagesAreWhole
    DeclaredAreResolved
CHECK_DEADLOCK FALSE
