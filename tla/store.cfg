SPECIFICATION Spec
CONSTANTS
    t1 = t1
    t2 = t2
    t3 = t3
    p1 = p1
    p2 = p2
    Hashes = {h}
    Langs = {c}
    Processes = {p1, p2}
    Threads = {t1, t2, t3}
    ProcessOf <- TwoProcesses
    Torn = Torn
    NoFile = NoFile
    Failed = Failed
    MaxCalls = 3
    MaxCrashes = 1
INVARIANTS
    StoreInv
    CleanAtRest
    RacesDoNotFail
CHECK_DEADLOCK FALSE
