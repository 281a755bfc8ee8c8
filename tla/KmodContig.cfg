SPECIFICATION ContigLiveSpec
CONSTANTS
    t1 = t1
    t2 = t2
    t3 = t3
    f1 = f1
    f2 = f2
    NoOwner = NoOwner
    Callers = {t1, t2, t3}
    CharFiles = {f1, f2}
    CallerFile <- SharedFile
    MaxId = 2
    MaxVmas = 2
INVARIANT
    NoUseAfterFree
PROPERTY
    AllFreed
CHECK_DEADLOCK FALSE
