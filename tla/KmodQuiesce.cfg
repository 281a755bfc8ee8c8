SPECIFICATION LiveSpec
CONSTANTS
    t1 = t1
    t2 = t2
    t3 = t3
    f1 = f1
    f2 = f2
    b1 = b1
    None = None
    Bdevs = {b1}
    Files = {f1, f2}
    NrHwQueues = 3
    Threads = {t1, t2, t3}
    FileOf <- SharedFile
    Requests <- OwnHctx
INVARIANTS
    CountsExact
    Isolated
PROPERTY
    CrashResumes
