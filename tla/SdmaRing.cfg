SPECIFICATION LiveSpec
CONSTANTS
    CopyLen = 2
    AtomicLen = 1
    FusedLen = 3
    TileLen = 3
    Oss7 = TRUE
    Dword = 16
    CountMod = 4
    Align = 8
    Producers = {p1, p2}
    Stateful = {p1}
    QueueSize = 8
    Ops <- MixedOps
    MaxOps = 2
    p1 = p1
    p2 = p2
INVARIANTS
    NoOverwrite
    EngineReadsPlaced
PROPERTIES
    QuietCompletes
    SubmitTerminates
    ImplementsFifo
