\* Rings of 4, which every run but the shortest wraps.
SPECIFICATION FairSpec
CONSTANTS
    QueueSize = 4
    NVME_PAGE_SIZE = 32
    Word32 = 16
    Word16 = 8
    Configs <- Runs
    Drivers = {w1}
    Commands <- MCCommands
    NoCommand = NoCommand
    MayFail = TRUE
    MayStop = TRUE
    MayTimeout = TRUE
INVARIANTS
    EachOpOnce
    NoPhantom
    BufferExclusive
    ReadBack
PROPERTIES
    RunCompletes
    StopEnds
\* A kernel ends when its run does.
CHECK_DEADLOCK FALSE
