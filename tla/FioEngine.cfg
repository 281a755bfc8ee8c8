\* An iodepth of 2 over an io_u ring of 3 and a queue pair of 2: all rings wrap at different times.
SPECIFICATION FairSpec
CONSTANTS
    QueueSize = 2
    IoUs = {u1, u2}
    NoIo = NoIo
    RingSize = 3
    IoDepth = 2
    WordSize = 32
    MaxPosts = 7
    Commands <- MCCommands
    NoCommand = NoCommand
    MayFail = TRUE
    MayClose = TRUE
INVARIANTS
    ReapedExecuted
    InOrderOnce
PROPERTIES
    IoCompletes
    CloseEnds
\* The bound on queued io_us, or a closed file, ends a behaviour.
CHECK_DEADLOCK FALSE
