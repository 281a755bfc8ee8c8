SPECIFICATION LiveSpec
CONSTANTS
    s1 = s1
    s2 = s2
    b1 = b1
    b2 = b2
    NoKey = NoKey
    Bdfs = {b1}
    Qids = {1, 2}
    Sessions = {s1, s2}
    DebugSessions = {s2}
    KeyOf <- TwoQids
    MaxOom = 1
INVARIANT
    PairedQueues
PROPERTY
    Restored
CHECK_DEADLOCK FALSE
