\* All providers, with rings that wrap; the 24-bit and 16-bit counters wrap at 8.
\* mlx5's available_slots starts with too few slots, or with the whole ring.
SPECIFICATION FairSpec
CONSTANTS
    Configs <- MCConfigs
    Uninitialised = {0, 4}
    Word = 8
INVARIANT
    QuietWaits
PROPERTIES
    NoOverwrite
    RunEnds
\* The kernel ends.
CHECK_DEADLOCK FALSE
