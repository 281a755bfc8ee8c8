CONSTANTS
    Configs <- MCConfigs
    MinBytes = 8
    MaxBytes = 48
    StepFactor = 2
    Warmup = 0
    Iters = 2
SPECIFICATION Spec
INVARIANTS
    TriggeredExact
CHECK_DEADLOCK FALSE
