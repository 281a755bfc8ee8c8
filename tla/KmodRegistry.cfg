SPECIFICATION Spec
CONSTANTS
    Files = {f1, f2}
    Vas <- Pages
    LowVas <- LowPages
    MaxAllocs = 3
    OneAtATime = TRUE
    None = None
INVARIANTS
    InjectedOwn
    AttachmentsExact
CHECK_DEADLOCK FALSE
SYMMETRY Interchangeable
