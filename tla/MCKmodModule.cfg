CONSTANTS
    d1 = d1
    q1 = q1
    q2 = q2
    b1 = b1
    b2 = b2
    None = None
    Queues = {q1, q2}
    DevOf <- MCDevOf
    Bridges = {b1, b2}
    Configured = {b1}
    MaxCalls = 3
    MaxFaults = 1
    Domains = 4
    Buses = 8
    Devfns = 8
    PageSize = 4
SPECIFICATION Spec
INVARIANTS PciRefsExact TeardownQuiet UnloadedClean
PROPERTY CaptureDrained
CHECK_DEADLOCK FALSE
