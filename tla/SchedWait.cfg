SPECIFICATION WaitSpec
CONSTANTS
    t1 = t1
    p1 = p1
    master = p1
    Threads = {t1, t2}
    Processors = {p1, p2}
    Events = {e1}
    Null = Null
    BoundTo <- NoneBound
    Continuations = {FALSE}
    MaxStops = 1
SYMMETRY ThreadSymmetry
CHECK_DEADLOCK FALSE
INVARIANTS InOnePlace WaitsEndCleanly
