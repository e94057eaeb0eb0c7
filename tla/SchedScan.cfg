SPECIFICATION ScanSpec
CONSTANTS
    t1 = t1
    p1 = p1
    master = p1
    Threads = {t1, t2}
    Processors = {p1, p2}
    Events = {e1}
    Null = Null
    BoundTo <- OneBound
    Continuations = {TRUE, FALSE}
    MaxStops = 1
    MAX_STUCK_THREADS = 1
CHECK_DEADLOCK FALSE
INVARIANTS ScanOnePlace BoundStaysPut
