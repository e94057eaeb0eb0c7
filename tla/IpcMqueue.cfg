SPECIFICATION Spec
CONSTANTS
    Threads = {t1, t2, t3}
    Ports = {p1, p2}
    Psets = {s1, s2}
    Null = Null
    Sizes = {1, 2}
    Kinds = {"normal", "always", "circular"}
    QLimits = {1, 2}
    Timeouts = {"later"}
    MaxCalls = 4
SYMMETRY Symmetry
CHECK_DEADLOCK FALSE
INVARIANTS
    NoMessageBesideReceiver MsgCountExact InOrder OnPortsQueue WaitsWhereQueued NoIdleSlot
