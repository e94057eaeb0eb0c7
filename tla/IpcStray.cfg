SPECIFICATION Spec
SYMMETRY Symmetry
CONSTANTS
    Spaces = {s1, s2}
    Names = {n1, n2}
    Ports = {p, q}
    Null = Null
    MACH_PORT_UREFS_MAX = 3
    MaxRequests = 1
    MaxNaked = 2
    MaxMscount = 1
    MaxCalls = 5
INVARIANT
    SendRightsCounted
CHECK_DEADLOCK FALSE
