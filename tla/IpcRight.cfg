SPECIFICATION Spec
SYMMETRY Symmetry
CONSTANTS
    Spaces = {s1, s2}
    Names = {n1, n2}
    Ports = {p, q}
    Null = Null
    MACH_PORT_UREFS_MAX = 3
    MaxRequests = 1
    MaxNaked = 2
    MaxMscount = 1
    MaxCalls = 6
INVARIANTS
    ReferencesExact RightsExact OneReceiveRight RequestsMatch
    UrefsBounded NoSendersPending NoCircle
CHECK_DEADLOCK FALSE
