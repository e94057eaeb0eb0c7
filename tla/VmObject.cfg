CONSTANTS
    Objects = {o1, o2}
    Offsets = {i1, i2}
    Threads = {t1, t2, t3}
    Daemon = daemon
    Null = null
    Calls <- AllCalls
    Writes = {TRUE, FALSE}
    Aborts = TRUE
    Deaths = TRUE
    vm_object_absent_max = 0
    vm_object_cached_max = 0
    MaxMaps = 2
    MaxCalls = 4
SPECIFICATION Spec
SYMMETRY Symmetric
CONSTRAINT Small
CHECK_DEADLOCK FALSE
INVARIANT CountsExact
INVARIANT NoLostWakeup
INVARIANT PagerSeesOneLife
INVARIANT NoWriteLost
INVARIANT PageReachable
INVARIANT PagerLockKept
INVARIANT NoOtherPanic
