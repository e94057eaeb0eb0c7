SPECIFICATION Spec
SYMMETRY Symmetry
CONSTANTS
    Cpus = {c1, c2}
    Pmaps = {k, u}
    kernel_pmap = k
    Pages = {g}
    None = None
    NoPte = NoPte
    UPDATE_LIST_SIZE = 1
    MaxChoices = 4
INVARIANTS TlbCoherent NoImplicitUpdate ModifyKept NoWaitCycle
CHECK_DEADLOCK FALSE
