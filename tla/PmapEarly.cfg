SPECIFICATION Spec
SYMMETRY Symmetry
CONSTANTS
    Cpus = {c1, c2}
    Pmaps = {k, u}
    kernel_pmap = k
    Pages = {g}
    None = None
    NoPte = NoPte
    UPDATE_LIST_SIZE = 1
    MaxChoices = 3
INVARIANT SignalledCoherent
CHECK_DEADLOCK FALSE
