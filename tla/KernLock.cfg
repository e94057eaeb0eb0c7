SPECIFICATION FairSpec
CONSTANTS
    Threads = {t1, t2, t3}
    NoThread = NoThread
    MaxReads = 2
    MaxDepth = 2
INVARIANTS TypeOK Exclusion ReadCountExact NoLostWakeup UpgradeUndisturbed
PROPERTIES ImplementsRWLock WriterGetsIn
