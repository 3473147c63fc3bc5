SPECIFICATION Spec
CONSTANTS
    t1 = t1
    t2 = t2
    None = None
    Thread <- TwoThreads
    TTL = 2
    MaxDelay = 1
    MaxTime = 5
    MaxUpdates = 1
SYMMETRY Symmetry
INVARIANTS
    CacheTypeOK
    AlwaysAProvider
PROPERTIES
    StalenessBounded
