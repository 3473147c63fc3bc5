SPECIFICATION Spec
CONSTANTS
    t1 = t1
    t2 = t2
    None = None
    Thread <- TwoThreads
    TTL = 1
    MaxDelay = 2
    MaxTime = 5
    MaxUpdates = 1
PROPERTY
    ChangeReachesAllWithinTTL
