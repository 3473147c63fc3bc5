SPECIFICATION Spec
CONSTANTS
    r1 = r1
    r2 = r2
    None = None
    Request <- TwoRequests
    Served <- Handlers
    Threads = 1
    PoolSize = 1
    MaxOverflow = 0
    MaxOutages = 1
    MaxFaults = 1
INVARIANTS
    ServingTypeOK
    ErrorsAreExplained
    ReadyMeansReached
    NothingLeaks
PROPERTIES
    RequestsEnd
    ReadinessRecovers
