SPECIFICATION Spec
CONSTANTS
    s1 = s1
    s2 = s2
    s3 = s3
    r1 = r1
    r2 = r2
    None = None
    Session <- ThreeSessions
    RequestId <- OneRequestId
    Tuple <- OneTuple
    Catalog <- MCCatalog
    ServiceName <- MCServiceName
    MaxClock = 1
    MaxFaults = 1
SYMMETRY RacesSymmetry
INVARIANTS
    TypeOK
    SingleProvisioning
    IntentIsDurable
    TrailTellsTheStatus
    AnswersAreTrue
    LoggedOutcomesAgree
    NoChainOfWaits
    AbandonedByFaultsOnly
PROPERTIES
    ImplementsAuditedLifecycle
