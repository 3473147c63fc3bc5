SPECIFICATION Spec
CONSTANTS
    s1 = s1
    s2 = s2
    s3 = s3
    r1 = r1
    r2 = r2
    None = None
    Session <- MCSession
    RequestId <- OneRequestId
    Tuple <- OneTuple
    Catalog <- MCCatalog
    ServiceName <- MCServiceName
    MaxClock = 0
    MaxFaults = 0
INVARIANT
    FailureIsDurableWhenLogged
