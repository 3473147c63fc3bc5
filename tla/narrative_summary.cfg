SPECIFICATION Spec
CONSTANTS
    t1 = t1
    t2 = t2
    r1 = r1
    None = None
    Reader <- TwoReaders
    RequestId <- OneRequestId
    Caller <- OwnerAndOther
    Owner = "alice"
    MaxFaults = 1
SYMMETRY Symmetry
INVARIANTS
    SummaryTypeOK
    SummaryTellsTheRequest
    FactsSurviveTheAPI
PROPERTIES
    LateKeyIsUsed
