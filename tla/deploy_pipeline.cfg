SPECIFICATION Spec
CONSTANTS
    d1 = d1
    d2 = d2
    d3 = d3
    older = older
    newer = newer
    None = None
    Placeholder = Placeholder
    Run <- ThreeRuns
    Image <- TwoImages
    HeadRevision <- Revisions
    LastRevision = 3
    KeptImages = 1
CHECK_DEADLOCK FALSE
INVARIANTS
    DeployTypeOK
    SchemaCoversTasks
    RevisionsApplyOnce
PROPERTIES
    PassedMeansServed
    RolloutsFinish
