SPECIFICATION Spec
CONSTANTS
    h1 = h1
    h2 = h2
    d = d
    p = p
    None = None
    Handler <- TwoHandlers
    Name <- ThreeNames
    ServiceId <- ThreeIds
    PageSize = 1
    MaxClock = 1
    MaxFaults = 1
    Letter <- Letters
    Digit <- Digits
    OtherChar <- Others
    Slash = "/"
    Newline = "newline"
    Environment <- Environments
    LogicalName <- LogicalNames
SYMMETRY Symmetry
INVARIANTS
    CatalogTypeOK
    NamesAreUnique
    RegistrationsAreTrue
PROPERTIES
    WalkMissesNothing
    ShortPageIsLast
    RegistrationsConfuseNothing
    ImplementsNameRegistry
