SPECIFICATION Spec
CONSTANTS
    h1 = h1
    h2 = h2
    Handles <- MCHandles
    NumVars = 2
    NumAddrs = 3
    Reuse = TRUE
    Clients = {TRUE}
    Formats = {"V2", "V3"}
    MaxUpdates = 2
    MaxCommits = 2
    MaxTrims = 1
    MaxMishaps = 1
CHECK_DEADLOCK FALSE
SYMMETRY Sym
INVARIANTS
    TypeOK
    FirstUpdateDetected
    CommittedSurvives
    AwaitedShapeKept
PROPERTIES
    ConsolidatedAgrees
    PublicationKept
