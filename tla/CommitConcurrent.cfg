SPECIFICATION FairSpec
CONSTANTS
    h1 = h1
    h2 = h2
    Handles <- MCHandles
    NumVars = 2
    NumAddrs = 3
    Reuse = TRUE
    Clients = {FALSE}
    Formats = {"V3"}
    MaxUpdates = 1
    MaxCommits = 2
    MaxTrims = 0
    MaxMishaps = 1
CHECK_DEADLOCK FALSE
INVARIANTS
    OkMeansSettled
PROPERTIES
    CommitResolves
