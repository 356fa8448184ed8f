SPECIFICATION Spec
CONSTANTS
    NumDims = 3
    Variables <- MCVariables
    MaxSlices = 2
    Shape <- MCShape
    Rank = 2
    Coordinates = {"mask", "key"}
    Contents <- MCContents
    Values = {1}
    Limit <- MCLimit
    Rewrites <- MCRewrites
CHECK_DEADLOCK FALSE
INVARIANTS
    TypeOK
    MatchesReadOnce
    RunsInKeyOrder
