SPECIFICATION Spec
CONSTANTS
    NumDims = 2
    Variables <- MCVariables
    MaxSlices = 2
    Size <- MCSize
    Values = {1, 2, 3}
    NaN = NaN
    Coordinates <- MCCoordinates
    Ranges <- MCRanges
    MaxDescs = 3
    MaxCalls = 2
CHECK_DEADLOCK FALSE
INVARIANTS
    DimensionsStayConsistent
