SPECIFICATION Spec
CONSTANTS
    c1 = c1
    c2 = c2
    c3 = c3
    p1 = p1
    p2 = p2
    p3 = p3
    NaN = NaN
    Cells <- MCCells
    Parts <- MCParts
    Values <- MCValues
    Centers <- MCCenters
    BinCount = 2
    MaxCount = 2
    MaxFloat = 3
    Modes = {"centers", "default", "edges", "none"}
SYMMETRY Symmetry
CHECK_DEADLOCK FALSE
INVARIANTS
    MergeIsWhole
    AgreedCentersMerge
    NearestBin
