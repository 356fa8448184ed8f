SPECIFICATION Spec
CONSTANTS
    Arrays <- MCArrays
    Shape <- MCShape
    Structure <- MCStructure
    Scalar <- MCScalar
    Parted <- MCParted
    Windows <- MCWindows
    InitialValue <- MCInitialValue
    Extent = 2
    Values = 2
    MaxTransfers = 2
    MaxCalls = 3
INVARIANTS
    TypeOK
    SelectedIsSliced
PROPERTIES
    OnlyWholeTransformsWrite
    
    FuturesResolve
CHECK_DEADLOCK FALSE
