SPECIFICATION Spec
CONSTANTS
    a = a
    b = b
    h = h
    ArrayVars <- MCArrayVars
    HeaderVars <- MCHeaderVars
    Specs <- MCSpecs
    Formats = {"V2", "V3"}
    MaxCalls = 2
    MaxOpens = 1
    MaxMishaps = 1
CHECK_DEADLOCK FALSE
INVARIANTS
    TypeOK
    
    OpenedIsWhole
    CreatedIsOpened

    
