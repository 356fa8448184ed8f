SPECIFICATION Spec
CONSTANTS
    Rank = 3
    Origins <- MCOrigins
    Sizes = {0, 1, 2, 5}
    ChunkSizes = {0, 1, 2, 3}
CHECK_DEADLOCK FALSE
INVARIANTS
    TypeOK
    BodyGetsNewCells
    DoneCovers
PROPERTIES
    Terminates
