SPECIFICATION Spec
CONSTANTS
    Absent = Absent
    Null = Null
    Pairs <- MCPairs
    MaxSize = 5
    HeaderName = "header"
    Jsons <- MCJsons
    ForeignDocs <- MCForeignDocs
    HeaderDocs <- MCHeaderDocs
    UpdateBlocks <- MCUpdateBlocks
    HeaderUpdates <- MCHeaderUpdates
    MaxOps = 3
INVARIANTS HistogramKeepsDecimals
CHECK_DEADLOCK FALSE
