SPECIFICATION InspFair
CONSTANTS
    a = a  b = b
    Caller <- TwoCallers
    MaxAttempts = 3
    Strategies = {"stdio", "none", "bearer", "blank", "oauth"}
    MaxCursor = 2
    After <- Circle
    MaxInspections = 3
CHECK_DEADLOCK FALSE
INVARIANTS OneConnection NothingLeft ToolsComplete
PROPERTIES InspectionEnds
