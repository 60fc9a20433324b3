SPECIFICATION CtlFairSpec
CONSTANTS
    here = here  there = there  page = page
    None = None
    Any = Any
    Instance <- TwoInstances
    Here = here
    Resource <- OneResource
    EvidenceHistoryLimit = 3
    MaxLives = 1
    MaxCalls = 1
    MaxElsewhere = 1
    Awaited = "app_initialized"
    MaxCommands = 2
    MaxReports = 2
    MaxRestarts = 1
CHECK_DEADLOCK FALSE
INVARIANTS ChainSkipsNothing  
PROPERTIES CommandEnds
