SPECIFICATION Spec
CONSTANTS
    here = here  there = there  page = page  other = other
    None = None
    Instance <- TwoInstances
    Here = here
    Resource <- TwoResources
    EvidenceHistoryLimit = 3
    MaxLives = 2
    MaxCalls = 1
    MaxElsewhere = 0
SYMMETRY ResourceSymmetry
CHECK_DEADLOCK FALSE
INVARIANTS NothingStray  
