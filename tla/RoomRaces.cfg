SPECIFICATION Spec
CONSTANTS
    i1 = i1  i2 = i2  s1 = s1  s2 = s2  c1 = c1  r1 = r1  r2 = r2  r3 = r3
    None = None
    Instance <- TwoInstances
    Server <- TwoServers
    Cell <- OneCell
    Request <- ThreeRequests
    MountSlot <- ThreeRequests
    EventWindowSize = 2
    InvocationHistoryLimit = 1
    EvidenceHistoryLimit = 2
    MaxRevision = 3
    MaxCalls = 2
SYMMETRY AllSymmetric
INVARIANTS OrderCoversMounts SelectionValid StatePublished RunningHasOwner EvidenceConsistent
