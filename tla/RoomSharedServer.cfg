SPECIFICATION Spec
CONSTANTS
    i1 = i1  i2 = i2  s1 = s1  s2 = s2  c1 = c1  r1 = r1  r2 = r2  r3 = r3
    None = None
    Instance <- TwoInstances
    Server <- OneServer
    Cell <- OneCell
    Request <- TwoRequests
    MountSlot <- TwoRequests
    EventWindowSize = 1
    InvocationHistoryLimit = 1
    EvidenceHistoryLimit = 1
    MaxRevision = 2
    MaxCalls = 1
SYMMETRY AllSymmetric
INVARIANT SessionBookkeeping
