SPECIFICATION Spec
CONSTANTS
    k1 = k1  k2 = k2  k3 = k3  mount = mount  select = select  r1 = r1  r2 = r2
    None = None
    Key <- ThreeKeys
    Command <- TwoCommands
    Awaiting <- MountOnly
    Request <- TwoRequests
    IdempotencyKeyLimit = 2
    Patient = TRUE
    MaxSubmissions = 3
SYMMETRY Symmetry
CHECK_DEADLOCK FALSE
INVARIANTS AppliedOnce
PROPERTIES SameAnswer
