SPECIFICATION FairSpec
CONSTANTS
    a = a
    b = b
    Instance = {a, b}
    NoInstance = NoInstance
    Unset = Unset
    ConfigId = {c}
    Load = {l1, l2}
    Key = {k1, k2}
    MaxRevision = 2
    MaxEdits = 1
    Spec0 <- SpecsOfClients
INVARIANTS RevisionsAgree PartialIsBeginning SaveLosesNothing
PROPERTIES LoadRestores LoadsSettle
CHECK_DEADLOCK FALSE
