SPECIFICATION PolicySpec
CONSTANTS
    p = p  q = q  i1 = i1  i2 = i2
    Caller <- TwoCallers
    MaxAttempts = 3
    Instance <- TwoInstances
    MountSlot <- TwoCallers
    MountPatch <- MountPatches
    Patch <- Patches
    RootList <- RootLists
    Unread = Unread
    MaxRequests = 4
SYMMETRY Symmetric
CHECK_DEADLOCK FALSE
INVARIANTS AnswersAreGranted RootsReachServer
 
