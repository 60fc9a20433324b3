SPECIFICATION FairSpec
CONSTANTS
    h1 = h1  p1 = p1
    Nothing = Nothing
    Host <- OneOfEach
    Pinned <- OnePinned
    Bootstrapped = FALSE
    EventWindowSize = 3
    MaxRevision = 4
    MaxDrops = 2
    MaxRestarts = 2
INVARIANTS StreamGapFree UpToDate NeverBeforeSnapshot
PROPERTIES CatchesUp
