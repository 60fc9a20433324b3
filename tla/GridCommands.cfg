SPECIFICATION GridSpec
CONSTANTS
    i1 = i1  i2 = i2  i3 = i3
    Instance <- ThreeInstances
    GridWidth = 3
    Placement <- Placements
    Delta <- UnitSteps
    Gap <- Gaps
    Step <- Steps
    MaxY = 1
    MaxH = 2
    MaxOps = 1
SYMMETRY Interchangeable
INVARIANTS RepeatChangesNothing BatchIsSequence
PROPERTIES LayoutTidies
CHECK_DEADLOCK FALSE
