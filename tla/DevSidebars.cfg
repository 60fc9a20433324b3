SPECIFICATION FairSpec
CONSTANTS
    i1 = i1  i2 = i2
    NoInstance = NoInstance
    Tool = Tool
    Instance <- TwoInstances
    Operations <- OneOfEach
    Profile <- Profiles
    MaxLives = 2
CHECK_DEADLOCK FALSE
INVARIANTS GatesAgree 
PROPERTIES RunEnds
