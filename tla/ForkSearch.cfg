SPECIFICATION Spec
CONSTANTS
    Block <- MCBlock
    Num <- MCNum
    Path <- MCPath
    Selected <- MCSelected
    Reach = 3
    None = None
    MaxRecords = 3
INVARIANTS
    LoopAgreesWithDefinition
    NeverBelowFloor
    FindsLatestCommonBlock
    RestartOnlyBelowWindow
    CanonicalFloorResolves
CHECK_DEADLOCK FALSE
