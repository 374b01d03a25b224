SPECIFICATION Spec
CONSTANTS
    Block <- MCBlock
    Num <- MCNum
    Path <- MCPath
    Selected <- MCSelected
    Effect <- MCEffect
    Key = {"k1", "k2"}
    Reach = 2
    None = None
    FromBlock = 1
    PerBlock = TRUE
    OlderHeads = TRUE
    NoHeads = "later"
    MaxReorgs = 3
    MaxCrashes = 1
    Retention = 1
    CleanupEvery = 2
INVARIANTS
    TableIsViewOfCursor
    UndoReachesFloor
    ChainIsOwnBranch
    InFlightContinuesCursor
PROPERTY ImplementsSink
CHECK_DEADLOCK FALSE
