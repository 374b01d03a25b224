SPECIFICATION Spec
CONSTANTS
    Block <- MCBlock
    Num <- MCNum
    Path <- MCPath
    Selected <- MCSelected
    Id <- MCId
    Materialized = {"candle"}
    WithInverse = {"candle"}
    Ops <- MCOps
    Value <- MCValue
    Deleted = "deleted"
    Inverse = "inverse"
    Reach = 3
    None = None
    FromBlock = 1
    PerBlock = FALSE
    OlderHeads = FALSE
    NoHeads = "never"
    MaxReorgs = 2
    MaxCrashes = 1
INVARIANTS
    OutboxCompletesTheWire
    UndoReachesFloor
PROPERTIES
    ImplementsSink
    OutboxDrains
CHECK_DEADLOCK FALSE
