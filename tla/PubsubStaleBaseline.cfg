SPECIFICATION Spec
CONSTANTS
    Block <- LongBlock
    Num <- LongNum
    Path <- LongPath
    Selected <- LongSelected
    Id <- MCId
    Materialized = {"candle"}
    WithInverse = {"candle"}
    Ops <- ReturningOps
    Value <- MCValue
    Deleted = "deleted"
    Inverse = "inverse"
    Reach = 3
    None = None
    FromBlock = 1
    PerBlock = FALSE
    OlderHeads = FALSE
    NoHeads = "never"
    MaxReorgs = 2
    MaxCrashes = 1
CHECK_DEADLOCK FALSE
INVARIANT OutboxCompletesTheWire
