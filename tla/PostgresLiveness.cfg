SPECIFICATION FairSpec
CONSTANTS
    Block <- MCBlock
    Num <- MCNum
    Path <- MCPath
    Selected <- MCSelected
    Effect <- MCEffect
    Key = {"k1", "k2"}
    Reach = 2
    None = None
    FromBlock = 1
    PerBlock = TRUE
    OlderHeads = FALSE
    NoHeads = "later"
    MaxReorgs = 2
    MaxCrashes = 1
    Retention = 1
    CleanupEvery = 2
PROPERTY CatchesUp
CHECK_DEADLOCK FALSE
