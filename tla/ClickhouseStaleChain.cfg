SPECIFICATION Spec
CONSTANTS
    Block <- FlapBlock
    Num <- FlapNum
    Path <- FlapPath
    Selected <- FlapSelected
    Table = {t1}
    Reach = 5
    None = None
    FromBlock = 1
    PerBlock = FALSE
    OlderHeads = FALSE
    NoHeads = "never"
    MaxReorgs = 3
    MaxCrashes = 0
    MaxRows = 24
INVARIANT StoredChainIsOwnBranch
CHECK_DEADLOCK FALSE
