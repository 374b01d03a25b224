SPECIFICATION Spec
CONSTANTS
    Block <- MCBlock
    Num <- MCNum
    Path <- MCPath
    Selected <- MCSelected
    Table = {t1, t2}
    Reach = 3
    None = None
    FromBlock = 1
    PerBlock = FALSE
    OlderHeads = TRUE
    NoHeads = "never"
    MaxReorgs = 2
    MaxCrashes = 2
    MaxRows = 3
    CleanupEvery = 2
SYMMETRY Tables
INVARIANTS
    CrashLeavesRepairableTables
PROPERTY ImplementsSink
CHECK_DEADLOCK FALSE
