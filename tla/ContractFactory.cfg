SPECIFICATION Spec
CONSTANTS
    Block <- MCBlock
    Num <- MCNum
    Path <- MCPath
    Selected <- MCSelected
    Child <- MCChild
    Registers <- MCRegisters
    Calls <- MCCalls
    Reach = 3
    None = None
    FromBlock = 1
    PerBlock = FALSE
    OlderHeads = FALSE
    NoHeads = "never"
    MaxReorgs = 2
    MaxCrashes = 2
INVARIANTS
    RecordsAreOfBranch
    StoreFollowsBranch
PROPERTY CatchesUp
CHECK_DEADLOCK FALSE
