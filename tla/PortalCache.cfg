SPECIFICATION Spec
CONSTANTS
    Block <- MCBlock
    Num <- MCNum
    Path <- MCPath
    Selected <- MCBlock
    Reach = 4
    None = None
    Reader = {"r1"}
    FromBlock = 0
    Ends = {2, 9}
    MaxReorgs = 2
    MaxRuns = 2
INVARIANTS
    KeptStaysCanonical
    GivenIsOneBranch
PROPERTY CatchesUp
CHECK_DEADLOCK FALSE
