SPECIFICATION Spec
CONSTANTS
    Block <- MCTinyBlock
    Num <- MCTinyNum
    Path <- MCTinyPath
    Selected <- MCTinyBlock
    Reach = 4
    None = None
    Reader = {"r1", "r2"}
    FromBlock = 0
    Ends = {9}
    MaxReorgs = 1
    MaxRuns = 1
INVARIANT GivenIsOneBranch
CHECK_DEADLOCK FALSE
