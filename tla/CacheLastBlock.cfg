SPECIFICATION Spec
CONSTANTS
    Block <- MCBlock
    Num <- MCNum
    Path <- MCPath
    Selected <- MCBlock
    Reach = 4
    None = None
    Reader = {"r1"}
    FromBlock = 0
    Ends = {2}
    MaxReorgs = 0
    MaxRuns = 1
INVARIANT DoneIsReadToTheEnd
CHECK_DEADLOCK FALSE
