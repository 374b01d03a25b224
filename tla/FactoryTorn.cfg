SPECIFICATION Spec
CONSTANTS
    Block <- MCBlock
    Num <- MCNum
    Path <- MCPath
    Selected <- MCSelected
    Child <- MCChild
    Registers <- MCRegisters
    Calls <- MCCalls
    Reach = 3
    None = None
    FromBlock = 1
    PerBlock = FALSE
    OlderHeads = FALSE
    NoHeads = "never"
    MaxReorgs = 1
    MaxCrashes = 1
INVARIANT RecordsSurviveCrashes
CHECK_DEADLOCK FALSE
