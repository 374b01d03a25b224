SPECIFICATION Spec
CONSTANTS
    Block <- MCBlock
    Num <- MCNum
    Path <- MCPath
    Selected <- SparseSelected
    Reach = 2
    None = None
    MaxRecords = 2
INVARIANT HaltsOnlyWithoutCommonAncestor
CHECK_DEADLOCK FALSE
