SPECIFICATION Spec
CONSTANTS
    Block <- MCBlock
    Num <- MCNum
    Path <- MCPath
    Selected <- MCBlock
    Reach = 4
    None = None
    Request = {"r1", "r2", "r3"}
    Infinity = 4
    Queries <- MCQueries
    MaxReorgs = 2
    MaxStarts = 2
INVARIANTS
    EveryBlockKeepsItsRequests
    CommittedAsAsked
    LinkedWithinARange
PROPERTIES
    OnlyOrphansAreRolledBack
    QueryEnds
CHECK_DEADLOCK FALSE
