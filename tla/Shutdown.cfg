SPECIFICATION Spec
CONSTANTS
    Pipe = {"p1", "p2"}
    Retry = 3
    MaxSignals = 3
INVARIANTS
    EveryRunIsTold
    EachStopCallsBackOnce
CHECK_DEADLOCK FALSE
