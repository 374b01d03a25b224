SPECIFICATION Spec
CONSTANTS
    ToBlock = 5
    MaxBytes = 3
    MaxChunk = 2
    MaxBreaks = 3
INVARIANTS
    BoundedReadAhead
    NothingLost
PROPERTIES
    ImplementsHandOff
    BufferedIsDelivered
    StreamEnds
CHECK_DEADLOCK FALSE
