\* Rollover limits are reached at the last block of a range.
CONSTANTS
    Tables <- TheTables
    Blocks <- TheBlocks
    Ranges <- TheRanges
    Emits <- TheEmits
    Rollovers = {4, 11}
    Stops = {}
    MaxStarts = 5
SPECIFICATION Spec
INVARIANT OwnFilesAreNeverRefused
CHECK_DEADLOCK FALSE
