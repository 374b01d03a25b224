\* Rollover limits are reached, and stops are seen, at different blocks, and no limit at the
\* last block of a range: ParquetOwnTail.cfg has what happens there.
CONSTANTS
    Tables <- TheTables
    Blocks <- TheBlocks
    Ranges <- TheRanges
    Emits <- TheEmits
    Rollovers = {1, 3, 8, 9}
    Stops = {2, 4, 10}
    MaxStarts = 5
SPECIFICATION Spec
INVARIANT DirectoryIsExact OwnFilesAreNeverRefused
PROPERTY QueryCompletes
CHECK_DEADLOCK FALSE
