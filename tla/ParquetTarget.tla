--------------------------- MODULE ParquetTarget ---------------------------
(***************************************************************************)
(* The Parquet target, targets/parquet: one process that writes the        *)
(* finalized blocks of a query to files named for the window they cover,   *)
(* publishes the open files of all tables at a checkpoint, one rename at a *)
(* time, and then replaces its state file.  It may crash between any two   *)
(* writes to the disk and is started again.  A block stands for its        *)
(* number: the stream is finalized only, so there are no forks.            *)
(*                                                                         *)
(* Temporary files are not modelled: their names are never reused and a    *)
(* start removes them (parquet-state.ts, #deleteTempFiles).                *)
(*                                                                         *)
(* Definitions commented "Fault" are read as in PortalSource.              *)
(***************************************************************************)
EXTENDS Integers, FiniteSets, Sequences, FiniteSetsExt

CONSTANTS
    Tables,     \* the declared tables
    Blocks,     \* the numbers at which the dataset has a block
    Ranges,     \* the query's ranges [from, to], in order and disjoint
    Emits,      \* Emits[t]: the blocks whose data gives table t a row
    Rollovers,  \* the blocks at which a rollover limit may be reached
    Stops,      \* the blocks after which the run may be asked to stop
    MaxStarts   \* bound on the starts of the process

ASSUME ParquetAssumption ==
    /\ Blocks \subseteq Nat /\ Rollovers \subseteq Blocks /\ Stops \subseteq Blocks
    /\ Ranges \in Seq([from : Nat, to : Nat])
    /\ \A i \in DOMAIN Ranges : Ranges[i].from <= Ranges[i].to
    /\ \A i, j \in DOMAIN Ranges : i < j => Ranges[i].to < Ranges[j].from
    /\ Emits \in [Tables -> SUBSET Blocks]
    /\ MaxStarts \in Nat

None == -1

RangeOf(b) == CHOOSE i \in DOMAIN Ranges : Ranges[i].from <= b /\ b <= Ranges[i].to

\* The blocks the pipe asks for.
Queried == {b \in Blocks : \E i \in DOMAIN Ranges : Ranges[i].from <= b /\ b <= Ranges[i].to}

VARIABLES
    files,           \* on disk: the published files of each table
    saved,           \* on disk: the state file, or NoState
    pc,              \* what the process does next
    doomed,          \* remnants of each table the recovery still has to delete
    ranges,          \* the store's #ranges, empty until it is seeded with them
    coverageStart,   \* the store's #coverageStart, None before seeding
    segments,        \* rows in the open segment of each table; {}: not open
    batch,           \* the batch being handled: its last block, or None
    lastBoundary,    \* last block handled, or the resume cursor, or None
    openRange,       \* index of the range the stream is in, 0 before the first batch
    lastCheckpoint,  \* lastCheckpointBlock
    checkpoint,      \* the checkpoint under way
    starts           \* number of starts so far

disk == <<files, saved>>
memory == <<ranges, coverageStart, segments, batch, lastBoundary, openRange,
            lastCheckpoint, checkpoint>>
vars == <<disk, memory, pc, doomed, starts>>

-----------------------------------------------------------------------------
(* Persisted state, parquet-state.ts *)

NoState == [kind |-> "none"]
StartState(number) == [kind |-> "start", number |-> number]
CursorState(number, coverage) ==
    [kind |-> "cursor", number |-> number, coverage |-> coverage]

\* The committed cursor; before the first commit every block is above it.
Cursor == IF saved.kind = "cursor" THEN saved.number ELSE None

\* Fault: only a file that starts above the cursor counts as a remnant.
WhollyOverCursor ==
    [t \in Tables |-> {f \in files[t] : f.from > saved.number}]

\* The files of each table that hold blocks above the number of the state file.
OverCursor ==
    [t \in Tables |-> {f \in files[t] : f.to > saved.number}]

\* Fault: the persisted coverage is not consulted.
StraddlesUnexplained(t, f) == f.from <= saved.number

\* An over-cursor file that starts at or below the cursor is a remnant only
\* if it starts where its table was due to publish from.
Straddles(t, f) ==
    /\ f.from <= saved.number
    /\ saved.kind = "cursor" => f.from # saved.coverage[t]

-----------------------------------------------------------------------------
(* Coverage, parquet-store.ts *)

NextQueriedBlock(block, rs) ==
    LET ahead == {i \in DOMAIN rs : block <= rs[i].to}
    IN  IF ahead = {} THEN block ELSE Max({block, rs[Min(ahead)].from})

\* seedCoverage: the persisted start, but never ahead of what the resume
\* point allows; the resume point for a table the state does not mention.
SeedCoverage(fallback, rs) ==
    LET ceiling == NextQueriedBlock(fallback, rs)
    IN  [t \in Tables |->
           IF saved.kind # "cursor" THEN ceiling
           ELSE IF saved.coverage[t] > ceiling THEN ceiling
           ELSE NextQueriedBlock(saved.coverage[t], rs)]

AdvanceCoverageInto(rangeFrom) ==
    [t \in Tables |-> Max({coverageStart[t], NextQueriedBlock(rangeFrom, ranges)})]

TablesOwingCoverage(start, to) == {t \in Tables : start[t] <= to}

-----------------------------------------------------------------------------
(* The source: batches of consecutive queried blocks within one range *)

Pending == {b \in Queried : b > lastBoundary}

NextBatchEnds == {b \in Pending : RangeOf(b) = RangeOf(Min(Pending))}

NoCheckpoint == [to |-> None, closeTails |-> FALSE, todo |-> {}, published |-> FALSE, next |-> "down"]

\* The checkpoint closure is called; `next' is where its caller goes on.
BeginCheckpoint(to, closeTails, todo, next) ==
    /\ checkpoint' = [to |-> to, closeTails |-> closeTails, todo |-> todo,
                      published |-> FALSE, next |-> next]
    /\ pc' = "checkpoint"

NothingDoomed == [t \in Tables |-> {}]

Init ==
    /\ files = [t \in Tables |-> {}]
    /\ saved = NoState
    /\ pc = "down" /\ doomed = NothingDoomed /\ starts = 0
    /\ ranges = <<>>
    /\ coverageStart = [t \in Tables |-> None]
    /\ segments = [t \in Tables |-> {}]
    /\ batch = None /\ lastBoundary = None /\ openRange = 0 /\ lastCheckpoint = None
    /\ checkpoint = NoCheckpoint

-----------------------------------------------------------------------------
(* Start and recovery: getCursor *)

StartProcess ==
    /\ pc \in {"down", "refused"} /\ starts < MaxStarts
    /\ starts' = starts + 1

\* No state file: a new directory, or files whose state was lost (E2322).
StartWithoutState ==
    /\ StartProcess
    /\ saved = NoState
    /\ pc' = IF \E t \in Tables : files[t] # {} THEN "refused" ELSE "reading"
    /\ UNCHANGED <<disk, memory, doomed>>

\* Files above the cursor are remnants of a checkpoint, unless one straddles
\* the cursor without an explanation (E2317).
StartRecovery ==
    /\ StartProcess
    /\ saved # NoState
    /\ IF \E t \in Tables : \E f \in OverCursor[t] : Straddles(t, f)
         THEN pc' = "refused" /\ UNCHANGED doomed
         ELSE pc' = "recovery" /\ doomed' = OverCursor
    /\ UNCHANGED <<disk, memory>>

DeleteFileAboveCursor ==
    /\ pc = "recovery"
    /\ \E t \in Tables : \E f \in doomed[t] :
         /\ files' = [files EXCEPT ![t] = @ \ {f}]
         /\ doomed' = [doomed EXCEPT ![t] = @ \ {f}]
    /\ UNCHANGED <<saved, memory, pc, starts>>

FinishRecovery ==
    /\ pc = "recovery" /\ doomed = NothingDoomed
    /\ pc' = "reading"
    /\ lastBoundary' = Cursor
    /\ lastCheckpoint' = Cursor
    /\ UNCHANGED <<disk, doomed, starts, ranges, coverageStart, segments, batch,
                   openRange, checkpoint>>

-----------------------------------------------------------------------------
(* A batch: the body of the loop in write() *)

\* The first batch seeds the coverage; a cold start saves a start state next.
TakeBatch ==
    /\ pc = "reading"
    /\ batch' \in NextBatchEnds
    /\ IF ranges = <<>>
         THEN /\ ranges' = Ranges
              /\ coverageStart' =
                   SeedCoverage(IF lastBoundary = None THEN Ranges[1].from ELSE lastBoundary + 1, Ranges)
              /\ pc' = IF lastBoundary = None THEN "saveStart" ELSE "batch"
         ELSE pc' = "batch" /\ UNCHANGED <<ranges, coverageStart>>
    /\ UNCHANGED <<disk, doomed, starts, segments, lastBoundary, openRange,
                   lastCheckpoint, checkpoint>>

SaveStartCursor ==
    /\ pc = "saveStart"
    /\ saved' = StartState(Ranges[1].from - 1)
    /\ pc' = "batch"
    /\ UNCHANGED <<files, memory, doomed, starts>>

\* The batch lies in a later range than the one before it, and some table's
\* coverage does not reach the last block of that range.
OwedAtRangeEnd ==
    IF /\ openRange # 0
       /\ RangeOf(batch) > openRange
       /\ lastBoundary # None
       /\ lastBoundary <= Ranges[openRange].to
      THEN TablesOwingCoverage(coverageStart, lastBoundary) ELSE {}

CloseRange ==
    /\ pc = "batch" /\ OwedAtRangeEnd # {}
    /\ BeginCheckpoint(lastBoundary, TRUE, OwedAtRangeEnd, "batch")
    /\ UNCHANGED <<disk, doomed, starts, ranges, coverageStart, segments, batch,
                   lastBoundary, openRange, lastCheckpoint>>

\* onData stages the rows and flushBatch appends them to the open segments.
FlushBatch ==
    /\ pc = "batch" /\ OwedAtRangeEnd = {}
    /\ openRange' = RangeOf(batch)
    /\ coverageStart' = AdvanceCoverageInto(Ranges[RangeOf(batch)].from)
    /\ segments' = [t \in Tables |->
         segments[t] \cup {b \in Emits[t] \cap Pending : b <= batch}]
    /\ lastBoundary' = batch
    /\ batch' = None
    /\ pc' \in {"reading"} \cup (IF batch \in Rollovers THEN {"rollover"} ELSE {})
    /\ UNCHANGED <<disk, doomed, starts, ranges, lastCheckpoint, checkpoint>>

Rollover ==
    /\ pc = "rollover"
    /\ BeginCheckpoint(lastBoundary, FALSE,
         {t \in TablesOwingCoverage(coverageStart, lastBoundary) : segments[t] # {}}, "reading")
    /\ UNCHANGED <<disk, doomed, starts, ranges, coverageStart, segments, batch,
                   lastBoundary, openRange, lastCheckpoint>>

-----------------------------------------------------------------------------
(* The stream ends: at the end of the query, or because the run is stopped *)

EndStream ==
    LET start == IF ranges = <<>> /\ lastBoundary # None
                   THEN SeedCoverage(lastBoundary + 1, <<>>) ELSE coverageStart
        owing == TablesOwingCoverage(start, lastBoundary)
    IN  /\ pc = "reading"
        /\ IF /\ lastBoundary # None
              /\ \/ owing # {}
                 \/ \E t \in Tables : segments[t] # {}
                 \/ lastBoundary > lastCheckpoint
             THEN /\ coverageStart' = start
                  /\ BeginCheckpoint(lastBoundary, TRUE, owing, "close")
             ELSE pc' = "close" /\ UNCHANGED <<coverageStart, checkpoint>>
        /\ UNCHANGED <<disk, doomed, starts, ranges, segments, batch, lastBoundary,
                       openRange, lastCheckpoint>>

\* Fault: the end of the stream needs no checkpoint of its own.
FinishQueryWithoutCheckpoint ==
    /\ pc = "reading" /\ Pending = {}
    /\ pc' = "close"
    /\ UNCHANGED <<disk, memory, doomed, starts>>

FinishQuery == Pending = {} /\ EndStream
Stop == lastBoundary \in Stops /\ Pending # {} /\ starts < MaxStarts /\ EndStream

-----------------------------------------------------------------------------
(* A checkpoint: publishAll, then saveCursor *)

\* What a process keeps in memory, at its start and after it is gone.
EmptyMemory ==
    /\ ranges' = <<>>
    /\ coverageStart' = [t \in Tables |-> None]
    /\ segments' = [t \in Tables |-> {}]
    /\ batch' = None /\ lastBoundary' = None /\ openRange' = 0 /\ lastCheckpoint' = None
    /\ checkpoint' = NoCheckpoint

\* One more table is published: its open segment, or an empty one where its
\* coverage has to be closed.  A file of the same name is never overwritten
\* (E2309): the run fails.
PublishTable(t) ==
    LET file == [from |-> coverageStart[t], to |-> checkpoint.to, rows |-> segments[t]]
    IN  /\ pc = "checkpoint" /\ t \in checkpoint.todo
        /\ IF \E f \in files[t] : f.from = file.from /\ f.to = file.to
             THEN pc' = "refused" /\ EmptyMemory /\ UNCHANGED files
             ELSE /\ files' = [files EXCEPT ![t] = @ \cup {file}]
                  /\ segments' = [segments EXCEPT ![t] = {}]
                  /\ coverageStart' =
                       [coverageStart EXCEPT ![t] = NextQueriedBlock(file.to + 1, ranges)]
                  /\ checkpoint' = [checkpoint EXCEPT !.todo = @ \ {t}, !.published = TRUE]
                  /\ UNCHANGED <<pc, ranges, batch, lastBoundary, openRange, lastCheckpoint>>
        /\ UNCHANGED <<saved, doomed, starts>>

\* The state file is replaced, unless nothing has changed since the last time.
SaveCursor ==
    /\ pc = "checkpoint" /\ checkpoint.todo = {}
    /\ IF checkpoint.published \/ checkpoint.to # lastCheckpoint
         THEN /\ saved' = CursorState(checkpoint.to, coverageStart)
              /\ lastCheckpoint' = checkpoint.to
         ELSE UNCHANGED <<saved, lastCheckpoint>>
    /\ pc' = checkpoint.next
    /\ checkpoint' = NoCheckpoint
    /\ UNCHANGED <<files, doomed, starts, ranges, coverageStart, segments, batch,
                   lastBoundary, openRange>>

-----------------------------------------------------------------------------
(* The process is gone: what it had in memory is lost *)

LoseMemory == pc' = "down" /\ doomed' = NothingDoomed /\ EmptyMemory

\* store.close() discards what is still open.
Close == pc = "close" /\ LoseMemory /\ UNCHANGED <<disk, starts>>

Crash ==
    /\ pc \notin {"down", "refused"} /\ starts < MaxStarts
    /\ LoseMemory
    /\ UNCHANGED <<disk, starts>>

ProcessStep ==
    \/ StartWithoutState \/ StartRecovery \/ DeleteFileAboveCursor \/ FinishRecovery
    \/ TakeBatch \/ SaveStartCursor \/ CloseRange \/ FlushBatch \/ Rollover
    \/ FinishQuery \/ SaveCursor \/ Close
    \/ \E t \in Tables : PublishTable(t)

Next == ProcessStep \/ Stop \/ Crash

Spec == Init /\ [][Next]_vars /\ WF_vars(ProcessStep)
-----------------------------------------------------------------------------
(* Properties *)

File == [from : Nat, to : Nat, rows : SUBSET Blocks]
Start == Nat \cup {None}

\* Types.  A window is never inverted, and the process only holds segments,
\* a batch and a checkpoint in the states that use them.
TypeOK ==
    /\ \A t \in Tables : \A f \in files[t] : f \in File /\ f.from <= f.to
    /\ \/ saved = NoState
       \/ saved.kind = "start" /\ saved.number \in Start
       \/ saved.kind = "cursor" /\ saved.number \in Blocks /\ saved.coverage \in [Tables -> Nat]
    /\ pc \in {"down", "refused", "recovery", "reading", "saveStart", "batch", "rollover",
               "checkpoint", "close"}
    /\ \A t \in Tables : doomed[t] \subseteq files[t]
    /\ ranges \in {<<>>, Ranges} /\ coverageStart \in [Tables -> Start]
    /\ segments \in [Tables -> SUBSET Blocks]
    /\ batch \in Blocks \cup {None} /\ (pc \in {"saveStart", "batch"} => batch \in Queried)
    /\ lastBoundary \in Blocks \cup {None} /\ lastCheckpoint \in Blocks \cup {None}
    /\ openRange \in 0..Len(Ranges)
    /\ checkpoint.todo \subseteq Tables /\ (checkpoint.todo # {} => pc = "checkpoint")
    /\ starts \in 0..MaxStarts

Committed(t) == {f \in files[t] : f.to <= Cursor}

\* At every moment, also right after a crash, the files up to the cursor hold
\* each row of each block up to the cursor once, and nothing else holds any:
\* a file that ends above the cursor has only rows that a resume reads again.
CommittedRowsAreExact ==
    \A t \in Tables :
        /\ UNION {f.rows : f \in Committed(t)} = {b \in Emits[t] \cap Queried : b <= Cursor}
        /\ \A f, g \in Committed(t) : f # g => f.rows \cap g.rows = {}
        /\ \A f \in files[t] \ Committed(t) : \A b \in f.rows : b > Cursor

\* A reader can tell from the file names what was indexed: each queried block
\* up to the cursor is claimed by one file of each table, never by two, and
\* by none only while the state file says that the table still owes it; and
\* no file claims a block the pipe never asked for.
CoverageIsTiled ==
    \A t \in Tables :
        /\ \A b \in {c \in Queried : c <= Cursor} :
             LET claims == {f \in Committed(t) : f.from <= b /\ b <= f.to}
             IN  /\ Cardinality(claims) <= 1
                 /\ b < saved.coverage[t] => claims # {}
        /\ \A f \in files[t] : (f.from)..(f.to) \cap Blocks \subseteq Queried

\* What a reader of the directory relies on, crashes included: exact rows under exact names
\* (INV-4; parquet-state.ts:317-371, parquet-store.ts:202-262).
DirectoryIsExact == CommittedRowsAreExact /\ CoverageIsTiled

\* The pipe never refuses what it has left behind itself: neither at a start
\* (E2317, E2322) nor when it publishes (E2309).
OwnFilesAreNeverRefused == pc # "refused"

\* Restarted often enough, the pipe reads its query to the end and leaves
\* every table's coverage closed.
QueryCompletes ==
    <>(/\ Cursor = Max(Queried)
       /\ \A t \in Tables : saved.coverage[t] > Cursor)
=============================================================================
