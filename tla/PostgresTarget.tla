--------------------------- MODULE PostgresTarget ---------------------------
(***************************************************************************)
(* The Drizzle/Postgres target (targets/drizzle/node-postgres) on a        *)
(* PortalSource.  A batch's rows, its undo records, the sync row and the   *)
(* clean-up commit in one serializable transaction, and so does a          *)
(* rollback; a transaction is one step.                                    *)
(*                                                                         *)
(* Data: each selected block inserts/updates ("put") or deletes ("del")    *)
(* rows by primary key.  A row's value is the block that last wrote it.    *)
(*                                                                         *)
(* Definitions commented "Fault" are read as in PortalSource.              *)
(***************************************************************************)
EXTENDS PortalSource

CONSTANTS
    Key,           \* primary keys of the tracked tables
    Effect,        \* [Block -> [Key -> {"keep", "put", "del"}]], what onData does
    Retention,     \* unfinalizedBlocksRetention
    CleanupEvery   \* saves between two clean-ups (25 in the code)

ASSUME PostgresAssumption ==
    /\ PerBlock = TRUE
    /\ Effect \in [Block -> [Key -> {"keep", "put", "del"}]]
    /\ \A b \in Block \ Selected : \A k \in Key : Effect[b][k] = "keep"
    /\ Retention \in Nat
    /\ CleanupEvery \in Nat /\ CleanupEvery > 1

VARIABLES
    table,   \* [Key -> Cursor], the tracked tables; None where there is no row
    undo,    \* the snapshot tables: first before-image of a key in a batch
    sync,    \* the rows of the sync table, keyed by the cursor's number
    saves    \* saveCursor calls of this process

targetVars == <<table, undo, sync, saves>>
vars == <<sourceVars, targetVars>>

UndoRecord == [number : Nat, key : Key, before : Cursor]
SyncRow == [current : Block, finalized : Cursor, chain : SUBSET Block]

TypeOK ==
    /\ SourceTypeOK
    /\ table \in [Key -> Cursor]
    /\ undo \in SUBSET UndoRecord
    /\ sync \in SUBSET SyncRow
    /\ saves \in 0..(2 * CleanupEvery - 1)

-----------------------------------------------------------------------------
\* The rows as of the end of a batch of blocks.
Write(t, blocks) ==
    [k \in Key |->
        LET writers == {b \in blocks : Effect[b][k] # "keep"}
        IN  IF writers = {} THEN t[k]
            ELSE IF Effect[Last(writers)][k] = "put" THEN Last(writers)
            ELSE None]

\* The trigger fires for a row the batch inserts, updates or deletes, and keeps
\* the image from before the batch; for a new row there is none.
Snapshots(t, blocks, number) ==
    {[number |-> number, key |-> k, before |-> t[k]] :
        k \in {k \in Key : \E b \in blocks :
                  \/ Effect[b][k] = "put"
                  \/ Effect[b][k] = "del" /\ t[k] # None}}

\* Fault: the latest image above the cursor wins.
RewindToLatest(t, records, number) ==
    [k \in Key |->
        LET above == {u \in records : u.key = k /\ u.number > number}
        IN  IF above = {} THEN t[k]
            ELSE (CHOOSE u \in above : \A w \in above : u.number >= w.number).before]

\* DrizzleTracker.fork: the earliest image above the cursor wins per row.
Rewind(t, records, number) ==
    [k \in Key |->
        LET above == {u \in records : u.key = k /\ u.number > number}
        IN  IF above = {} THEN t[k]
            ELSE (CHOOSE u \in above : \A w \in above : u.number <= w.number).before]

-----------------------------------------------------------------------------
\* getCursor: the sync row with the highest number.
LatestRow(rows) == CHOOSE r \in rows : \A q \in rows : Num[q.current] <= Num[r.current]

latest == IF sync = {} THEN None ELSE LatestRow(sync).current
floor == IF sync = {} THEN None ELSE LatestRow(sync).finalized

\* fork(): all sync rows as rollback records, the highest number first.
History ==
    LET rank(r) == Cardinality({q \in sync : Num[q.current] >= Num[r.current]})
    IN  [i \in 1..Cardinality(sync) |->
            LET row == CHOOSE r \in sync : rank(r) = i
            IN  [chain |-> row.chain, finalized |-> row.finalized]]

\* saveCursor's clean-up boundary; no clean-up on most saves.
NextSave == IF saves = 2 * CleanupEvery - 1 THEN CleanupEvery ELSE saves + 1

CleansUp == NextSave = 1 \/ NextSave % CleanupEvery = 0

\* Fault: retention counts from the committed block, finalized or not.
SafeNumberBelowCurrent(current, finalized) ==
    IF Num[current] > Retention THEN Num[current] - Retention ELSE 0

SafeNumber(current, finalized) ==
    LET top == IF finalized # None /\ Num[finalized] < Num[current]
               THEN Num[finalized] ELSE Num[current]
    IN  IF top > Retention THEN top - Retention ELSE 0

-----------------------------------------------------------------------------
StartRun ==
    /\ Start(latest, floor)
    /\ UNCHANGED targetVars

\* One batch: the transaction of write().
CommitBatch ==
    /\ HandOver
    /\ LET current == Last(Part)
           finalized == batch.finalized
           snapshotEnabled == finalized # None /\ Num[current] >= Num[finalized]
           taken == IF snapshotEnabled THEN Snapshots(table, Part, Num[current]) ELSE {}
           row == [current |-> current, finalized |-> finalized,
                   chain |-> RollbackChain(Part, finalized)]
           safe == SafeNumber(current, finalized)
       IN  /\ table' = Write(table, Part)
           /\ undo' = {u \in undo \cup taken : CleansUp /\ safe > 0 => u.number > safe}
           /\ sync' = {r \in sync \cup {row} : CleansUp => Num[r.current] > safe}
    /\ saves' = NextSave

\* Fault: the fragment is not trimmed to the ancestor.
UntrimmedForkRow(ancestor) ==
    [current |-> ancestor, finalized |-> floor, chain |-> UNION {r.chain : r \in sync}]

\* The row saveForkCursor writes: the fragment of the chain since the row below.
ForkRow(ancestor) ==
    LET below == {r \in sync : Num[r.current] < Num[ancestor]}
        rows == {r \in sync : below = {} \/ Num[r.current] >= Num[LatestRow(below).current]}
        start == IF below = {} THEN NumOf(floor)
                 ELSE IF NumOf(floor) > Num[LatestRow(below).current] THEN NumOf(floor)
                 ELSE Num[LatestRow(below).current]
    IN  [current |-> ancestor, finalized |-> floor,
         chain |-> {b \in UNION {r.chain : r \in rows} :
                       Num[b] <= Num[ancestor] /\ Num[b] > start}]

\* resolveFork: the search over the sync rows, then the rollback transaction, and
\* the stream reads on.
RollbackTo(ancestor) ==
    /\ ResumeAfterFork(ancestor)
    /\ table' = Rewind(table, undo, Num[ancestor])
    /\ undo' = {u \in undo : u.number <= Num[ancestor]}
    /\ sync' = {r \in sync : Num[r.current] < Num[ancestor]} \cup {ForkRow(ancestor)}
    /\ UNCHANGED saves

RollbackFork ==
    /\ ForkRaised
    /\ \E history \in {History}, ancestor \in Block :
        /\ ancestor = ResolveForkCursor(history, failure)
        /\ RollbackTo(ancestor)

Halt ==
    /\ ForkRaised
    /\ \E history \in {History} : ResolveForkCursor(history, failure) = None
    /\ HaltOnFork
    /\ UNCHANGED targetVars

CrashAndLoseMemory ==
    /\ Crash
    /\ saves' = 0
    /\ UNCHANGED <<table, undo, sync>>

-----------------------------------------------------------------------------
Init ==
    /\ SourceInit
    /\ table = [k \in Key |-> None]
    /\ undo = {} /\ sync = {} /\ saves = 0

Next ==
    \/ SourceNext /\ UNCHANGED targetVars
    \/ StartRun
    \/ CommitBatch
    \/ RollbackFork
    \/ Halt
    \/ CrashAndLoseMemory

Spec == Init /\ [][Next]_vars

(***************************************************************************)
(* The pipe never stops on its own: requests are retried without a bound   *)
(* and the target's loop takes the next batch as soon as it can.  NewBlock *)
(* is the assumption that the Portal's chain keeps growing.                *)
(***************************************************************************)
PipeStep ==
    \/ (NewBlock \/ AnswerBlocks \/ AnswerFork \/ TakeBatch) /\ UNCHANGED targetVars
    \/ StartRun \/ CommitBatch \/ RollbackFork \/ Halt

FairSpec == Spec /\ WF_vars(PipeStep)

-----------------------------------------------------------------------------
\* The rows a branch amounts to.
View(blocks) == Write([k \in Key |-> None], {b \in blocks : Num[b] >= FromBlock})

PathTo(cursor) == IF cursor = None THEN {} ELSE Path[cursor]

\* The tables hold exactly the rows of the branch up to the committed cursor, in
\* every state: no block missing, none twice, none of an abandoned branch (CN-20, INV-14).
TableIsViewOfCursor == table = View(PathTo(latest))

\* Any block a later fork may roll back to is one the undo log can still restore,
\* whatever was cleaned up, skipped or rolled back before (CN-30).
UndoReachesFloor ==
    floor # None =>
        \A b \in PathTo(latest) :
            Num[b] >= FromBlock /\ Num[b] >= Num[floor] => Rewind(table, undo, Num[b]) = View(Path[b])

\* The retained chain only names blocks of the committed branch above the floor
\* it was saved under, one per number, and no two rows share a number (INV-1; primary key).
ChainIsOwnBranch ==
    \A r \in sync :
        /\ r.current \in PathTo(latest)
        /\ \A b \in r.chain : b \in Path[r.current] /\ Num[b] > NumOf(r.finalized)
        /\ \A q \in sync : Num[q.current] = Num[r.current] => q = r

\* What is on its way to the target continues the committed cursor: together with
\* what the client asks for next it skips no selected block and repeats none (INV-20).
InFlightContinuesCursor ==
    LET flying == batch.blocks \cup buffer.blocks
    IN  run = "reading" =>
        /\ NumOf(request.anchor) + 1 = request.from \/ request = NoRequest
        /\ \A b \in PathTo(request.anchor) :
               Num[b] >= FromBlock => (b \in flying => Num[b] > NumOf(latest))
        /\ {b \in PathTo(request.anchor) \ PathTo(latest) : b \in Selected /\ Num[b] >= FromBlock}
              \subseteq flying
        /\ flying \subseteq PathTo(request.anchor)
        /\ {b \in PathTo(latest) : Num[b] >= FromBlock} \subseteq PathTo(request.anchor)

\* The target implements ReorgSafeSink: committed branch only grows, a rollback
\* never removes a block at or below the floor, and the floor never moves back,
\* restarts included (INV-11, INV-12, INV-13).
Sink == INSTANCE ReorgSafeSink WITH cursor <- latest, floor <- floor, data <- table
ImplementsSink == Sink!Spec

\* After the last reorganisation and crash the pipe commits up to the tip, through
\* any number of deep-fork restarts, unless it halts on E1003 (LIV-1, LIV-4).
CatchesUp == <>[](latest = tip \/ run = "halted")
=============================================================================
