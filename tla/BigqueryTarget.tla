--------------------------- MODULE BigqueryTarget ---------------------------
(***************************************************************************)
(* The BigQuery target (targets/bigquery) on a PortalSource.  Nothing is   *)
(* atomic across tables, so every commit and every rollback is bracketed   *)
(* by two rows of a write-ahead log in the sync table, and the next start  *)
(* repairs what an unfinished one left.                                    *)
(*                                                                         *)
(* Data: a selected block is one row in each tracked table; a table counts *)
(* the rows of every block, so a row appended twice shows.  The appends    *)
(* (DELETEs) of one commit (rollback) run in parallel, a table per step.   *)
(* A clean-up that fails is logged and forgotten: it is one not due.       *)
(*                                                                         *)
(* Definitions commented "Fault" are read as in PortalSource.              *)
(***************************************************************************)
EXTENDS PortalSource

CONSTANTS
    Table,         \* the tracked tables
    MaxRows,       \* state.maxRows, the sync rows a clean-up keeps
    CleanupEvery   \* state.cleanupEverySaves

ASSUME BigqueryAssumption ==
    /\ PerBlock = FALSE
    /\ IsFiniteSet(Table)
    /\ MaxRows \in Nat \ {0}
    /\ CleanupEvery \in Nat /\ CleanupEvery > 1

VARIABLES
    rows,      \* [Table -> [Block -> Nat]], the rows of each block
    wal,       \* the sync table, newest row first
    phase,     \* the bracket the process is in
    todo,      \* the tables it has not written, or deleted from, yet
    cursor,    \* #lastCommittedCursor
    saved,     \* #lastCommittedFinalized
    saves      \* #saves, as far as the clean-up depends on it

targetVars == <<rows, wal, phase, todo, cursor, saved, saves>>
vars == <<sourceVars, targetVars>>

WalRow == [current : Cursor, finalized : Cursor, chain : SUBSET Block,
           range : SUBSET Nat, committed : BOOLEAN]

TypeOK ==
    /\ SourceTypeOK
    /\ rows \in [Table -> [Block -> Nat]]
    /\ wal \in Seq(WalRow)
    /\ phase \in {"idle", "committing", "rolling back", "recovering"}
    /\ todo \in SUBSET Table
    /\ cursor \in Cursor
    /\ saved \in Cursor
    /\ saves \in 0..(2 * CleanupEvery - 1)

-----------------------------------------------------------------------------
\* commitSyncRow: timestamps strictly increase, so the newest row is the first.
InFlight(current, finalized, chain, range) ==
    <<[current |-> current, finalized |-> finalized, chain |-> chain,
       range |-> range, committed |-> FALSE]>> \o wal

Committed(current, finalized, chain) ==
    <<[current |-> current, finalized |-> finalized, chain |-> chain,
       range |-> {}, committed |-> TRUE]>> \o wal

\* cleanupOldRows keeps the newest MaxRows rows, after the first save and every
\* CleanupEvery saves.
NextSave == IF saves = 2 * CleanupEvery - 1 THEN CleanupEvery ELSE saves + 1

CleansUp == NextSave = 1 \/ NextSave % CleanupEvery = 0

Kept(log) == IF CleansUp /\ Len(log) > MaxRows THEN SubSeq(log, 1, MaxRows) ELSE log

\* fork(): the committed rows as rollback records.
History ==
    LET rank == {i \in DOMAIN wal : wal[i].committed}
        nth(n) == CHOOSE i \in rank : Cardinality({j \in rank : j <= i}) = n
    IN  [n \in 1..Cardinality(rank) |->
            [chain |-> wal[nth(n)].chain, finalized |-> wal[nth(n)].finalized]]

\* The upper end of the fork DELETE: the canonical top or the target's own.
Upper(canonical) ==
    LET numbers == {Num[b] : b \in canonical} \cup {NumOf(cursor)}
                     \cup {Num[b] : b \in UNION {History[i].chain : i \in DOMAIN History}}
    IN  CHOOSE n \in numbers : \A m \in numbers : m <= n

-----------------------------------------------------------------------------
(* write(): one batch.                                                     *)

\* Fault: the intent row carries the cursor of the batch it announces.
SaveCommitPreWithNextCursor ==
    /\ run = "reading" /\ phase = "idle"
    /\ batch.blocks # {}
    /\ LET low == IF cursor = None THEN FromBlock ELSE Num[cursor] + 1
       IN  wal' = InFlight(Last(Part), batch.finalized, RollbackChain(Part, batch.finalized),
                           low..Num[Last(Part)])
    /\ phase' = "committing"
    /\ todo' = Table
    /\ UNCHANGED <<sourceVars, rows, cursor, saved, saves>>

SaveCommitPre ==
    /\ run = "reading" /\ phase = "idle"
    /\ batch.blocks # {}
    /\ LET low == IF cursor = None THEN FromBlock ELSE Num[cursor] + 1
       IN  wal' = InFlight(cursor, batch.finalized, RollbackChain(Part, batch.finalized),
                           low..Num[Last(Part)])
    /\ phase' = "committing"
    /\ todo' = Table
    /\ UNCHANGED <<sourceVars, rows, cursor, saved, saves>>

\* commitBatch: the append to one table.
AppendTo(t) ==
    /\ phase = "committing" /\ t \in todo
    /\ rows' = [rows EXCEPT ![t] =
                   [b \in Block |-> IF b \in Part \cap Selected THEN @[b] + 1 ELSE @[b]]]
    /\ todo' = todo \ {t}
    /\ UNCHANGED <<sourceVars, wal, phase, cursor, saved, saves>>

SaveCommitPost ==
    /\ phase = "committing" /\ todo = {}
    /\ HandOver
    /\ wal' = Kept(Committed(Last(Part), batch.finalized, RollbackChain(Part, batch.finalized)))
    /\ cursor' = Last(Part)
    /\ saved' = batch.finalized
    /\ saves' = NextSave
    /\ phase' = "idle"
    /\ UNCHANGED <<rows, todo>>

-----------------------------------------------------------------------------
(* resolveFork().                                                          *)

\* Fault: the rollback row is written without the floor.
SaveRollbackPreWithoutFloor ==
    /\ ForkRaised /\ phase = "idle"
    /\ \E history \in {History}, safe \in Block :
        /\ safe = ResolveForkCursor(history, failure)
        /\ wal' = InFlight(safe, None, {}, (Num[safe] + 1)..Upper(failure))
    /\ phase' = "rolling back"
    /\ todo' = Table
    /\ UNCHANGED <<sourceVars, rows, cursor, saved, saves>>

SaveRollbackPre ==
    /\ ForkRaised /\ phase = "idle"
    /\ \E history \in {History}, safe \in Block :
        /\ safe = ResolveForkCursor(history, failure)
        /\ wal' = InFlight(safe, saved, {}, (Num[safe] + 1)..Upper(failure))
    /\ phase' = "rolling back"
    /\ todo' = Table
    /\ UNCHANGED <<sourceVars, rows, cursor, saved, saves>>

\* The DELETE on one table, of a fork or of a recovery.
DeleteFrom(t) ==
    /\ phase \in {"rolling back", "recovering"} /\ t \in todo
    /\ rows' = [rows EXCEPT ![t] =
                   [b \in Block |-> IF Num[b] \in Head(wal).range THEN 0 ELSE @[b]]]
    /\ todo' = todo \ {t}
    /\ UNCHANGED <<sourceVars, wal, phase, cursor, saved, saves>>

SaveRollbackPost ==
    /\ phase = "rolling back" /\ todo = {}
    /\ ResumeAfterFork(Head(wal).current)
    /\ wal' = Committed(Head(wal).current, saved, {})
    /\ cursor' = Head(wal).current
    /\ phase' = "idle"
    /\ UNCHANGED <<rows, todo, saved, saves>>

Halt ==
    /\ phase = "idle"
    /\ HaltOnFork
    /\ \E history \in {History} : ResolveForkCursor(history, failure) = None
    /\ UNCHANGED targetVars

-----------------------------------------------------------------------------
(* getCursor() and the crashes it repairs.                                 *)

Idle == run = "stopped" /\ phase = "idle"

\* The persisted cursor and floor; no floor is handed back without a cursor.
Resume(row) ==
    /\ Start(row.current, IF row.current = None THEN None ELSE row.finalized)
    /\ cursor' = row.current
    /\ saved' = row.finalized

\* The first run of this id; tables with rows would be refused.
FirstStart ==
    /\ Idle /\ wal = <<>>
    /\ \A t \in Table : \A b \in Block : rows[t][b] = 0
    /\ Start(None, None)
    /\ UNCHANGED targetVars

StartRun ==
    /\ Idle /\ wal # <<>>
    /\ Head(wal).committed
    /\ Resume(Head(wal))
    /\ UNCHANGED <<rows, wal, phase, todo, saves>>

\* recoveryDeleteRange runs over every table unless the range is empty.
TablesToRepair == IF Head(wal).range = {} THEN {} ELSE Table

BeginRecovery ==
    /\ Idle /\ wal # <<>>
    /\ ~Head(wal).committed
    /\ phase' = "recovering"
    /\ todo' = TablesToRepair
    /\ UNCHANGED <<sourceVars, rows, wal, cursor, saved, saves>>

\* The marker's chain is empty: the blocks of the aborted batch were never written.
FinishRecovery ==
    /\ phase = "recovering" /\ todo = {}
    /\ Resume(Head(wal))
    /\ wal' = Committed(Head(wal).current, Head(wal).finalized, {})
    /\ phase' = "idle"
    /\ UNCHANGED <<rows, todo, saves>>

LoseMemory ==
    /\ phase' = "idle" /\ todo' = {}
    /\ cursor' = None /\ saved' = None /\ saves' = 0
    /\ UNCHANGED <<rows, wal>>

\* A crash of a running pipe, or in the middle of a recovery.
CrashAndLoseMemory == Crash /\ LoseMemory

CrashInRecovery ==
    /\ phase = "recovering"
    /\ crashes < MaxCrashes
    /\ crashes' = crashes + 1
    /\ LoseMemory
    /\ UNCHANGED <<portalVars, clientVars, streamVars>>

-----------------------------------------------------------------------------
Init ==
    /\ SourceInit
    /\ rows = [t \in Table |-> [b \in Block |-> 0]]
    /\ wal = <<>>
    /\ phase = "idle" /\ todo = {}
    /\ cursor = None /\ saved = None /\ saves = 0

Next ==
    \/ SourceNext /\ UNCHANGED targetVars
    \/ SaveCommitPre
    \/ \E t \in Table : AppendTo(t)
    \/ SaveCommitPost
    \/ SaveRollbackPre
    \/ \E t \in Table : DeleteFrom(t)
    \/ SaveRollbackPost
    \/ Halt
    \/ FirstStart
    \/ StartRun
    \/ BeginRecovery
    \/ FinishRecovery
    \/ CrashAndLoseMemory
    \/ CrashInRecovery

Spec == Init /\ [][Next]_vars

-----------------------------------------------------------------------------
\* The rows one tracked table holds for a branch.
View(blocks) ==
    [b \in Block |-> IF b \in blocks \cap Selected /\ Num[b] >= FromBlock THEN 1 ELSE 0]

PathTo(c) == IF c = None THEN {} ELSE Path[c]

\* What the log says is committed, and what a recovery would leave of a table.
walCursor == IF wal = <<>> THEN None ELSE Head(wal).current
walFloor == IF walCursor = None THEN None ELSE Head(wal).finalized
Repaired(t) ==
    [b \in Block |-> IF wal # <<>> /\ Num[b] \in Head(wal).range THEN 0 ELSE rows[t][b]]

\* At every moment of a commit, a rollback or a recovery, in whichever tables it has
\* got to, deleting the range of the newest log row from every table leaves exactly the
\* rows of the branch up to that row's cursor: no row twice, none missing, none of an
\* abandoned branch (CN-11, CN-31; bigquery-state.ts:200-296).
CrashLeavesRepairableTables == \A t \in Table : Repaired(t) = View(PathTo(walCursor))

\* Outside a bracket there is nothing to repair: what queries read is exactly the branch
\* up to the cursor in memory, after whatever sequence of crashes and forks (INV-14).
SettledTablesAreExact ==
    run = "reading" /\ phase = "idle" => \A t \in Table : rows[t] = View(PathTo(cursor))

\* A run only ends on E1003 when no finalized head was ever persisted, as long as
\* a 409 reaches down to the floor (ADR-3).
HaltsOnlyWithoutFloor == run = "halted" => walFloor = None

\* The target implements ReorgSafeSink although no step writes two tables: seen
\* through the repair its data changes only when a log row is written.
Sink == INSTANCE ReorgSafeSink WITH
            cursor <- walCursor, floor <- walFloor,
            data <- [t \in Table |-> Repaired(t)],
            View <- LAMBDA blocks : [t \in Table |-> View(blocks)]
ImplementsSink == Sink!Spec
=============================================================================
