-------------------------- MODULE ClickhouseTarget --------------------------
(***************************************************************************)
(* The ClickHouse target (targets/clickhouse) on a PortalSource.  A batch  *)
(* is inserted table by table, then its cursor; a fork writes its cursor,  *)
(* then removes the rows above it.  Every start repairs what lies above    *)
(* the newest cursor, and a start cursor written before the first batch    *)
(* makes that one repairable too.                                          *)
(*                                                                         *)
(* External: onData inserts one row per selected block in each table, and  *)
(* onRollback is store.removeRowsAfter(safeCursor, tables).  Left out: the *)
(* migration of a legacy cursor key, and the clean-up every 25 saves of a  *)
(* target that keeps 25 cursor rows or more.                               *)
(*                                                                         *)
(* Definitions commented "Fault" are read as in PortalSource.              *)
(***************************************************************************)
EXTENDS PortalSource

CONSTANTS
    Table,     \* the tables the user's handlers write and roll back
    MaxRows    \* settings.maxRows, the cursor rows a clean-up keeps

ASSUME ClickhouseAssumption ==
    /\ PerBlock = FALSE
    /\ IsFiniteSet(Table)
    /\ MaxRows \in 1..24

VARIABLES
    rows,       \* [Table -> [Block -> Nat]], the rows of each block, net of cancel rows
    sync,       \* the sync table, newest row first; a row that is not live is
                \* cancelled, but there until a merge drops it
    phase,      \* where write() or resolveFork() is
    todo,       \* the tables the phase has not reached yet
    lastCommit  \* the cursor this run has saved last

targetVars == <<rows, sync, phase, todo, lastCommit>>
vars == <<sourceVars, targetVars>>

\* A start cursor is no block: its row has the last number of the first batch instead.
SyncRow == [current : Cursor, batchEnd : Nat, finalized : Cursor,
            chain : SUBSET Block, live : BOOLEAN]

TypeOK ==
    /\ SourceTypeOK
    /\ rows \in [Table -> [Block -> Nat]]
    /\ sync \in Seq(SyncRow)
    /\ phase \in {"idle", "repairing", "inserting", "committed", "forked", "removing"}
    /\ todo \in SUBSET Table
    /\ lastCommit \in Cursor

CursorRow(current, finalized, chain) ==
    [current |-> current, batchEnd |-> 0, finalized |-> finalized, chain |-> chain, live |-> TRUE]

StartRow(end) ==
    [current |-> None, batchEnd |-> end, finalized |-> None, chain |-> {}, live |-> TRUE]

-----------------------------------------------------------------------------
\* rollbackCursorOf: the numbers a repair removes. Only a start cursor has an upper bound.
AboveCursor(row) ==
    {n \in Nat : IF row.current = None THEN n >= FromBlock /\ n <= row.batchEnd
                                       ELSE n > Num[row.current]}

\* store.removeRowsAfter on one table; removing what is removed already changes nothing.
Remove(t, numbers) ==
    rows' = [rows EXCEPT ![t] = [b \in Block |-> IF Num[b] \in numbers THEN 0 ELSE @[b]]]

\* fork(): every physical row as a rollback record, cancelled or not.
History == [i \in DOMAIN sync |-> [chain |-> sync[i].chain, finalized |-> sync[i].finalized]]

\* The chains of all live rows, a newer row's block in place of an older one's.
TrimmedChain(safe, finalized) ==
    {b \in Block :
        /\ Num[b] <= Num[safe] /\ Num[b] > NumOf(finalized)
        /\ \E i \in DOMAIN sync :
            /\ sync[i].live /\ b \in sync[i].chain
            /\ \A j \in 1..(i - 1) : \A c \in sync[j].chain : sync[j].live => Num[c] # Num[b]}

Kept ==
    [i \in DOMAIN sync |->
        [sync[i] EXCEPT !.live = @ /\ Cardinality({j \in 1..i : sync[j].live}) <= MaxRows]]

-----------------------------------------------------------------------------
(* write(): getCursor() and the repair, then a batch at a time.            *)

Idle == run = "stopped" /\ phase = "idle"

FirstStart ==
    /\ Idle /\ sync = <<>>
    /\ Start(None, None)
    /\ lastCommit' = None
    /\ UNCHANGED <<rows, sync, phase, todo>>

BeginRepair ==
    /\ Idle /\ sync # <<>>
    /\ phase' = "repairing"
    /\ todo' = Table
    /\ UNCHANGED <<sourceVars, rows, sync, lastCommit>>

RepairTable(t) ==
    /\ phase = "repairing" /\ t \in todo
    /\ Remove(t, AboveCursor(Head(sync)))
    /\ todo' = todo \ {t}
    /\ UNCHANGED <<sourceVars, sync, phase, lastCommit>>

StartRun ==
    /\ phase = "repairing" /\ todo = {}
    /\ Start(Head(sync).current, Head(sync).finalized)
    /\ lastCommit' = Head(sync).current
    /\ phase' = "idle"
    /\ UNCHANGED <<rows, sync, todo>>

BatchReady == run = "reading" /\ phase = "idle" /\ batch.blocks # {}

\* Fault: a run that resumed from a start cursor writes none of its own.
BeginBatchOnOldStart ==
    /\ BatchReady
    /\ sync' = IF sync = <<>> THEN <<StartRow(Num[Last(Part)])>> ELSE sync
    /\ phase' = "inserting"
    /\ todo' = Table
    /\ UNCHANGED <<sourceVars, rows, lastCommit>>

\* The first batch of a pipe writes a start cursor, in place of the one it resumed from.
BeginBatch ==
    /\ BatchReady
    /\ sync' = IF lastCommit = None THEN <<StartRow(Num[Last(Part)])>> ELSE sync
    /\ phase' = "inserting"
    /\ todo' = Table
    /\ UNCHANGED <<sourceVars, rows, lastCommit>>

InsertInto(t) ==
    /\ phase = "inserting" /\ t \in todo
    /\ rows' = [rows EXCEPT ![t] =
                   [b \in Block |-> IF b \in Part \cap Selected THEN @[b] + 1 ELSE @[b]]]
    /\ todo' = todo \ {t}
    /\ UNCHANGED <<sourceVars, sync, phase, lastCommit>>

SaveCursor ==
    /\ phase = "inserting" /\ todo = {}
    /\ sync' = <<CursorRow(Last(Part), batch.finalized, RollbackChain(Part, batch.finalized))>> \o sync
    /\ phase' = "committed"
    /\ UNCHANGED <<sourceVars, rows, todo, lastCommit>>

\* Fault: the last commit is remembered when the run starts and on a fork only.
FinishBatchForgetful ==
    /\ phase = "committed"
    /\ sync' = Kept
    /\ HandOver
    /\ lastCommit' = IF lastCommit = None THEN Last(Part) ELSE lastCommit
    /\ phase' = "idle"
    /\ UNCHANGED <<rows, todo>>

\* The clean-up after the save; then the loop takes the next batch.
FinishBatch ==
    /\ phase = "committed"
    /\ sync' = Kept
    /\ HandOver
    /\ lastCommit' = Last(Part)
    /\ phase' = "idle"
    /\ UNCHANGED <<rows, todo>>

-----------------------------------------------------------------------------
(* resolveFork().                                                          *)

\* Fault: a fork cursor is stored without the finalized head.
SaveForkCursorWithoutFloor ==
    /\ ForkRaised /\ phase = "idle"
    /\ \E history \in {History}, safe \in Block :
        /\ safe = ResolveForkCursor(history, failure)
        /\ sync' = <<CursorRow(safe, None, TrimmedChain(safe, Head(sync).finalized))>> \o sync
    /\ phase' = "forked"
    /\ UNCHANGED <<sourceVars, rows, todo, lastCommit>>

SaveForkCursor ==
    /\ ForkRaised /\ phase = "idle"
    /\ \E history \in {History}, safe \in Block :
        /\ safe = ResolveForkCursor(history, failure)
        /\ sync' = <<CursorRow(safe, Head(sync).finalized,
                               TrimmedChain(safe, Head(sync).finalized))>> \o sync
    /\ phase' = "forked"
    /\ UNCHANGED <<sourceVars, rows, todo, lastCommit>>

BeginRollback ==
    /\ phase = "forked"
    /\ sync' = Kept
    /\ phase' = "removing"
    /\ todo' = Table
    /\ UNCHANGED <<sourceVars, rows, lastCommit>>

\* A fork removes up to the cursor it rolls back from.
RollBackTable(t) ==
    /\ phase = "removing" /\ t \in todo
    /\ Remove(t, (Num[Head(sync).current] + 1)..Num[lastCommit])
    /\ todo' = todo \ {t}
    /\ UNCHANGED <<sourceVars, sync, phase, lastCommit>>

FinishRollback ==
    /\ phase = "removing" /\ todo = {}
    /\ ResumeAfterFork(Head(sync).current)
    /\ lastCommit' = Head(sync).current
    /\ phase' = "idle"
    /\ UNCHANGED <<rows, sync, todo>>

Halt ==
    /\ phase = "idle"
    /\ HaltOnFork
    /\ \E history \in {History} : ResolveForkCursor(history, failure) = None
    /\ UNCHANGED targetVars

-----------------------------------------------------------------------------
\* A background merge of ClickHouse drops the cancelled rows.
Merge ==
    /\ \E i \in DOMAIN sync : ~sync[i].live
    /\ sync' = SelectSeq(sync, LAMBDA row : row.live)
    /\ UNCHANGED <<sourceVars, rows, phase, todo, lastCommit>>

LoseMemory ==
    /\ phase' = "idle" /\ todo' = {} /\ lastCommit' = None
    /\ UNCHANGED <<rows, sync>>

CrashAndLoseMemory == Crash /\ LoseMemory

CrashInRepair ==
    /\ phase = "repairing"
    /\ crashes < MaxCrashes
    /\ crashes' = crashes + 1
    /\ LoseMemory
    /\ UNCHANGED <<portalVars, clientVars, streamVars>>

Init ==
    /\ SourceInit
    /\ rows = [t \in Table |-> [b \in Block |-> 0]]
    /\ sync = <<>>
    /\ phase = "idle" /\ todo = {}
    /\ lastCommit = None

Next ==
    \/ SourceNext /\ UNCHANGED targetVars
    \/ FirstStart
    \/ BeginRepair
    \/ \E t \in Table : RepairTable(t)
    \/ StartRun
    \/ BeginBatch
    \/ \E t \in Table : InsertInto(t)
    \/ SaveCursor
    \/ FinishBatch
    \/ SaveForkCursor
    \/ BeginRollback
    \/ \E t \in Table : RollBackTable(t)
    \/ FinishRollback
    \/ Halt
    \/ Merge
    \/ CrashAndLoseMemory
    \/ CrashInRepair

Spec == Init /\ [][Next]_vars

-----------------------------------------------------------------------------
\* The rows one table holds for a branch.
View(blocks) ==
    [b \in Block |-> IF b \in blocks \cap Selected /\ Num[b] >= FromBlock THEN 1 ELSE 0]

PathTo(c) == IF c = None THEN {} ELSE Path[c]

storedCursor == IF sync = <<>> THEN None ELSE Head(sync).current
storedFloor == IF sync = <<>> THEN None ELSE Head(sync).finalized

\* What the next start would leave of a table.
Repaired(t) ==
    LET removed == IF sync = <<>> THEN {} ELSE AboveCursor(Head(sync))
    IN  [b \in Block |-> IF Num[b] \in removed THEN 0 ELSE rows[t][b]]

\* Whenever the process stops - between two tables, between the data and its cursor,
\* between a fork cursor and the removal, in a first batch that is replayed longer or
\* shorter - the repair of the next start leaves exactly the rows of the branch up to the
\* stored cursor (CN-10, CN-33; clickouse-target.ts:110-157).
CrashLeavesRepairableTables == \A t \in Table : Repaired(t) = View(PathTo(storedCursor))

\* A run that goes on needs no repair: between two batches the tables are the branch up to
\* the last commit, although a fork removes no further than the cursor it rolls back from
\* (INV-14; clickouse-target.ts:175-182).
SettledTablesAreExact ==
    run = "reading" /\ phase = "idle" => \A t \in Table : rows[t] = View(PathTo(lastCommit))

\* The chain of the newest cursor row names ancestors of the cursor only: what a fork is
\* resolved against is the branch the rows belong to (DEF-7: "the candidate ancestors").
StoredChainIsOwnBranch == sync # <<>> => Head(sync).chain \subseteq PathTo(storedCursor)

\* The target implements ReorgSafeSink: seen through the repair, its data changes only
\* when a cursor row is written.
Sink == INSTANCE ReorgSafeSink WITH
            cursor <- storedCursor, floor <- storedFloor,
            data <- [t \in Table |-> Repaired(t)],
            View <- LAMBDA blocks : [t \in Table |-> View(blocks)]
ImplementsSink == Sink!Spec
=============================================================================
