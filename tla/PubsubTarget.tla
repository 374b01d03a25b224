---------------------------- MODULE PubsubTarget ----------------------------
(***************************************************************************)
(* The Pub/Sub target (targets/pubsub) on a PortalSource: a medium that    *)
(* takes nothing back.  A batch is one SQLite transaction that numbers its *)
(* operations, puts them into an outbox and keeps what a later fork needs  *)
(* to repair them; the outbox then goes to the wire, and what the wire has *)
(* acknowledged leaves it in a second transaction.  A fork puts one        *)
(* compensation per affected id into the same outbox.                      *)
(*                                                                         *)
(* External: the routes' map (Ops), the Pub/Sub service (Publish) and a    *)
(* conforming consumer, which keeps the highest sequence number per id.    *)
(* There is one topic without ordering keys, the default: the outbox is    *)
(* one partition.                                                          *)
(*                                                                         *)
(* Left out: the refusals of a wrong state file, of unstable identities    *)
(* and of a first batch without a finalized head; go-live, assumeNoForks   *)
(* and the finalized stream; the message format.                           *)
(*                                                                         *)
(* Definitions commented "Fault" are read as in PortalSource.              *)
(***************************************************************************)
EXTENDS PortalSource

Seqs == INSTANCE SequencesExt

CONSTANTS
    Id,            \* row ids; each belongs to one route
    Materialized,  \* the ids of materialized routes; the others are events, write-once
    WithInverse,   \* the ids of routes with a rollbackWhenMissing
    Ops,           \* [Block -> Seq([id, value])], what a block's data maps to
    Value,         \* the values of upserts
    Deleted,       \* the value of a delete, and of an id that never was
    Inverse        \* the value of the route's inverse

ASSUME PubsubAssumption ==
    /\ PerBlock = FALSE
    /\ NoHeads = "never"
    /\ IsFiniteSet(Id)
    /\ Materialized \subseteq Id /\ WithInverse \subseteq Id
    /\ Deleted \notin Value /\ Inverse \notin Value \cup {Deleted}
    /\ \A b \in Block : Ops[b] \in Seq([id : Id, value : Value \cup {Deleted}])
    /\ \A b \in Block \ Selected : Ops[b] = <<>>

VARIABLES
    \* The state file.
    latest,         \* the cursor row: latest
    finalized,      \* and finalized
    sequence,       \* META_SEQUENCE, the last number handed out
    outbox,         \* messages [id, value, seq] not confirmed yet, in order
    manifest,       \* rollbackable operations [id, value, seq, block]
    baseline,       \* [Id -> [value, number]], materialized_baseline
    inverse,        \* the ids with a row in rollback_inverse
    ledger,         \* ledger_blocks
    foldedThrough,  \* META_FOLDED_THROUGH
    \* The process.
    phase,          \* "closed", "idle", or within drain(): "draining", "publishing"
    caller,         \* who waits for drain(): "open", "write" or "fork"
    safe,           \* the cursor a fork resolved to
    acked,          \* how many of the first messages the wire has acknowledged
    \* The consumer.
    consumer        \* [Id -> [value, seq]]

fileVars == <<latest, finalized, sequence, outbox, manifest, baseline, inverse, ledger, foldedThrough>>
processVars == <<phase, caller, safe, acked>>
targetVars == <<fileVars, processVars, consumer>>
vars == <<sourceVars, targetVars>>

AnyValue == Value \cup {Deleted, Inverse}

Message == [id : Id, value : AnyValue, seq : Nat]
Row == [id : Id, value : AnyValue, seq : Nat, block : Block]
NoBaseline == [value |-> Deleted, number |-> -1]

-----------------------------------------------------------------------------
(* What the state file says.                                               *)

\* Rows at or below the mark are dead: they wait for compaction, and nothing reads them.
LiveRows(i) == {m \in manifest : m.id = i /\ Num[m.block] > foldedThrough}

Newest(rows) == CHOOSE m \in rows : \A n \in rows : n.seq <= m.seq

\* #saveBaseline: a delete drops the baseline, an upsert replaces an older one.
SaveBaseline(base, row) ==
    IF row.value = Deleted THEN [base EXCEPT ![row.id] = NoBaseline]
    ELSE IF Num[row.block] >= base[row.id].number
    THEN [base EXCEPT ![row.id] = [value |-> row.value, number |-> Num[row.block]]]
    ELSE base

\* Fault: the rows are folded away without becoming baselines.
FoldAway(base, rows, mark) == base

\* #foldFinalized: the newest row of every id up to mark becomes its baseline, unless
\* it has become so before.
FoldFinalized(base, rows, mark) ==
    [i \in Id |->
        LET settled == {m \in rows : m.id = i /\ Num[m.block] <= mark}
        IN  IF i \in Materialized /\ settled # {} /\ Num[Newest(settled).block] > foldedThrough
            THEN SaveBaseline(base, Newest(settled))[i]
            ELSE base[i]]

\* Fault: the finalized baseline is not looked up.
SurvivingRow(i, floor) ==
    LET kept == {m \in LiveRows(i) : Num[m.block] <= floor}
    IN  IF kept # {} THEN Newest(kept).value
        ELSE IF i \in inverse THEN Inverse
        ELSE Deleted

\* The state that survives at a fork's floor: the newest row at or below it, else the
\* baseline, else the inverse, else a delete.
Surviving(i, floor) ==
    LET kept == {m \in LiveRows(i) : Num[m.block] <= floor}
    IN  IF kept # {} THEN Newest(kept).value
        ELSE IF baseline[i] # NoBaseline THEN baseline[i].value
        ELSE IF i \in inverse THEN Inverse
        ELSE Deleted

\* The ids #compensate publishes for. An event that also exists below the floor stands.
Orphaned(floor) ==
    {i \in Id : /\ \E m \in LiveRows(i) : Num[m.block] > floor
                /\ i \in Materialized \/ \A m \in LiveRows(i) : Num[m.block] > floor}

\* fork(): the ledger above the mark is the one rollback record.
History == <<[chain |-> {b \in ledger : Num[b] > foldedThrough}, finalized |-> finalized]>>

\* Messages for values given one after the other, with the next numbers.
Numbered(values) ==
    [k \in DOMAIN values |-> [id |-> values[k].id, value |-> values[k].value, seq |-> sequence + k]]

-----------------------------------------------------------------------------
(* commit().                                                               *)

BatchReady == run = "reading" /\ phase = "idle" /\ batch.blocks # {}

\* #map: the operations of a batch, in block order.
Operations(blocks) ==
    LET order == Seqs!SetToSortSeq(blocks, LAMBDA b, c : Num[b] < Num[c])
    IN  Seqs!FlattenSeq([k \in DOMAIN order |->
            [j \in DOMAIN Ops[order[k]] |->
                [id |-> Ops[order[k]][j].id, value |-> Ops[order[k]][j].value, block |-> order[k]]]])

Commit ==
    LET head == batch.finalized
        ops  == Operations(Part)
        rows == [k \in DOMAIN ops |-> [id |-> ops[k].id, value |-> ops[k].value,
                                        seq |-> sequence + k, block |-> ops[k].block]]
        rollbackable(m) == Num[m.block] > Num[head]
        direct  == SelectSeq(rows, LAMBDA m : ~rollbackable(m) /\ m.id \in Materialized)
        tracked == {m \in Seqs!ToSet(rows) : rollbackable(m)}
        chain   == RollbackChain(Part, head)
        saved   == Seqs!FoldLeft(SaveBaseline, baseline, direct)
        folds   == Num[head] > foldedThrough
    IN  /\ BatchReady
        /\ sequence' = sequence + Len(ops)
        /\ outbox' = outbox \o Numbered(ops)
        /\ manifest' = manifest \cup tracked
        /\ inverse' = inverse \cup ({m.id : m \in tracked} \cap WithInverse)
        /\ ledger' = {b \in ledger : \A c \in chain : Num[c] # Num[b]} \cup chain
        /\ latest' = Last(Part) /\ finalized' = head
        /\ baseline' = IF folds THEN FoldFinalized(saved, manifest', Num[head]) ELSE saved
        /\ foldedThrough' = IF folds THEN Num[head] ELSE foldedThrough
        /\ phase' = "draining" /\ caller' = "write"
        /\ UNCHANGED <<sourceVars, safe, acked, consumer>>

\* Once the outbox is empty, the source reads on.
FinishWrite ==
    /\ phase = "draining" /\ outbox = <<>> /\ caller = "write"
    /\ HandOver
    /\ phase' = "idle"
    /\ UNCHANGED <<fileVars, caller, safe, acked, consumer>>

\* #compactChunk, in the background: some dead rows, the inverses of their ids that
\* no fork can use any more, and the dead part of the ledger.
Compact ==
    LET dead == {m \in manifest : Num[m.block] <= foldedThrough}
    IN  /\ phase # "closed"
        /\ \E chunk \in SUBSET dead :
            /\ chunk # {} \/ (dead = {} /\ \E b \in ledger : Num[b] <= foldedThrough)
            /\ manifest' = manifest \ chunk
            /\ inverse' = inverse \ {i \in {m.id : m \in chunk} : LiveRows(i) = {}}
        /\ ledger' = {b \in ledger : Num[b] > foldedThrough}
        /\ UNCHANGED <<sourceVars, latest, finalized, sequence, outbox, baseline, foldedThrough,
                       processVars, consumer>>

-----------------------------------------------------------------------------
(* resolveFork().                                                          *)

Fork ==
    LET ancestor == ResolveForkCursor(History, failure)
        target   == IF ancestor # None THEN ancestor ELSE finalized
        floor    == NumOf(target)
        repairs  == Seqs!SetToSeq({[id |-> i, value |-> Surviving(i, floor)] : i \in Orphaned(floor)})
    IN  /\ ForkRaised /\ phase = "idle"
        /\ sequence' = sequence + Len(repairs)
        /\ outbox' = outbox \o Numbered(repairs)
        /\ manifest' = {m \in manifest : Num[m.block] <= floor}
        /\ ledger' = {b \in ledger : Num[b] <= floor}
        /\ inverse' = {i \in inverse : \E m \in manifest' : m.id = i /\ Num[m.block] > foldedThrough}
        /\ latest' = IF target = None THEN latest ELSE target
        /\ safe' = ancestor
        /\ phase' = "draining" /\ caller' = "fork"
        /\ UNCHANGED <<sourceVars, finalized, baseline, foldedThrough, acked, consumer>>

\* The compensations are out. Without an ancestor the run halts (E1003).
FinishFork ==
    /\ phase = "draining" /\ outbox = <<>> /\ caller = "fork"
    /\ IF safe # None THEN ResumeAfterFork(safe) /\ phase' = "idle"
                      ELSE HaltOnFork /\ phase' = "closed"
    /\ safe' = None
    /\ UNCHANGED <<fileVars, caller, acked, consumer>>

-----------------------------------------------------------------------------
(* drain().                                                                *)

Acknowledged(n) == {outbox[k] : k \in 1..n}

Receive(messages) ==
    consumer' = [i \in Id |->
        LET got == {m \in messages : m.id = i /\ m.seq > consumer[i].seq}
        IN  IF got = {} THEN consumer[i]
            ELSE [value |-> Newest(got).value, seq |-> Newest(got).seq]]

\* Everything pending is published. An acknowledged prefix counts; what is behind it may
\* have arrived all the same, in any order, acknowledged or not.
PublishSome ==
    /\ phase = "draining" /\ outbox # <<>>
    /\ acked' \in 0..Len(outbox)
    /\ LET counted == Acknowledged(acked')
       IN  \E more \in SUBSET (Seqs!ToSet(outbox) \ counted) : Receive(counted \cup more)
    /\ phase' = "publishing"
    /\ UNCHANGED <<sourceVars, fileVars, caller, safe>>

PublishAll ==
    /\ phase = "draining" /\ outbox # <<>>
    /\ acked' = Len(outbox)
    /\ Receive(Seqs!ToSet(outbox))
    /\ phase' = "publishing"
    /\ UNCHANGED <<sourceVars, fileVars, caller, safe>>

\* Fault: one acknowledgement clears the outbox.
ConfirmEverything ==
    /\ phase = "publishing"
    /\ outbox' = IF acked = 0 THEN outbox ELSE <<>>
    /\ acked' = 0
    /\ IF outbox' = <<>> THEN phase' = "draining" /\ UNCHANGED <<clientVars, streamVars, safe>>
       ELSE phase' = "closed" /\ safe' = None /\ Volatile("stopped")
    /\ UNCHANGED <<portalVars, crashes, latest, finalized, sequence, manifest, baseline, inverse,
                   ledger, foldedThrough, caller, consumer>>

\* What was confirmed leaves the outbox. If something is left, its error ends the run.
Confirm ==
    /\ phase = "publishing"
    /\ outbox' = SubSeq(outbox, acked + 1, Len(outbox))
    /\ acked' = 0
    /\ IF outbox' = <<>> THEN phase' = "draining" /\ UNCHANGED <<clientVars, streamVars, safe>>
       ELSE phase' = "closed" /\ safe' = None /\ Volatile("stopped")
    /\ UNCHANGED <<portalVars, crashes, latest, finalized, sequence, manifest, baseline, inverse,
                   ledger, foldedThrough, caller, consumer>>

-----------------------------------------------------------------------------
(* write(): what an earlier run left in the outbox goes out first.         *)

Open ==
    /\ run = "stopped" /\ phase = "closed"
    /\ phase' = "draining" /\ caller' = "open"
    /\ UNCHANGED <<sourceVars, fileVars, safe, acked, consumer>>

\* Fault: the outbox waits for the next batch.
FinishOpenUndrained ==
    /\ phase = "draining" /\ caller = "open"
    /\ Start(latest, finalized)
    /\ phase' = "idle"
    /\ UNCHANGED <<fileVars, caller, safe, acked, consumer>>

FinishOpen ==
    /\ phase = "draining" /\ outbox = <<>> /\ caller = "open"
    /\ Start(latest, finalized)
    /\ phase' = "idle"
    /\ UNCHANGED <<fileVars, caller, safe, acked, consumer>>

\* The process dies; what it had sent may have arrived.
CrashTarget ==
    /\ Crash
    /\ phase' = "closed" /\ safe' = None /\ acked' = 0
    /\ UNCHANGED <<fileVars, caller, consumer>>

CrashInOpen ==
    /\ run = "stopped" /\ phase # "closed"
    /\ crashes < MaxCrashes
    /\ crashes' = crashes + 1
    /\ phase' = "closed" /\ acked' = 0
    /\ UNCHANGED <<portalVars, clientVars, streamVars, fileVars, caller, safe, consumer>>

Init ==
    /\ SourceInit
    /\ latest = None /\ finalized = None
    /\ sequence = 0 /\ outbox = <<>>
    /\ manifest = {} /\ baseline = [i \in Id |-> NoBaseline] /\ inverse = {}
    /\ ledger = {} /\ foldedThrough = -1
    /\ phase = "closed" /\ caller = "open" /\ safe = None /\ acked = 0
    /\ consumer = [i \in Id |-> [value |-> Deleted, seq |-> 0]]

Next ==
    \/ SourceNext /\ UNCHANGED targetVars
    \/ Open
    \/ FinishOpen
    \/ Commit
    \/ FinishWrite
    \/ Fork
    \/ FinishFork
    \/ PublishSome
    \/ PublishAll
    \/ Confirm
    \/ Compact
    \/ CrashTarget
    \/ CrashInOpen

\* The process is restarted when it ends, its transactions end, and a publish that is
\* tried again and again succeeds some day; that the source ever reads on is not assumed.
Fairness == WF_vars(Open) /\ WF_vars(Confirm) /\ SF_vars(PublishAll)

Spec == Init /\ [][Next]_vars /\ Fairness
-----------------------------------------------------------------------------
(* Properties.                                                             *)

TypeOK ==
    /\ SourceTypeOK
    /\ latest \in Cursor /\ finalized \in Cursor
    /\ sequence \in Nat
    /\ outbox \in Seq(Message) /\ \A k \in DOMAIN outbox : outbox[k].seq \in 1..sequence
    /\ \A m \in manifest : m \in Row /\ m.seq \in 1..sequence
    /\ baseline \in [Id -> [value : AnyValue, number : Nat \cup {-1}]]
    /\ inverse \subseteq Id /\ ledger \subseteq Block
    /\ foldedThrough \in Nat \cup {-1}
    /\ phase \in {"closed", "idle", "draining", "publishing"}
    /\ caller \in {"open", "write", "fork"}
    /\ safe \in Cursor
    /\ acked \in Nat
    /\ consumer \in [Id -> [value : AnyValue, seq : Nat]]

PathTo(c) == IF c = None THEN {} ELSE {b \in Path[c] : Num[b] >= FromBlock}

\* What a branch makes of an id: its last operation there.
View(blocks) ==
    [i \in Id |->
        LET writers == {b \in blocks : \E k \in DOMAIN Ops[b] : Ops[b][k].id = i}
        IN  IF writers = {} THEN Deleted
            ELSE LET own == SelectSeq(Ops[Last(writers)], LAMBDA o : o.id = i)
                 IN  own[Len(own)].value]

\* What the consumer has of an id once the outbox is out.
Due(i) ==
    LET rest == {m \in Seqs!ToSet(outbox) : m.id = i /\ m.seq > consumer[i].seq}
    IN  IF rest = {} THEN consumer[i].value ELSE Newest(rest).value

\* An inverse stands for a row that was never there.
Effect(value) == IF value = Inverse THEN Deleted ELSE value

\* At every moment, also right after a crash or a publish that failed half way, the wire
\* and the outbox together hold the branch up to the cursor: a row of an abandoned branch
\* is compensated, nothing is missing, and nothing on the wire is unknown to the outbox
\* or older than what it repairs (CN-17, CN-35; pubsub-target.ts:383-386). A route with
\* an inverse is never sent a plain delete in its place.
OutboxCompletesTheWire ==
    \A i \in Id :
        /\ Effect(Due(i)) = View(PathTo(latest))[i]
        /\ Due(i) = Deleted /\ i \in WithInverse =>
             \/ consumer[i].seq = 0
             \/ \E b \in PathTo(latest) : \E k \in DOMAIN Ops[b] : Ops[b][k].id = i

\* The manifest, the baselines and the inverses reach as deep as a fork can: a fork to any
\* block from the finalized floor up to the cursor would leave each id as that block's
\* branch has it, whatever was folded, compacted or compensated before
\* (CN-35; pubsub-state.ts:871-890, 1098-1198).
UndoReachesFloor ==
    \A b \in PathTo(latest) : Num[b] >= NumOf(finalized) =>
        \A i \in Id :
            Effect(IF i \in Orphaned(Num[b]) THEN Surviving(i, Num[b]) ELSE Due(i))
                = View(PathTo(b))[i]

\* The target implements ReorgSafeSink, its data being what the consumer has once the
\* outbox is out: a transaction replaces it in one step, no publish, confirmation or
\* crash changes it.
Sink == INSTANCE ReorgSafeSink WITH
            cursor <- latest, floor <- finalized,
            data <- [i \in Id |-> Effect(Due(i))],
            View <- LAMBDA blocks : View({b \in blocks : Num[b] >= FromBlock})
ImplementsSink == Sink!Spec

\* What a transaction put into the outbox reaches the consumer, even if the chain stops
\* and no later batch drains it (pubsub-target.ts:383-386).
OutboxDrains == outbox # <<>> ~> outbox = <<>>
=============================================================================
