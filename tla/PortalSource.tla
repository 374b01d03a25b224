---------------------------- MODULE PortalSource ----------------------------
(***************************************************************************)
(* A pipe from the Portal to the hand-over of a batch to its target:       *)
(*                                                                         *)
(*   - the Portal (external): its canonical tip, which it may reorganise   *)
(*     above the finalized block;                                          *)
(*   - the Portal client (portal-client/client.ts, stream-buffer.ts): the  *)
(*     next request and the one batch it reads ahead of the target;        *)
(*   - PortalStream (core/portal-source.ts): the finalized watermark, the  *)
(*     split by finality and the resumption after a fork or a restart.     *)
(*                                                                         *)
(* A target's module EXTENDS this one and joins its own steps to the       *)
(* source's: Start, HandOver, ResumeAfterFork, Halt.                       *)
(*                                                                         *)
(* Left out: query ranges with a gap or an end, head-only responses (a 204 *)
(* has no head and reaches no target, ADR-3), transformers, cut and        *)
(* stalled responses (an answer that covers less).                         *)
(*                                                                         *)
(* A definition whose comment starts with "Fault" is a slip that the code  *)
(* could hold in place of the definition after it; no behaviour uses it,   *)
(* and a property is known to fail under it.                               *)
(***************************************************************************)
EXTENDS ForkResolution

CONSTANTS
    FromBlock,    \* the first block of the query's range
    PerBlock,     \* the target asks for perBlockUnfinalized
    OlderHeads,   \* a response may report an older finalized head
    NoHeads,      \* when a response may lack one: "never", "ever", or "later",
                  \* once the pipe has seen one
    MaxReorgs,    \* bound on reorganisations
    MaxCrashes    \* bound on crashes

ASSUME SourceAssumption ==
    /\ FromBlock \in Nat
    /\ PerBlock \in BOOLEAN /\ OlderHeads \in BOOLEAN
    /\ NoHeads \in {"never", "later", "ever"}
    /\ MaxReorgs \in Nat /\ MaxCrashes \in Nat

VARIABLES
    tip,        \* the Portal's newest canonical block
    final,      \* its newest finalized block
    reorgs,     \* reorganisations so far
    request,    \* the next stream request: fromBlock and parentBlockHash
    buffer,     \* StreamBuffer: the batch read ahead, full when put() waits
    failure,    \* canonicalBlocks of a ForkException not raised yet
    batch,      \* what PortalStream took and has not handed over yet
    watermark,  \* FinalizedWatermark
    run,        \* "stopped", "reading" or "halted" on E1003
    crashes     \* crashes so far

portalVars == <<tip, final, reorgs>>
clientVars == <<request, buffer, failure>>
streamVars == <<batch, watermark, run>>
sourceVars == <<portalVars, clientVars, streamVars, crashes>>

NoBatch == [blocks |-> {}, finalized |-> None]
NoData == [blocks |-> {}, finalized |-> None, full |-> FALSE]
NoRequest == [from |-> FromBlock, anchor |-> None]

SourceTypeOK ==
    /\ tip \in Block /\ final \in Block /\ reorgs \in 0..MaxReorgs
    /\ request \in [from : Nat, anchor : Cursor]
    /\ buffer \in [blocks : SUBSET Block, finalized : Cursor, full : BOOLEAN]
    /\ failure \in SUBSET Block
    /\ batch \in [blocks : SUBSET Block, finalized : Cursor]
    /\ watermark \in Cursor
    /\ run \in {"stopped", "reading", "halted"}
    /\ crashes \in 0..MaxCrashes

SourceInit ==
    /\ tip \in {b \in Block : Num[b] = FromBlock}
    /\ final \in {b \in Path[tip] : Num[b] = 0}
    /\ reorgs = 0
    /\ request = NoRequest /\ buffer = NoData /\ failure = {}
    /\ batch = NoBatch /\ watermark = None
    /\ run = "stopped"
    /\ crashes = 0

-----------------------------------------------------------------------------
(* The Portal.                                                             *)

NewBlock ==
    /\ tip' \in {b \in Block : tip \in Path[b] /\ Num[b] = Num[tip] + 1}
    /\ UNCHANGED <<final, reorgs, clientVars, streamVars, crashes>>

Reorganise ==
    /\ reorgs < MaxReorgs
    /\ tip' \in {b \in Block : /\ final \in Path[b]
                               /\ tip \notin Path[b] /\ b \notin Path[tip]}
    /\ reorgs' = reorgs + 1
    /\ UNCHANGED <<final, clientVars, streamVars, crashes>>

Finalize ==
    /\ final' \in {b \in Path[tip] : Num[b] = Num[final] + 1}
    /\ UNCHANGED <<tip, reorgs, clientVars, streamVars, crashes>>

\* The finalized heads a response may carry.
ReportedHeads ==
    LET seen == watermark # None \/ buffer.finalized # None
    IN  {final} \cup (IF OlderHeads THEN Path[final] ELSE {})
                \cup (IF NoHeads = "ever" \/ (NoHeads = "later" /\ seen) THEN {None} ELSE {})

-----------------------------------------------------------------------------
(* The Portal client: ingest() of createPortalStream and StreamBuffer.put. *)

ReadingAhead == run = "reading" /\ failure = {} /\ ~buffer.full

AnswerBlocks ==
    /\ ReadingAhead
    /\ request.anchor # None => request.anchor \in Path[tip]
    /\ \E last \in {b \in Path[tip] : Num[b] >= request.from} :
       \E head \in ReportedHeads :
        LET blocks == Delivered(request.from, last)
        IN  /\ buffer' = [blocks    |-> buffer.blocks \cup blocks,
                          finalized |-> MaxFinalized(buffer.finalized, head),
                          full      |-> /\ head # None
                                        /\ \E b \in blocks : Num[b] > Num[head]]
            /\ request' = [from |-> Num[last] + 1, anchor |-> last]
    /\ UNCHANGED <<portalVars, failure, streamVars, crashes>>

\* The anchor is not canonical: 409 with the blocks below the request.
AnswerFork ==
    /\ ReadingAhead
    /\ request.anchor # None
    /\ request.anchor \notin Path[tip]
    /\ Num[tip] >= Num[request.anchor]
    /\ failure' = CanonicalBefore(tip, request.from)
    /\ UNCHANGED <<portalVars, request, buffer, streamVars, crashes>>

-----------------------------------------------------------------------------
(* PortalStream.                                                           *)

\* The next batch the target gets: a target that asks for it gets every
\* unfinalized block on its own, after the finalized ones before it.
Part ==
    LET finalized == {b \in batch.blocks : Num[b] <= Num[batch.finalized]}
    IN  IF ~PerBlock \/ batch.finalized = None THEN batch.blocks
        ELSE IF finalized # {} THEN finalized
        ELSE {First(batch.blocks)}

RollbackChain(blocks, finalized) ==
    IF finalized = None THEN {} ELSE {b \in blocks : Num[b] > Num[finalized]}

\* Fault: the finalized head of the response is passed on as it was reported.
TakeBatchUnclamped ==
    /\ run = "reading"
    /\ batch.blocks = {}
    /\ buffer.blocks # {}
    /\ watermark' = IF buffer.finalized = None THEN watermark ELSE buffer.finalized
    /\ batch' = [blocks |-> buffer.blocks, finalized |-> watermark']
    /\ buffer' = NoData
    /\ UNCHANGED <<portalVars, request, failure, run, crashes>>

\* The buffered batch is taken, its finalized head clamped to the watermark.
TakeBatch ==
    /\ run = "reading"
    /\ batch.blocks = {}
    /\ buffer.blocks # {}
    /\ watermark' = MaxFinalized(watermark, buffer.finalized)
    /\ batch' = [blocks |-> buffer.blocks, finalized |-> watermark']
    /\ buffer' = NoData
    /\ UNCHANGED <<portalVars, request, failure, run, crashes>>

\* The target has committed Part and asks for more.
HandOver ==
    /\ run = "reading"
    /\ batch.blocks # {}
    /\ batch' = IF batch.blocks = Part THEN NoBatch
                ELSE [batch EXCEPT !.blocks = @ \ Part]
    /\ UNCHANGED <<portalVars, clientVars, watermark, run, crashes>>

\* The client's error reaches the reader after everything it buffered.
ForkRaised == run = "reading" /\ batch.blocks = {} /\ buffer.blocks = {} /\ failure # {}

\* The first request behind a cursor: it never asks for a block in front of the query's range,
\* and the cursor's hash goes with it only where it continues from the cursor.
Continuing(cursor) ==
    IF cursor # None /\ Num[cursor] + 1 >= FromBlock
    THEN [from |-> Num[cursor] + 1, anchor |-> cursor]
    ELSE NoRequest

\* Fault: the stream starts at the cursor's block, which is committed already.
ReadFromCursorBlock(cursor) ==
    /\ request' = IF cursor = None THEN NoRequest
                  ELSE [from |-> Num[cursor], anchor |-> cursor]
    /\ buffer' = NoData
    /\ failure' = {}
    /\ batch' = NoBatch

\* Fault: the stream that failed is not replaced, and raises its error again.
ReadFromFailedStream(cursor) ==
    /\ request' = Continuing(cursor)
    /\ buffer' = NoData
    /\ UNCHANGED failure
    /\ batch' = NoBatch

ReadFrom(cursor) ==
    /\ request' = Continuing(cursor)
    /\ buffer' = NoData
    /\ failure' = {}
    /\ batch' = NoBatch

\* write() reads the target's state and starts the stream from it.
Start(latest, finalized) ==
    /\ run = "stopped"
    /\ run' = "reading"
    /\ watermark' = finalized
    /\ ReadFrom(latest)
    /\ UNCHANGED <<portalVars, crashes>>

\* The target has rolled back to ancestor; the same run reads on from there.
ResumeAfterFork(ancestor) ==
    /\ ForkRaised
    /\ ReadFrom(ancestor)
    /\ UNCHANGED <<portalVars, watermark, run, crashes>>

Volatile(next) ==
    /\ run' = next
    /\ request' = NoRequest /\ buffer' = NoData /\ failure' = {}
    /\ batch' = NoBatch /\ watermark' = None

\* No ancestor: ForkCursorMissingError ends the run.
HaltOnFork ==
    /\ ForkRaised
    /\ Volatile("halted")
    /\ UNCHANGED <<portalVars, crashes>>

\* The process dies, or is restarted after it halted: only what the target
\* has persisted is left.
Crash ==
    /\ run # "stopped"
    /\ crashes < MaxCrashes
    /\ crashes' = crashes + 1
    /\ Volatile("stopped")
    /\ UNCHANGED portalVars

SourceNext == NewBlock \/ Reorganise \/ Finalize \/ AnswerBlocks \/ AnswerFork \/ TakeBatch
=============================================================================
