---------------------------- MODULE StreamBuffer ----------------------------
(***************************************************************************)
(* portal-client/stream-buffer.ts with the ingest loop that fills it       *)
(* (portal-client/client.ts) and the reader that empties it, one step per  *)
(* stretch of code between two awaits.  PortalSource takes the two for one *)
(* record and an answer for one step; this module is about the three       *)
(* signals, the two timers and the end of the stream.                      *)
(*                                                                         *)
(* Blocks are their numbers, a byte is a block.  Left out: the heads and   *)
(* counters a batch carries, an out-of-order block (an error like any      *)
(* other), a 200 without a body.                                           *)
(*                                                                         *)
(* Definitions commented "Fault" are read as in PortalSource.              *)
(***************************************************************************)
EXTENDS Naturals, Sequences

CONSTANTS
    ToBlock,    \* query.toBlock; the query starts at block 0
    MaxBytes,   \* the buffer hands over at once when it holds as much
    MaxChunk,   \* bound on the blocks one read of a body yields
    MaxBreaks   \* bound on bodies that break off: stalls, resets and cuts

ASSUME BufferAssumption ==
    /\ ToBlock \in Nat
    /\ MaxBytes \in Nat \ {0} /\ MaxChunk \in Nat \ {0}
    /\ MaxBreaks \in Nat

VARIABLES
    head,        \* how many blocks the Portal has
    breaks,      \* bodies broken off so far
    ingest,      \* where the ingest loop awaits
    fromBlock,   \* the next block it asks for
    cutAt,       \* one past the block a body last broke off inside of, 0 for none
    bodyOpen,    \* the response has more to read
    state,       \* StreamBuffer.state
    filled,      \* buffer is not undefined
    blocks,      \* its blocks
    flushed,     \* flushSignal is resolved
    hasData,     \* hasDataSignal is resolved
    released,    \* the consumedSignal put() awaits is resolved
    idleTimer,   \* idleTimeout is set
    waitTimer,   \* waitTimeout is set
    reader,      \* "busy", "taking", or how the stream ended for it
    received     \* the blocks it got

portalVars == <<head, breaks>>
ingestVars == <<ingest, fromBlock, cutAt, bodyOpen>>
signalVars == <<flushed, hasData, released>>
timerVars == <<idleTimer, waitTimer>>
bufferVars == <<state, filled, blocks, signalVars, timerVars>>
readerVars == <<reader, received>>
vars == <<portalVars, ingestVars, bufferVars, readerVars>>

TypeOK ==
    /\ head \in 0..(ToBlock + 1) /\ breaks \in 0..MaxBreaks
    /\ ingest \in {"loop", "asking", "reading", "putting", "flushing", "polling", "ended"}
    /\ fromBlock \in 0..(ToBlock + 1)
    /\ cutAt \in 0..(ToBlock + 2)
    /\ bodyOpen \in BOOLEAN
    /\ state \in {"pending", "ready", "failed", "closed"}
    /\ filled \in BOOLEAN
    /\ blocks \in Seq(0..ToBlock)
    /\ flushed \in BOOLEAN /\ hasData \in BOOLEAN /\ released \in BOOLEAN
    /\ idleTimer \in BOOLEAN /\ waitTimer \in BOOLEAN
    /\ reader \in {"busy", "taking", "done", "failed", "left", "crashed"}
    /\ received \in Seq(0..ToBlock)

Init ==
    /\ head = 0 /\ breaks = 0
    /\ ingest = "loop" /\ fromBlock = 0 /\ cutAt = 0 /\ bodyOpen = FALSE
    /\ state = "pending" /\ filled = FALSE /\ blocks = <<>>
    /\ flushed = FALSE /\ hasData = FALSE /\ released = FALSE
    /\ idleTimer = FALSE /\ waitTimer = FALSE
    /\ reader = "busy" /\ received = <<>>

Aborted == state \in {"closed", "failed"}

Numbers(first, n) == [i \in 1..n |-> first + i - 1]

-----------------------------------------------------------------------------
(* StreamBuffer.                                                           *)

\* _ready, by a timer or by flush().
Ready ==
    /\ state' = IF state = "pending" THEN "ready" ELSE state
    /\ flushed' = (flushed \/ state = "pending")
    /\ idleTimer' = FALSE /\ waitTimer' = FALSE
    /\ UNCHANGED <<filled, blocks, hasData, released>>

\* Fault: _cleanup leaves hasDataSignal as it is.
EndWithoutData(how) ==
    /\ state' = IF Aborted THEN state ELSE how
    /\ IF Aborted THEN UNCHANGED <<signalVars, timerVars>>
       ELSE /\ flushed' = TRUE /\ released' = TRUE
            /\ idleTimer' = FALSE /\ waitTimer' = FALSE
            /\ UNCHANGED hasData
    /\ UNCHANGED <<filled, blocks>>

\* close() and fail(): both are final, and wake whoever waits.
EndBuffer(how) ==
    /\ state' = IF Aborted THEN state ELSE how
    /\ IF Aborted THEN UNCHANGED <<signalVars, timerVars>>
       ELSE /\ flushed' = TRUE /\ hasData' = TRUE /\ released' = TRUE
            /\ idleTimer' = FALSE /\ waitTimer' = FALSE
    /\ UNCHANGED <<filled, blocks>>

\* Fault: put() does not wait for a full buffer that is flushed already.
PutIntoReady(data, flushImmediate, next) ==
    LET waits == (flushImmediate \/ Len(blocks) + Len(data) >= MaxBytes) /\ state = "pending"
    IN  /\ ~Aborted
        /\ filled' = TRUE
        /\ blocks' = blocks \o data
        /\ hasData' = TRUE
        /\ flushed' = (flushed \/ waits)
        /\ released' = FALSE
        /\ idleTimer' = (~waits /\ state = "pending")
        /\ ingest' = IF waits THEN "putting" ELSE next
        /\ UNCHANGED <<state, waitTimer>>

\* put() as far as its await, or to its end when it has no need to wait.
Put(data, flushImmediate, next) ==
    LET waits == flushImmediate \/ Len(blocks) + Len(data) >= MaxBytes
    IN  /\ ~Aborted
        /\ filled' = TRUE
        /\ blocks' = blocks \o data
        /\ hasData' = TRUE
        /\ flushed' = (flushed \/ waits)
        /\ released' = FALSE
        /\ idleTimer' = (~waits /\ state = "pending")
        /\ ingest' = IF waits THEN "putting" ELSE next
        /\ UNCHANGED <<state, waitTimer>>

\* The rest of put(), once its consumedSignal is resolved.
PutResumes ==
    /\ ingest = "putting" /\ released
    /\ idleTimer' = (idleTimer \/ (state = "pending" /\ filled))
    /\ ingest' = IF bodyOpen THEN "reading" ELSE "loop"
    /\ UNCHANGED <<portalVars, fromBlock, cutAt, bodyOpen, state, filled, blocks,
                   signalVars, waitTimer, readerVars>>

IdleTimeout ==
    /\ idleTimer
    /\ Ready
    /\ UNCHANGED <<portalVars, ingestVars, readerVars>>

WaitTimeout ==
    /\ waitTimer
    /\ Ready
    /\ UNCHANGED <<portalVars, ingestVars, readerVars>>

-----------------------------------------------------------------------------
(* The reader: take(), from its call to its await and from there to its    *)
(* result.                                                                 *)

Take ==
    /\ reader = "busy"
    /\ reader' = "taking"
    /\ waitTimer' = (waitTimer \/ state = "pending")
    /\ UNCHANGED <<portalVars, ingestVars, state, filled, blocks, signalVars, idleTimer, received>>

Signalled == reader = "taking" /\ flushed /\ hasData

TakeBuffer ==
    /\ filled' = FALSE /\ blocks' = <<>>
    /\ received' = received \o blocks
    /\ waitTimer' = FALSE
    /\ reader' = "busy"

\* Fault: the state is not reset with the signals.
TakeKeepsState ==
    /\ Signalled /\ ~Aborted /\ filled
    /\ TakeBuffer
    /\ flushed' = FALSE /\ hasData' = FALSE /\ released' = TRUE
    /\ UNCHANGED <<portalVars, ingestVars, state, idleTimer>>

\* The buffer is taken, the writer released and every signal replaced by a new one.
TakeAndReset ==
    /\ Signalled /\ ~Aborted /\ filled
    /\ TakeBuffer
    /\ state' = "pending"
    /\ flushed' = FALSE /\ hasData' = FALSE /\ released' = TRUE
    /\ UNCHANGED <<portalVars, ingestVars, idleTimer>>

\* What was buffered when the stream ended is handed over first.
TakeRest ==
    /\ Signalled /\ Aborted /\ filled
    /\ TakeBuffer
    /\ UNCHANGED <<portalVars, ingestVars, state, signalVars, idleTimer>>

\* Fault: a failed stream throws whatever is buffered.
TakeEndEarly ==
    /\ Signalled /\ (~filled \/ state = "failed")
    /\ reader' = CASE state = "failed" -> "failed"
                   [] state = "closed" -> "done"
                   [] OTHER -> "crashed"
    /\ waitTimer' = FALSE
    /\ UNCHANGED <<portalVars, ingestVars, state, filled, blocks, signalVars, idleTimer, received>>

\* Nothing is buffered: the error, the end, or "Buffer is empty".
TakeEnd ==
    /\ Signalled /\ ~filled
    /\ reader' = CASE state = "failed" -> "failed"
                   [] state = "closed" -> "done"
                   [] OTHER -> "crashed"
    /\ waitTimer' = FALSE
    /\ UNCHANGED <<portalVars, ingestVars, state, filled, blocks, signalVars, idleTimer, received>>

\* The reader breaks out of its loop: the iterator's return().
Leave ==
    /\ reader = "busy"
    /\ EndBuffer("closed")
    /\ reader' = "left"
    /\ UNCHANGED <<portalVars, ingestVars, received>>

\* The stop signal of the run.
Stop ==
    /\ ~Aborted
    /\ EndBuffer("closed")
    /\ UNCHANGED <<portalVars, ingestVars, readerVars>>

-----------------------------------------------------------------------------
(* ingest().                                                               *)

NewBlock ==
    /\ head <= ToBlock
    /\ head' = head + 1
    /\ UNCHANGED <<breaks, ingestVars, bufferVars, readerVars>>

\* The query is read to its end, or the stream was aborted: close().
IngestEnds ==
    /\ ingest = "loop"
    /\ fromBlock > ToBlock \/ Aborted
    /\ EndBuffer("closed")
    /\ ingest' = "ended"
    /\ UNCHANGED <<portalVars, fromBlock, cutAt, bodyOpen, readerVars>>

Ask ==
    /\ ingest = "loop" /\ ~Aborted /\ fromBlock <= ToBlock
    /\ ingest' = "asking"
    /\ UNCHANGED <<portalVars, fromBlock, cutAt, bodyOpen, bufferVars, readerVars>>

\* 409, an error that is not retried, a malformed body: fail().
RequestFails ==
    /\ ingest \in {"asking", "reading"} /\ ~Aborted
    /\ EndBuffer("failed")
    /\ ingest' = "ended"
    /\ UNCHANGED <<portalVars, fromBlock, cutAt, bodyOpen, readerVars>>

\* The abort signal ends a request, a body or a pause.
IngestAborts ==
    /\ ingest \in {"asking", "reading", "polling"} /\ Aborted
    /\ ingest' = "ended"
    /\ UNCHANGED <<portalVars, fromBlock, cutAt, bodyOpen, bufferVars, readerVars>>

\* 204 at the head: the head goes out with no blocks.
AnswerAtHead ==
    /\ ingest = "asking" /\ fromBlock >= head
    /\ Put(<<>>, FALSE, "flushing")
    /\ UNCHANGED <<portalVars, fromBlock, cutAt, bodyOpen, readerVars>>

Flush ==
    /\ ingest = "flushing"
    /\ IF filled THEN Ready ELSE UNCHANGED bufferVars
    /\ ingest' = "polling"
    /\ UNCHANGED <<portalVars, fromBlock, cutAt, bodyOpen, readerVars>>

PollAgain ==
    /\ ingest = "polling"
    /\ ingest' = "loop"
    /\ UNCHANGED <<portalVars, fromBlock, cutAt, bodyOpen, bufferVars, readerVars>>

AnswerBlocks ==
    /\ ingest = "asking" /\ fromBlock < head /\ ~Aborted
    /\ ingest' = "reading" /\ bodyOpen' = TRUE
    /\ UNCHANGED <<portalVars, fromBlock, cutAt, bufferVars, readerVars>>

\* What one read can yield: the blocks there are, within the query.
Available == head - fromBlock

\* A chunk of whole lines; it is flushed at once if it has unfinalized blocks.
ReadChunk ==
    /\ ingest = "reading" /\ bodyOpen
    /\ \E n \in 1..MaxChunk : \E hot \in BOOLEAN :
        /\ n <= Available
        /\ Put(Numbers(fromBlock, n), hot, "reading")
        /\ fromBlock' = fromBlock + n
    /\ UNCHANGED <<portalVars, cutAt, bodyOpen, readerVars>>

\* Fault: the blocks before the cut go with the line that was cut.
ReadCutChunkDropped ==
    /\ ingest = "reading" /\ bodyOpen
    /\ breaks < MaxBreaks
    /\ breaks' = breaks + 1
    /\ \E n \in 1..MaxChunk :
        /\ n <= Available
        /\ fromBlock' = fromBlock + n
        /\ cutAt' = fromBlock' + 1
    /\ bodyOpen' = FALSE
    /\ ingest' = "loop"
    /\ UNCHANGED <<head, bufferVars, readerVars>>

\* The body ends inside a line: what came before it is kept.
ReadCutChunk ==
    /\ ingest = "reading" /\ bodyOpen
    /\ breaks < MaxBreaks
    /\ breaks' = breaks + 1
    /\ \E n \in 1..MaxChunk : \E hot \in BOOLEAN :
        /\ n <= Available
        /\ Put(Numbers(fromBlock, n), hot, "loop")
        /\ fromBlock' = fromBlock + n
        /\ cutAt' = fromBlock' + 1
    /\ bodyOpen' = FALSE
    /\ UNCHANGED <<head, readerVars>>

\* It ends inside its first line: the second time, at the same block, that is an error.
ReadCutLine ==
    /\ ingest = "reading" /\ bodyOpen /\ ~Aborted
    /\ breaks < MaxBreaks
    /\ breaks' = breaks + 1
    /\ IF cutAt = fromBlock + 1
       THEN EndBuffer("failed") /\ ingest' = "ended" /\ UNCHANGED cutAt
       ELSE cutAt' = fromBlock + 1 /\ ingest' = "loop" /\ UNCHANGED bufferVars
    /\ bodyOpen' = FALSE
    /\ UNCHANGED <<head, fromBlock, readerVars>>

\* The body is read to its end, or has gone silent, or its connection was reset.
BodyEnds ==
    /\ ingest = "reading" /\ ~Aborted
    /\ breaks' = IF Available = 0 THEN breaks ELSE breaks + 1
    /\ breaks' <= MaxBreaks
    /\ bodyOpen' = FALSE
    /\ ingest' = "loop"
    /\ UNCHANGED <<head, fromBlock, cutAt, bufferVars, readerVars>>

-----------------------------------------------------------------------------
IngestStep ==
    \/ IngestEnds \/ Ask \/ IngestAborts \/ AnswerAtHead \/ Flush \/ PollAgain
    \/ AnswerBlocks \/ ReadChunk \/ PutResumes
    \/ Available = 0 /\ BodyEnds

ReaderStep == Take \/ TakeAndReset \/ TakeRest \/ TakeEnd

Next ==
    \/ NewBlock \/ RequestFails \/ ReadCutChunk \/ ReadCutLine \/ BodyEnds
    \/ IngestStep \/ ReaderStep
    \/ IdleTimeout \/ WaitTimeout
    \/ Leave \/ Stop

\* Timers fire, a reader that is busy comes back, and what ingest() has in hand it
\* finishes; that the Portal answers or grows is not assumed.
Fairness ==
    /\ WF_vars(IdleTimeout) /\ WF_vars(WaitTimeout)
    /\ WF_vars(ReaderStep)
    /\ WF_vars(PutResumes \/ Flush \/ IngestEnds \/ IngestAborts)

\* In addition the Portal answers, and its chain grows to the end of the query.
PortalFairness == WF_vars(IngestStep) /\ WF_vars(NewBlock)

Spec == Init /\ [][Next]_vars /\ Fairness

-----------------------------------------------------------------------------
\* The three signals and the idle timer never speak of a buffer that is not there: data is
\* only signalled with a buffer to take, a writer waits only while its data is there, the
\* timer is not left behind by a take(), and take() never fails on an empty buffer
\* (stream-buffer.ts:61-140).
SignalsTellTheBuffer ==
    /\ reader # "crashed"
    /\ hasData /\ ~Aborted => filled
    /\ idleTimer => filled /\ state = "pending"
    /\ ingest = "putting" /\ ~released => filled /\ flushed

\* However the reader is scheduled, the client reads ahead less than MaxBytes and one read of
\* a body (the backpressure of put(), stream-buffer.ts:126-129).
BoundedReadAhead == Len(blocks) < MaxBytes + MaxChunk

\* Over cut, reset and silent bodies, what was received and what is buffered are the blocks
\* up to the next request, each once and in order (client.ts:330-452).
NothingLost == received \o blocks = Numbers(0, fromBlock)

\* The reader gets everything that was put, then the end or the error: an error behind
\* buffered data does not overtake it (stream-buffer.ts:76-82).
Buffer == INSTANCE HandOff WITH
            sent <- received \o blocks, ended <- reader \in {"done", "failed"}
ImplementsHandOff == Buffer!Spec

\* What is buffered reaches a reader that has not left, even if the Portal never sends
\* another byte: one of the two timers, the flush of a 204 or the end of the stream hands it
\* over (stream-buffer.ts:61-64, 131-133).
BufferedIsDelivered == filled ~> (~filled \/ reader = "left")

\* If the Portal answers and its chain reaches the end of the query, ingest() and the reader
\* both come to an end, whatever breaks off, fails or is stopped on the way: no signal is
\* waited for that nobody resolves.
StreamEnds == PortalFairness => <>(ingest = "ended" /\ reader \in {"done", "failed", "left"})
=============================================================================
