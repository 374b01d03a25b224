------------------------- MODULE StreamBufferProofs -------------------------
(***************************************************************************)
(* The hand-over of portal-client/stream-buffer.ts and what ingest() puts  *)
(* into it, for any query, buffer size and answers of the Portal: nothing  *)
(* is lost or duplicated, take() finds what it was signalled, the read     *)
(* ahead is bounded, and the whole implements HandOff.                     *)
(***************************************************************************)
EXTENDS StreamBuffer, SequenceTheorems, TLAPS

-----------------------------------------------------------------------------
(* The inductive invariant.                                                *)

\* The client asks for blocks up to the head only.
RequestIsKnown == fromBlock <= head

\* A buffer that is not there holds nothing.
EmptyUnlessFilled == ~filled => blocks = <<>>

\* The end of the stream resolves all three signals, for good.
EndIsSignalled == Aborted => flushed /\ hasData /\ released

\* A buffer that is flushed before it is ready has its writer waiting.
FlushedWhileWaiting ==
    flushed /\ state = "pending" => ingest = "putting" /\ ~released

\* The timer of a buffer that is flushed is off.
TimerBeforeFlush == idleTimer => ~flushed

\* A writer that does not wait, or no longer has to, finds room for a read.
RoomForARead ==
    ~Aborted /\ (ingest # "putting" \/ released) => Len(blocks) < MaxBytes

\* A reader that has heard of the end has taken everything, and nothing follows.
EndIsFinal == reader \in {"done", "failed"} => Aborted /\ ~filled

IInv ==
    /\ TypeOK
    /\ RequestIsKnown /\ EmptyUnlessFilled /\ EndIsSignalled
    /\ FlushedWhileWaiting /\ TimerBeforeFlush
    /\ RoomForARead /\ EndIsFinal
    /\ SignalsTellTheBuffer /\ BoundedReadAhead /\ NothingLost

-----------------------------------------------------------------------------
(* Runs of numbers.                                                        *)

LEMMA NumbersType ==
    ASSUME NEW first \in Nat, NEW n \in Nat, NEW bound \in Nat, first + n <= bound + 1
    PROVE  Numbers(first, n) \in Seq(0..bound) /\ Len(Numbers(first, n)) = n
BY DEF Numbers

LEMMA NumbersEmpty == \A first : Numbers(first, 0) = <<>>
BY DEF Numbers

LEMMA ConcatLength ==
    ASSUME NEW S, NEW s \in Seq(S), NEW t \in Seq(S)
    PROVE  /\ s \o t \in Seq(S)
           /\ Len(s) \in Nat /\ Len(s \o t) = Len(s) + Len(t)
OBVIOUS

LEMMA RunsAssociate ==
    \A s, t, u \in Seq(0..ToBlock) : (s \o t) \o u = s \o (t \o u)
BY ConcatAssociative

\* A run of numbers goes on with the run that starts where it ends.
LEMMA NumbersConcatenate ==
    ASSUME NEW m \in Nat, NEW n \in Nat
    PROVE  Numbers(0, m) \o Numbers(m, n) = Numbers(0, m + n)
<1>1. /\ Numbers(0, m) \in Seq(Nat) /\ Len(Numbers(0, m)) = m
      /\ Numbers(m, n) \in Seq(Nat) /\ Len(Numbers(m, n)) = n
      /\ Numbers(0, m + n) \in Seq(Nat) /\ Len(Numbers(0, m + n)) = m + n
    BY DEF Numbers
<1> DEFINE both == Numbers(0, m) \o Numbers(m, n)
<1>2. both \in Seq(Nat) /\ Len(both) = m + n
    BY <1>1
<1>3. ASSUME NEW i \in 1..(m + n)
      PROVE  both[i] = Numbers(0, m + n)[i]
    <2>1. both[i] = IF i <= m THEN Numbers(0, m)[i] ELSE Numbers(m, n)[i - m]
        <3>1. i \in 1..(Len(Numbers(0, m)) + Len(Numbers(m, n)))
            BY <1>1
        <3> QED
            BY <1>1, <3>1, ConcatProperties
    <2>2. CASE i <= m
        BY <2>1, <2>2 DEF Numbers
    <2>3. CASE ~(i <= m)
        BY <2>1, <2>3 DEF Numbers
    <2> QED
        BY <2>2, <2>3
<1> HIDE DEF both
<1>4. both = Numbers(0, m + n)
    BY <1>1, <1>2, <1>3, SeqEqual
<1> QED
    BY <1>4 DEF both

-----------------------------------------------------------------------------
(* Each action keeps the invariant.                                        *)

LEMMA InitKeeps == Init => IInv
<1> SUFFICES ASSUME Init PROVE IInv
    OBVIOUS
<1> USE BufferAssumption DEF Init
<1>1. TypeOK
    <2>1. 0 \in 0..(ToBlock + 1) /\ 0 \in 0..(ToBlock + 2) /\ 0 \in 0..MaxBreaks
        OBVIOUS
    <2>2. <<>> \in Seq(0..ToBlock)
        OBVIOUS
    <2> QED
        BY <2>1, <2>2 DEF TypeOK
<1>2. NothingLost
    BY NumbersEmpty DEF NothingLost
<1> QED
    BY <1>1, <1>2
       DEF IInv, RequestIsKnown, EmptyUnlessFilled, EndIsSignalled, FlushedWhileWaiting,
           TimerBeforeFlush, RoomForARead, EndIsFinal, SignalsTellTheBuffer,
           BoundedReadAhead, Aborted

\* put(), of blocks the Portal has and that continue what was put before.
LEMMA PutKeeps ==
    ASSUME IInv, NEW n \in 0..MaxChunk, NEW hot \in BOOLEAN,
           NEW goesOn \in {"flushing", "reading", "loop"},
           ingest \in {"asking", "reading"}, n <= head - fromBlock,
           Put(Numbers(fromBlock, n), hot, goesOn), fromBlock' = fromBlock + n,
           head' = head, UNCHANGED readerVars,
           breaks' \in 0..MaxBreaks, cutAt' \in 0..(ToBlock + 2), bodyOpen' \in BOOLEAN
    PROVE  IInv'
<1> USE BufferAssumption DEF IInv
<1> DEFINE data == Numbers(fromBlock, n)
           waits == hot \/ Len(blocks) + Len(data) >= MaxBytes
<1>1. head \in Nat /\ head <= ToBlock + 1 /\ fromBlock \in Nat /\ fromBlock <= head
    BY DEF TypeOK, RequestIsKnown
<1>2. data \in Seq(0..ToBlock) /\ Len(data) = n
    <2>1. n \in Nat /\ ToBlock \in Nat /\ fromBlock + n <= ToBlock + 1
        BY <1>1
    <2> QED
        BY <1>1, <2>1, NumbersType
<1>3. blocks' = blocks \o data /\ Len(blocks') = Len(blocks) + n /\ Len(blocks) \in Nat
    <2>1. blocks' = blocks \o data
        BY DEF Put
    <2>2. blocks \in Seq(0..ToBlock)
        BY DEF TypeOK
    <2> HIDE DEF data
    <2>3. Len(blocks) \in Nat /\ Len(blocks \o data) = Len(blocks) + Len(data)
        BY <1>2, <2>2, ConcatLength
    <2> QED
        BY <1>2, <2>1, <2>3
<1>4. /\ ~Aborted /\ filled' = TRUE /\ hasData' = TRUE /\ released' = FALSE
      /\ flushed' = (flushed \/ waits)
      /\ idleTimer' = (~waits /\ state = "pending")
      /\ ingest' = IF waits THEN "putting" ELSE goesOn
      /\ UNCHANGED <<state, waitTimer>>
    BY DEF Put
<1>5. ~Aborted'
    BY <1>4 DEF Aborted
<1> HIDE DEF data
<1>6. TypeOK'
    <2>1. blocks' \in Seq(0..ToBlock)
        BY <1>2, <1>3, ConcatProperties DEF TypeOK
    <2>2. fromBlock' \in 0..(ToBlock + 1)
        BY <1>1
    <2> QED
        BY <1>4, <2>1, <2>2 DEF TypeOK, readerVars
<1>7. RequestIsKnown'
    BY <1>1 DEF RequestIsKnown
<1>8. EmptyUnlessFilled' /\ EndIsSignalled'
    BY <1>4, <1>5 DEF EmptyUnlessFilled, EndIsSignalled
<1>9. FlushedWhileWaiting' /\ TimerBeforeFlush'
    BY <1>4 DEF FlushedWhileWaiting, TimerBeforeFlush
<1>10. RoomForARead'
    BY <1>2, <1>3, <1>4 DEF RoomForARead
<1>11. EndIsFinal'
    BY <1>4, <1>5 DEF EndIsFinal, readerVars
<1>12. SignalsTellTheBuffer'
    BY <1>4, <1>5, <1>9
       DEF SignalsTellTheBuffer, FlushedWhileWaiting, readerVars
<1>13. BoundedReadAhead'
    <2>1. Len(blocks) < MaxBytes
        BY <1>4 DEF RoomForARead
    <2> QED
        BY <2>1, <1>3 DEF BoundedReadAhead
<1>14. NothingLost'
    <2>1. (received \o blocks) \o data = Numbers(0, fromBlock')
        <3>1. received \o blocks = Numbers(0, fromBlock)
            BY DEF NothingLost
        <3>2. n \in Nat
            OBVIOUS
        <3>3. Numbers(0, fromBlock) \o Numbers(fromBlock, n) = Numbers(0, fromBlock + n)
            BY <1>1, <3>2, NumbersConcatenate
        <3> QED
            BY <3>1, <3>3 DEF data
    <2>2. (received \o blocks) \o data = received \o (blocks \o data)
        <3>1. received \in Seq(0..ToBlock) /\ blocks \in Seq(0..ToBlock)
            BY DEF TypeOK
        <3> QED
            BY ONLY <1>2, <3>1, RunsAssociate
    <2> QED
        BY <1>3, <2>1, <2>2 DEF NothingLost, readerVars
<1> QED
    BY <1>6, <1>7, <1>8, <1>9, <1>10, <1>11, <1>12, <1>13, <1>14
\* The ingest loop or the Portal goes on, and the buffer and its reader stay as they are.
LEMMA LoopKeeps ==
    ASSUME IInv, UNCHANGED <<bufferVars, readerVars>>,
           head' \in 0..(ToBlock + 1), head <= head', fromBlock' = fromBlock,
           breaks' \in 0..MaxBreaks, cutAt' \in 0..(ToBlock + 2), bodyOpen' \in BOOLEAN,
           ingest' \in {"loop", "asking", "reading", "flushing", "polling", "ended"},
           ingest # "putting" \/ Aborted
    PROVE  IInv'
<1> USE DEF IInv, bufferVars, signalVars, timerVars, readerVars
<1>1. TypeOK' /\ RequestIsKnown'
    BY BufferAssumption DEF TypeOK, RequestIsKnown
<1>2. Aborted' <=> Aborted
    BY DEF Aborted
<1>3. FlushedWhileWaiting' /\ TimerBeforeFlush'
    BY DEF FlushedWhileWaiting, TimerBeforeFlush, Aborted
<1>4. EmptyUnlessFilled' /\ EndIsSignalled' /\ RoomForARead' /\ EndIsFinal'
    BY <1>2 DEF EmptyUnlessFilled, EndIsSignalled, RoomForARead, EndIsFinal
<1>5. SignalsTellTheBuffer' /\ BoundedReadAhead' /\ NothingLost'
    BY <1>2 DEF SignalsTellTheBuffer, BoundedReadAhead, NothingLost
<1> QED
    BY <1>1, <1>3, <1>4, <1>5

\* A timer, or the flush of an answer at the head.
LEMMA ReadyKeeps ==
    ASSUME IInv, Ready, UNCHANGED <<portalVars, fromBlock, cutAt, bodyOpen, readerVars>>,
           ingest' = ingest \/ (ingest = "flushing" /\ ingest' = "polling")
    PROVE  IInv'
<1> USE DEF IInv, Ready, portalVars, readerVars
<1>1. TypeOK' /\ RequestIsKnown'
    BY ZenonT(30) DEF TypeOK, RequestIsKnown
<1>2. (Aborted' <=> Aborted) /\ state' # "pending"
    BY DEF Aborted
<1>3. FlushedWhileWaiting' /\ TimerBeforeFlush'
    BY <1>2 DEF FlushedWhileWaiting, TimerBeforeFlush
<1>4. flushed => flushed'
    OBVIOUS
<1>5. EmptyUnlessFilled' /\ EndIsSignalled' /\ RoomForARead' /\ EndIsFinal'
    BY <1>2, <1>4 DEF EmptyUnlessFilled, EndIsSignalled, RoomForARead, EndIsFinal
<1>6. SignalsTellTheBuffer' /\ BoundedReadAhead' /\ NothingLost'
    BY <1>2, <1>4 DEF SignalsTellTheBuffer, BoundedReadAhead, NothingLost
<1> QED
    BY <1>1, <1>3, <1>5, <1>6

\* The end of the stream, from either side.
LEMMA EndBufferKeeps ==
    ASSUME IInv, NEW how \in {"closed", "failed"}, EndBuffer(how),
           UNCHANGED <<head, fromBlock, received>>,
           breaks' \in 0..MaxBreaks, cutAt' \in 0..(ToBlock + 2), bodyOpen' \in BOOLEAN,
           ingest' \in {ingest, "ended"},
           reader' = reader \/ (reader = "busy" /\ reader' = "left")
    PROVE  IInv'
<1> USE DEF IInv, signalVars, timerVars
<1>1. UNCHANGED <<filled, blocks>> /\ Aborted'
    BY DEF EndBuffer, Aborted
<1>2. /\ flushed' = TRUE /\ hasData' = TRUE /\ released' = TRUE
      /\ state' \in {"closed", "failed"}
      /\ waitTimer' \in BOOLEAN /\ idleTimer' = FALSE
    <2>1. CASE Aborted
        BY <2>1 DEF EndBuffer, EndIsSignalled, SignalsTellTheBuffer, Aborted, TypeOK
    <2>2. CASE ~Aborted
        BY <2>2 DEF EndBuffer
    <2> QED
        BY <2>1, <2>2
<1>3. TypeOK' /\ RequestIsKnown'
    BY <1>1, <1>2 DEF TypeOK, RequestIsKnown
<1>4. FlushedWhileWaiting' /\ TimerBeforeFlush' /\ EndIsSignalled' /\ RoomForARead'
    BY <1>1, <1>2
       DEF FlushedWhileWaiting, TimerBeforeFlush, EndIsSignalled, RoomForARead
<1>5. EmptyUnlessFilled' /\ EndIsFinal'
    BY <1>1 DEF EmptyUnlessFilled, EndIsFinal
<1>6. SignalsTellTheBuffer' /\ BoundedReadAhead' /\ NothingLost'
    BY <1>1, <1>2 DEF SignalsTellTheBuffer, BoundedReadAhead, NothingLost
<1> QED
    BY <1>3, <1>4, <1>5, <1>6

\* The writer goes on: what it waited for was taken, or the stream has ended.
LEMMA PutResumesKeeps ==
    ASSUME IInv, PutResumes
    PROVE  IInv'
<1> USE DEF IInv, PutResumes, portalVars, signalVars, readerVars
<1>1. TypeOK' /\ RequestIsKnown'
    BY DEF TypeOK, RequestIsKnown
<1>2. (Aborted' <=> Aborted) /\ ~(flushed /\ state = "pending")
    BY DEF Aborted, FlushedWhileWaiting
<1>3. idleTimer' => ~flushed /\ filled /\ state = "pending"
    BY <1>2 DEF TimerBeforeFlush, SignalsTellTheBuffer
<1>4. FlushedWhileWaiting' /\ TimerBeforeFlush'
    BY <1>2, <1>3 DEF FlushedWhileWaiting, TimerBeforeFlush
<1>5. EmptyUnlessFilled' /\ EndIsSignalled' /\ RoomForARead' /\ EndIsFinal'
    BY <1>2 DEF EmptyUnlessFilled, EndIsSignalled, RoomForARead, EndIsFinal
<1>6. SignalsTellTheBuffer' /\ BoundedReadAhead' /\ NothingLost'
    BY <1>2, <1>3 DEF SignalsTellTheBuffer, BoundedReadAhead, NothingLost
<1> QED
    BY <1>1, <1>4, <1>5, <1>6

LEMMA TakeKeeps ==
    ASSUME IInv, Take
    PROVE  IInv'
<1> USE DEF IInv, Take, portalVars, ingestVars, signalVars
<1>1. TypeOK' /\ RequestIsKnown'
    BY DEF TypeOK, RequestIsKnown
<1>2. Aborted' <=> Aborted
    BY DEF Aborted
<1>3. FlushedWhileWaiting' /\ TimerBeforeFlush'
    BY DEF FlushedWhileWaiting, TimerBeforeFlush
<1>4. EmptyUnlessFilled' /\ EndIsSignalled' /\ RoomForARead' /\ EndIsFinal'
    BY <1>2 DEF EmptyUnlessFilled, EndIsSignalled, RoomForARead, EndIsFinal
<1>5. SignalsTellTheBuffer' /\ BoundedReadAhead' /\ NothingLost'
    BY <1>2 DEF SignalsTellTheBuffer, BoundedReadAhead, NothingLost
<1> QED
    BY <1>1, <1>3, <1>4, <1>5
\* What the reader takes moves from what is buffered to what was received.
LEMMA TakeBufferMoves ==
    ASSUME IInv, TakeBuffer
    PROVE  /\ received' \in Seq(0..ToBlock) /\ blocks' = <<>> /\ Len(blocks') = 0
           /\ received' \o blocks' = received \o blocks
<1>1. received \in Seq(0..ToBlock) /\ blocks \in Seq(0..ToBlock)
    BY DEF IInv, TypeOK
<1>2. received' = received \o blocks /\ blocks' = <<>>
    BY DEF TakeBuffer
<1>3. received' \in Seq(0..ToBlock)
    BY <1>1, <1>2, ConcatLength
<1> QED
    BY <1>2, <1>3, ConcatEmptySeq

LEMMA TakeAndResetKeeps ==
    ASSUME IInv, TakeAndReset
    PROVE  IInv'
<1> USE BufferAssumption DEF IInv, portalVars, ingestVars
<1>1. /\ ~Aborted /\ flushed
      /\ filled' = FALSE /\ waitTimer' = FALSE /\ reader' = "busy" /\ state' = "pending"
      /\ flushed' = FALSE /\ hasData' = FALSE /\ released' = TRUE
      /\ UNCHANGED <<portalVars, ingestVars, idleTimer>>
    BY DEF TakeAndReset, TakeBuffer, Signalled
<1>2. /\ received' \in Seq(0..ToBlock) /\ blocks' = <<>> /\ Len(blocks') = 0
      /\ received' \o blocks' = received \o blocks
    BY TakeBufferMoves DEF TakeAndReset
<1>3. blocks' \in Seq(0..ToBlock)
    BY <1>2
<1>4. TypeOK' /\ RequestIsKnown'
    BY <1>1, <1>2, <1>3 DEF TypeOK, RequestIsKnown
<1>5. ~idleTimer'
    BY <1>1 DEF TimerBeforeFlush
<1>6. ~Aborted'
    BY <1>1 DEF Aborted
<1>7. FlushedWhileWaiting' /\ TimerBeforeFlush' /\ EmptyUnlessFilled' /\ EndIsSignalled'
    BY <1>1, <1>2, <1>5, <1>6
       DEF FlushedWhileWaiting, TimerBeforeFlush, EmptyUnlessFilled, EndIsSignalled
<1>8. RoomForARead' /\ EndIsFinal' /\ BoundedReadAhead'
    BY <1>1, <1>2 DEF RoomForARead, EndIsFinal, BoundedReadAhead
<1>9. SignalsTellTheBuffer' /\ NothingLost'
    BY <1>1, <1>2, <1>5 DEF SignalsTellTheBuffer, NothingLost
<1> QED
    BY <1>4, <1>7, <1>8, <1>9

LEMMA TakeRestKeeps ==
    ASSUME IInv, TakeRest
    PROVE  IInv'
<1> USE BufferAssumption DEF IInv, portalVars, ingestVars, signalVars
<1>1. /\ Aborted /\ filled' = FALSE /\ waitTimer' = FALSE /\ reader' = "busy"
      /\ UNCHANGED <<portalVars, ingestVars, state, signalVars, idleTimer>>
    BY DEF TakeRest, TakeBuffer
<1>2. /\ received' \in Seq(0..ToBlock) /\ blocks' = <<>> /\ Len(blocks') = 0
      /\ received' \o blocks' = received \o blocks
    BY TakeBufferMoves DEF TakeRest
<1>3. blocks' \in Seq(0..ToBlock)
    BY <1>2
<1>4. TypeOK' /\ RequestIsKnown'
    BY <1>1, <1>2, <1>3 DEF TypeOK, RequestIsKnown
<1>5. Aborted' /\ released /\ state # "pending"
    BY <1>1 DEF Aborted, EndIsSignalled
<1>6. ~idleTimer
    BY <1>5 DEF SignalsTellTheBuffer
<1>7. FlushedWhileWaiting' /\ TimerBeforeFlush' /\ EmptyUnlessFilled' /\ EndIsSignalled'
    BY <1>1, <1>2, <1>5, <1>6
       DEF FlushedWhileWaiting, TimerBeforeFlush, EmptyUnlessFilled, EndIsSignalled
<1>8. RoomForARead' /\ EndIsFinal' /\ BoundedReadAhead'
    BY <1>1, <1>2 DEF RoomForARead, EndIsFinal, BoundedReadAhead
<1>9. SignalsTellTheBuffer' /\ NothingLost'
    BY <1>1, <1>2, <1>5, <1>6 DEF SignalsTellTheBuffer, NothingLost
<1> QED
    BY <1>4, <1>7, <1>8, <1>9

\* The reader learns of the end; it never finds "Buffer is empty".
LEMMA TakeEndKeeps ==
    ASSUME IInv, TakeEnd
    PROVE  IInv' /\ Aborted /\ ~filled /\ reader' \in {"done", "failed"}
<1> USE DEF IInv, portalVars, ingestVars, signalVars
<1>1. /\ hasData /\ ~filled /\ waitTimer' = FALSE
      /\ UNCHANGED <<portalVars, ingestVars, state, filled, blocks, signalVars, idleTimer,
                     received>>
    BY DEF TakeEnd, Signalled
<1>2. Aborted
    BY <1>1 DEF SignalsTellTheBuffer
<1>3. reader' \in {"done", "failed"}
    BY <1>2 DEF TakeEnd, Aborted
<1>4. TypeOK' /\ RequestIsKnown'
    BY <1>1, <1>3 DEF TypeOK, RequestIsKnown
<1>5. Aborted'
    BY <1>1, <1>2 DEF Aborted
<1>6. FlushedWhileWaiting' /\ TimerBeforeFlush' /\ EmptyUnlessFilled' /\ EndIsSignalled'
    BY <1>1, <1>2
       DEF FlushedWhileWaiting, TimerBeforeFlush, EmptyUnlessFilled, EndIsSignalled
<1>7. RoomForARead' /\ EndIsFinal' /\ BoundedReadAhead'
    BY <1>1, <1>5 DEF RoomForARead, EndIsFinal, BoundedReadAhead
<1>8. SignalsTellTheBuffer' /\ NothingLost'
    BY <1>1, <1>3, <1>5 DEF SignalsTellTheBuffer, NothingLost
<1> QED
    BY <1>1, <1>2, <1>3, <1>4, <1>6, <1>7, <1>8
\* A body is read: whole, cut after some lines, or inside its first one.
LEMMA ReadChunkPuts ==
    ASSUME IInv, ReadChunk \/ ReadCutChunk
    PROVE  /\ IInv'
           /\ \E n \in 1..MaxChunk, hot \in BOOLEAN, goesOn \in {"reading", "loop"} :
                n <= Available /\ Put(Numbers(fromBlock, n), hot, goesOn)
           /\ UNCHANGED readerVars
<1> USE BufferAssumption DEF IInv, portalVars
<1>1. CASE ReadChunk
    <2>1. PICK n \in 1..MaxChunk, hot \in BOOLEAN :
            /\ n <= Available
            /\ Put(Numbers(fromBlock, n), hot, "reading")
            /\ fromBlock' = fromBlock + n
        BY <1>1 DEF ReadChunk
    <2>2. ingest = "reading" /\ UNCHANGED <<portalVars, cutAt, bodyOpen, readerVars>>
        BY <1>1 DEF ReadChunk
    <2>3. n \in 0..MaxChunk /\ n <= head - fromBlock
        BY <2>1 DEF Available
    <2>4. breaks' \in 0..MaxBreaks /\ cutAt' \in 0..(ToBlock + 2) /\ bodyOpen' \in BOOLEAN
        BY <2>2 DEF TypeOK
    <2>5. IInv'
        BY <2>1, <2>2, <2>3, <2>4, PutKeeps
    <2> QED
        BY <2>1, <2>2, <2>5
<1>2. CASE ReadCutChunk
    <2>1. PICK n \in 1..MaxChunk, hot \in BOOLEAN :
            /\ n <= Available
            /\ Put(Numbers(fromBlock, n), hot, "loop")
            /\ fromBlock' = fromBlock + n
            /\ cutAt' = fromBlock' + 1
        BY <1>2 DEF ReadCutChunk
    <2>2. /\ ingest = "reading" /\ UNCHANGED <<head, readerVars>>
          /\ breaks < MaxBreaks /\ breaks' = breaks + 1 /\ bodyOpen' = FALSE
        BY <1>2 DEF ReadCutChunk
    <2>3. n \in 0..MaxChunk /\ n <= head - fromBlock
        BY <2>1 DEF Available
    <2>4. breaks' \in 0..MaxBreaks /\ cutAt' \in 0..(ToBlock + 2) /\ bodyOpen' \in BOOLEAN
        <3>1. breaks \in Nat /\ fromBlock \in Nat /\ head \in Nat /\ head <= ToBlock + 1
            BY DEF TypeOK
        <3>2. cutAt' = fromBlock + n + 1 /\ n \in Nat
            BY <2>1
        <3>3. breaks' \in 0..MaxBreaks
            BY <2>2, <3>1
        <3>4. cutAt' \in 0..(ToBlock + 2)
            BY <2>3, <3>1, <3>2
        <3>5. bodyOpen' \in BOOLEAN
            BY <2>2
        <3> QED
            BY <3>3, <3>4, <3>5
    <2>5. IInv'
        BY <2>1, <2>2, <2>3, <2>4, PutKeeps
    <2> QED
        BY <2>1, <2>2, <2>5
<1> QED
    BY <1>1, <1>2

LEMMA AnswerAtHeadPuts ==
    ASSUME IInv, AnswerAtHead
    PROVE  IInv' /\ UNCHANGED readerVars /\ Put(<<>>, FALSE, "flushing")
<1> USE BufferAssumption DEF IInv, AnswerAtHead, portalVars
<1>1. Put(Numbers(fromBlock, 0), FALSE, "flushing")
    BY NumbersEmpty
<1>2. fromBlock' = fromBlock + 0 /\ 0 <= head - fromBlock
    BY DEF TypeOK, RequestIsKnown
<1>3. breaks' \in 0..MaxBreaks /\ cutAt' \in 0..(ToBlock + 2) /\ bodyOpen' \in BOOLEAN
    BY DEF TypeOK
<1>4. 0 \in 0..MaxChunk
    OBVIOUS
<1> QED
    BY <1>1, <1>2, <1>3, <1>4, PutKeeps

LEMMA ReadCutLineKeeps ==
    ASSUME IInv, ReadCutLine
    PROVE  IInv'
<1> USE BufferAssumption DEF ReadCutLine
<1>1. breaks' \in 0..MaxBreaks /\ bodyOpen' \in BOOLEAN
    <2>1. breaks \in Nat /\ breaks < MaxBreaks /\ breaks' = breaks + 1
        BY DEF IInv, TypeOK
    <2>2. breaks' \in 0..MaxBreaks
        BY <2>1
    <2> QED
        BY <2>2
<1>2. CASE cutAt = fromBlock + 1
    <2>1. cutAt' \in 0..(ToBlock + 2)
        BY <1>2 DEF IInv, TypeOK
    <2> QED
        BY <1>1, <1>2, <2>1, EndBufferKeeps DEF readerVars
<1>3. CASE cutAt # fromBlock + 1
    <2>1. cutAt' \in 0..(ToBlock + 2)
        BY <1>3 DEF IInv, TypeOK
    <2>2. head' \in 0..(ToBlock + 1) /\ head <= head'
        BY DEF IInv, TypeOK
    <2> QED
        BY <1>1, <1>3, <2>1, <2>2, LoopKeeps
<1> QED
    BY <1>2, <1>3

\* The steps that leave the buffer alone.
LEMMA QuietKeeps ==
    ASSUME IInv,
           \/ NewBlock \/ Ask \/ IngestAborts \/ PollAgain \/ AnswerBlocks \/ BodyEnds
           \/ Flush /\ ~filled
    PROVE  IInv' /\ UNCHANGED <<bufferVars, readerVars>>
<1> USE BufferAssumption
<1>1. /\ head \in 0..(ToBlock + 1) /\ breaks \in 0..MaxBreaks
      /\ cutAt \in 0..(ToBlock + 2) /\ bodyOpen \in BOOLEAN
    BY DEF IInv, TypeOK
<1>2. CASE NewBlock
    <2>1. head' \in 0..(ToBlock + 1) /\ head <= head'
        BY <1>1, <1>2 DEF NewBlock
    <2>2. TypeOK' /\ RequestIsKnown'
        BY <1>2, <2>1
           DEF IInv, TypeOK, RequestIsKnown, NewBlock, ingestVars, bufferVars, readerVars,
               signalVars, timerVars
    <2>3. UNCHANGED <<ingest, fromBlock, bufferVars, readerVars>>
        BY <1>2 DEF NewBlock, ingestVars
    <2> QED
        BY <2>2, <2>3
           DEF IInv, EmptyUnlessFilled, EndIsSignalled, FlushedWhileWaiting, TimerBeforeFlush,
               RoomForARead, EndIsFinal, SignalsTellTheBuffer, BoundedReadAhead, NothingLost,
               Aborted, bufferVars, readerVars, signalVars, timerVars
<1>3. CASE Ask \/ PollAgain \/ AnswerBlocks \/ IngestAborts
    <2>1. /\ UNCHANGED <<portalVars, fromBlock, cutAt, bufferVars, readerVars>>
          /\ bodyOpen' \in BOOLEAN /\ ingest # "putting"
          /\ ingest' \in {"loop", "asking", "reading", "ended"}
        BY <1>1, <1>3 DEF Ask, PollAgain, AnswerBlocks, IngestAborts
    <2> QED
        BY <1>1, <2>1, LoopKeeps DEF portalVars
<1>4. CASE BodyEnds
    <2>1. breaks' \in 0..MaxBreaks
        BY <1>1, <1>4 DEF BodyEnds
    <2>2. /\ UNCHANGED <<head, fromBlock, cutAt, bufferVars, readerVars>>
          /\ bodyOpen' = FALSE /\ ingest = "reading" /\ ingest' = "loop"
        BY <1>4 DEF BodyEnds
    <2>3. bodyOpen' \in BOOLEAN
        BY <2>2
    <2>4. head' \in 0..(ToBlock + 1) /\ head <= head'
        BY <1>1, <2>2
    <2> QED
        BY <1>1, <2>1, <2>2, <2>3, <2>4, LoopKeeps
<1>5. CASE Flush /\ ~filled
    <2>1. /\ UNCHANGED <<portalVars, fromBlock, cutAt, bodyOpen, bufferVars, readerVars>>
          /\ ingest = "flushing" /\ ingest' = "polling"
        BY <1>5 DEF Flush
    <2> QED
        BY <1>1, <2>1, LoopKeeps DEF portalVars
<1>6. UNCHANGED <<bufferVars, readerVars>>
    <2>1. CASE NewBlock
        BY <2>1 DEF NewBlock
    <2>2. CASE Ask \/ PollAgain \/ AnswerBlocks \/ IngestAborts
        BY <2>2 DEF Ask, PollAgain, AnswerBlocks, IngestAborts
    <2>3. CASE BodyEnds
        BY <2>3 DEF BodyEnds
    <2>4. CASE Flush /\ ~filled
        BY <2>4 DEF Flush
    <2> QED
        BY <2>1, <2>2, <2>3, <2>4
<1> QED
    BY <1>2, <1>3, <1>4, <1>5, <1>6

LEMMA NextKeeps ==
    ASSUME IInv, [Next]_vars
    PROVE  IInv'
<1>1. ASSUME NewBlock \/ Ask \/ IngestAborts \/ PollAgain \/ AnswerBlocks \/ BodyEnds
      PROVE  IInv'
    BY <1>1, QuietKeeps
<1>2. CASE Flush
    <2>1. CASE filled
        BY <1>2, <2>1, ReadyKeeps DEF Flush
    <2> QED
        BY <1>2, <2>1, QuietKeeps
<1>3. CASE IdleTimeout \/ WaitTimeout
    BY <1>3, ReadyKeeps DEF IdleTimeout, WaitTimeout, ingestVars
<1>4. CASE IngestEnds
    BY <1>4, EndBufferKeeps DEF IngestEnds, IInv, TypeOK, portalVars, readerVars
<1>5. CASE RequestFails
    BY <1>5, EndBufferKeeps DEF RequestFails, IInv, TypeOK, portalVars, readerVars
<1>6. CASE Leave
    BY <1>6, EndBufferKeeps DEF Leave, IInv, TypeOK, portalVars, ingestVars
<1>7. CASE Stop
    BY <1>7, EndBufferKeeps DEF Stop, IInv, TypeOK, portalVars, ingestVars, readerVars
<1>8. CASE AnswerAtHead
    BY <1>8, AnswerAtHeadPuts
<1>9. CASE ReadChunk \/ ReadCutChunk
    BY <1>9, ReadChunkPuts
<1>10. CASE ReadCutLine
    BY <1>10, ReadCutLineKeeps
<1>11. CASE PutResumes
    BY <1>11, PutResumesKeeps
<1>12. CASE ReaderStep
    BY <1>12, TakeKeeps, TakeAndResetKeeps, TakeRestKeeps, TakeEndKeeps DEF ReaderStep
<1>13. CASE UNCHANGED vars
    BY <1>13
       DEF vars, portalVars, ingestVars, bufferVars, readerVars, signalVars, timerVars,
           IInv, TypeOK, RequestIsKnown, EmptyUnlessFilled, EndIsSignalled,
           FlushedWhileWaiting, TimerBeforeFlush, RoomForARead, EndIsFinal,
           SignalsTellTheBuffer, BoundedReadAhead, NothingLost, Aborted
<1> QED
    BY <1>1, <1>2, <1>3, <1>4, <1>5, <1>6, <1>7, <1>8, <1>9, <1>10, <1>11, <1>12, <1>13
       DEF Next, IngestStep
-----------------------------------------------------------------------------
(* The theorems about states.                                              *)

\* The inductive invariant holds in every state.
THEOREM AlwaysIInv == Spec => []IInv
<1>1. Init => IInv
    BY InitKeeps
<1>2. IInv /\ [Next]_vars => IInv'
    BY NextKeeps
<1> QED
    BY <1>1, <1>2, PTL DEF Spec

\* The types, the client's next request among them, never leave their bounds.
THEOREM TypesHold == Spec => []TypeOK
<1>1. IInv => TypeOK
    BY DEF IInv
<1> QED
    BY <1>1, AlwaysIInv, PTL

\* The signals and the timer only speak of a buffer that is there, and take() never throws
\* "Buffer is empty", in any order of reads, timers, takes and ends (stream-buffer.ts:61-140).
THEOREM SignalsAlwaysTellTheBuffer == Spec => []SignalsTellTheBuffer
<1>1. IInv => SignalsTellTheBuffer
    BY DEF IInv
<1> QED
    BY <1>1, AlwaysIInv, PTL

\* For every buffer size, the client reads ahead less than that and one read of a body.
THEOREM ReadAheadIsBounded == Spec => []BoundedReadAhead
<1>1. IInv => BoundedReadAhead
    BY DEF IInv
<1> QED
    BY <1>1, AlwaysIInv, PTL

\* For every query and however bodies break off, what was received and what is buffered are
\* the blocks up to the next request, each once and in order.
THEOREM NothingIsLost == Spec => []NothingLost
<1>1. IInv => NothingLost
    BY DEF IInv
<1> QED
    BY <1>1, AlwaysIInv, PTL

-----------------------------------------------------------------------------
(* The refinement: each step is one of HandOff or changes nothing of it.   *)

\* A sequence is a strict prefix of itself with something behind it.
LEMMA ConcatIsLonger ==
    ASSUME NEW S, NEW s \in Seq(S), NEW t \in Seq(S), Len(t) > 0
    PROVE  Buffer!IsStrictPrefix(s, s \o t)
<1>1. Len(s) \in Nat /\ Len(t) \in Nat /\ Len(s \o t) = Len(s) + Len(t) /\ s \o t \in Seq(S)
    BY ConcatLength, LenProperties
<1>2. s # s \o t /\ Len(s) <= Len(s \o t)
    BY <1>1
<1>3. SubSeq(s, 1, Len(s)) = s
    BY SubSeqFull
<1>4. SubSeq(s \o t, 1, Len(s)) = s
    <2>1. CASE s = <<>>
        BY <2>1, SubSeqEmpty
    <2>2. CASE s # <<>>
        BY <1>1, <1>3, <2>2, SubSeqOfConcat1, EmptySeq
    <2> QED
        BY <2>1, <2>2
<1> QED
    BY <1>2, <1>3, <1>4 DEF Buffer!IsStrictPrefix, Buffer!IsPrefix
\* put() of blocks is a Send; it only happens while the stream is open.
LEMMA PutSends ==
    ASSUME IInv, NEW n \in 1..MaxChunk, NEW hot \in BOOLEAN, NEW goesOn,
           n <= Available, Put(Numbers(fromBlock, n), hot, goesOn), UNCHANGED readerVars
    PROVE  Buffer!Send
<1> DEFINE data == Numbers(fromBlock, n)
<1>1. data \in Seq(0..ToBlock) /\ Len(data) = n /\ n > 0
    <2>1. n \in Nat /\ fromBlock \in Nat /\ ToBlock \in Nat /\ fromBlock + n <= ToBlock + 1
        BY BufferAssumption DEF IInv, TypeOK, Available
    <2>2. data \in Seq(0..ToBlock) /\ Len(data) = n
        BY <2>1, NumbersType
    <2> QED
        BY <2>2
<1>2. blocks' = blocks \o data /\ ~Aborted
    BY DEF Put
<1> HIDE DEF data
<1>3. received \in Seq(0..ToBlock) /\ blocks \in Seq(0..ToBlock)
    BY DEF IInv, TypeOK
<1>4. received' \o blocks' = (received \o blocks) \o data
    <2>1. received' = received
        BY DEF readerVars
    <2>2. received \o (blocks \o data) = (received \o blocks) \o data
        BY <1>1, <1>3, RunsAssociate
    <2> QED
        BY <2>1, <2>2, <1>2
<1>5. Buffer!IsStrictPrefix(received \o blocks, received' \o blocks')
    BY <1>1, <1>3, <1>4, ConcatLength, ConcatIsLonger
<1>6. reader \notin {"done", "failed"}
    BY <1>2 DEF IInv, EndIsFinal
<1> QED
    BY <1>5, <1>6 DEF Buffer!Send, readerVars

\* take() with a result is a Receive.
LEMMA TakeReceives ==
    ASSUME IInv, TakeAndReset \/ TakeRest
    PROVE  Buffer!Receive
<1>1. TakeBuffer /\ reader = "taking"
    BY DEF TakeAndReset, TakeRest, Signalled
<1>2. received' = received \o blocks /\ reader' = "busy"
    BY <1>1 DEF TakeBuffer
<1>3. received' \o blocks' = received \o blocks
    BY <1>1, TakeBufferMoves
<1> QED
    BY <1>1, <1>2, <1>3 DEF Buffer!Receive

\* take() that ends or throws is an End: there is nothing left that was put.
LEMMA TakeEndEnds ==
    ASSUME IInv, TakeEnd
    PROVE  Buffer!End
<1>1. ~filled /\ reader' \in {"done", "failed"}
    BY TakeEndKeeps
<1>2. UNCHANGED <<blocks, received>>
    BY DEF TakeEnd
<1>3. received \o blocks = received
    BY <1>1, ConcatEmptySeq DEF IInv, TypeOK, EmptyUnlessFilled
<1> QED
    BY <1>1, <1>2, <1>3 DEF Buffer!End

\* A step that moves no block and ends nothing is none of HandOff.
LEMMA OtherStepsStutter ==
    ASSUME UNCHANGED <<blocks, received>>, reader' \in {reader, "taking", "left"},
           reader \in {"done", "failed"} => reader' = reader
    PROVE  UNCHANGED Buffer!handOffVars
BY DEF Buffer!handOffVars

LEMMA EndBufferMovesNothing ==
    ASSUME NEW how, EndBuffer(how)
    PROVE  UNCHANGED blocks
BY DEF EndBuffer

LEMMA StepRefines ==
    ASSUME IInv, [Next]_vars
    PROVE  [Buffer!Next]_(Buffer!handOffVars)
<1>1. CASE NewBlock \/ Ask \/ IngestAborts \/ PollAgain \/ AnswerBlocks \/ BodyEnds
    BY <1>1, QuietKeeps, OtherStepsStutter DEF bufferVars, readerVars
<1>2. CASE Flush \/ IdleTimeout \/ WaitTimeout \/ PutResumes
    BY <1>2, OtherStepsStutter
       DEF Flush, IdleTimeout, WaitTimeout, PutResumes, Ready, bufferVars, readerVars
<1>3. CASE IngestEnds \/ RequestFails \/ Leave \/ Stop
    BY <1>3, OtherStepsStutter, EndBufferMovesNothing
       DEF IngestEnds, RequestFails, Leave, Stop, readerVars
<1>4. CASE ReadCutLine
    BY <1>4, OtherStepsStutter, EndBufferMovesNothing DEF ReadCutLine, bufferVars, readerVars
<1>5. CASE AnswerAtHead
    <2>1. blocks' = blocks \o <<>> /\ UNCHANGED readerVars
        BY <1>5, AnswerAtHeadPuts DEF Put
    <2>2. UNCHANGED blocks
        BY <2>1, ConcatEmptySeq DEF IInv, TypeOK
    <2> QED
        BY <2>1, <2>2, OtherStepsStutter DEF readerVars
<1>6. CASE ReadChunk \/ ReadCutChunk
    BY <1>6, ReadChunkPuts, PutSends DEF Buffer!Next
<1>7. CASE Take
    BY <1>7, OtherStepsStutter DEF Take
<1>8. CASE TakeAndReset \/ TakeRest
    BY <1>8, TakeReceives DEF Buffer!Next
<1>9. CASE TakeEnd
    BY <1>9, TakeEndEnds DEF Buffer!Next
<1>10. CASE UNCHANGED vars
    BY <1>10, OtherStepsStutter DEF vars, bufferVars, readerVars
<1> QED
    BY <1>1, <1>2, <1>3, <1>4, <1>5, <1>6, <1>7, <1>8, <1>9, <1>10
       DEF Next, IngestStep, ReaderStep

\* The buffer, its timers and signals and the ingest loop implement HandOff: data arrives in
\* order and in whole batches, and the end or the error only after the last of it.
THEOREM HandOffIsImplemented == Spec => ImplementsHandOff
<1>1. Init => Buffer!Init
    BY ConcatEmptySeq DEF Init, Buffer!Init
<1>2. IInv /\ [Next]_vars => [Buffer!Next]_(Buffer!handOffVars)
    BY StepRefines
<1> QED
    BY <1>1, <1>2, AlwaysIInv, PTL DEF Spec, ImplementsHandOff, Buffer!Spec
=============================================================================
