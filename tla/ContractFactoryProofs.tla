------------------------ MODULE ContractFactoryProofs ------------------------
(***************************************************************************)
(* A pipe that follows a factory's contracts, for every tree, query, set   *)
(* of contracts and number of reorganisations and crashes: the store       *)
(* follows the committed branch, and the target has the events of the      *)
(* contracts registered on it.                                             *)
(***************************************************************************)
EXTENDS ContractFactory, WellFoundedInduction, TLAPS

-----------------------------------------------------------------------------
(* What one theorem assumes, see the README for what happens otherwise.    *)

\* A branch registers a child once, and not after an event of it.
RegisteredOnceAndFirst ==
    \A b \in Block, c \in Child :
        Registers[b][c] # "no" =>
            \A a \in Path[b] :
                /\ Num[a] >= FromBlock
                /\ Registers[a][c] # "no" \/ c \in Calls[a]
                => a = b

-----------------------------------------------------------------------------
(* The inductive invariant: the source.  The target's cursor and floor     *)
(* play the parts of the sync rows of PostgresTargetProofs.                *)

Comparable(a, b) == a \in Path[b] \/ b \in Path[a]

\* The committed branch, in front of the query as well.
Branch(c) == IF c = None THEN {} ELSE Path[c]

Flying == batch.blocks \cup buffer.blocks

\* The heads that came with an answer that was not taken or not committed yet.
NewHeads == {watermark, buffer.finalized} \ {None}

Heads == (NewHeads \cup {floor}) \ {None}

\* A stopped pipe has its persisted state only.
StoppedIsEmpty ==
    run # "reading" =>
        /\ request = NoRequest /\ buffer = NoData /\ failure = {}
        /\ batch = NoBatch /\ watermark = None
        /\ phase = "idle"

\* Every finalized head the pipe knows is on every branch the Portal may still take.
HeadsAreFinal ==
    /\ final \in Path[tip]
    /\ \A f \in Heads : f \in Path[final]

\* What follows the cursor up to the anchor is flying, in order.
AnchoredFlight ==
    request.anchor # None =>
        /\ request.from = Num[request.anchor] + 1
        /\ request.anchor \in Flying \cup {cursor}
        /\ Flying \subseteq Path[request.anchor]
        /\ Branch(cursor) \subseteq Path[request.anchor]
        /\ \A b \in Flying : Num[b] > NumOf(cursor) /\ Num[b] >= FromBlock
        /\ \A b \in Path[request.anchor] \ Branch(cursor) :
             b \in Selected /\ Num[b] >= FromBlock => b \in Flying
        /\ \A f \in NewHeads : Comparable(request.anchor, f)

\* Nothing flies before the first answer; a cursor that the first request does not continue from
\* lies in front of the query.
UnanchoredFlight ==
    request.anchor = None =>
        /\ request = NoRequest /\ Flying = {} /\ buffer.finalized = None /\ failure = {}
        /\ cursor # None => Num[cursor] + 1 < FromBlock

\* A branch that was left was not final: it has every finalized head the pipe knows.
ForkIsAboveHeads ==
    failure # {} => request.anchor # None /\ \A f \in NewHeads : f \in Path[request.anchor]

\* The watermark is what the flying batch is committed under, and then the floor.
WatermarkGoesAhead ==
    /\ NumOf(floor) <= NumOf(watermark)
    /\ batch.blocks = {} => batch = NoBatch /\ watermark = floor
    /\ batch.blocks # {} => batch.finalized = watermark
    /\ buffer.blocks = {} => buffer = NoData
    /\ \A b \in batch.blocks, c \in buffer.blocks : Num[b] < Num[c]

\* Between the halves of a rollback the request is still the one that failed.
ReadingInv ==
    run = "reading" =>
        /\ request.from >= FromBlock
        /\ WatermarkGoesAhead
        /\ phase = "writing" => batch.blocks # {}
        /\ phase = "rollback" => ForkRaised
        /\ phase # "rollback" => AnchoredFlight /\ UnanchoredFlight /\ ForkIsAboveHeads

\* What the target has persisted.
TargetInv ==
    /\ cursor = None => floor = None /\ chain = {} /\ phase # "rollback"
    /\ \A b \in chain : b \in Branch(cursor) /\ Num[b] >= FromBlock /\ Num[b] > NumOf(floor)
    /\ cursor # None /\ floor # None =>
         /\ Comparable(cursor, floor)
         /\ phase = "rollback" => floor \in Path[cursor]
    /\ cursor # None /\ Num[cursor] + 1 < FromBlock => cursor \in Path[final]

SourceInv == TypeOK /\ StoppedIsEmpty /\ HeadsAreFinal /\ ReadingInv /\ TargetInv

-----------------------------------------------------------------------------
(* The inductive invariant: the contracts and the records.                 *)

Registering(c, blocks) == {a \in blocks : Registers[a][c] # "no"}

FirstRegistering(c, blocks) ==
    IF Registering(c, blocks) = {} THEN None ELSE First(Registering(c, blocks))

\* The blocks whose registrations are in the store.
Known == PathTo(cursor) \cup (IF phase = "writing" THEN Part ELSE {})

\* What the store holds once a rollback is through.
Rows == IF phase = "rollback" THEN Removed(Num[cursor]) ELSE store

StoreIsExact == ~torn => \A c \in Child : Rows[c] = FirstRegistering(c, Known)

\* Whatever was torn, a row is a registration, and of a steady child none is missing.
StoreCovers ==
    \A c \in Child :
        /\ store[c] # None => Registers[store[c]][c] # "no" /\ Num[store[c]] >= FromBlock
        /\ c \in Steady /\ Registering(c, Known) # {} => store[c] # None

StoreInv == StoreIsExact /\ StoreCovers

Sure == IF torn THEN Steady ELSE Child

\* The events of these blocks that a contract of their branch emits.
ExpectedIn(blocks) ==
    {[block |-> p[1], child |-> p[2], created |-> Num[First(Registrations(p[2], p[1]))]] :
        p \in {q \in blocks \X Child : q[2] \in Calls[q[1]] /\ Registrations(q[2], q[1]) # {}}}

DecodedIsExpected == phase = "writing" => Of(Sure, decoded) = Of(Sure, ExpectedIn(Part))

-----------------------------------------------------------------------------
(* Numbers and branches.                                                   *)

\* Every nonempty set of numbers has a least one.
LEMMA LeastNumber ==
    ASSUME NEW S \in SUBSET Nat, S # {}
    PROVE  \E m \in S : \A n \in S : m <= n
<1>1. \E m \in S : \A n \in S : ~(<<n, m>> \in OpToRel(<, Nat))
    BY NatLessThanWellFounded, WFMin
<1>2. PICK m \in S : \A n \in S : ~(<<n, m>> \in OpToRel(<, Nat))
    BY <1>1
<1>3. \A n \in S : ~(n < m)
    BY <1>2 DEF OpToRel
<1> QED
    BY <1>3

LEMMA PathFacts ==
    /\ None \notin Block /\ None \in Cursor /\ Block \subseteq Cursor
    /\ \A b \in Block : Num[b] \in Nat /\ b \in Path[b] /\ Path[b] \subseteq Block
BY ChainAssumption DEF Cursor

LEMMA AncestorFacts ==
    ASSUME NEW h \in Block, NEW b \in Path[h]
    PROVE  /\ b \in Block /\ Num[b] <= Num[h]
           /\ Path[b] \subseteq Path[h]
           /\ Num[b] = Num[h] => b = h
BY ChainAssumption

\* Two blocks of one branch with the same number are the same block.
LEMMA OneBlockPerNumber ==
    ASSUME NEW h \in Block, NEW b \in Path[h], NEW c \in Path[h], Num[b] = Num[c]
    PROVE  b = c
BY ChainAssumption

\* Blocks of a branch below one of its blocks are that block's ancestors.
LEMMA LowerIsAncestor ==
    ASSUME NEW h \in Block, NEW b \in Path[h], NEW c \in Path[h], Num[b] <= Num[c]
    PROVE  b \in Path[c]
BY ChainAssumption

LEMMA CursorFacts ==
    \A c \in Cursor : /\ NumOf(c) \in Int /\ NumOf(c) >= -1
                      /\ c = None <=> NumOf(c) = -1
                      /\ c # None => c \in Block /\ NumOf(c) = Num[c] /\ Branch(c) = Path[c]
BY PathFacts DEF Cursor, NumOf, Branch

\* The blocks of a branch that the query reads.
LEMMA PathToFacts ==
    \A c \in Cursor : /\ PathTo(c) = {b \in Branch(c) : Num[b] >= FromBlock}
                      /\ PathTo(c) \subseteq Block
BY PathFacts DEF Cursor, PathTo, Branch

LEMMA MaxFinalizedFacts ==
    ASSUME NEW f \in Cursor, NEW g \in Cursor
    PROVE  /\ MaxFinalized(f, g) \in {f, g}
           /\ NumOf(MaxFinalized(f, g)) >= NumOf(f)
BY PathFacts DEF MaxFinalized, NumOf, Cursor

\* Two blocks of one branch are comparable.
LEMMA BranchIsComparable ==
    ASSUME NEW h \in Block, NEW a \in Path[h], NEW b \in Path[h]
    PROVE  Comparable(a, b)
<1>1. Num[a] \in Nat /\ Num[b] \in Nat
    BY PathFacts
<1>2. Num[a] <= Num[b] \/ Num[b] <= Num[a]
    BY <1>1
<1> QED
    BY <1>2, LowerIsAncestor DEF Comparable

\* A nonempty set of blocks of one branch has a last block.
LEMMA LastBlock ==
    ASSUME NEW h \in Block, NEW S \in SUBSET Path[h], S # {}
    PROVE  Last(S) \in S /\ \A b \in S : Num[b] <= Num[Last(S)]
<1> DEFINE Depths == {Num[h] - Num[b] : b \in S}
<1>1. \A b \in S : b \in Block /\ Num[b] \in Nat /\ Num[h] \in Nat /\ Num[b] <= Num[h]
    BY ChainAssumption
<1>2. Depths \in SUBSET Nat /\ Depths # {}
    BY <1>1
<1>3. PICK d \in Depths : \A n \in Depths : d <= n
    BY <1>2, LeastNumber
<1>4. PICK last \in S : d = Num[h] - Num[last]
    BY <1>3
<1>5. ASSUME NEW b \in S
      PROVE  Num[b] <= Num[last]
    <2>1. Num[h] - Num[b] \in Depths
        OBVIOUS
    <2>2. d <= Num[h] - Num[b]
        BY <2>1, <1>3
    <2> QED
        BY <2>2, <1>1, <1>4
<1> QED
    BY <1>5 DEF Last

\* A nonempty set of blocks has a first block.
LEMMA FirstBlock ==
    ASSUME NEW S \in SUBSET Block, S # {}
    PROVE  First(S) \in S /\ \A b \in S : Num[First(S)] <= Num[b]
<1> DEFINE Numbers == {Num[b] : b \in S}
<1>1. Numbers \in SUBSET Nat /\ Numbers # {}
    BY PathFacts
<1>2. PICK n \in Numbers : \A m \in Numbers : n <= m
    BY <1>1, LeastNumber
<1>3. PICK first \in S : n = Num[first]
    BY <1>2
<1>4. \A b \in S : Num[first] <= Num[b]
    BY <1>2, <1>3
<1> QED
    BY <1>4 DEF First

\* On a branch there is only one block that can be the first.
LEMMA FirstIs ==
    ASSUME NEW h \in Block, NEW S \in SUBSET Path[h], NEW a \in S, \A b \in S : Num[a] <= Num[b]
    PROVE  First(S) = a
<1>1. S \in SUBSET Block /\ S # {}
    BY PathFacts
<1>2. First(S) \in S /\ Num[First(S)] <= Num[a] /\ Num[a] <= Num[First(S)]
    BY <1>1, FirstBlock
<1>3. Num[First(S)] \in Nat /\ Num[a] \in Nat
    BY <1>1, <1>2, PathFacts
<1>4. Num[First(S)] = Num[a]
    BY <1>2, <1>3
<1> QED
    BY <1>2, <1>4, OneBlockPerNumber

-----------------------------------------------------------------------------
(* The source's part of the invariant: the Portal.                         *)

LEMMA SourceTypes ==
    ASSUME SourceInv
    PROVE  /\ tip \in Block /\ final \in Block
           /\ request.from \in Nat /\ request.anchor \in Cursor
           /\ buffer.blocks \subseteq Block /\ buffer.finalized \in Cursor
           /\ batch.blocks \subseteq Block /\ batch.finalized \in Cursor
           /\ failure \subseteq Block /\ watermark \in Cursor
           /\ cursor \in Cursor /\ floor \in Cursor /\ chain \subseteq Block
           /\ FromBlock \in Nat
BY SourceAssumption DEF SourceInv, TypeOK, SourceTypeOK

LEMMA EmptyTypes ==
    /\ NoRequest \in [from : Nat, anchor : Cursor]
    /\ NoData \in [blocks : SUBSET Block, finalized : Cursor, full : BOOLEAN]
    /\ NoBatch \in [blocks : SUBSET Block, finalized : Cursor]
    /\ None \in Cursor
BY SourceAssumption DEF NoRequest, NoData, NoBatch, Cursor

LEMMA HeadTypes ==
    ASSUME SourceInv
    PROVE  NewHeads \subseteq Heads /\ Heads \subseteq Path[final] /\ Path[final] \subseteq Path[tip]
<1>1. final \in Path[tip] /\ tip \in Block /\ \A f \in Heads : f \in Path[final]
    BY SourceTypes DEF SourceInv, HeadsAreFinal
<1> QED
    BY <1>1, AncestorFacts DEF NewHeads, Heads

\* What the target has persisted stays right while the final block advances.
LEMMA TargetStays ==
    ASSUME SourceInv, UNCHANGED <<targetVars, phase>>, Path[final] \subseteq Path[final']
    PROVE  TargetInv'
<1>1. UNCHANGED <<cursor, floor, chain, phase>>
    BY DEF targetVars
<1> QED
    BY <1>1 DEF SourceInv, TargetInv, Comparable, Branch, NumOf

\* So does what is flying when client and stream do not move.
LEMMA ReadingStays ==
    ASSUME SourceInv, UNCHANGED <<clientVars, streamVars, targetVars, phase>>
    PROVE  ReadingInv' /\ StoppedIsEmpty' /\ Heads' = Heads
<1>1. /\ UNCHANGED <<request, buffer, failure, batch, watermark, run, cursor, floor, phase>>
    BY DEF clientVars, streamVars, targetVars
<1>2. Flying' = Flying /\ NewHeads' = NewHeads /\ Heads' = Heads
    BY <1>1 DEF Flying, NewHeads, Heads
<1>3. AnchoredFlight' = AnchoredFlight
    BY <1>1, <1>2 DEF AnchoredFlight, Comparable, Branch, NumOf
<1>4. UnanchoredFlight' = UnanchoredFlight
    BY <1>1, <1>2 DEF UnanchoredFlight
<1>5. WatermarkGoesAhead' = WatermarkGoesAhead
    BY <1>1 DEF WatermarkGoesAhead, NumOf
<1>6. ForkIsAboveHeads' = ForkIsAboveHeads
    BY <1>1, <1>2 DEF ForkIsAboveHeads
<1>7. ForkRaised' = ForkRaised
    BY <1>1 DEF ForkRaised
<1>8. ReadingInv'
    BY <1>1, <1>3, <1>4, <1>5, <1>6, <1>7 DEF SourceInv, ReadingInv
<1> QED
    BY <1>1, <1>2, <1>8 DEF SourceInv, StoppedIsEmpty

LEMMA PortalKeepsSource ==
    ASSUME SourceInv, NewBlock \/ Reorganise \/ Finalize, Untouched
    PROVE  SourceInv'
<1>1. UNCHANGED <<clientVars, streamVars, crashes, targetVars, factoryVars, torn, phase>>
    BY DEF NewBlock, Reorganise, Finalize, Untouched, factoryVars
<1>2. /\ tip' \in Block /\ final' \in Block /\ reorgs' \in 0..MaxReorgs
      /\ final' \in Path[tip'] /\ final \in Path[final']
    <2>1. /\ tip \in Block /\ final \in Block /\ reorgs \in 0..MaxReorgs /\ final \in Path[tip]
          /\ final \in Path[final]
        BY SourceTypes, PathFacts DEF SourceInv, TypeOK, SourceTypeOK, HeadsAreFinal
    <2>2. CASE NewBlock
        <3>1. tip' \in Block /\ tip \in Path[tip'] /\ final' = final /\ reorgs' = reorgs
            BY <2>2 DEF NewBlock
        <3> QED
            BY <2>1, <3>1, AncestorFacts
    <2>3. CASE Reorganise
        <3>1. /\ tip' \in Block /\ final \in Path[tip'] /\ final' = final
              /\ reorgs' = reorgs + 1 /\ reorgs < MaxReorgs
            BY <2>3 DEF Reorganise
        <3> QED
            BY <2>1, <3>1, SourceAssumption
    <2>4. CASE Finalize
        <3>1. final' \in Path[tip] /\ Num[final'] = Num[final] + 1 /\ tip' = tip /\ reorgs' = reorgs
            BY <2>4 DEF Finalize
        <3>2. final' \in Block /\ Num[final] <= Num[final']
            BY <2>1, <3>1, PathFacts
        <3>3. final \in Path[final']
            BY <2>1, <3>1, <3>2, LowerIsAncestor
        <3> QED
            BY <2>1, <3>1, <3>2, <3>3
    <2> QED
        BY <2>2, <2>3, <2>4
<1>3. TypeOK'
    BY <1>1, <1>2 DEF SourceInv, TypeOK, SourceTypeOK, clientVars, streamVars, targetVars, factoryVars
<1>4. Path[final] \subseteq Path[final']
    BY <1>2, AncestorFacts
<1>5. ReadingInv' /\ StoppedIsEmpty' /\ Heads' = Heads
    BY <1>1, ReadingStays
<1>6. HeadsAreFinal'
    BY <1>2, <1>4, <1>5 DEF SourceInv, HeadsAreFinal
<1> QED
    BY <1>1, <1>3, <1>4, <1>5, <1>6, TargetStays DEF SourceInv

-----------------------------------------------------------------------------
(* The client and the stream.                                              *)

LEMMA ReportedHeadIsFinal ==
    ASSUME SourceInv, NEW head \in ReportedHeads
    PROVE  head \in Cursor /\ (head # None => head \in Path[final])
<1>1. final \in Block /\ final \in Path[final] /\ Path[final] \subseteq Block
    BY SourceTypes, PathFacts
<1>2. head \in {final} \cup Path[final] \cup {None}
    BY DEF ReportedHeads
<1> QED
    BY <1>1, <1>2 DEF Cursor

\* What the Portal adds to the flight.
LEMMA AnswerContinues ==
    ASSUME SourceInv, run = "reading", failure = {},
           request.anchor # None => request.anchor \in Path[tip],
           NEW last \in Path[tip], Num[last] >= request.from
    PROVE  LET blocks == Delivered(request.from, last)
           IN  /\ last \in Block
               /\ last \in blocks /\ blocks \subseteq Path[last]
               /\ Flying \subseteq Path[last] /\ Branch(cursor) \subseteq Path[last]
               /\ \A b \in Flying : Num[b] < request.from
               /\ \A b \in Flying \cup blocks : Num[b] > NumOf(cursor) /\ Num[b] >= FromBlock
               /\ \A b \in Path[last] \ Branch(cursor) :
                    b \in Selected /\ Num[b] >= FromBlock => b \in Flying \cup blocks
<1> DEFINE blocks == Delivered(request.from, last)
<1>1. /\ tip \in Block /\ last \in Block /\ last \in Path[last] /\ Num[last] \in Nat
      /\ request.from \in Nat /\ FromBlock \in Nat /\ request.from >= FromBlock
      /\ cursor \in Cursor /\ request.anchor \in Cursor
      /\ AnchoredFlight /\ UnanchoredFlight
    BY SourceTypes, PathFacts DEF SourceInv, ReadingInv, ForkRaised
<1>2. /\ last \in blocks /\ blocks \subseteq Path[last]
      /\ \A b \in blocks : Num[b] >= request.from
    BY <1>1 DEF Delivered
<1>3. \A b \in Path[last] : b \in Block /\ Num[b] \in Nat
    BY <1>1, PathFacts
<1>4. \A b \in Path[last] : b \in Selected /\ Num[b] >= request.from => b \in blocks
    BY DEF Delivered
<1>5. CASE request.anchor # None
    <2> DEFINE anchor == request.anchor
    <2>1. /\ anchor \in Block /\ anchor \in Path[tip] /\ request.from = Num[anchor] + 1
          /\ Flying \subseteq Path[anchor] /\ Branch(cursor) \subseteq Path[anchor]
          /\ \A b \in Flying : Num[b] > NumOf(cursor) /\ Num[b] >= FromBlock
          /\ \A b \in Path[anchor] \ Branch(cursor) :
               b \in Selected /\ Num[b] >= FromBlock => b \in Flying
        BY <1>1, <1>5, CursorFacts DEF AnchoredFlight
    <2>2. Num[anchor] \in Nat /\ Num[anchor] <= Num[last]
        BY <1>1, <2>1, PathFacts
    <2>3. anchor \in Path[last] /\ Path[anchor] \subseteq Path[last]
        BY <1>1, <2>1, <2>2, LowerIsAncestor, AncestorFacts
    <2>4. \A b \in Path[anchor] : Num[b] \in Nat /\ Num[b] <= Num[anchor]
        BY <2>1, AncestorFacts, PathFacts
    <2>5. \A b \in Flying : Num[b] < request.from
        BY <2>1, <2>2, <2>4
    <2>6. NumOf(cursor) \in Int /\ NumOf(cursor) <= Num[anchor]
        <3>1. CASE cursor = None
            BY <3>1, <2>2 DEF NumOf
        <3>2. CASE cursor # None
            <4>1. cursor \in Branch(cursor) /\ NumOf(cursor) = Num[cursor]
                BY <1>1, <3>2, CursorFacts, PathFacts
            <4> QED
                BY <4>1, <2>1, <2>4
        <3> QED
            BY <3>1, <3>2
    <2>7. \A b \in blocks : Num[b] > NumOf(cursor) /\ Num[b] >= FromBlock
        BY <1>1, <1>2, <1>3, <2>1, <2>2, <2>6
    <2>8. ASSUME NEW b \in Path[last], b \notin Branch(cursor), b \in Selected, Num[b] >= FromBlock
          PROVE  b \in Flying \cup blocks
        <3>1. CASE Num[b] >= request.from
            BY <3>1, <2>8, <1>4
        <3>2. CASE ~(Num[b] >= request.from)
            <4>1. Num[b] <= Num[anchor]
                BY <3>2, <1>3, <2>1, <2>2
            <4>2. b \in Path[anchor]
                BY <4>1, <1>1, <2>3, LowerIsAncestor
            <4> QED
                BY <4>2, <2>8, <2>1
        <3> QED
            BY <3>1, <3>2
    <2> QED
        BY <1>1, <1>2, <2>1, <2>3, <2>5, <2>7, <2>8
<1>6. CASE request.anchor = None
    <2>1. request.from = FromBlock /\ Flying = {} /\ (cursor # None => Num[cursor] + 1 < FromBlock)
        BY <1>1, <1>6 DEF UnanchoredFlight, NoRequest
    <2>2. NumOf(cursor) < FromBlock
        BY <1>1, <2>1, CursorFacts, PathFacts
    <2>3. \A b \in blocks : Num[b] > NumOf(cursor) /\ Num[b] >= FromBlock
        BY <1>1, <1>2, <1>3, <2>1, <2>2, CursorFacts
    <2>4. Branch(cursor) \subseteq Path[last]
        <3>1. CASE cursor = None
            BY <3>1 DEF Branch
        <3>2. CASE cursor # None
            <4>1. cursor \in Path[final] /\ Path[final] \subseteq Path[tip]
                BY <3>2, <2>1, HeadTypes DEF SourceInv, TargetInv
            <4>2. cursor \in Block /\ Num[cursor] \in Nat /\ Branch(cursor) = Path[cursor]
                BY <1>1, <3>2, CursorFacts, PathFacts
            <4>3. Num[cursor] <= Num[last]
                BY <1>1, <2>1, <3>2, <4>2
            <4>4. cursor \in Path[last]
                BY <1>1, <4>1, <4>3, LowerIsAncestor
            <4> QED
                BY <1>1, <4>2, <4>4, AncestorFacts
        <3> QED
            BY <3>1, <3>2
    <2>5. \A b \in Path[last] : b \in Selected /\ Num[b] >= FromBlock => b \in blocks
        BY <1>4, <2>1
    <2> QED
        BY <1>1, <1>2, <2>1, <2>3, <2>4, <2>5
<1> QED
    BY <1>5, <1>6

LEMMA AnswerBlocksKeepsSource ==
    ASSUME SourceInv, AnswerBlocks, Untouched
    PROVE  SourceInv'
<1>1. /\ run = "reading" /\ failure = {}
      /\ request.anchor # None => request.anchor \in Path[tip]
      /\ UNCHANGED <<portalVars, failure, streamVars, crashes, targetVars, factoryVars, torn, phase>>
    BY DEF AnswerBlocks, ReadingAhead, Untouched, factoryVars
<1>2. PICK last \in Path[tip], head \in ReportedHeads :
        /\ Num[last] >= request.from
        /\ LET blocks == Delivered(request.from, last)
           IN  buffer' = [blocks    |-> buffer.blocks \cup blocks,
                          finalized |-> MaxFinalized(buffer.finalized, head),
                          full      |-> /\ head # None
                                        /\ \E b \in blocks : Num[b] > Num[head]]
        /\ request' = [from |-> Num[last] + 1, anchor |-> last]
    BY DEF AnswerBlocks
<1> DEFINE blocks == Delivered(request.from, last)
<1>3. /\ last \in Block
      /\ last \in blocks /\ blocks \subseteq Path[last]
      /\ Flying \subseteq Path[last] /\ Branch(cursor) \subseteq Path[last]
      /\ \A b \in Flying : Num[b] < request.from
      /\ \A b \in Flying \cup blocks : Num[b] > NumOf(cursor) /\ Num[b] >= FromBlock
      /\ \A b \in Path[last] \ Branch(cursor) :
           b \in Selected /\ Num[b] >= FromBlock => b \in Flying \cup blocks
    BY <1>1, <1>2, AnswerContinues
<1>4. \A b \in blocks : b \in Block /\ Num[b] \in Nat /\ Num[b] >= request.from
    BY <1>3, PathFacts DEF Delivered
<1>5. /\ buffer'.blocks = buffer.blocks \cup blocks
      /\ buffer'.finalized = MaxFinalized(buffer.finalized, head)
      /\ request'.from = Num[last] + 1 /\ request'.anchor = last
      /\ request'.from \in Nat /\ Num[last] \in Nat
    <2>1. buffer'.blocks = buffer.blocks \cup blocks
        BY <1>2
    <2>2. buffer'.finalized = MaxFinalized(buffer.finalized, head)
        BY <1>2
    <2> QED
        BY <1>2, <1>3, <2>1, <2>2, PathFacts
<1>6. TargetInv'
    BY <1>1, TargetStays DEF portalVars
<1>7. Flying' = Flying \cup blocks
    BY <1>1, <1>5 DEF Flying, streamVars
<1>8. /\ head \in Cursor /\ (head # None => head \in Path[final])
      /\ buffer.finalized \in Cursor
      /\ MaxFinalized(buffer.finalized, head) \in {buffer.finalized, head}
    BY ReportedHeadIsFinal, SourceTypes, MaxFinalizedFacts
<1>9. \A f \in NewHeads' : f \in NewHeads \/ (f = head /\ f # None)
    BY <1>1, <1>5, <1>8 DEF NewHeads, streamVars
<1>10. \A f \in NewHeads' \cup Heads' : f \in Path[final]
    <2>1. \A f \in Heads' : f \in NewHeads' \/ f \in Heads
        BY <1>1 DEF Heads, NewHeads, targetVars
    <2> QED
        BY <2>1, <1>8, <1>9, HeadTypes
<1>11. TypeOK'
    <2>1. (head # None /\ \E b \in blocks : Num[b] > Num[head]) \in BOOLEAN
        OBVIOUS
    <2>2. buffer.blocks \cup blocks \in SUBSET Block /\ MaxFinalized(buffer.finalized, head) \in Cursor
        BY <1>4, <1>8, SourceTypes
    <2>3. buffer' \in [blocks : SUBSET Block, finalized : Cursor, full : BOOLEAN]
        BY <1>2, <2>1, <2>2
    <2>4. request' \in [from : Nat, anchor : Cursor]
        BY <1>2, <1>3, <1>5 DEF Cursor
    <2> QED
        BY <1>1, <2>3, <2>4
           DEF SourceInv, TypeOK, SourceTypeOK, portalVars, streamVars, targetVars, factoryVars
<1>12. StoppedIsEmpty'
    BY <1>1 DEF StoppedIsEmpty, streamVars
<1>13. HeadsAreFinal'
    BY <1>1, <1>10 DEF SourceInv, HeadsAreFinal, portalVars
<1>14. AnchoredFlight'
    <2>1. cursor' = cursor /\ Branch(cursor)' = Branch(cursor) /\ NumOf(cursor)' = NumOf(cursor)
        BY <1>1 DEF Branch, NumOf, targetVars
    <2>2. \A f \in NewHeads' : Comparable(last, f)
        <3>1. \A f \in NewHeads' : f \in Path[tip]
            BY <1>10, HeadTypes
        <3> QED
            BY <3>1, SourceTypes, BranchIsComparable
    <2> QED
        BY <1>3, <1>5, <1>7, <2>1, <2>2 DEF AnchoredFlight, Comparable
<1>15. UnanchoredFlight'
    BY <1>3, <1>5, PathFacts DEF UnanchoredFlight
<1>16. WatermarkGoesAhead'
    <2>1. batch' = batch /\ watermark' = watermark /\ floor' = floor
        BY <1>1 DEF streamVars, targetVars
    <2>2. \A b \in batch.blocks, c \in buffer.blocks \cup blocks : Num[b] < Num[c]
        <3>1. \A b \in batch.blocks : b \in Flying /\ Num[b] \in Nat
            BY SourceTypes, PathFacts DEF Flying
        <3>2. \A b \in batch.blocks, c \in buffer.blocks : Num[b] < Num[c]
            BY <1>1 DEF SourceInv, ReadingInv, WatermarkGoesAhead
        <3>3. \A b \in batch.blocks, c \in blocks : Num[b] < Num[c]
            BY <1>3, <1>4, <3>1, SourceTypes
        <3> QED
            BY <3>2, <3>3
    <2>3. buffer'.blocks # {}
        BY <1>3, <1>5
    <2> QED
        BY <1>1, <1>5, <2>1, <2>2, <2>3 DEF SourceInv, ReadingInv, WatermarkGoesAhead, NumOf
<1>17. ForkIsAboveHeads'
    BY <1>1 DEF ForkIsAboveHeads
<1>18. request'.from >= FromBlock
    BY <1>3, <1>4, <1>5, SourceTypes, PathFacts
<1>19. phase # "rollback" /\ phase' = phase /\ batch' = batch
    BY <1>1 DEF SourceInv, ReadingInv, ForkRaised, streamVars
<1>20. ReadingInv'
    BY <1>1, <1>14, <1>15, <1>16, <1>17, <1>18, <1>19 DEF SourceInv, ReadingInv
<1> QED
    BY <1>6, <1>11, <1>12, <1>13, <1>20 DEF SourceInv

LEMMA AnswerForkKeepsSource ==
    ASSUME SourceInv, AnswerFork, Untouched
    PROVE  SourceInv'
<1>1. /\ run = "reading" /\ failure = {}
      /\ request.anchor # None /\ request.anchor \notin Path[tip]
      /\ failure' = CanonicalBefore(tip, request.from)
      /\ UNCHANGED <<portalVars, request, buffer, streamVars, crashes, targetVars, factoryVars, torn, phase>>
    BY DEF AnswerFork, ReadingAhead, Untouched, factoryVars
<1>2. /\ TargetInv'
      /\ UNCHANGED <<cursor, floor, phase, batch, watermark, run>>
      /\ phase # "rollback"
    BY <1>1, TargetStays DEF portalVars, targetVars, streamVars, SourceInv, ReadingInv, ForkRaised
<1>3. Flying' = Flying /\ NewHeads' = NewHeads /\ Heads' = Heads
    BY <1>1, <1>2 DEF Flying, NewHeads, Heads
<1>4. failure' \subseteq Block
    BY <1>1, SourceTypes, PathFacts DEF CanonicalBefore
<1>5. TypeOK'
    BY <1>1, <1>4 DEF SourceInv, TypeOK, SourceTypeOK, portalVars, streamVars, targetVars, factoryVars
<1>6. StoppedIsEmpty'
    BY <1>1, <1>2 DEF StoppedIsEmpty
<1>7. HeadsAreFinal'
    BY <1>1, <1>3 DEF SourceInv, HeadsAreFinal, portalVars
<1>8. AnchoredFlight'
    BY <1>1, <1>2, <1>3 DEF SourceInv, ReadingInv, AnchoredFlight, Branch, NumOf, Comparable
<1>9. UnanchoredFlight'
    BY <1>1 DEF UnanchoredFlight
<1>10. WatermarkGoesAhead'
    BY <1>1, <1>2 DEF SourceInv, ReadingInv, WatermarkGoesAhead, NumOf
<1>11. ForkIsAboveHeads'
    <2>1. ASSUME NEW f \in NewHeads
          PROVE  f \in Path[request.anchor]
        <3>1. Comparable(request.anchor, f)
            BY <1>1, <1>2 DEF SourceInv, ReadingInv, AnchoredFlight
        <3>2. f \in Path[tip]
            BY HeadTypes
        <3>3. request.anchor \notin Path[f]
            BY <1>1, <3>2, SourceTypes, AncestorFacts
        <3> QED
            BY <3>1, <3>3 DEF Comparable
    <2> QED
        BY <1>1, <1>3, <2>1 DEF ForkIsAboveHeads
<1>12. ReadingInv'
    BY <1>1, <1>2, <1>8, <1>9, <1>10, <1>11 DEF SourceInv, ReadingInv
<1> QED
    BY <1>2, <1>5, <1>6, <1>7, <1>12 DEF SourceInv

LEMMA TakeBatchKeepsSource ==
    ASSUME SourceInv, TakeBatch, Untouched
    PROVE  SourceInv'
<1>1. /\ run = "reading" /\ batch.blocks = {} /\ buffer.blocks # {}
      /\ watermark' = MaxFinalized(watermark, buffer.finalized)
      /\ batch' = [blocks |-> buffer.blocks, finalized |-> watermark']
      /\ buffer' = NoData
      /\ UNCHANGED <<portalVars, request, failure, run, crashes, targetVars, factoryVars, torn, phase>>
    BY DEF TakeBatch, Untouched, factoryVars
<1>2. TargetInv' /\ UNCHANGED <<cursor, floor, phase>> /\ phase \notin {"writing", "rollback"}
    BY <1>1, TargetStays DEF portalVars, targetVars, SourceInv, ReadingInv, ForkRaised
<1>3. /\ batch'.blocks = buffer.blocks /\ batch'.finalized = watermark'
      /\ buffer'.blocks = {} /\ buffer'.finalized = None
    BY <1>1 DEF NoData
<1>4. /\ watermark' \in {watermark, buffer.finalized} /\ watermark' \in Cursor
      /\ NumOf(watermark)' >= NumOf(watermark)
      /\ NumOf(watermark) \in Int /\ NumOf(watermark)' \in Int /\ NumOf(floor) \in Int
    <2>1. watermark \in Cursor /\ buffer.finalized \in Cursor /\ floor \in Cursor
        BY SourceTypes
    <2>2. watermark' \in {watermark, buffer.finalized} /\ NumOf(watermark') >= NumOf(watermark)
        BY <1>1, <2>1, MaxFinalizedFacts
    <2>3. NumOf(watermark)' = NumOf(watermark')
        BY DEF NumOf
    <2> QED
        BY <2>1, <2>2, <2>3, CursorFacts
<1>5. Flying' = Flying
    BY <1>1, <1>3 DEF Flying
<1>6. NewHeads' \subseteq NewHeads /\ Heads' \subseteq Heads
    <2>1. NewHeads' \subseteq NewHeads
        BY <1>3, <1>4 DEF NewHeads
    <2> QED
        BY <1>2, <2>1 DEF Heads
<1>7. TypeOK'
    <2>1. batch' \in [blocks : SUBSET Block, finalized : Cursor]
        BY <1>1, <1>4, SourceTypes
    <2> QED
        BY <1>1, <1>4, <2>1, EmptyTypes
           DEF SourceInv, TypeOK, SourceTypeOK, portalVars, targetVars, factoryVars
<1>8. StoppedIsEmpty'
    BY <1>1 DEF StoppedIsEmpty
<1>9. HeadsAreFinal'
    BY <1>1, <1>6 DEF SourceInv, HeadsAreFinal, portalVars
<1>10. AnchoredFlight /\ UnanchoredFlight /\ WatermarkGoesAhead /\ ForkIsAboveHeads
    BY <1>1, <1>2 DEF SourceInv, ReadingInv
<1>11. request.anchor # None
    BY <1>1, <1>10 DEF UnanchoredFlight, Flying
<1>12. AnchoredFlight'
    BY <1>1, <1>2, <1>5, <1>6, <1>10 DEF AnchoredFlight, Branch, NumOf, Comparable
<1>13. UnanchoredFlight'
    BY <1>1, <1>11 DEF UnanchoredFlight
<1>14. WatermarkGoesAhead'
    <2>1. NumOf(floor)' <= NumOf(watermark)'
        <3>1. NumOf(floor)' = NumOf(floor)
            BY <1>2 DEF NumOf
        <3> QED
            BY <1>4, <1>10, <3>1 DEF WatermarkGoesAhead
    <2> QED
        BY <1>1, <1>3, <2>1 DEF WatermarkGoesAhead
<1>15. ForkIsAboveHeads'
    BY <1>1, <1>6, <1>10 DEF ForkIsAboveHeads
<1>16. ReadingInv'
    BY <1>1, <1>2, <1>12, <1>13, <1>14, <1>15 DEF SourceInv, ReadingInv
<1> QED
    BY <1>2, <1>7, <1>8, <1>9, <1>16 DEF SourceInv

-----------------------------------------------------------------------------
(* The decoder and the commit.                                             *)

LEMMA ContractTypes ==
    ASSUME SourceInv, batch.blocks # {}
    PROVE  /\ Part \subseteq Block
           /\ \A c \in Child : InBatch(c) \in Cursor /\ store[c] \in Cursor /\ GetContract(c) \in Cursor
<1>1. batch.blocks \in SUBSET Block /\ \A c \in Child : store[c] \in Cursor
    BY SourceTypes DEF SourceInv, TypeOK
<1>2. Part \subseteq Block
    BY <1>1, FirstBlock DEF Part
<1>3. \A c \in Child : InBatch(c) \in Cursor
    BY <1>2, FirstBlock, PathFacts DEF InBatch
<1> QED
    BY <1>1, <1>2, <1>3, PathFacts DEF GetContract

LEMMA TransformKeepsSource ==
    ASSUME SourceInv, Transform
    PROVE  SourceInv'
<1>1. /\ run = "reading" /\ phase = "idle" /\ batch.blocks # {} /\ phase' = "writing"
      /\ UNCHANGED <<sourceVars, targetVars, torn>>
    BY DEF Transform
<1>2. UNCHANGED <<portalVars, clientVars, streamVars, crashes>>
    BY <1>1 DEF sourceVars
<1>3. UNCHANGED <<request, buffer, failure, batch, watermark, run, cursor, floor, chain, final, tip>>
    BY <1>1, <1>2 DEF portalVars, clientVars, streamVars, targetVars
<1>4. store' \in [Child -> Cursor]
    BY <1>1, ContractTypes DEF Transform, Saved
<1>5. decoded' \subseteq Record
    <2> DEFINE calls == {q \in Part \X Child : q[2] \in Calls[q[1]] /\ GetContract(q[2]) # None}
    <2>1. decoded' = {[block |-> p[1], child |-> p[2], created |-> Num[GetContract(p[2])]] : p \in calls}
        BY DEF Transform
    <2>2. ASSUME NEW p \in calls
          PROVE  [block |-> p[1], child |-> p[2], created |-> Num[GetContract(p[2])]] \in Record
        <3>1. p[1] \in Block /\ p[2] \in Child /\ GetContract(p[2]) \in Block
            BY <1>1, ContractTypes DEF Cursor
        <3>2. Num[GetContract(p[2])] \in Nat
            BY <3>1, PathFacts
        <3> QED
            BY <3>1, <3>2 DEF Record
    <2> QED
        BY <2>1, <2>2
<1>6. TypeOK'
    BY <1>1, <1>2, <1>4, <1>5
       DEF SourceInv, TypeOK, SourceTypeOK, portalVars, clientVars, streamVars, targetVars
<1>7. Flying' = Flying /\ NewHeads' = NewHeads /\ Heads' = Heads
    BY <1>3 DEF Flying, NewHeads, Heads
<1>8. HeadsAreFinal' /\ StoppedIsEmpty'
    BY <1>1, <1>3, <1>7 DEF SourceInv, HeadsAreFinal, StoppedIsEmpty
<1>9. TargetInv'
    BY <1>1, <1>3 DEF SourceInv, TargetInv, Comparable, Branch, NumOf
<1>10. ReadingInv'
    <2>1. AnchoredFlight' /\ UnanchoredFlight'
        BY <1>1, <1>3, <1>7 DEF SourceInv, ReadingInv, AnchoredFlight, UnanchoredFlight,
            Comparable, Branch, NumOf
    <2>2. WatermarkGoesAhead' /\ ForkIsAboveHeads'
        BY <1>1, <1>3, <1>7 DEF SourceInv, ReadingInv, WatermarkGoesAhead, ForkIsAboveHeads, NumOf
    <2> QED
        BY <1>1, <1>3, <2>1, <2>2 DEF SourceInv, ReadingInv
<1> QED
    BY <1>6, <1>8, <1>9, <1>10 DEF SourceInv

\* What a commit takes continues the cursor and leaves what comes after it.
LEMMA PartFacts ==
    ASSUME SourceInv, run = "reading", phase # "rollback", batch.blocks # {}
    PROVE  /\ request.anchor \in Block
           /\ Part \subseteq batch.blocks
           /\ Last(Part) \in Part /\ Last(Part) \in Path[request.anchor]
           /\ Part \subseteq Path[Last(Part)]
           /\ \A b \in Flying \ Part : Num[b] > Num[Last(Part)]
           /\ \A b \in Part : Num[b] > NumOf(cursor) /\ Num[b] >= FromBlock
           /\ Branch(cursor) \subseteq Path[Last(Part)]
           /\ \A b \in Path[Last(Part)] \ Branch(cursor) :
                b \in Selected /\ Num[b] >= FromBlock => b \in Part
<1> DEFINE anchor == request.anchor
           current == Last(Part)
           finalized == {b \in batch.blocks : Num[b] <= Num[batch.finalized]}
<1>1. request.anchor # None /\ AnchoredFlight /\ WatermarkGoesAhead
    BY DEF SourceInv, ReadingInv, UnanchoredFlight, Flying
<1>2. /\ anchor \in Block /\ cursor \in Cursor
      /\ Flying \subseteq Path[anchor] /\ Branch(cursor) \subseteq Path[anchor]
      /\ \A b \in Flying : Num[b] > NumOf(cursor) /\ Num[b] >= FromBlock
      /\ \A b \in Path[anchor] \ Branch(cursor) :
           b \in Selected /\ Num[b] >= FromBlock => b \in Flying
    BY <1>1, SourceTypes DEF AnchoredFlight, Cursor
<1>3. /\ batch.blocks \subseteq Path[anchor]
      /\ \A b \in Flying : b \in batch.blocks \/ b \in buffer.blocks
      /\ \A b \in batch.blocks : b \in Flying
    BY <1>2 DEF Flying
<1>4. \A b \in Path[anchor] : b \in Block /\ Num[b] \in Nat
    BY <1>2, PathFacts
<1>5. /\ Part # {} /\ Part \subseteq batch.blocks
      /\ \A b \in batch.blocks \ Part, p \in Part : Num[p] < Num[b]
    <2>1. CASE ~PerBlock \/ batch.finalized = None
        BY <2>1 DEF Part
    <2>2. CASE ~(~PerBlock \/ batch.finalized = None) /\ finalized # {}
        <3>1. Part = finalized
            BY <2>2 DEF Part
        <3>2. Num[batch.finalized] \in Nat
            BY <2>2, SourceTypes, PathFacts DEF Cursor
        <3>3. \A b \in batch.blocks : Num[b] \in Nat
            BY <1>3, <1>4
        <3> QED
            BY <2>2, <3>1, <3>2, <3>3
    <2>3. CASE ~(~PerBlock \/ batch.finalized = None) /\ finalized = {}
        <3>1. Part = {First(batch.blocks)}
            BY <2>3 DEF Part
        <3>2. /\ First(batch.blocks) \in batch.blocks
              /\ \A b \in batch.blocks : Num[First(batch.blocks)] <= Num[b]
            BY SourceTypes, FirstBlock
        <3>3. ASSUME NEW b \in batch.blocks, b # First(batch.blocks)
              PROVE  Num[First(batch.blocks)] < Num[b]
            <4>1. Num[b] # Num[First(batch.blocks)]
                BY <1>2, <1>3, <3>2, <3>3, OneBlockPerNumber
            <4>2. Num[b] \in Nat /\ Num[First(batch.blocks)] \in Nat
                BY <1>3, <1>4, <3>2
            <4> QED
                BY <3>2, <4>1, <4>2
        <3> QED
            BY <3>1, <3>2, <3>3
    <2> QED
        BY <2>1, <2>2, <2>3
<1>6. current \in Part /\ \A b \in Part : Num[b] <= Num[current]
    BY <1>2, <1>3, <1>5, LastBlock
<1> HIDE DEF current
<1>7. current \in Path[anchor] /\ Part \subseteq Path[anchor]
    BY <1>3, <1>5, <1>6
<1>8. \A b \in Part : b \in Path[current]
    BY <1>2, <1>6, <1>7, LowerIsAncestor
<1>9. ASSUME NEW b \in Flying, b \notin Part
      PROVE  Num[b] > Num[current]
    <2>1. CASE b \in batch.blocks
        BY <1>5, <1>6, <1>9, <2>1
    <2>2. CASE b \in buffer.blocks
        BY <1>1, <1>5, <1>6, <2>2 DEF WatermarkGoesAhead
    <2> QED
        BY <1>3, <2>1, <2>2
<1>10. \A b \in Part : Num[b] > NumOf(cursor) /\ Num[b] >= FromBlock
    BY <1>2, <1>3, <1>5
<1>11. Branch(cursor) \subseteq Path[current]
    <2>1. CASE cursor = None
        BY <2>1 DEF Branch
    <2>2. CASE cursor # None
        <3>1. /\ cursor \in Block /\ NumOf(cursor) = Num[cursor] /\ Branch(cursor) = Path[cursor]
              /\ cursor \in Path[anchor]
            BY <1>2, <2>2, CursorFacts, PathFacts
        <3>2. Num[cursor] <= Num[current]
            <4>1. Num[current] > Num[cursor] /\ Num[current] \in Nat /\ Num[cursor] \in Nat
                BY <1>4, <1>6, <1>7, <1>10, <3>1
            <4> QED
                BY <4>1
        <3>3. cursor \in Path[current]
            BY <1>2, <1>7, <3>1, <3>2, LowerIsAncestor
        <3> QED
            BY <1>4, <1>7, <3>1, <3>3, AncestorFacts
    <2> QED
        BY <2>1, <2>2
<1>12. ASSUME NEW b \in Path[current], b \notin Branch(cursor), b \in Selected, Num[b] >= FromBlock
       PROVE  b \in Part
    <2>1. current \in Block /\ b \in Path[anchor] /\ Num[b] <= Num[current]
        BY <1>2, <1>4, <1>7, AncestorFacts
    <2>2. b \in Flying /\ Num[b] \in Nat /\ Num[current] \in Nat
        BY <1>2, <1>4, <1>7, <1>12, <2>1
    <2>3. ~(Num[b] > Num[current])
        BY <2>1, <2>2
    <2> QED
        BY <1>9, <2>2, <2>3
<1> QED
    BY <1>2, <1>5, <1>6, <1>7, <1>8, <1>9, <1>10, <1>11, <1>12 DEF current

\* The state after a commit.
LEMMA CommitFacts ==
    ASSUME SourceInv, Commit
    PROVE  /\ run = "reading" /\ phase = "writing" /\ batch.blocks # {}
           /\ UNCHANGED <<portalVars, clientVars, watermark, run, crashes, store, torn>>
           /\ batch' = IF batch.blocks = Part THEN NoBatch
                       ELSE [batch EXCEPT !.blocks = @ \ Part]
           /\ batch.finalized = watermark
           /\ cursor' = Last(Part) /\ cursor' \in Block /\ floor' = watermark
           /\ chain' = RollbackChain(chain \cup Part, watermark)
           /\ records' = records \cup decoded /\ decoded' = {} /\ phase' = "idle"
<1>1. /\ phase = "writing" /\ HandOver /\ cursor' = Last(Part) /\ floor' = batch.finalized
      /\ chain' = RollbackChain(chain \cup Part, batch.finalized)
      /\ records' = records \cup decoded /\ decoded' = {} /\ phase' = "idle"
      /\ UNCHANGED <<store, torn>>
    BY DEF Commit
<1>2. /\ run = "reading" /\ batch.blocks # {}
      /\ batch' = IF batch.blocks = Part THEN NoBatch ELSE [batch EXCEPT !.blocks = @ \ Part]
      /\ UNCHANGED <<portalVars, clientVars, watermark, run, crashes>>
    BY <1>1 DEF HandOver
<1>3. batch.finalized = watermark
    BY <1>2 DEF SourceInv, ReadingInv, WatermarkGoesAhead
<1>4. Last(Part) \in Block
    BY <1>1, <1>2, PartFacts, SourceTypes
<1> QED
    BY <1>1, <1>2, <1>3, <1>4

LEMMA CommitKeepsSource ==
    ASSUME SourceInv, Commit
    PROVE  SourceInv'
<1> DEFINE current == Last(Part)
<1>1. /\ run = "reading" /\ phase = "writing" /\ batch.blocks # {}
      /\ UNCHANGED <<portalVars, clientVars, watermark, run, crashes, store, torn>>
      /\ batch' = IF batch.blocks = Part THEN NoBatch
                  ELSE [batch EXCEPT !.blocks = @ \ Part]
      /\ cursor' = current /\ current \in Block /\ floor' = watermark
      /\ chain' = RollbackChain(chain \cup Part, watermark)
      /\ records' = records \cup decoded /\ decoded' = {} /\ phase' = "idle"
    BY CommitFacts
<1>2. /\ request.anchor \in Block
      /\ Part \subseteq batch.blocks
      /\ current \in Part /\ current \in Path[request.anchor]
      /\ Part \subseteq Path[current]
      /\ \A b \in Flying \ Part : Num[b] > Num[current]
      /\ \A b \in Part : Num[b] > NumOf(cursor) /\ Num[b] >= FromBlock
      /\ Branch(cursor) \subseteq Path[current]
      /\ \A b \in Path[current] \ Branch(cursor) :
           b \in Selected /\ Num[b] >= FromBlock => b \in Part
    BY <1>1, PartFacts
<1> HIDE DEF current
<1>3. /\ batch.blocks \subseteq Block /\ watermark \in Cursor /\ floor \in Cursor
      /\ cursor \in Cursor /\ Num[current] \in Nat /\ FromBlock \in Nat
      /\ NumOf(watermark) \in Int /\ NumOf(floor) \in Int /\ NumOf(cursor) \in Int
      /\ request.anchor # None
      /\ NumOf(cursor) < Num[current] /\ Num[current] >= FromBlock
    BY <1>1, <1>2, SourceTypes, CursorFacts, PathFacts
<1>4. AnchoredFlight /\ WatermarkGoesAhead /\ ForkIsAboveHeads /\ request.from >= FromBlock
    BY <1>1 DEF SourceInv, ReadingInv
<1>5. batch'.blocks = batch.blocks \ Part /\ (batch'.blocks # {} => batch'.finalized = watermark)
    <2>1. CASE batch.blocks = Part
        BY <1>1, <2>1 DEF NoBatch
    <2>2. CASE batch.blocks # Part
        <3>1. batch' = [batch EXCEPT !.blocks = @ \ Part]
            BY <1>1, <2>2
        <3>2. batch \in [blocks : SUBSET Block, finalized : Cursor]
            BY DEF SourceInv, TypeOK, SourceTypeOK
        <3>3. batch.finalized = watermark
            BY CommitFacts
        <3> QED
            BY <1>1, <3>1, <3>2, <3>3
    <2> QED
        BY <2>1, <2>2
<1>6. \A b \in buffer.blocks : b \notin Part
    BY <1>2, <1>4, SourceTypes, PathFacts DEF WatermarkGoesAhead
<1>7. Flying' = Flying \ Part
    BY <1>1, <1>5, <1>6 DEF Flying, clientVars
<1>8. NewHeads' = NewHeads /\ Heads' \subseteq Heads
    BY <1>1 DEF Heads, NewHeads, clientVars
<1>9. request' = request /\ buffer' = buffer /\ failure' = failure /\ watermark' = watermark
    BY <1>1 DEF clientVars
<1>10. TypeOK'
    <2>1. batch' \in [blocks : SUBSET Block, finalized : Cursor]
        BY <1>1, EmptyTypes DEF SourceInv, TypeOK, SourceTypeOK
    <2>2. chain' \subseteq Block /\ records' \subseteq Record /\ cursor' \in Cursor
        BY <1>1, <1>2, <1>3 DEF SourceInv, TypeOK, RollbackChain, Cursor
    <2> QED
        BY <1>1, <1>3, <2>1, <2>2 DEF SourceInv, TypeOK, SourceTypeOK, portalVars, clientVars
<1>11. StoppedIsEmpty'
    BY <1>1 DEF StoppedIsEmpty
<1>12. HeadsAreFinal'
    BY <1>1, <1>8 DEF SourceInv, HeadsAreFinal, portalVars
<1>13. Branch(cursor)' = Path[current] /\ NumOf(cursor)' = Num[current] /\ NumOf(floor)' = NumOf(watermark)
    BY <1>1, PathFacts DEF Branch, NumOf
<1>14. AnchoredFlight'
    <2>1. /\ request.from = Num[request.anchor] + 1
          /\ request.anchor \in Flying \cup {cursor}
          /\ Flying \subseteq Path[request.anchor]
          /\ \A b \in Flying : Num[b] > NumOf(cursor) /\ Num[b] >= FromBlock
          /\ \A b \in Path[request.anchor] \ Branch(cursor) :
               b \in Selected /\ Num[b] >= FromBlock => b \in Flying
          /\ \A f \in NewHeads : Comparable(request.anchor, f)
        BY <1>3, <1>4 DEF AnchoredFlight
    <2>2. request.anchor \in Flying' \cup {current}
        <3>1. request.anchor # cursor
            <4>1. Num[current] <= Num[request.anchor]
                BY <1>2, AncestorFacts
            <4>2. request.anchor = cursor => NumOf(cursor) = Num[request.anchor]
                BY <1>3 DEF NumOf
            <4> QED
                BY <1>3, <4>1, <4>2
        <3>2. CASE request.anchor \in Part
            <4>1. Num[request.anchor] <= Num[current] /\ Num[current] <= Num[request.anchor]
                BY <1>1, <1>2, <3>2, AncestorFacts
            <4>2. Num[request.anchor] \in Nat
                BY <1>2, PathFacts
            <4>3. Num[current] = Num[request.anchor]
                BY <1>3, <4>1, <4>2
            <4> QED
                BY <1>2, <4>3, AncestorFacts
        <3> QED
            BY <1>7, <2>1, <3>1, <3>2
    <2>3. \A b \in Path[request.anchor] \ Path[current] :
            b \in Selected /\ Num[b] >= FromBlock => b \in Flying'
        BY <1>2, <1>7, <2>1
    <2>4. \A b \in Flying' : Num[b] > Num[current] /\ Num[b] >= FromBlock
        BY <1>2, <1>7, <2>1
    <2>5. Path[current] \subseteq Path[request.anchor]
        BY <1>2, AncestorFacts
    <2> QED
        BY <1>1, <1>7, <1>8, <1>9, <1>13, <2>1, <2>2, <2>3, <2>4, <2>5 DEF AnchoredFlight, Comparable
<1>15. UnanchoredFlight'
    BY <1>3, <1>9 DEF UnanchoredFlight
<1>16. WatermarkGoesAhead'
    <2>1. NumOf(watermark)' = NumOf(watermark)
        BY <1>9 DEF NumOf
    <2>2. batch'.blocks = {} => batch' = NoBatch /\ watermark' = floor'
        <3>1. batch'.blocks = {} => batch.blocks = Part
            BY <1>2, <1>5
        <3> QED
            BY <1>1, <1>9, <3>1
    <2>3. /\ buffer.blocks = {} => buffer = NoData
          /\ \A b \in batch.blocks, c \in buffer.blocks : Num[b] < Num[c]
        BY <1>4 DEF WatermarkGoesAhead
    <2> QED
        BY <1>3, <1>5, <1>9, <1>13, <2>1, <2>2, <2>3 DEF WatermarkGoesAhead
<1>17. ForkIsAboveHeads'
    BY <1>4, <1>8, <1>9 DEF ForkIsAboveHeads
<1>18. ReadingInv'
    BY <1>1, <1>4, <1>9, <1>14, <1>15, <1>16, <1>17 DEF ReadingInv
<1>19. TargetInv'
    <2>1. ASSUME NEW b \in chain'
          PROVE  b \in Path[current] /\ Num[b] >= FromBlock /\ Num[b] > NumOf(watermark)
        <3>1. watermark # None /\ b \in chain \cup Part /\ Num[b] > Num[watermark]
            BY <1>1 DEF RollbackChain
        <3>2. b \in chain => b \in Branch(cursor) /\ Num[b] >= FromBlock
            BY DEF SourceInv, TargetInv
        <3> QED
            BY <1>2, <3>1, <3>2 DEF NumOf
    <2>2. watermark # None => Comparable(current, watermark)
        <3> SUFFICES ASSUME watermark # None
                     PROVE  Comparable(current, watermark)
            OBVIOUS
        <3>1. watermark \in NewHeads /\ watermark \in Block
            BY <1>3 DEF NewHeads, Cursor
        <3>2. Comparable(request.anchor, watermark)
            BY <1>3, <1>4, <3>1 DEF AnchoredFlight
        <3>3. CASE watermark \in Path[request.anchor]
            BY <1>2, <3>3, BranchIsComparable
        <3>4. CASE request.anchor \in Path[watermark]
            BY <1>2, <3>1, <3>4, AncestorFacts DEF Comparable
        <3> QED
            BY <3>2, <3>3, <3>4 DEF Comparable
    <2>3. ~(Num[current] + 1 < FromBlock) /\ current # None
        BY <1>1, <1>3, PathFacts
    <2> QED
        BY <1>1, <1>13, <2>1, <2>2, <2>3 DEF TargetInv, Comparable
<1> QED
    BY <1>10, <1>11, <1>12, <1>18, <1>19 DEF SourceInv

-----------------------------------------------------------------------------
(* The rollback.                                                           *)

\* The search over one record returns a retained block that is not below the floor, or the floor.
LEMMA ResolvedCursor ==
    ASSUME NEW h \in Block, NEW blocks \in SUBSET Path[h], NEW head \in Cursor,
           NEW canonical \in SUBSET Block, NEW a \in Block,
           a = ResolveForkCursor(<<[chain |-> blocks, finalized |-> head]>>, canonical)
    PROVE  (a \in blocks /\ NumOf(head) <= Num[a]) \/ a = head
<1> DEFINE record == [chain |-> blocks, finalized |-> head]
           history == <<record>>
           ends == Ends(history, canonical)
           end == EndOf(history, canonical)
<1>1. /\ DOMAIN history = {1} /\ history[1] = record
      /\ record.chain = blocks /\ record.finalized = head
    OBVIOUS
<1> HIDE DEF record
<1>2. Floor(history) = head
    <2> DEFINE heads == {i \in DOMAIN history : history[i].finalized # None}
               higher(i, j) == LET m == Num[history[i].finalized]
                                   n == Num[history[j].finalized]
                               IN  m > n \/ (m = n /\ i <= j)
    <2>1. CASE head = None
        <3>1. heads = {}
            BY <1>1, <2>1
        <3> QED
            BY <2>1, <3>1 DEF Floor
    <2>2. CASE head # None
        <3>1. heads = {1}
            BY <1>1, <2>2
        <3>2. (CHOOSE i \in heads : \A j \in heads : higher(i, j)) = 1
            BY <3>1
        <3>3. Floor(history) = history[CHOOSE i \in heads : \A j \in heads : higher(i, j)].finalized
            BY <3>1 DEF Floor
        <3> HIDE DEF higher, heads, history
        <3> QED
            BY <1>1, <3>2, <3>3
    <2> QED
        BY <2>1, <2>2
<1>3. \A v \in Visits(history) : v = <<1, v[2]>> /\ v[1] = 1 /\ v[2] \in blocks
    BY <1>1 DEF Visits
<1> HIDE DEF history
<1>4. CASE ends # {} /\ ~BelowFloor(history, end)
    <2> DEFINE visited == {v[2] : v \in ends}
    <2>1. \A v \in ends : v \in Visits(history) /\ v = <<1, v[2]>> /\ v[1] = 1 /\ v[2] \in blocks
        BY <1>3 DEF Ends
    <2>2. visited \in SUBSET Path[h] /\ visited # {}
        BY <1>4, <2>1
    <2>3. Last(visited) \in visited /\ \A b \in visited : Num[b] <= Num[Last(visited)]
        BY <2>2, LastBlock
    <2>4. PICK v \in ends : v[2] = Last(visited)
        BY <2>3
    <2>5. ASSUME NEW w \in ends, w # v
          PROVE  Before(v, w)
        <3>1. /\ v[1] = w[1] /\ v[2] # w[2] /\ Num[w[2]] <= Num[v[2]]
              /\ v[2] \in Path[h] /\ w[2] \in Path[h]
            BY <2>1, <2>2, <2>3, <2>4, <2>5
        <3>2. Num[v[2]] # Num[w[2]] /\ Num[v[2]] \in Nat /\ Num[w[2]] \in Nat
            BY <3>1, OneBlockPerNumber, PathFacts
        <3> QED
            BY <3>1, <3>2 DEF Before
    <2>6. end \in ends
        BY <2>5 DEF EndOf
    <2>7. a = end[2]
        BY <1>4 DEF ResolveForkCursor, history, record
    <2>8. a \in blocks /\ (head = None \/ ~(Num[a] < Num[head]))
        BY <1>2, <1>4, <2>1, <2>6, <2>7 DEF BelowFloor
    <2> QED
        BY <2>8, PathFacts DEF NumOf, Cursor
<1>5. CASE ~(ends # {} /\ ~BelowFloor(history, end))
    <2>1. a = CanonicalFloor(FinalWindow(history, canonical), Floor(history))
        BY <1>5 DEF ResolveForkCursor, history, record
    <2> QED
        BY <1>2, <2>1, PathFacts DEF CanonicalFloor
<1> QED
    BY <1>4, <1>5

\* The state before and after a rollback of the target.
LEMMA ForkFacts ==
    ASSUME SourceInv, ForkRaised, phase = "idle", NEW ancestor \in Block,
           ancestor = ResolveForkCursor(History, failure)
    PROVE  /\ cursor \in Block /\ watermark = floor
           /\ floor # None => floor \in Path[ancestor]
           /\ ancestor \in Path[cursor]
           /\ Num[ancestor] + 1 < FromBlock => ancestor \in Path[final]
<1>1. /\ run = "reading" /\ batch.blocks = {} /\ buffer.blocks = {} /\ failure # {}
    BY DEF ForkRaised
<1>2. /\ cursor \in Cursor /\ floor \in Cursor /\ failure \subseteq Block /\ FromBlock \in Nat
      /\ AnchoredFlight /\ ForkIsAboveHeads /\ WatermarkGoesAhead
    BY <1>1, SourceTypes DEF SourceInv, ReadingInv
<1>3. watermark = floor /\ Flying = {}
    BY <1>1, <1>2 DEF WatermarkGoesAhead, Flying
<1>4. request.anchor # None /\ \A f \in NewHeads : f \in Path[request.anchor]
    BY <1>1, <1>2 DEF ForkIsAboveHeads
<1>5. request.anchor = cursor /\ cursor \in Block
    BY <1>2, <1>3, <1>4 DEF AnchoredFlight, Cursor
<1>6. floor # None => floor \in Path[cursor]
    BY <1>3, <1>4, <1>5 DEF NewHeads
<1>7. /\ History = <<[chain |-> chain, finalized |-> floor]>>
      /\ Branch(cursor) = Path[cursor]
    BY <1>2, <1>4, <1>5, CursorFacts DEF History
<1>8. \A b \in chain : b \in Path[cursor] /\ Num[b] >= FromBlock
    BY <1>7 DEF SourceInv, TargetInv
<1>9. (ancestor \in chain /\ NumOf(floor) <= Num[ancestor]) \/ ancestor = floor
    <2>1. chain \in SUBSET Path[cursor] /\ failure \in SUBSET Block
        BY <1>2, <1>8
    <2>2. ancestor = ResolveForkCursor(<<[chain |-> chain, finalized |-> floor]>>, failure)
        BY <1>7
    <2> QED
        BY ONLY <1>2, <1>5, <2>1, <2>2, ancestor \in Block, ResolvedCursor
<1>10. Num[ancestor] \in Nat
    BY PathFacts
<1>11. CASE ancestor \in chain /\ NumOf(floor) <= Num[ancestor]
    <2>1. ancestor \in Path[cursor] /\ ~(Num[ancestor] + 1 < FromBlock)
        BY <1>2, <1>8, <1>10, <1>11
    <2>2. floor # None => floor \in Path[ancestor]
        BY <1>5, <1>6, <1>11, <2>1, LowerIsAncestor DEF NumOf
    <2> QED
        BY <1>3, <1>5, <2>1, <2>2
<1>12. CASE ancestor = floor
    <2>1. floor # None /\ floor \in Path[final]
        BY <1>12, PathFacts, HeadTypes DEF Heads
    <2> QED
        BY <1>3, <1>5, <1>6, <1>12, <2>1, PathFacts
<1> QED
    BY <1>9, <1>11, <1>12

LEMMA RollBackTargetKeepsSource ==
    ASSUME SourceInv, RollBackTarget
    PROVE  SourceInv'
<1>1. /\ ForkRaised /\ phase = "idle" /\ phase' = "rollback"
      /\ UNCHANGED <<sourceVars, floor, store, decoded, torn>>
    BY DEF RollBackTarget
<1>2. PICK ancestor \in Block :
        /\ ancestor = ResolveForkCursor(History, failure)
        /\ cursor' = ancestor
        /\ chain' = {b \in chain : Num[b] <= Num[ancestor]}
        /\ records' = {r \in records : Num[r.block] <= Num[ancestor]}
    BY DEF RollBackTarget
<1>3. /\ cursor \in Block /\ watermark = floor
      /\ floor # None => floor \in Path[ancestor]
      /\ ancestor \in Path[cursor]
      /\ Num[ancestor] + 1 < FromBlock => ancestor \in Path[final]
    BY <1>1, <1>2, ForkFacts
<1>4. UNCHANGED <<portalVars, clientVars, streamVars, crashes>>
    BY <1>1 DEF sourceVars
<1>5. UNCHANGED <<request, buffer, failure, batch, watermark, run, final, tip>>
    BY <1>4 DEF portalVars, clientVars, streamVars
<1>6. TypeOK'
    <2>1. cursor' \in Cursor /\ chain' \subseteq Block /\ records' \subseteq Record
        BY <1>2, PathFacts DEF SourceInv, TypeOK
    <2> QED
        BY <1>1, <1>4, <2>1 DEF SourceInv, TypeOK, SourceTypeOK, portalVars, clientVars, streamVars
<1>7. Heads' = Heads
    BY <1>1, <1>5 DEF Heads, NewHeads
<1>8. HeadsAreFinal' /\ StoppedIsEmpty'
    BY <1>1, <1>5, <1>7 DEF SourceInv, HeadsAreFinal, StoppedIsEmpty, ForkRaised
<1>9. ForkRaised' /\ WatermarkGoesAhead'
    BY <1>1, <1>5 DEF SourceInv, ReadingInv, ForkRaised, WatermarkGoesAhead, NumOf
<1>10. ReadingInv'
    BY <1>1, <1>5, <1>9 DEF SourceInv, ReadingInv
<1>11. TargetInv'
    <2>1. ancestor # None /\ Branch(cursor) = Path[cursor] /\ Branch(cursor)' = Path[ancestor]
        BY <1>2, <1>3, PathFacts DEF Branch
    <2>2. \A b \in chain : b \in Path[cursor] /\ Num[b] >= FromBlock /\ Num[b] > NumOf(floor)
        BY <2>1 DEF SourceInv, TargetInv
    <2>3. ASSUME NEW b \in chain'
          PROVE  b \in Path[ancestor] /\ Num[b] >= FromBlock /\ Num[b] > NumOf(floor)
        <3>1. b \in chain /\ Num[b] <= Num[ancestor]
            BY <1>2
        <3> QED
            BY <1>3, <2>2, <3>1, LowerIsAncestor
    <2>4. floor # None => Comparable(ancestor, floor)
        BY <1>3 DEF Comparable
    <2> QED
        BY <1>1, <1>2, <1>3, <1>5, <2>1, <2>3, <2>4 DEF TargetInv, Comparable, NumOf
<1> QED
    BY <1>6, <1>8, <1>10, <1>11 DEF SourceInv

-----------------------------------------------------------------------------
(* Starts and stops.                                                       *)

\* A stream that starts behind the cursor.
LEMMA ReadFromCursorKeepsSource ==
    ASSUME SourceInv, ReadFrom(cursor), run' = "reading", watermark' = floor, phase' = "idle",
           UNCHANGED <<portalVars, crashes, targetVars, decoded, torn>>, store' \in [Child -> Cursor]
    PROVE  SourceInv'
<1>1. /\ request' = Continuing(cursor) /\ buffer' = NoData /\ failure' = {} /\ batch' = NoBatch
      /\ UNCHANGED <<cursor, floor, chain, records, final, tip>>
    BY DEF ReadFrom, portalVars, targetVars
<1>2. cursor \in Cursor /\ floor \in Cursor /\ FromBlock \in Nat /\ (cursor # None => Num[cursor] \in Nat)
    BY SourceTypes, PathFacts DEF Cursor
<1>3. request' = IF cursor # None /\ Num[cursor] + 1 >= FromBlock
                 THEN [from |-> Num[cursor] + 1, anchor |-> cursor] ELSE NoRequest
    BY <1>1 DEF Continuing
<1>4. TypeOK'
    <2>1. request' \in [from : Nat, anchor : Cursor]
        BY <1>2, <1>3, EmptyTypes
    <2> QED
        BY <1>1, <1>2, <2>1, EmptyTypes DEF SourceInv, TypeOK, SourceTypeOK, portalVars
<1>5. StoppedIsEmpty'
    BY DEF StoppedIsEmpty
<1>6. Flying' = {} /\ NewHeads' = {floor} \ {None} /\ Heads' \subseteq Heads
    BY <1>1 DEF Flying, NewHeads, NoData, NoBatch, Heads
<1>7. HeadsAreFinal'
    BY <1>1, <1>6 DEF SourceInv, HeadsAreFinal
<1>8. TargetInv'
    BY <1>1 DEF SourceInv, TargetInv, Comparable, Branch, NumOf
<1>9. AnchoredFlight'
    <2> SUFFICES ASSUME request'.anchor # None
                 PROVE  AnchoredFlight'
        BY DEF AnchoredFlight
    <2>1. cursor # None /\ request' = [from |-> Num[cursor] + 1, anchor |-> cursor]
        BY <1>3 DEF NoRequest
    <2>2. request'.from = Num[cursor] + 1 /\ request'.anchor = cursor
        BY <2>1
    <2>3. \A f \in NewHeads' : Comparable(cursor, f)
        BY <1>6, <2>1 DEF SourceInv, TargetInv
    <2>4. Branch(cursor) = Path[cursor] /\ Branch(cursor)' = Path[cursor]
        BY <1>1, <2>1 DEF Branch
    <2> QED
        BY <1>1, <1>6, <2>2, <2>3, <2>4 DEF AnchoredFlight, Comparable
<1>10. UnanchoredFlight'
    <2> SUFFICES ASSUME request'.anchor = None
                 PROVE  UnanchoredFlight'
        BY DEF UnanchoredFlight
    <2>1. request' = NoRequest /\ (cursor # None => Num[cursor] + 1 < FromBlock)
        <3>1. ~(cursor # None /\ Num[cursor] + 1 >= FromBlock)
            BY <1>3
        <3> QED
            BY <1>2, <1>3, <3>1
    <2> QED
        BY <1>1, <1>6, <2>1 DEF UnanchoredFlight, NoData, NoRequest
<1>11. WatermarkGoesAhead'
    <2>1. watermark' = floor' /\ NumOf(floor)' = NumOf(watermark)' /\ NumOf(floor)' \in Int
        BY <1>1, <1>2, CursorFacts DEF NumOf
    <2>2. batch'.blocks = {} /\ buffer'.blocks = {}
        BY <1>1 DEF NoBatch, NoData
    <2> QED
        BY <1>1, <2>1, <2>2 DEF WatermarkGoesAhead
<1>12. ForkIsAboveHeads'
    BY <1>1 DEF ForkIsAboveHeads
<1>13. request'.from >= FromBlock
    <2>1. CASE cursor # None /\ Num[cursor] + 1 >= FromBlock
        BY <1>3, <2>1
    <2>2. CASE ~(cursor # None /\ Num[cursor] + 1 >= FromBlock)
        BY <1>2, <1>3, <2>2 DEF NoRequest
    <2> QED
        BY <2>1, <2>2
<1>14. ReadingInv'
    BY <1>9, <1>10, <1>11, <1>12, <1>13 DEF ReadingInv
<1> QED
    BY <1>4, <1>5, <1>7, <1>8, <1>14 DEF SourceInv

LEMMA StartKeepsSource ==
    ASSUME SourceInv, StartRun
    PROVE  SourceInv'
<1>1. /\ run # "reading" /\ run' = "reading" /\ watermark' = floor /\ ReadFrom(cursor)
      /\ UNCHANGED <<portalVars, crashes, targetVars, store, decoded, phase, torn>>
    BY DEF StartRun, Start, factoryVars
<1>2. phase' = "idle" /\ store' \in [Child -> Cursor]
    BY <1>1 DEF SourceInv, StoppedIsEmpty, TypeOK
<1> QED
    BY <1>1, <1>2, ReadFromCursorKeepsSource

LEMMA RollBackStoreKeepsSource ==
    ASSUME SourceInv, RollBackStore
    PROVE  SourceInv'
<1>1. /\ ForkRaised /\ phase = "rollback" /\ phase' = "idle" /\ ReadFrom(cursor)
      /\ store' = Removed(Num[cursor])
      /\ UNCHANGED <<portalVars, watermark, run, crashes, targetVars, decoded, torn>>
    BY DEF RollBackStore, ResumeAfterFork
<1>2. run = "reading" /\ watermark = floor
    BY <1>1 DEF ForkRaised, SourceInv, ReadingInv, WatermarkGoesAhead
<1>3. store' \in [Child -> Cursor]
    BY <1>1, PathFacts DEF Removed, SourceInv, TypeOK
<1> QED
    BY <1>1, <1>2, <1>3, ReadFromCursorKeepsSource

LEMMA StopKeepsSource ==
    ASSUME SourceInv, Halt \/ CrashAndLoseMemory
    PROVE  SourceInv'
<1>1. /\ run' \in {"halted", "stopped"} /\ crashes' \in 0..MaxCrashes
      /\ request' = NoRequest /\ buffer' = NoData /\ failure' = {}
      /\ batch' = NoBatch /\ watermark' = None /\ phase' = "idle" /\ decoded' \subseteq Record
      /\ UNCHANGED <<portalVars, cursor, floor, chain, records, store>> /\ torn' \in BOOLEAN
    <2>1. crashes \in 0..MaxCrashes /\ MaxCrashes \in Nat /\ decoded \subseteq Record /\ torn \in BOOLEAN
        BY SourceAssumption DEF SourceInv, TypeOK, SourceTypeOK
    <2>2. CASE Halt
        BY <2>1, <2>2 DEF Halt, HaltOnFork, Volatile, targetVars, factoryVars
    <2>3. CASE CrashAndLoseMemory
        <3>1. crashes < MaxCrashes /\ crashes' = crashes + 1
            BY <2>3 DEF CrashAndLoseMemory, Crash
        <3>2. crashes' \in 0..MaxCrashes
            BY <2>1, <3>1
        <3>3. torn' \in BOOLEAN
            BY <2>3 DEF CrashAndLoseMemory
        <3> QED
            BY <2>3, <3>2, <3>3 DEF CrashAndLoseMemory, Crash, Volatile, targetVars
    <2> QED
        BY <2>2, <2>3
<1>2. UNCHANGED <<final, tip>>
    BY <1>1 DEF portalVars
<1>3. TypeOK'
    BY <1>1, EmptyTypes DEF SourceInv, TypeOK, SourceTypeOK, portalVars
<1>4. StoppedIsEmpty' /\ ReadingInv'
    BY <1>1 DEF StoppedIsEmpty, ReadingInv
<1>5. Heads' \subseteq Heads
    BY <1>1 DEF Heads, NewHeads, NoData
<1>6. HeadsAreFinal'
    BY <1>2, <1>5 DEF SourceInv, HeadsAreFinal
<1>7. TargetInv'
    BY <1>1, <1>2 DEF SourceInv, TargetInv, Comparable, Branch, NumOf
<1> QED
    BY <1>3, <1>4, <1>6, <1>7 DEF SourceInv

LEMMA InitSource == Init => SourceInv
<1> SUFFICES ASSUME Init
             PROVE  SourceInv
    OBVIOUS
<1>1. /\ tip \in Block /\ final \in Path[tip] /\ reorgs = 0
      /\ request = NoRequest /\ buffer = NoData /\ failure = {}
      /\ batch = NoBatch /\ watermark = None /\ run = "stopped" /\ crashes = 0
      /\ store = [c \in Child |-> None] /\ decoded = {} /\ phase = "idle"
      /\ cursor = None /\ floor = None /\ chain = {} /\ records = {} /\ torn = FALSE
    BY DEF Init, SourceInit
<1>2. TypeOK
    <2>1. final \in Block /\ 0 \in 0..MaxReorgs /\ 0 \in 0..MaxCrashes
        BY <1>1, PathFacts, SourceAssumption
    <2> QED
        BY <1>1, <2>1, EmptyTypes DEF TypeOK, SourceTypeOK
<1>3. Heads = {}
    BY <1>1 DEF Heads, NewHeads, NoData
<1>4. TargetInv
    BY <1>1 DEF TargetInv
<1> QED
    BY <1>1, <1>2, <1>3, <1>4 DEF SourceInv, StoppedIsEmpty, HeadsAreFinal, ReadingInv

LEMMA NextKeepsSource ==
    ASSUME SourceInv, [Next]_vars
    PROVE  SourceInv'
<1>1. CASE UNCHANGED vars
    <2>1. UNCHANGED <<portalVars, clientVars, streamVars, crashes, targetVars, factoryVars, torn, phase>>
        BY <1>1 DEF vars, sourceVars, factoryVars
    <2>2. UNCHANGED <<final, tip>>
        BY <2>1 DEF portalVars
    <2>3. TypeOK'
        BY <2>1 DEF SourceInv, TypeOK, SourceTypeOK, portalVars, clientVars, streamVars, targetVars, factoryVars
    <2>4. ReadingInv' /\ StoppedIsEmpty' /\ Heads' = Heads
        BY <2>1, ReadingStays
    <2>5. TargetInv'
        BY <2>1, <2>2, TargetStays
    <2>6. HeadsAreFinal'
        BY <2>2, <2>4 DEF SourceInv, HeadsAreFinal
    <2> QED
        BY <2>3, <2>4, <2>5, <2>6 DEF SourceInv
<1>2. CASE (NewBlock \/ Reorganise \/ Finalize) /\ Untouched
    BY <1>2, PortalKeepsSource
<1>3. CASE (AnswerBlocks \/ AnswerFork \/ TakeBatch) /\ Untouched
    BY <1>3, AnswerBlocksKeepsSource, AnswerForkKeepsSource, TakeBatchKeepsSource
<1> QED
    BY <1>1, <1>2, <1>3, TransformKeepsSource, CommitKeepsSource, RollBackTargetKeepsSource,
       RollBackStoreKeepsSource, StartKeepsSource, StopKeepsSource DEF Next, PipeStep

-----------------------------------------------------------------------------
(* Registrations.                                                          *)

\* Only blocks the query selects register or call.
LEMMA RegisteringIsSelected ==
    ASSUME NEW b \in Block, NEW c \in Child
    PROVE  (Registers[b][c] # "no" \/ c \in Calls[b]) => b \in Selected
BY FactoryAssumption

LEMMA FirstRegisteringFacts ==
    ASSUME NEW c, NEW S \in SUBSET Block
    PROVE  /\ FirstRegistering(c, S) = None <=> Registering(c, S) = {}
           /\ FirstRegistering(c, S) # None =>
                /\ FirstRegistering(c, S) \in Registering(c, S)
                /\ \A a \in Registering(c, S) : Num[FirstRegistering(c, S)] <= Num[a]
<1>1. Registering(c, S) \in SUBSET Block
    BY DEF Registering
<1> QED
    BY <1>1, FirstBlock, PathFacts DEF FirstRegistering

LEMMA FirstRegisteringIs ==
    ASSUME NEW c, NEW h \in Block, NEW S \in SUBSET Path[h],
           NEW a \in Registering(c, S), \A b \in Registering(c, S) : Num[a] <= Num[b]
    PROVE  FirstRegistering(c, S) = a
<1>1. Registering(c, S) \in SUBSET Path[h]
    BY DEF Registering
<1>2. First(Registering(c, S)) = a
    BY <1>1, FirstIs
<1> QED
    BY <1>2 DEF FirstRegistering

\* The batch continues what the store knows.
LEMMA BatchContinues ==
    ASSUME SourceInv, run = "reading", phase # "rollback", batch.blocks # {}
    PROVE  /\ Last(Part) \in Block /\ Part \subseteq Block /\ Part \subseteq Path[Last(Part)]
           /\ PathTo(cursor) \subseteq Path[Last(Part)]
           /\ \A a \in PathTo(cursor), b \in Part : Num[a] < Num[b]
           /\ \A b \in PathTo(cursor) \cup Part : Num[b] >= FromBlock
           /\ \A b \in PathTo(Last(Part)) :
                b \in Selected => b \in PathTo(cursor) \cup Part
           /\ PathTo(cursor) \cup Part \subseteq PathTo(Last(Part))
<1> DEFINE last == Last(Part)
<1>1. /\ Part \subseteq Block /\ last \in Part /\ last \in Block
      /\ Part \subseteq Path[last]
      /\ \A b \in Part : Num[b] > NumOf(cursor) /\ Num[b] >= FromBlock
      /\ Branch(cursor) \subseteq Path[last]
      /\ \A b \in Path[last] \ Branch(cursor) : b \in Selected /\ Num[b] >= FromBlock => b \in Part
    BY PartFacts, ContractTypes
<1> HIDE DEF last
<1>2. cursor \in Cursor /\ PathTo(cursor) = {b \in Branch(cursor) : Num[b] >= FromBlock}
    BY SourceTypes, PathToFacts
<1>3. last # None /\ PathTo(last) = {b \in Path[last] : Num[b] >= FromBlock}
    BY <1>1, PathFacts DEF PathTo
<1>4. ASSUME NEW a \in PathTo(cursor), NEW b \in Part
      PROVE  Num[a] < Num[b]
    <2>1. a \in Branch(cursor) /\ cursor # None /\ cursor \in Block
        BY <1>2 DEF Branch, Cursor
    <2>2. a \in Path[cursor] /\ NumOf(cursor) = Num[cursor]
        BY <2>1 DEF Branch, NumOf
    <2>3. a \in Block /\ Num[a] <= Num[cursor]
        BY <2>1, <2>2, AncestorFacts
    <2>4. Num[a] \in Nat /\ Num[b] \in Nat /\ Num[cursor] \in Nat /\ Num[b] > Num[cursor]
        BY <1>1, <2>1, <2>2, <2>3, PathFacts
    <2> QED
        BY <2>3, <2>4
<1> QED
    BY <1>1, <1>2, <1>3, <1>4 DEF last

\* What the batch adds to the store.
LEMMA SavedIsExact ==
    ASSUME SourceInv, run = "reading", phase # "rollback", batch.blocks # {}, NEW c \in Child,
           store[c] = FirstRegistering(c, PathTo(cursor))
    PROVE  Saved[c] = FirstRegistering(c, PathTo(cursor) \cup Part)
<1> DEFINE blocks == PathTo(cursor) \cup Part
<1>1. /\ Last(Part) \in Block /\ Part \in SUBSET Block
      /\ blocks \in SUBSET Path[Last(Part)] /\ PathTo(cursor) \in SUBSET Block
      /\ \A a \in PathTo(cursor), b \in Part : Num[a] < Num[b]
    BY BatchContinues, SourceTypes, PathToFacts
<1>2. Saved[c] = IF store[c] # None THEN store[c] ELSE InBatch(c)
    BY DEF Saved
<1>3. Registering(c, blocks) = Registering(c, PathTo(cursor)) \cup Registering(c, Part)
    BY DEF Registering
<1>4. CASE store[c] # None
    <2>1. /\ store[c] \in Registering(c, PathTo(cursor))
          /\ \A a \in Registering(c, PathTo(cursor)) : Num[store[c]] <= Num[a]
        BY <1>1, <1>4, FirstRegisteringFacts
    <2>2. \A a \in Registering(c, Part) : Num[store[c]] <= Num[a]
        <3>1. \A a \in Registering(c, Part) : Num[store[c]] < Num[a] /\ Num[a] \in Nat /\ Num[store[c]] \in Nat
            BY <1>1, <2>1, PathFacts DEF Registering
        <3> QED
            BY <3>1
    <2>3. store[c] \in Registering(c, blocks) /\ \A a \in Registering(c, blocks) : Num[store[c]] <= Num[a]
        BY <1>3, <2>1, <2>2
    <2> HIDE DEF blocks
    <2>4. FirstRegistering(c, blocks) = store[c]
        BY <1>1, <2>3, FirstRegisteringIs
    <2> QED
        BY <1>2, <1>4, <2>4 DEF blocks
<1>5. CASE store[c] = None
    <2>1. Registering(c, PathTo(cursor)) = {}
        BY <1>1, <1>5, FirstRegisteringFacts
    <2>2. InBatch(c) = FirstRegistering(c, Part)
        BY DEF InBatch, FirstRegistering, Registering
    <2>3. Registering(c, blocks) = Registering(c, Part)
        BY <1>3, <2>1
    <2> QED
        BY <1>2, <1>5, <2>2, <2>3 DEF FirstRegistering
<1> QED
    BY <1>4, <1>5

\* What a rollback takes from the store.
LEMMA RemovedIsExact ==
    ASSUME NEW h \in Block, NEW a \in Path[h], NEW c \in Child,
           store[c] = FirstRegistering(c, PathTo(h))
    PROVE  Removed(Num[a])[c] = FirstRegistering(c, PathTo(a))
<1> DEFINE row == store[c]
<1>1. /\ a \in Block /\ h # None /\ a # None /\ Num[a] \in Nat /\ Path[a] \subseteq Path[h]
      /\ PathTo(h) = {b \in Path[h] : Num[b] >= FromBlock}
      /\ PathTo(a) = {b \in Path[a] : Num[b] >= FromBlock}
    BY PathFacts, AncestorFacts DEF PathTo
<1>2. /\ PathTo(h) \in SUBSET Block /\ PathTo(a) \in SUBSET Path[a] /\ PathTo(a) \subseteq PathTo(h)
      /\ \A b \in PathTo(h) : Num[b] <= Num[a] => b \in PathTo(a)
      /\ \A b \in PathTo(a) : Num[b] <= Num[a] /\ Num[b] \in Nat
    BY <1>1, PathFacts, LowerIsAncestor, AncestorFacts
<1>3. Removed(Num[a])[c] = IF row # None /\ Num[row] > Num[a] THEN None ELSE row
    BY DEF Removed
<1>4. Registering(c, PathTo(a)) \subseteq Registering(c, PathTo(h))
    BY <1>2 DEF Registering
<1>5. CASE row = None
    <2>1. Registering(c, PathTo(a)) = {}
        BY <1>2, <1>4, <1>5, FirstRegisteringFacts
    <2> QED
        BY <1>3, <1>5, <2>1 DEF FirstRegistering
<1>6. CASE row # None
    <2>1. row \in Registering(c, PathTo(h)) /\ \A b \in Registering(c, PathTo(h)) : Num[row] <= Num[b]
        BY <1>2, <1>6, FirstRegisteringFacts
    <2>2. row \in PathTo(h) /\ Num[row] \in Nat
        BY <1>2, <2>1, PathFacts DEF Registering
    <2>3. CASE Num[row] > Num[a]
        <3>1. \A b \in Registering(c, PathTo(a)) : Num[row] <= Num[b] /\ Num[b] <= Num[a] /\ Num[b] \in Nat
            BY <1>2, <1>4, <2>1 DEF Registering
        <3>2. Registering(c, PathTo(a)) = {}
            BY <1>1, <2>2, <2>3, <3>1
        <3> QED
            BY <1>3, <1>6, <2>3, <3>2 DEF FirstRegistering
    <2>4. CASE ~(Num[row] > Num[a])
        <3>1. Num[row] <= Num[a]
            BY <1>1, <2>2, <2>4
        <3>2. row \in Registering(c, PathTo(a))
            BY <1>2, <2>1, <2>2, <3>1 DEF Registering
        <3>3. \A b \in Registering(c, PathTo(a)) : Num[row] <= Num[b]
            BY <1>4, <2>1
        <3>4. a \in Block /\ PathTo(a) \in SUBSET Path[a]
            BY <1>1, <1>2
        <3> HIDE DEF row
        <3>5. FirstRegistering(c, PathTo(a)) = row
            BY ONLY <3>2, <3>3, <3>4, FirstRegisteringIs
        <3> QED
            BY <1>3, <2>4, <3>5 DEF row
    <2> QED
        BY <2>3, <2>4
<1> QED
    BY <1>5, <1>6

-----------------------------------------------------------------------------
(* The steps: the store's part of the invariant.                           *)

\* A step that leaves store and target alone, and the batch that is being written.
LEMMA KnownStays ==
    ASSUME UNCHANGED <<cursor, phase>>, phase = "writing" => UNCHANGED batch
    PROVE  Known' = Known
<1>1. PathTo(cursor)' = PathTo(cursor)
    BY DEF PathTo
<1>2. phase = "writing" => Part' = Part
    BY DEF Part
<1> QED
    BY <1>1, <1>2 DEF Known

LEMMA StoreStays ==
    ASSUME StoreInv, UNCHANGED <<cursor, store, phase, torn>>, phase = "writing" => UNCHANGED batch
    PROVE  StoreInv'
<1>1. Known' = Known
    BY KnownStays
<1>2. Rows' = Rows
    BY DEF Rows, Removed
<1>3. StoreIsExact'
    BY <1>1, <1>2 DEF StoreInv, StoreIsExact, FirstRegistering, Registering
<1>4. StoreCovers'
    BY <1>1 DEF StoreInv, StoreCovers, Registering
<1> QED
    BY <1>3, <1>4 DEF StoreInv

LEMMA TransformKeepsStore ==
    ASSUME SourceInv, StoreInv, Transform
    PROVE  StoreInv'
<1>1. /\ run = "reading" /\ phase = "idle" /\ batch.blocks # {} /\ phase' = "writing"
      /\ store' = Saved /\ UNCHANGED <<cursor, batch, torn>>
    BY DEF Transform, sourceVars, streamVars, targetVars
<1>2. /\ Known = PathTo(cursor) /\ Rows = store
      /\ Known' = PathTo(cursor) \cup Part /\ Rows' = Saved
    <2>1. Part' = Part /\ PathTo(cursor)' = PathTo(cursor)
        BY <1>1 DEF Part, PathTo
    <2> QED
        BY <1>1, <2>1 DEF Known, Rows
<1>3. StoreIsExact'
    <2> SUFFICES ASSUME ~torn, NEW c \in Child
                 PROVE  Saved[c] = FirstRegistering(c, PathTo(cursor) \cup Part)
        BY <1>1, <1>2 DEF StoreIsExact
    <2>1. store[c] = FirstRegistering(c, PathTo(cursor))
        BY <1>2 DEF StoreInv, StoreIsExact
    <2> QED
        BY <1>1, <2>1, SavedIsExact
<1>4. StoreCovers'
    <2> SUFFICES ASSUME NEW c \in Child
                 PROVE  /\ Saved[c] # None => Registers[Saved[c]][c] # "no" /\ Num[Saved[c]] >= FromBlock
                        /\ c \in Steady /\ Registering(c, PathTo(cursor) \cup Part) # {} => Saved[c] # None
        BY <1>1, <1>2 DEF StoreCovers
    <2>1. Saved[c] = IF store[c] # None THEN store[c] ELSE InBatch(c)
        BY DEF Saved
    <2>2. /\ store[c] # None => Registers[store[c]][c] # "no" /\ Num[store[c]] >= FromBlock
          /\ c \in Steady /\ Registering(c, PathTo(cursor)) # {} => store[c] # None
        BY <1>2 DEF StoreInv, StoreCovers
    <2>3. /\ InBatch(c) = FirstRegistering(c, Part) /\ Part \in SUBSET Block
          /\ \A b \in Part : Num[b] >= FromBlock
        BY <1>1, BatchContinues DEF InBatch, FirstRegistering, Registering
    <2>4. /\ InBatch(c) # None => Registers[InBatch(c)][c] # "no" /\ Num[InBatch(c)] >= FromBlock
          /\ Registering(c, Part) # {} => InBatch(c) # None
        BY <2>3, FirstRegisteringFacts DEF Registering
    <2>5. Registering(c, PathTo(cursor) \cup Part) = Registering(c, PathTo(cursor)) \cup Registering(c, Part)
        BY DEF Registering
    <2> QED
        BY <2>1, <2>2, <2>4, <2>5
<1> QED
    BY <1>3, <1>4 DEF StoreInv

\* A commit makes the batch part of the branch.
LEMMA CommitRegisters ==
    ASSUME SourceInv, Commit
    PROVE  /\ PathTo(cursor)' = PathTo(Last(Part))
           /\ \A c \in Child : Registering(c, PathTo(Last(Part))) = Registering(c, PathTo(cursor) \cup Part)
<1>1. /\ run = "reading" /\ phase = "writing" /\ batch.blocks # {}
      /\ cursor' = Last(Part) /\ Last(Part) \in Block
    BY CommitFacts
<1>2. /\ \A b \in PathTo(Last(Part)) : b \in Selected => b \in PathTo(cursor) \cup Part
      /\ PathTo(cursor) \cup Part \subseteq PathTo(Last(Part))
      /\ PathTo(Last(Part)) \subseteq Block
    BY <1>1, BatchContinues, PathFacts, PathToFacts
<1>3. PathTo(cursor)' = PathTo(Last(Part))
    BY <1>1 DEF PathTo
<1>4. ASSUME NEW c \in Child
      PROVE  Registering(c, PathTo(Last(Part))) = Registering(c, PathTo(cursor) \cup Part)
    <2>1. \A b \in PathTo(Last(Part)) : Registers[b][c] # "no" => b \in PathTo(cursor) \cup Part
        BY <1>2, RegisteringIsSelected
    <2> QED
        BY <1>2, <2>1 DEF Registering
<1> QED
    BY <1>3, <1>4

LEMMA CommitKeepsStore ==
    ASSUME SourceInv, StoreInv, Commit
    PROVE  StoreInv'
<1>1. phase = "writing" /\ phase' = "idle" /\ UNCHANGED <<store, torn>>
    BY CommitFacts
<1>2. \A c \in Child : Registering(c, Known') = Registering(c, Known)
    BY <1>1, CommitRegisters DEF Known
<1>3. \A c \in Child : FirstRegistering(c, Known') = FirstRegistering(c, Known)
    BY <1>2 DEF FirstRegistering
<1>4. Rows = store /\ Rows' = store
    BY <1>1 DEF Rows
<1>5. StoreIsExact'
    BY <1>1, <1>3, <1>4 DEF StoreInv, StoreIsExact
<1>6. StoreCovers'
    BY <1>1, <1>2 DEF StoreInv, StoreCovers
<1> QED
    BY <1>5, <1>6 DEF StoreInv

LEMMA RollBackTargetKeepsStore ==
    ASSUME SourceInv, StoreInv, RollBackTarget
    PROVE  StoreInv'
<1>1. /\ ForkRaised /\ phase = "idle" /\ phase' = "rollback"
      /\ UNCHANGED <<store, torn>>
    BY DEF RollBackTarget
<1>2. PICK ancestor \in Block : ancestor = ResolveForkCursor(History, failure) /\ cursor' = ancestor
    BY DEF RollBackTarget
<1>3. cursor \in Block /\ ancestor \in Path[cursor]
    BY <1>1, <1>2, ForkFacts
<1>4. /\ Known = PathTo(cursor) /\ Rows = store
      /\ Known' = PathTo(ancestor) /\ Rows' = Removed(Num[ancestor])
    BY <1>1, <1>2 DEF Known, Rows, PathTo, Removed
<1>5. StoreIsExact'
    <2> SUFFICES ASSUME ~torn, NEW c \in Child
                 PROVE  Removed(Num[ancestor])[c] = FirstRegistering(c, PathTo(ancestor))
        BY <1>1, <1>4 DEF StoreIsExact
    <2>1. store[c] = FirstRegistering(c, PathTo(cursor))
        BY <1>4 DEF StoreInv, StoreIsExact
    <2> QED
        BY <1>3, <2>1, RemovedIsExact
<1>6. PathTo(ancestor) \subseteq PathTo(cursor)
    BY <1>3, AncestorFacts, PathFacts DEF PathTo
<1>7. StoreCovers'
    BY <1>1, <1>4, <1>6 DEF StoreInv, StoreCovers, Registering
<1> QED
    BY <1>5, <1>7 DEF StoreInv

LEMMA RollBackStoreKeepsStore ==
    ASSUME SourceInv, StoreInv, RollBackStore
    PROVE  StoreInv'
<1>1. /\ phase = "rollback" /\ phase' = "idle" /\ store' = Removed(Num[cursor])
      /\ UNCHANGED <<cursor, torn>>
    BY DEF RollBackStore, targetVars
<1>2. cursor \in Block
    BY <1>1, SourceTypes DEF SourceInv, TargetInv, Cursor
<1>3. Known = PathTo(cursor) /\ Known' = PathTo(cursor) /\ Rows = Removed(Num[cursor]) /\ Rows' = store'
    BY <1>1 DEF Known, Rows, PathTo
<1>4. StoreIsExact'
    BY <1>1, <1>3 DEF StoreInv, StoreIsExact
<1>5. StoreCovers'
    <2> SUFFICES ASSUME NEW c \in Child
                 PROVE  /\ store'[c] # None => Registers[store'[c]][c] # "no" /\ Num[store'[c]] >= FromBlock
                        /\ c \in Steady /\ Registering(c, PathTo(cursor)) # {} => store'[c] # None
        BY <1>3 DEF StoreCovers
    <2>1. store'[c] = IF store[c] # None /\ Num[store[c]] > Num[cursor] THEN None ELSE store[c]
        BY <1>1 DEF Removed
    <2>2. /\ store[c] # None => Registers[store[c]][c] # "no" /\ Num[store[c]] >= FromBlock
          /\ c \in Steady /\ Registering(c, PathTo(cursor)) # {} => store[c] # None
        BY <1>3 DEF StoreInv, StoreCovers
    <2>3. ASSUME c \in Steady, NEW a \in Registering(c, PathTo(cursor))
          PROVE  store'[c] # None
        <3>1. a \in Path[cursor] /\ Registers[a][c] # "no"
            BY <1>2, PathFacts DEF Registering, PathTo
        <3>2. a \in Block /\ Num[a] <= Num[cursor] /\ Num[a] \in Nat /\ Num[cursor] \in Nat
            BY <1>2, <3>1, AncestorFacts, PathFacts
        <3>3. store[c] # None /\ store[c] \in Block /\ Registers[store[c]][c] # "no"
            BY <2>2, <2>3 DEF SourceInv, TypeOK, Cursor
        <3>4. Num[store[c]] = Num[a]
            BY <2>3, <3>1, <3>2, <3>3 DEF Steady
        <3>5. ~(Num[store[c]] > Num[cursor])
            BY <3>2, <3>4
        <3> QED
            BY <2>1, <3>3, <3>5
    <2> QED
        BY <2>1, <2>2, <2>3
<1> QED
    BY <1>4, <1>5 DEF StoreInv

LEMMA CrashKeepsStore ==
    ASSUME SourceInv, StoreInv, CrashAndLoseMemory
    PROVE  StoreInv'
<1>1. /\ torn' = (torn \/ phase # "idle") /\ phase' = "idle"
      /\ UNCHANGED <<cursor, store>>
    BY DEF CrashAndLoseMemory, targetVars
<1>2. Known' = PathTo(cursor) /\ PathTo(cursor) \subseteq Known
    BY <1>1 DEF Known, PathTo
<1>3. StoreIsExact'
    <2> SUFFICES ASSUME ~torn'
                 PROVE  StoreIsExact'
        BY DEF StoreIsExact
    <2>1. ~torn /\ phase = "idle"
        BY <1>1
    <2>2. Known' = Known /\ Rows' = Rows
        BY <1>1, <1>2, <2>1 DEF Known, Rows
    <2> QED
        BY <2>1, <2>2 DEF StoreInv, StoreIsExact
<1>4. StoreCovers'
    BY <1>1, <1>2 DEF StoreInv, StoreCovers, Registering
<1> QED
    BY <1>3, <1>4 DEF StoreInv

\* The steps of Portal, client and stream do not touch a batch that is being written.
LEMMA SourceStepsLeaveTheBatch ==
    ASSUME SourceInv, NewBlock \/ Reorganise \/ Finalize \/ AnswerBlocks \/ AnswerFork \/ TakeBatch
    PROVE  phase = "writing" => UNCHANGED batch
<1>1. CASE TakeBatch
    BY <1>1 DEF TakeBatch, SourceInv, ReadingInv
<1>2. CASE NewBlock \/ Reorganise \/ Finalize \/ AnswerBlocks \/ AnswerFork
    BY <1>2 DEF NewBlock, Reorganise, Finalize, AnswerBlocks, AnswerFork, streamVars
<1> QED
    BY <1>1, <1>2

\* So do starts and stops: nothing is being written then.
LEMMA IdleSteps ==
    ASSUME SourceInv, StartRun \/ Halt
    PROVE  phase = "idle" /\ UNCHANGED <<cursor, records, store, decoded, phase, torn>>
BY DEF StartRun, Start, Halt, targetVars, factoryVars, SourceInv, StoppedIsEmpty

LEMMA InitStore == Init => StoreInv
<1> SUFFICES ASSUME Init
             PROVE  StoreInv
    OBVIOUS
<1>1. phase = "idle" /\ cursor = None /\ store = [c \in Child |-> None]
    BY DEF Init
<1>2. Known = {} /\ Rows = store /\ \A c \in Child : Registering(c, Known) = {} /\ store[c] = None
    BY <1>1 DEF Known, PathTo, Rows, Registering
<1> QED
    BY <1>2 DEF StoreInv, StoreIsExact, StoreCovers, FirstRegistering

LEMMA NextKeepsStore ==
    ASSUME SourceInv, StoreInv, [Next]_vars
    PROVE  StoreInv'
<1>1. CASE UNCHANGED vars
    <2>1. UNCHANGED <<cursor, store, phase, torn, batch>>
        BY <1>1 DEF vars, sourceVars, streamVars, targetVars, factoryVars
    <2> QED
        BY <2>1, StoreStays
<1>2. CASE (NewBlock \/ Reorganise \/ Finalize \/ AnswerBlocks \/ AnswerFork \/ TakeBatch) /\ Untouched
    <2>1. UNCHANGED <<cursor, store, phase, torn>>
        BY <1>2 DEF Untouched, targetVars, factoryVars
    <2> QED
        BY <1>2, <2>1, SourceStepsLeaveTheBatch, StoreStays
<1>3. CASE StartRun \/ Halt
    <2>1. phase # "writing" /\ UNCHANGED <<cursor, store, phase, torn>>
        BY <1>3, IdleSteps
    <2> QED
        BY <2>1, StoreStays
<1> QED
    BY <1>1, <1>2, <1>3, TransformKeepsStore, CommitKeepsStore, RollBackTargetKeepsStore,
       RollBackStoreKeepsStore, CrashKeepsStore DEF Next, PipeStep

-----------------------------------------------------------------------------
(* Events and the contracts they are attributed to.                        *)

EventOf(b, c) == [block |-> b, child |-> c, created |-> Num[First(Registrations(c, b))]]

LEMMA ExpectedInIs ==
    ASSUME NEW S, NEW r
    PROVE  r \in ExpectedIn(S) <=>
             \E b \in S, c \in Child :
                 c \in Calls[b] /\ Registrations(c, b) # {} /\ r = EventOf(b, c)
<1> DEFINE pairs == {q \in S \X Child : q[2] \in Calls[q[1]] /\ Registrations(q[2], q[1]) # {}}
<1>1. r \in ExpectedIn(S) <=> \E p \in pairs : r = EventOf(p[1], p[2])
    BY DEF ExpectedIn, EventOf
<1>2. ASSUME NEW p \in pairs, r = EventOf(p[1], p[2])
      PROVE  \E b \in S, c \in Child :
                 c \in Calls[b] /\ Registrations(c, b) # {} /\ r = EventOf(b, c)
    <2>1. p[1] \in S /\ p[2] \in Child /\ p[2] \in Calls[p[1]] /\ Registrations(p[2], p[1]) # {}
        OBVIOUS
    <2> QED
        BY <1>2, <2>1
<1>3. ASSUME NEW b \in S, NEW c \in Child, c \in Calls[b], Registrations(c, b) # {}, r = EventOf(b, c)
      PROVE  \E p \in pairs : r = EventOf(p[1], p[2])
    <2>1. <<b, c>>[1] = b /\ <<b, c>>[2] = c /\ <<b, c>> \in S \X Child
        OBVIOUS
    <2>2. <<b, c>> \in pairs
        BY <1>3, <2>1
    <2> QED
        BY <1>3, <2>1, <2>2
<1> HIDE DEF pairs
<1> QED
    BY <1>1, <1>2, <1>3

LEMMA EventFacts ==
    ASSUME NEW b, NEW c
    PROVE  EventOf(b, c).block = b /\ EventOf(b, c).child = c
BY DEF EventOf

LEMMA DecodedIs ==
    ASSUME Transform, NEW r
    PROVE  r \in decoded' <=>
             \E b \in Part, c \in Child :
                 /\ c \in Calls[b] /\ GetContract(c) # None
                 /\ r = [block |-> b, child |-> c, created |-> Num[GetContract(c)]]
<1> DEFINE pairs == {q \in Part \X Child : q[2] \in Calls[q[1]] /\ GetContract(q[2]) # None}
           event(b, c) == [block |-> b, child |-> c, created |-> Num[GetContract(c)]]
<1>1. r \in decoded' <=> \E p \in pairs : r = event(p[1], p[2])
    BY DEF Transform
<1> HIDE DEF event
<1>2. ASSUME NEW p \in pairs, r = event(p[1], p[2])
      PROVE  \E b \in Part, c \in Child :
                 c \in Calls[b] /\ GetContract(c) # None /\ r = event(b, c)
    <2>1. p[1] \in Part /\ p[2] \in Child /\ p[2] \in Calls[p[1]] /\ GetContract(p[2]) # None
        OBVIOUS
    <2> QED
        BY <1>2, <2>1
<1>3. ASSUME NEW b \in Part, NEW c \in Child, c \in Calls[b], GetContract(c) # None, r = event(b, c)
      PROVE  \E p \in pairs : r = event(p[1], p[2])
    <2>1. <<b, c>>[1] = b /\ <<b, c>>[2] = c /\ <<b, c>> \in Part \X Child
        OBVIOUS
    <2>2. <<b, c>> \in pairs
        BY <1>3, <2>1
    <2> QED
        BY <1>3, <2>1, <2>2
<1> HIDE DEF pairs
<1>4. r \in decoded' <=>
        \E b \in Part, c \in Child : c \in Calls[b] /\ GetContract(c) # None /\ r = event(b, c)
    BY <1>1, <1>2, <1>3
<1> QED
    BY <1>4 DEF event

\* What a cursor has of the events of a branch is what is not above it.
LEMMA ExpectedUpTo ==
    ASSUME NEW h \in Block, NEW a \in Path[h], NEW r
    PROVE  r \in ExpectedIn(PathTo(a)) <=> r \in ExpectedIn(PathTo(h)) /\ Num[r.block] <= Num[a]
<1>1. /\ a \in Block /\ h # None /\ a # None /\ Path[a] \subseteq Path[h]
      /\ PathTo(h) = {b \in Path[h] : Num[b] >= FromBlock}
      /\ PathTo(a) = {b \in Path[a] : Num[b] >= FromBlock}
    BY PathFacts, AncestorFacts DEF PathTo
<1>2. PathTo(a) = {b \in PathTo(h) : Num[b] <= Num[a]}
    BY <1>1, AncestorFacts, LowerIsAncestor
<1> QED
    BY <1>2, ExpectedInIs, EventFacts

\* A commit takes the batch and nothing else: the blocks it passes over call nothing.
LEMMA ExpectedOfBatch ==
    ASSUME SourceInv, run = "reading", phase # "rollback", batch.blocks # {}, NEW r
    PROVE  r \in ExpectedIn(PathTo(Last(Part))) <=>
             r \in ExpectedIn(PathTo(cursor)) \/ r \in ExpectedIn(Part)
<1>1. /\ Last(Part) \in Block
      /\ \A b \in PathTo(Last(Part)) : b \in Selected => b \in PathTo(cursor) \cup Part
      /\ PathTo(cursor) \cup Part \subseteq PathTo(Last(Part))
    BY BatchContinues
<1>2. PathTo(Last(Part)) \subseteq Block
    BY <1>1, PathFacts, PathToFacts
<1>3. \A b \in PathTo(Last(Part)), c \in Child : c \in Calls[b] => b \in PathTo(cursor) \cup Part
    BY <1>1, <1>2, RegisteringIsSelected
<1> QED
    BY <1>1, <1>3, ExpectedInIs

\* The block that registers a child is an ancestor of those that call it, and the only one.
LEMMA RegisteringIsOne ==
    ASSUME RegisteredOnceAndFirst, NEW h \in Block, NEW c \in Child,
           NEW b \in PathTo(h), c \in Calls[b],
           NEW d \in PathTo(h), Registers[d][c] # "no"
    PROVE  d \in PathTo(b) /\ Registering(c, PathTo(b)) = {d}
<1>1. /\ b \in Path[h] /\ d \in Path[h] /\ b \in Block /\ d \in Block
      /\ Num[b] >= FromBlock /\ Num[d] >= FromBlock
    BY PathFacts DEF PathTo
<1>2. b # None /\ PathTo(b) = {a \in Path[b] : Num[a] >= FromBlock}
    BY <1>1, PathFacts DEF PathTo
<1>3. Comparable(d, b)
    BY <1>1, BranchIsComparable
<1>4. d \in Path[b]
    <2>1. CASE b \in Path[d]
        <3>1. b = d
            BY <1>1, <2>1 DEF RegisteredOnceAndFirst
        <3> QED
            BY <1>1, <3>1, PathFacts
    <2> QED
        BY <1>3, <2>1 DEF Comparable
<1>5. ASSUME NEW e \in Path[b], Num[e] >= FromBlock, Registers[e][c] # "no"
      PROVE  e = d
    <2>1. e \in Block /\ Comparable(e, d)
        BY <1>1, <1>4, AncestorFacts, BranchIsComparable
    <2>2. CASE e \in Path[d]
        BY <1>1, <1>5, <2>2 DEF RegisteredOnceAndFirst
    <2>3. CASE d \in Path[e]
        BY <1>1, <1>5, <2>1, <2>3 DEF RegisteredOnceAndFirst
    <2> QED
        BY <2>1, <2>2, <2>3 DEF Comparable
<1> QED
    BY <1>1, <1>2, <1>4, <1>5 DEF Registering

\* The row that decides about a contract: the batch's before the store's.
RowOf(c) == IF InBatch(c) # None THEN InBatch(c) ELSE store[c]

\* A row stands for a registration below the call, and without a row there is none: unless
\* something was torn because the store is exact, otherwise because the child is steady.
LEMMA RowIsOfBranch ==
    ASSUME SourceInv, StoreInv, run = "reading", phase = "idle", batch.blocks # {},
           RegisteredOnceAndFirst,
           NEW b \in Part, NEW c \in Sure, c \in Child, c \in Calls[b]
    PROVE  IF RowOf(c) = None
           THEN Registering(c, PathTo(b)) = {}
           ELSE \E d \in PathTo(b) :
                   /\ Registering(c, PathTo(b)) = {d}
                   /\ Num[RowOf(c)] = Num[d] /\ Registers[RowOf(c)][c] = Registers[d][c]
<1> DEFINE last == Last(Part)
           row == RowOf(c)
<1>1. /\ phase # "rollback" /\ Known = PathTo(cursor) /\ Rows = store
    BY DEF Known, Rows
<1>2. /\ last \in Block /\ Part \in SUBSET Block /\ PathTo(cursor) \in SUBSET Block
      /\ \A a \in PathTo(last) : a \in Selected => a \in PathTo(cursor) \cup Part
      /\ PathTo(cursor) \cup Part \subseteq PathTo(last)
      /\ \A a \in PathTo(cursor) \cup Part : Num[a] >= FromBlock
    BY <1>1, BatchContinues, SourceTypes, PathToFacts
<1>3. b \in PathTo(last) /\ b \in Block
    BY <1>2
<1>4. /\ PathTo(last) = {a \in Path[last] : Num[a] >= FromBlock} /\ b \in Path[last]
      /\ PathTo(b) = {a \in Path[b] : Num[a] >= FromBlock}
      /\ Path[b] \subseteq Path[last] /\ Path[last] \subseteq Block
    <2>1. PathTo(last) = {a \in Path[last] : Num[a] >= FromBlock} /\ Path[last] \subseteq Block
        BY <1>2, PathFacts DEF PathTo
    <2>2. b \in Path[last]
        BY <1>3, <2>1
    <2>3. PathTo(b) = {a \in Path[b] : Num[a] >= FromBlock}
        BY <1>3, PathFacts DEF PathTo
    <2> HIDE DEF last
    <2> QED
        BY <1>2, <2>1, <2>2, <2>3, AncestorFacts
<1> HIDE DEF last
<1>5. Registering(c, PathTo(b)) \subseteq Registering(c, PathTo(cursor)) \cup Registering(c, Part)
    <2>1. \A a \in PathTo(b) : a \in PathTo(last) /\ a \in Block
        BY <1>4
    <2>2. \A a \in PathTo(b) : Registers[a][c] # "no" => a \in PathTo(cursor) \cup Part
        BY <1>2, <2>1, RegisteringIsSelected
    <2> QED
        BY <2>2 DEF Registering
<1>6. /\ InBatch(c) = None <=> Registering(c, Part) = {}
      /\ InBatch(c) # None => InBatch(c) \in Registering(c, Part)
    <2>1. InBatch(c) = FirstRegistering(c, Part)
        BY DEF InBatch, FirstRegistering, Registering
    <2> QED
        BY <1>2, <2>1, FirstRegisteringFacts
<1>7. row = IF InBatch(c) # None THEN InBatch(c) ELSE store[c]
    BY DEF RowOf
<1> HIDE DEF row
<1>8. CASE ~torn
    <2>1. store[c] = FirstRegistering(c, PathTo(cursor))
        BY <1>1, <1>8 DEF StoreInv, StoreIsExact
    <2>2. /\ store[c] = None <=> Registering(c, PathTo(cursor)) = {}
          /\ store[c] # None => store[c] \in Registering(c, PathTo(cursor))
        BY <1>2, <2>1, FirstRegisteringFacts
    <2>3. row = None => Registering(c, PathTo(b)) = {}
        BY <1>5, <1>6, <1>7, <2>2
    <2>4. ASSUME row # None
          PROVE  row \in PathTo(b) /\ Registering(c, PathTo(b)) = {row}
        <3>1. row \in Registering(c, PathTo(cursor)) \cup Registering(c, Part)
            BY <1>6, <1>7, <2>2, <2>4
        <3>2. row \in PathTo(last) /\ Registers[row][c] # "no"
            BY <1>2, <3>1 DEF Registering
        <3> QED
            BY <1>2, <1>3, <3>2, RegisteringIsOne
    <2> QED
        BY <2>3, <2>4 DEF row
<1>9. CASE torn
    <2>1. c \in Steady
        BY <1>9 DEF Sure
    <2>2. /\ store[c] # None => Registers[store[c]][c] # "no" /\ Num[store[c]] >= FromBlock
          /\ Registering(c, PathTo(cursor)) # {} => store[c] # None
          /\ store[c] \in Cursor
        BY <1>1, <2>1 DEF StoreInv, StoreCovers, SourceInv, TypeOK
    <2>3. row = None => Registering(c, PathTo(b)) = {}
        BY <1>5, <1>6, <1>7, <2>2
    <2>4. ASSUME row # None
          PROVE  \E d \in PathTo(b) :
                    /\ Registering(c, PathTo(b)) = {d}
                    /\ Num[row] = Num[d] /\ Registers[row][c] = Registers[d][c]
        <3>1. row \in Block /\ Registers[row][c] # "no" /\ Num[row] >= FromBlock
            BY <1>2, <1>6, <1>7, <2>2, <2>4 DEF Registering, Cursor
        <3>2. PICK d \in Path[b] : Registers[d][c] # "no"
            BY <1>3, <2>1 DEF Steady
        <3>3. d \in Block /\ d \in Path[last]
            BY <1>4, <3>2
        <3>4. Num[row] = Num[d] /\ Registers[row][c] = Registers[d][c]
            BY <2>1, <3>1, <3>2, <3>3 DEF Steady
        <3>5. d \in PathTo(last) /\ d \in PathTo(b)
            BY <1>4, <3>1, <3>2, <3>3, <3>4
        <3>6. Registering(c, PathTo(b)) = {d}
            BY <1>2, <1>3, <3>2, <3>5, RegisteringIsOne
        <3> QED
            BY <3>4, <3>5, <3>6
    <2> QED
        BY <2>3, <2>4 DEF row
<1> QED
    BY <1>8, <1>9

\* An event of the batch is decoded if its contract is the factory's on that branch, and then
\* with the registration of that branch.
LEMMA Attribution ==
    ASSUME SourceInv, StoreInv, run = "reading", phase = "idle", batch.blocks # {},
           RegisteredOnceAndFirst,
           NEW b \in Part, NEW c \in Sure, c \in Child, c \in Calls[b]
    PROVE  /\ GetContract(c) # None <=> Registrations(c, b) # {}
           /\ GetContract(c) # None => Num[GetContract(c)] = Num[First(Registrations(c, b))]
<1> DEFINE row == RowOf(c)
<1>1. GetContract(c) = IF row # None /\ Registers[row][c] = "own" THEN row ELSE None
    BY DEF GetContract, RowOf
<1>2. Registrations(c, b) = {a \in Registering(c, PathTo(b)) : Registers[a][c] = "own"}
    BY DEF Registrations, Registering
<1>3. CASE row = None
    <2>1. Registering(c, PathTo(b)) = {}
        BY <1>3, RowIsOfBranch
    <2> QED
        BY <1>1, <1>2, <1>3, <2>1
<1>4. CASE row # None
    <2>1. PICK d \in PathTo(b) :
            /\ Registering(c, PathTo(b)) = {d}
            /\ Num[row] = Num[d] /\ Registers[row][c] = Registers[d][c]
        BY <1>4, RowIsOfBranch
    <2> HIDE DEF row
    <2>2. Registrations(c, b) = IF Registers[row][c] = "own" THEN {d} ELSE {}
        BY <1>2, <2>1
    <2>3. ASSUME Registers[row][c] = "own"
          PROVE  First(Registrations(c, b)) = d
        <3>1. Registrations(c, b) = {d} /\ d \in Block
            BY <2>2, <2>3, BatchContinues, PathFacts DEF PathTo
        <3>2. First(Registrations(c, b)) \in {d}
            BY <3>1, FirstBlock
        <3> QED
            BY <3>2
    <2> QED
        BY <1>1, <1>4, <2>1, <2>2, <2>3
<1> QED
    BY <1>3, <1>4

-----------------------------------------------------------------------------
(* The steps: the records' part of the invariant.                          *)

RecordsAreSure == Of(Sure, records) = Of(Sure, ExpectedIn(PathTo(cursor)))

LEMMA RecordsAreSureIsIt == RecordsAreOfBranch <=> RecordsAreSure
BY DEF RecordsAreOfBranch, RecordsAreSure, Sure, Expected, ExpectedIn

RecordsInv == DecodedIsExpected /\ RecordsAreSure

LEMMA TransformKeepsRecords ==
    ASSUME SourceInv, StoreInv, RecordsInv, RegisteredOnceAndFirst, Transform
    PROVE  RecordsInv'
<1>1. /\ run = "reading" /\ phase = "idle" /\ batch.blocks # {} /\ phase' = "writing"
      /\ UNCHANGED <<cursor, records, batch, torn>>
    BY DEF Transform, sourceVars, streamVars, targetVars
<1>2. Part' = Part /\ PathTo(cursor)' = PathTo(cursor) /\ Sure' = Sure /\ Sure \subseteq Child
    BY <1>1 DEF Part, PathTo, Sure, Steady
<1>3. ASSUME NEW r, r.child \in Sure
      PROVE  r \in decoded' <=> r \in ExpectedIn(Part)
    <2>1. r \in decoded' <=>
            \E b \in Part, c \in Child :
                /\ c \in Calls[b] /\ GetContract(c) # None
                /\ r = [block |-> b, child |-> c, created |-> Num[GetContract(c)]]
        BY DecodedIs
    <2>2. r \in ExpectedIn(Part) <=>
            \E b \in Part, c \in Child :
                c \in Calls[b] /\ Registrations(c, b) # {} /\ r = EventOf(b, c)
        BY ExpectedInIs
    <2>3. ASSUME NEW b \in Part, NEW c \in Child, c \in Calls[b], c \in Sure
          PROVE  /\ GetContract(c) # None <=> Registrations(c, b) # {}
                 /\ GetContract(c) # None =>
                      [block |-> b, child |-> c, created |-> Num[GetContract(c)]] = EventOf(b, c)
        <3>1. /\ GetContract(c) # None <=> Registrations(c, b) # {}
              /\ GetContract(c) # None => Num[GetContract(c)] = Num[First(Registrations(c, b))]
            BY <1>1, <2>3, Attribution
        <3> QED
            BY <3>1 DEF EventOf
    <2>4. \A b, c : /\ EventOf(b, c).child = c
                    /\ [block |-> b, child |-> c, created |-> Num[GetContract(c)]].child = c
        BY EventFacts
    <2> QED
        BY <1>3, <2>1, <2>2, <2>3, <2>4
<1>4. Of(Sure, decoded') = Of(Sure, ExpectedIn(Part))
    BY <1>3 DEF Of
<1>5. DecodedIsExpected'
    BY <1>1, <1>2, <1>4 DEF DecodedIsExpected, Of, ExpectedIn
<1>6. RecordsAreSure'
    BY <1>1, <1>2 DEF RecordsInv, RecordsAreSure, Of, ExpectedIn
<1> QED
    BY <1>5, <1>6 DEF RecordsInv

LEMMA CommitKeepsRecords ==
    ASSUME SourceInv, RecordsInv, Commit
    PROVE  RecordsInv'
<1>1. /\ run = "reading" /\ phase = "writing" /\ batch.blocks # {} /\ cursor' = Last(Part)
      /\ records' = records \cup decoded /\ phase' = "idle" /\ UNCHANGED torn
    BY CommitFacts
<1>2. PathTo(cursor)' = PathTo(Last(Part)) /\ Sure' = Sure
    BY <1>1 DEF PathTo, Sure
<1>3. /\ Of(Sure, records) = Of(Sure, ExpectedIn(PathTo(cursor)))
      /\ Of(Sure, decoded) = Of(Sure, ExpectedIn(Part))
    BY <1>1 DEF RecordsInv, RecordsAreSure, DecodedIsExpected
<1>4. \A r : r \in ExpectedIn(PathTo(Last(Part))) <=>
               r \in ExpectedIn(PathTo(cursor)) \/ r \in ExpectedIn(Part)
    BY <1>1, ExpectedOfBatch
<1>5. Of(Sure, records \cup decoded) = Of(Sure, ExpectedIn(PathTo(Last(Part))))
    BY <1>3, <1>4 DEF Of
<1> QED
    BY <1>1, <1>2, <1>5 DEF RecordsInv, RecordsAreSure, DecodedIsExpected, Of, ExpectedIn

LEMMA RollBackTargetKeepsRecords ==
    ASSUME SourceInv, RecordsInv, RollBackTarget
    PROVE  RecordsInv'
<1>1. ForkRaised /\ phase = "idle" /\ phase' = "rollback" /\ UNCHANGED torn
    BY DEF RollBackTarget
<1>2. PICK ancestor \in Block :
        /\ ancestor = ResolveForkCursor(History, failure)
        /\ cursor' = ancestor
        /\ records' = {r \in records : Num[r.block] <= Num[ancestor]}
    BY DEF RollBackTarget
<1>3. cursor \in Block /\ ancestor \in Path[cursor]
    BY <1>1, <1>2, ForkFacts
<1>4. PathTo(cursor)' = PathTo(ancestor) /\ Sure' = Sure
    BY <1>1, <1>2 DEF PathTo, Sure
<1>5. \A r : r \in ExpectedIn(PathTo(ancestor)) <=>
               r \in ExpectedIn(PathTo(cursor)) /\ Num[r.block] <= Num[ancestor]
    BY <1>3, ExpectedUpTo
<1>6. Of(Sure, records') = Of(Sure, ExpectedIn(PathTo(ancestor)))
    BY <1>2, <1>5 DEF RecordsInv, RecordsAreSure, Of
<1> QED
    BY <1>1, <1>4, <1>6 DEF RecordsInv, RecordsAreSure, DecodedIsExpected, Of, ExpectedIn

LEMMA CrashKeepsRecords ==
    ASSUME RecordsInv, CrashAndLoseMemory
    PROVE  RecordsInv'
<1>1. phase' = "idle" /\ UNCHANGED <<cursor, records>> /\ (torn => torn')
    BY DEF CrashAndLoseMemory, targetVars
<1>2. PathTo(cursor)' = PathTo(cursor) /\ Sure' \subseteq Sure
    BY <1>1 DEF PathTo, Sure, Steady
<1>3. Of(Sure', records) = Of(Sure', ExpectedIn(PathTo(cursor)))
    BY <1>2 DEF RecordsInv, RecordsAreSure, Of
<1> QED
    BY <1>1, <1>2, <1>3 DEF RecordsInv, RecordsAreSure, DecodedIsExpected, Of, ExpectedIn

\* A step that leaves the data alone, and the batch that is being written.
LEMMA RecordsStay ==
    ASSUME RecordsInv, UNCHANGED <<cursor, records, decoded, torn>>,
           phase' = "writing" => phase = "writing" /\ UNCHANGED batch
    PROVE  RecordsInv'
<1>1. PathTo(cursor)' = PathTo(cursor) /\ Sure' = Sure
    BY DEF PathTo, Sure
<1>2. phase' = "writing" => Part' = Part
    BY DEF Part
<1> QED
    BY <1>1, <1>2 DEF RecordsInv, RecordsAreSure, DecodedIsExpected, Of, ExpectedIn

LEMMA InitRecords == Init => RecordsInv
<1> SUFFICES ASSUME Init
             PROVE  RecordsInv
    OBVIOUS
<1>1. phase = "idle" /\ PathTo(cursor) = {} /\ records = {}
    BY DEF Init, PathTo
<1>2. Of(Sure, records) = {} /\ Of(Sure, ExpectedIn(PathTo(cursor))) = {}
    BY <1>1, ExpectedInIs DEF Of
<1> QED
    BY <1>1, <1>2 DEF RecordsInv, RecordsAreSure, DecodedIsExpected

LEMMA NextKeepsRecords ==
    ASSUME SourceInv, StoreInv, RecordsInv, RegisteredOnceAndFirst, [Next]_vars
    PROVE  RecordsInv'
<1>1. CASE UNCHANGED vars
    <2>1. UNCHANGED <<cursor, records, decoded, phase, torn, batch>>
        BY <1>1 DEF vars, sourceVars, streamVars, targetVars, factoryVars
    <2> QED
        BY <2>1, RecordsStay
<1>2. CASE (NewBlock \/ Reorganise \/ Finalize \/ AnswerBlocks \/ AnswerFork \/ TakeBatch) /\ Untouched
    <2>1. UNCHANGED <<cursor, records, decoded, phase, torn>>
        BY <1>2 DEF Untouched, targetVars, factoryVars
    <2> QED
        BY <1>2, <2>1, SourceStepsLeaveTheBatch, RecordsStay
<1>3. CASE StartRun \/ Halt
    <2>1. phase' # "writing" /\ UNCHANGED <<cursor, records, decoded, torn>>
        BY <1>3, IdleSteps
    <2> QED
        BY <2>1, RecordsStay
<1>4. CASE RollBackStore
    <2>1. phase' # "writing" /\ UNCHANGED <<cursor, records, decoded, torn>>
        BY <1>4 DEF RollBackStore, targetVars
    <2> QED
        BY <2>1, RecordsStay
<1> QED
    BY <1>1, <1>2, <1>3, <1>4, TransformKeepsRecords, CommitKeepsRecords,
       RollBackTargetKeepsRecords, CrashKeepsRecords DEF Next, PipeStep

-----------------------------------------------------------------------------
(* The theorems.                                                           *)

\* Through every interleaving of answers, batches, forks and crashes what flies between Portal,
\* stream and target (portal-source.ts, fork-resolution.ts) continues the cursor, and the factory
\* table has the first registration of every child on the committed branch (factory.ts,
\* factory-adapters/sqlite.ts), or would once a half-done rollback is through.
THEOREM AlwaysStoreInv == Spec => [](SourceInv /\ StoreInv)
<1>1. Init => SourceInv /\ StoreInv
    BY InitSource, InitStore
<1>2. SourceInv /\ StoreInv /\ [Next]_vars => (SourceInv /\ StoreInv)'
    BY NextKeepsSource, NextKeepsStore
<1> QED
    BY <1>1, <1>2, PTL DEF Spec

\* The stream, the factory table and the target only ever hold values of their types.
THEOREM TypesHold == Spec => []TypeOK
<1>1. SourceInv => TypeOK
    BY DEF SourceInv
<1> QED
    BY <1>1, AlwaysStoreInv, PTL

\* Between two batches the factory table (save and remove of factory-adapters/sqlite.ts) has the
\* contracts of the committed branch and no others, each with its first registration, whatever
\* the factory registers how often, unless a crash has torn store and target apart.
THEOREM StoreAlwaysFollowsBranch == Spec => []StoreFollowsBranch
<1>1. SourceInv /\ StoreInv => StoreFollowsBranch
    <2> SUFFICES ASSUME StoreInv, phase = "idle", ~torn, NEW c \in Child
                 PROVE  store[c] = FirstRegistering(c, PathTo(cursor))
        BY DEF StoreFollowsBranch, FirstRegistering, Registering
    <2>1. Rows = store /\ Known = PathTo(cursor)
        BY DEF Rows, Known
    <2> QED
        BY <2>1 DEF StoreInv, StoreIsExact
<1> QED
    BY <1>1, AlwaysStoreInv, PTL

\* The target has exactly the events of the contracts registered on its branch, each with its
\* registration (getContract of factory.ts, rollbackTransformers of core/transformer.ts), however
\* the branch came in batches and whatever was rolled back; and after a crash between store and
\* target, those of the children that every branch registers alike.
THEOREM RecordsAlwaysOfBranch ==
    ASSUME RegisteredOnceAndFirst
    PROVE  Spec => []RecordsAreOfBranch
<1>1. Init => RecordsInv
    BY InitRecords
<1>2. SourceInv /\ StoreInv /\ RecordsInv /\ [Next]_vars => RecordsInv'
    BY NextKeepsRecords
<1>3. RecordsInv => RecordsAreOfBranch
    BY RecordsAreSureIsIt DEF RecordsInv
<1> QED
    BY <1>1, <1>2, <1>3, AlwaysStoreInv, PTL DEF Spec
=============================================================================
