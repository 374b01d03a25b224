------------------------ MODULE PostgresTargetProofs ------------------------
(***************************************************************************)
(* The Postgres target on its source, for every tree, query, effect and    *)
(* number of reorganisations and crashes: what is on its way continues the *)
(* cursor, the retained chains are of its branch, the tables are the view  *)
(* of it, the undo log reaches the floor, and the target implements        *)
(* ReorgSafeSink.                                                          *)
(***************************************************************************)
EXTENDS PostgresTarget, WellFoundedInduction, FiniteSetTheorems, FunctionTheorems, TLAPS

-----------------------------------------------------------------------------
(* What the theorems assume, see the README for what happens otherwise.    *)

\* The clean-up leaves the newest cursor alone.
CursorIsKept == Retention > 0 /\ FromBlock > 0

\* Once a pipe has committed, it knows a finalized head.
HeadsComeFirst == NoHeads # "ever"

-----------------------------------------------------------------------------
(* The inductive invariant: the source.                                    *)

Comparable(a, b) == a \in Path[b] \/ b \in Path[a]

Flying == batch.blocks \cup buffer.blocks

\* The heads that came with an answer that was not taken or not committed yet.
NewHeads == {watermark, buffer.finalized} \ {None}

Heads == (NewHeads \cup {floor} \cup {r.finalized : r \in sync}) \ {None}

\* A stopped pipe has its persisted state only.
StoppedIsEmpty ==
    run # "reading" =>
        /\ request = NoRequest /\ buffer = NoData /\ failure = {}
        /\ batch = NoBatch /\ watermark = None

\* Every finalized head the pipe knows is on every branch the Portal may still take.
HeadsAreFinal ==
    /\ final \in Path[tip]
    /\ \A f \in Heads : f \in Path[final]

\* What follows the cursor up to the anchor is flying, in order.
AnchoredFlight ==
    request.anchor # None =>
        /\ request.from = Num[request.anchor] + 1
        /\ request.anchor \in Flying \cup {latest}
        /\ Flying \subseteq Path[request.anchor]
        /\ PathTo(latest) \subseteq Path[request.anchor]
        /\ \A b \in Flying : Num[b] > NumOf(latest) /\ Num[b] >= FromBlock
        /\ \A b \in Path[request.anchor] \ PathTo(latest) :
             b \in Selected /\ Num[b] >= FromBlock => b \in Flying
        /\ \A f \in NewHeads : Comparable(request.anchor, f)

\* Nothing flies before the first answer; a cursor that the first request does not continue from
\* lies in front of the query.
UnanchoredFlight ==
    request.anchor = None =>
        /\ request = NoRequest /\ Flying = {} /\ buffer.finalized = None /\ failure = {}
        /\ latest # None => Num[latest] + 1 < FromBlock

\* The watermark is what the flying batch is committed under, and then the floor.
WatermarkGoesAhead ==
    /\ NumOf(floor) <= NumOf(watermark)
    /\ batch.blocks = {} => batch = NoBatch /\ watermark = floor
    /\ batch.blocks # {} => batch.finalized = watermark
    /\ buffer.blocks = {} => buffer = NoData
    /\ \A b \in batch.blocks, c \in buffer.blocks : Num[b] < Num[c]

\* A branch that was left was not final: it has every finalized head the pipe knows.
ForkIsAboveHeads ==
    failure # {} => request.anchor # None /\ \A f \in NewHeads : f \in Path[request.anchor]

ReadingInv ==
    run = "reading" =>
        /\ request.from >= FromBlock
        /\ AnchoredFlight /\ UnanchoredFlight
        /\ WatermarkGoesAhead /\ ForkIsAboveHeads

\* The sync rows.
RowsInv ==
    /\ latest \in Cursor
    /\ ChainIsOwnBranch
    /\ \A r \in sync :
        /\ \A b \in r.chain : Num[b] >= FromBlock
        /\ NumOf(r.finalized) <= NumOf(floor)
    /\ latest # None /\ floor # None => Comparable(latest, floor)
    /\ latest # None /\ Num[latest] + 1 < FromBlock => latest \in Path[final]

SourceInv == TypeOK /\ StoppedIsEmpty /\ HeadsAreFinal /\ ReadingInv /\ RowsInv

-----------------------------------------------------------------------------
(* The inductive invariant: the tables.                                    *)

HeadsAreKnown ==
    /\ latest # None => floor # None
    /\ batch.blocks # {} => watermark # None
    /\ buffer.blocks # {} => NewHeads # {}

\* One record for a key and a number, none above the cursor.
UndoIsOrdered ==
    /\ \A u \in undo : u.number <= NumOf(latest)
    /\ \A u, w \in undo : u.key = w.key /\ u.number = w.number => u = w

\* UndoReachesFloor, in front of the query as well.
UndoReaches ==
    floor # None =>
        \A b \in PathTo(latest) :
            Num[b] >= Num[floor] => Rewind(table, undo, Num[b]) = View(Path[b])

DataInv == HeadsAreKnown /\ UndoIsOrdered /\ UndoReaches /\ TableIsViewOfCursor

-----------------------------------------------------------------------------
(* Numbers and branches.                                                   *)

\* Every nonempty set of numbers has a least one.
LEMMA LeastNumber ==
    ASSUME NEW S \in SUBSET Nat, S # {}
    PROVE  \E m \in S : \A n \in S : m <= n
<1>1. \E m \in S : \A n \in S : ~(<<n, m>> \in OpToRel(<, Nat))
    BY NatLessThanWellFounded, WFMin
<1>2. PICK m \in S : \A n \in S : ~(<<n, m>> \in OpToRel(<, Nat))
    BY <1>1
<1>3. \A n \in S : ~(n < m)
    BY <1>2 DEF OpToRel
<1> QED
    BY <1>3

\* Two blocks of one branch with the same number are the same block.
LEMMA OneBlockPerNumber ==
    ASSUME NEW h \in Block, NEW b \in Path[h], NEW c \in Path[h], Num[b] = Num[c]
    PROVE  b = c
BY ChainAssumption

\* Blocks of a branch below one of its blocks are that block's ancestors.
LEMMA LowerIsAncestor ==
    ASSUME NEW h \in Block, NEW b \in Path[h], NEW c \in Path[h], Num[b] <= Num[c]
    PROVE  b \in Path[c]
BY ChainAssumption

\* A nonempty set of blocks of one branch has a last block.
LEMMA LastBlock ==
    ASSUME NEW h \in Block, NEW S \in SUBSET Path[h], S # {}
    PROVE  Last(S) \in S /\ \A b \in S : Num[b] <= Num[Last(S)]
<1> DEFINE Depths == {Num[h] - Num[b] : b \in S}
<1>1. \A b \in S : b \in Block /\ Num[b] \in Nat /\ Num[h] \in Nat /\ Num[b] <= Num[h]
    BY ChainAssumption
<1>2. Depths \in SUBSET Nat /\ Depths # {}
    BY <1>1
<1>3. PICK d \in Depths : \A n \in Depths : d <= n
    BY <1>2, LeastNumber
<1>4. PICK last \in S : d = Num[h] - Num[last]
    BY <1>3
<1>5. ASSUME NEW b \in S
      PROVE  Num[b] <= Num[last]
    <2>1. Num[h] - Num[b] \in Depths
        OBVIOUS
    <2>2. d <= Num[h] - Num[b]
        BY <2>1, <1>3
    <2> QED
        BY <2>2, <1>1, <1>4
<1> QED
    BY <1>5 DEF Last

\* A nonempty set of blocks has a first block.
LEMMA FirstBlock ==
    ASSUME NEW S \in SUBSET Block, S # {}
    PROVE  First(S) \in S /\ \A b \in S : Num[First(S)] <= Num[b]
<1> DEFINE Numbers == {Num[b] : b \in S}
<1>1. \A b \in S : Num[b] \in Nat
    BY ChainAssumption
<1>2. Numbers \in SUBSET Nat /\ Numbers # {}
    BY <1>1
<1>3. PICK n \in Numbers : \A m \in Numbers : n <= m
    BY <1>2, LeastNumber
<1>4. PICK first \in S : n = Num[first]
    BY <1>3
<1>5. \A b \in S : Num[first] <= Num[b]
    BY <1>3, <1>4
<1> QED
    BY <1>5 DEF First

-----------------------------------------------------------------------------
(* Blocks and cursors.                                                     *)

LEMMA PathFacts ==
    /\ None \notin Block
    /\ \A b \in Block : Num[b] \in Nat /\ b \in Path[b] /\ Path[b] \subseteq Block
BY ChainAssumption

LEMMA AncestorFacts ==
    ASSUME NEW h \in Block, NEW b \in Path[h]
    PROVE  /\ b \in Block /\ Num[b] <= Num[h]
           /\ Path[b] \subseteq Path[h]
           /\ Num[b] = Num[h] => b = h
BY ChainAssumption

LEMMA CursorFacts ==
    \A c \in Cursor : /\ NumOf(c) \in Int /\ NumOf(c) >= -1
                      /\ c = None <=> NumOf(c) = -1
                      /\ c # None => c \in Block /\ NumOf(c) = Num[c] /\ PathTo(c) = Path[c]
BY PathFacts DEF Cursor, NumOf, PathTo

LEMMA MaxFinalizedFacts ==
    ASSUME NEW f \in Cursor, NEW g \in Cursor
    PROVE  /\ MaxFinalized(f, g) \in {f, g}
           /\ MaxFinalized(f, g) = None <=> f = None /\ g = None
           /\ NumOf(MaxFinalized(f, g)) >= NumOf(f)
           /\ NumOf(MaxFinalized(f, g)) >= NumOf(g)
BY PathFacts DEF MaxFinalized, NumOf, Cursor

\* Two blocks of one branch are comparable.
LEMMA BranchIsComparable ==
    ASSUME NEW h \in Block, NEW a \in Path[h], NEW b \in Path[h]
    PROVE  Comparable(a, b)
<1>1. Num[a] \in Nat /\ Num[b] \in Nat
    BY PathFacts
<1>2. Num[a] <= Num[b] \/ Num[b] <= Num[a]
    BY <1>1
<1> QED
    BY <1>2, LowerIsAncestor DEF Comparable

-----------------------------------------------------------------------------
(* Sync rows.                                                              *)

\* A row above all others is the latest one.
LEMMA LatestRowIs ==
    ASSUME NEW rows \in SUBSET SyncRow, NEW row \in rows,
           \A r \in rows : r # row => Num[r.current] < Num[row.current]
    PROVE  LatestRow(rows) = row
<1>1. \A r \in rows : Num[r.current] \in Nat
    BY PathFacts DEF SyncRow
<1>2. \A q \in rows : Num[q.current] <= Num[row.current]
    BY <1>1
<1>3. \A r \in rows : (\A q \in rows : Num[q.current] <= Num[r.current]) => r = row
    BY <1>1
<1> QED
    BY <1>2, <1>3 DEF LatestRow

\* Rows of one branch have a latest one.
LEMMA RowsHaveALatest ==
    ASSUME NEW rows \in SUBSET SyncRow, rows # {},
           NEW h \in Block, \A r \in rows : r.current \in Path[h]
    PROVE  /\ LatestRow(rows) \in rows
           /\ \A q \in rows : Num[q.current] <= Num[LatestRow(rows).current]
<1> DEFINE currents == {r.current : r \in rows}
<1>1. currents \in SUBSET Path[h] /\ currents # {}
    OBVIOUS
<1>2. Last(currents) \in currents /\ \A c \in currents : Num[c] <= Num[Last(currents)]
    BY <1>1, LastBlock
<1>3. PICK row \in rows : row.current = Last(currents)
    BY <1>2
<1>4. \A q \in rows : Num[q.current] <= Num[row.current]
    BY <1>2, <1>3
<1> QED
    BY <1>4 DEF LatestRow

LEMMA LatestFacts ==
    ASSUME TypeOK, latest \in Cursor, ChainIsOwnBranch
    PROVE  /\ floor \in Cursor
           /\ sync = {} <=> latest = None
           /\ sync = {} => floor = None
           /\ sync # {} => /\ LatestRow(sync) \in sync
                           /\ latest = LatestRow(sync).current
                           /\ floor = LatestRow(sync).finalized
           /\ \A r \in sync : r \in SyncRow /\ Num[r.current] <= NumOf(latest)
<1>1. sync \in SUBSET SyncRow
    BY DEF TypeOK
<1>2. CASE sync = {}
    BY <1>2 DEF latest, floor, Cursor
<1>3. CASE sync # {}
    <2>1. \A r \in sync : r.current \in PathTo(latest)
        BY DEF ChainIsOwnBranch
    <2>2. latest # None
        BY <1>3, <2>1 DEF PathTo
    <2>3. latest \in Block /\ PathTo(latest) = Path[latest] /\ NumOf(latest) = Num[latest]
        BY <2>2, CursorFacts
    <2>4. /\ LatestRow(sync) \in sync
          /\ \A q \in sync : Num[q.current] <= Num[LatestRow(sync).current]
        BY <1>1, <1>3, <2>1, <2>3, RowsHaveALatest
    <2>5. latest = LatestRow(sync).current /\ floor = LatestRow(sync).finalized
        BY <1>3 DEF latest, floor
    <2>6. floor \in Cursor
        BY <1>1, <2>4, <2>5 DEF SyncRow
    <2> QED
        BY <1>1, <1>3, <2>2, <2>3, <2>4, <2>5, <2>6
<1> QED
    BY <1>2, <1>3
-----------------------------------------------------------------------------
(* The Portal's steps.                                                     *)

LEMMA SourceTypes ==
    ASSUME SourceInv
    PROVE  /\ tip \in Block /\ final \in Block
           /\ request.from \in Nat /\ request.anchor \in Cursor
           /\ buffer.blocks \subseteq Block /\ buffer.finalized \in Cursor
           /\ batch.blocks \subseteq Block /\ batch.finalized \in Cursor
           /\ watermark \in Cursor
           /\ latest \in Cursor /\ floor \in Cursor
           /\ FromBlock \in Nat
BY LatestFacts, SourceAssumption DEF SourceInv, TypeOK, SourceTypeOK, RowsInv

LEMMA HeadTypes ==
    ASSUME SourceInv
    PROVE  NewHeads \subseteq Heads /\ Heads \subseteq Path[final] /\ Path[final] \subseteq Path[tip]
<1>1. final \in Path[tip] /\ tip \in Block /\ \A f \in Heads : f \in Path[final]
    BY SourceTypes DEF SourceInv, HeadsAreFinal
<1> QED
    BY <1>1, AncestorFacts DEF NewHeads, Heads

\* A step of the Portal alone.
LEMMA PortalSteps ==
    ASSUME SourceInv, NewBlock \/ Reorganise \/ Finalize, UNCHANGED targetVars
    PROVE  SourceInv'
<1>1. UNCHANGED <<clientVars, streamVars, crashes, targetVars>>
    BY DEF NewBlock, Reorganise, Finalize
<1>2. /\ tip' \in Block /\ final' \in Block /\ reorgs' \in 0..MaxReorgs
      /\ final' \in Path[tip'] /\ final \in Path[final']
    <2>1. /\ tip \in Block /\ final \in Block /\ reorgs \in 0..MaxReorgs /\ final \in Path[tip]
          /\ final \in Path[final]
        BY SourceTypes, PathFacts DEF SourceInv, TypeOK, SourceTypeOK, HeadsAreFinal
    <2>2. CASE NewBlock
        <3>1. tip' \in Block /\ tip \in Path[tip'] /\ final' = final /\ reorgs' = reorgs
            BY <2>2 DEF NewBlock
        <3> QED
            BY <2>1, <3>1, AncestorFacts
    <2>3. CASE Reorganise
        <3>1. /\ tip' \in Block /\ final \in Path[tip'] /\ final' = final
              /\ reorgs' = reorgs + 1 /\ reorgs < MaxReorgs
            BY <2>3 DEF Reorganise
        <3> QED
            BY <2>1, <3>1, SourceAssumption
    <2>4. CASE Finalize
        <3>1. final' \in Path[tip] /\ Num[final'] = Num[final] + 1 /\ tip' = tip /\ reorgs' = reorgs
            BY <2>4 DEF Finalize
        <3>2. final' \in Block /\ Num[final] <= Num[final']
            BY <2>1, <3>1, PathFacts
        <3>3. final \in Path[final']
            BY <2>1, <3>1, <3>2, LowerIsAncestor
        <3> QED
            BY <2>1, <3>1, <3>2, <3>3
    <2> QED
        BY <2>2, <2>3, <2>4
<1>3. TypeOK'
    BY <1>1, <1>2 DEF SourceInv, TypeOK, SourceTypeOK, clientVars, streamVars, targetVars
<1>4. latest' = latest /\ floor' = floor
    BY <1>1 DEF targetVars, latest, floor
<1>5. Flying' = Flying /\ NewHeads' = NewHeads /\ Heads' = Heads
    BY <1>1, <1>4 DEF Flying, NewHeads, Heads, clientVars, streamVars, targetVars
<1>6. StoppedIsEmpty'
    BY <1>1 DEF SourceInv, StoppedIsEmpty, clientVars, streamVars
<1>7. Path[final] \subseteq Path[final']
    BY <1>2, AncestorFacts
<1>8. HeadsAreFinal'
    BY <1>2, <1>5, <1>7 DEF SourceInv, HeadsAreFinal
<1>9. PathTo(latest)' = PathTo(latest) /\ NumOf(floor)' = NumOf(floor) /\ NumOf(latest)' = NumOf(latest)
    BY <1>4 DEF PathTo, NumOf
<1>10. ReadingInv'
    <2>1. AnchoredFlight' = AnchoredFlight
        BY <1>1, <1>4, <1>5, <1>9 DEF AnchoredFlight, clientVars
    <2>2. UnanchoredFlight' = UnanchoredFlight
        BY <1>1, <1>4, <1>5 DEF UnanchoredFlight, clientVars
    <2>3. WatermarkGoesAhead' = WatermarkGoesAhead
        BY <1>1, <1>4, <1>9 DEF WatermarkGoesAhead, clientVars, streamVars, NumOf
    <2>4. ForkIsAboveHeads' = ForkIsAboveHeads
        BY <1>1, <1>5 DEF ForkIsAboveHeads, clientVars
    <2> QED
        BY <1>1, <2>1, <2>2, <2>3, <2>4 DEF SourceInv, ReadingInv, clientVars, streamVars
<1>11. RowsInv'
    <2>1. ChainIsOwnBranch'
        BY <1>1, <1>9 DEF SourceInv, RowsInv, ChainIsOwnBranch, targetVars
    <2> QED
        BY <1>1, <1>4, <1>7, <1>9, <2>1 DEF SourceInv, RowsInv, targetVars, Comparable
<1> QED
    BY <1>3, <1>6, <1>8, <1>10, <1>11 DEF SourceInv

-----------------------------------------------------------------------------
(* The client's steps.                                                     *)

\* A step that leaves the target alone keeps the rows' part of the invariant.
LEMMA RowsStay ==
    ASSUME SourceInv, UNCHANGED <<portalVars, sync>>
    PROVE  RowsInv' /\ latest' = latest /\ floor' = floor
<1>1. latest' = latest /\ floor' = floor
    BY DEF latest, floor
<1>2. PathTo(latest)' = PathTo(latest) /\ NumOf(floor)' = NumOf(floor)
    BY <1>1 DEF PathTo, NumOf
<1>3. ChainIsOwnBranch'
    BY <1>2 DEF SourceInv, RowsInv, ChainIsOwnBranch
<1> QED
    BY <1>1, <1>2, <1>3 DEF SourceInv, RowsInv, portalVars, Comparable

LEMMA ReportedHeadIsFinal ==
    ASSUME SourceInv, NEW head \in ReportedHeads
    PROVE  head \in Cursor /\ (head # None => head \in Path[final])
<1>1. final \in Block /\ final \in Path[final] /\ Path[final] \subseteq Block
    BY SourceTypes, PathFacts
<1>2. head \in {final} \cup Path[final] \cup {None}
    BY DEF ReportedHeads
<1> QED
    BY <1>1, <1>2 DEF Cursor
\* What the Portal adds to the flight.
LEMMA AnswerContinues ==
    ASSUME SourceInv, run = "reading", failure = {},
           request.anchor # None => request.anchor \in Path[tip],
           NEW last \in Path[tip], Num[last] >= request.from
    PROVE  LET blocks == Delivered(request.from, last)
           IN  /\ last \in Block
               /\ last \in blocks /\ blocks \subseteq Path[last]
               /\ Flying \subseteq Path[last] /\ PathTo(latest) \subseteq Path[last]
               /\ \A b \in Flying : Num[b] < request.from
               /\ \A b \in Flying \cup blocks : Num[b] > NumOf(latest) /\ Num[b] >= FromBlock
               /\ \A b \in Path[last] \ PathTo(latest) :
                    b \in Selected /\ Num[b] >= FromBlock => b \in Flying \cup blocks
<1> DEFINE blocks == Delivered(request.from, last)
<1>1. /\ tip \in Block /\ last \in Block /\ last \in Path[last] /\ Num[last] \in Nat
      /\ request.from \in Nat /\ FromBlock \in Nat /\ request.from >= FromBlock
      /\ latest \in Cursor /\ request.anchor \in Cursor
    BY SourceTypes, PathFacts DEF SourceInv, ReadingInv
<1>2. /\ last \in blocks /\ blocks \subseteq Path[last]
      /\ \A b \in blocks : Num[b] >= request.from
    BY <1>1 DEF Delivered
<1>3. \A b \in Path[last] : b \in Block /\ Num[b] \in Nat
    BY <1>1, PathFacts
<1>4. \A b \in Path[last] : b \in Selected /\ Num[b] >= request.from => b \in blocks
    BY DEF Delivered
<1>5. CASE request.anchor # None
    <2> DEFINE anchor == request.anchor
    <2>1. /\ anchor \in Block /\ anchor \in Path[tip] /\ request.from = Num[anchor] + 1
          /\ Flying \subseteq Path[anchor] /\ PathTo(latest) \subseteq Path[anchor]
          /\ \A b \in Flying : Num[b] > NumOf(latest) /\ Num[b] >= FromBlock
          /\ \A b \in Path[anchor] \ PathTo(latest) :
               b \in Selected /\ Num[b] >= FromBlock => b \in Flying
        BY <1>1, <1>5, CursorFacts DEF SourceInv, ReadingInv, AnchoredFlight
    <2>2. Num[anchor] \in Nat /\ Num[anchor] <= Num[last]
        BY <1>1, <2>1, PathFacts
    <2>3. anchor \in Path[last] /\ Path[anchor] \subseteq Path[last]
        BY <1>1, <2>1, <2>2, LowerIsAncestor, AncestorFacts
    <2>4. \A b \in Path[anchor] : Num[b] \in Nat /\ Num[b] <= Num[anchor]
        BY <2>1, AncestorFacts, PathFacts
    <2>5. \A b \in Flying : Num[b] < request.from
        BY <2>1, <2>2, <2>4
    <2>6. NumOf(latest) \in Int /\ NumOf(latest) <= Num[anchor]
        <3>1. CASE latest = None
            BY <3>1, <2>2 DEF NumOf
        <3>2. CASE latest # None
            <4>1. latest \in PathTo(latest) /\ NumOf(latest) = Num[latest]
                BY <1>1, <3>2, CursorFacts, PathFacts
            <4> QED
                BY <4>1, <2>1, <2>4
        <3> QED
            BY <3>1, <3>2
    <2>7. \A b \in blocks : Num[b] > NumOf(latest) /\ Num[b] >= FromBlock
        BY <1>1, <1>2, <1>3, <2>1, <2>2, <2>6
    <2>8. ASSUME NEW b \in Path[last], b \notin PathTo(latest), b \in Selected, Num[b] >= FromBlock
          PROVE  b \in Flying \cup blocks
        <3>1. CASE Num[b] >= request.from
            BY <3>1, <2>8, <1>4
        <3>2. CASE ~(Num[b] >= request.from)
            <4>1. Num[b] <= Num[anchor]
                BY <3>2, <1>3, <2>1, <2>2
            <4>2. b \in Path[anchor]
                BY <4>1, <1>1, <2>3, LowerIsAncestor
            <4> QED
                BY <4>2, <2>8, <2>1
        <3> QED
            BY <3>1, <3>2
    <2> QED
        BY <1>1, <1>2, <2>1, <2>3, <2>5, <2>7, <2>8
<1>6. CASE request.anchor = None
    <2>1. request.from = FromBlock /\ Flying = {} /\ (latest # None => Num[latest] + 1 < FromBlock)
        BY <1>6 DEF SourceInv, ReadingInv, UnanchoredFlight, NoRequest
    <2>2. NumOf(latest) < FromBlock
        BY <1>1, <2>1, CursorFacts
    <2>3. \A b \in blocks : Num[b] > NumOf(latest) /\ Num[b] >= FromBlock
        BY <1>1, <1>2, <1>3, <2>1, <2>2, CursorFacts
    <2>4. PathTo(latest) \subseteq Path[last]
        <3>1. CASE latest = None
            BY <3>1 DEF PathTo
        <3>2. CASE latest # None
            <4>1. latest \in Path[final] /\ Path[final] \subseteq Path[tip]
                BY <3>2, <2>1, HeadTypes DEF SourceInv, RowsInv
            <4>2. latest \in Block /\ Num[latest] \in Nat /\ PathTo(latest) = Path[latest]
                BY <1>1, <3>2, CursorFacts, PathFacts
            <4>3. Num[latest] <= Num[last]
                BY <1>1, <2>1, <3>2, <4>2
            <4>4. latest \in Path[last]
                BY <1>1, <4>1, <4>3, LowerIsAncestor
            <4> QED
                BY <1>1, <4>2, <4>4, AncestorFacts
        <3> QED
            BY <3>1, <3>2
    <2>5. \A b \in Path[last] : b \in Selected /\ Num[b] >= FromBlock => b \in blocks
        BY <1>4, <2>1
    <2> QED
        BY <1>1, <1>2, <2>1, <2>3, <2>4, <2>5
<1> QED
    BY <1>5, <1>6

LEMMA AnswerBlocksKeepsSource ==
    ASSUME SourceInv, AnswerBlocks, UNCHANGED targetVars
    PROVE  SourceInv'
<1>1. /\ run = "reading" /\ failure = {}
      /\ request.anchor # None => request.anchor \in Path[tip]
      /\ UNCHANGED <<portalVars, failure, streamVars, crashes, targetVars>>
    BY DEF AnswerBlocks, ReadingAhead
<1>2. PICK last \in Path[tip], head \in ReportedHeads :
        /\ Num[last] >= request.from
        /\ LET blocks == Delivered(request.from, last)
           IN  buffer' = [blocks    |-> buffer.blocks \cup blocks,
                          finalized |-> MaxFinalized(buffer.finalized, head),
                          full      |-> /\ head # None
                                        /\ \E b \in blocks : Num[b] > Num[head]]
        /\ request' = [from |-> Num[last] + 1, anchor |-> last]
    BY DEF AnswerBlocks
<1> DEFINE blocks == Delivered(request.from, last)
<1>3. /\ last \in Block
      /\ last \in blocks /\ blocks \subseteq Path[last]
      /\ Flying \subseteq Path[last] /\ PathTo(latest) \subseteq Path[last]
      /\ \A b \in Flying : Num[b] < request.from
      /\ \A b \in Flying \cup blocks : Num[b] > NumOf(latest) /\ Num[b] >= FromBlock
      /\ \A b \in Path[last] \ PathTo(latest) :
           b \in Selected /\ Num[b] >= FromBlock => b \in Flying \cup blocks
    BY <1>1, <1>2, AnswerContinues
<1>4. \A b \in blocks : b \in Block /\ Num[b] \in Nat /\ Num[b] >= request.from
    BY <1>3, PathFacts DEF Delivered
<1>5. /\ buffer'.blocks = buffer.blocks \cup blocks
      /\ buffer'.finalized = MaxFinalized(buffer.finalized, head)
      /\ request'.from = Num[last] + 1 /\ request'.anchor = last
      /\ request'.from \in Nat
    <2>1. buffer'.blocks = buffer.blocks \cup blocks
        BY <1>2
    <2>2. buffer'.finalized = MaxFinalized(buffer.finalized, head)
        BY <1>2
    <2> QED
        BY <1>2, <1>3, <2>1, <2>2, PathFacts
<1>6. RowsInv' /\ latest' = latest /\ floor' = floor
    BY <1>1, RowsStay DEF targetVars
<1>7. Flying' = Flying \cup blocks
    BY <1>1, <1>5 DEF Flying, streamVars
<1>8. /\ head \in Cursor /\ (head # None => head \in Path[final])
      /\ buffer.finalized \in Cursor
      /\ MaxFinalized(buffer.finalized, head) \in {buffer.finalized, head}
    BY ReportedHeadIsFinal, SourceTypes, MaxFinalizedFacts
<1>9. \A f \in NewHeads' : f \in NewHeads \/ (f = head /\ f # None)
    BY <1>1, <1>5, <1>8 DEF NewHeads, streamVars
<1>10. \A f \in NewHeads' \cup Heads' : f \in Path[final]
    <2>1. \A f \in Heads' : f \in NewHeads' \/ f \in Heads
        BY <1>1, <1>6 DEF Heads, NewHeads, targetVars
    <2> QED
        BY <2>1, <1>8, <1>9, HeadTypes
<1>11. TypeOK'
    <2>1. (head # None /\ \E b \in blocks : Num[b] > Num[head]) \in BOOLEAN
        OBVIOUS
    <2>2. buffer.blocks \cup blocks \in SUBSET Block /\ MaxFinalized(buffer.finalized, head) \in Cursor
        BY <1>4, <1>8, SourceTypes
    <2>3. buffer' \in [blocks : SUBSET Block, finalized : Cursor, full : BOOLEAN]
        BY <1>2, <2>1, <2>2
    <2>4. request' \in [from : Nat, anchor : Cursor]
        BY <1>2, <1>3, <1>5 DEF Cursor
    <2> QED
        BY <1>1, <2>3, <2>4 DEF SourceInv, TypeOK, SourceTypeOK, portalVars, streamVars, targetVars
<1>12. StoppedIsEmpty'
    BY <1>1 DEF StoppedIsEmpty, streamVars
<1>13. HeadsAreFinal'
    BY <1>1, <1>10 DEF SourceInv, HeadsAreFinal, portalVars
<1>14. AnchoredFlight'
    <2>1. PathTo(latest)' = PathTo(latest) /\ NumOf(latest)' = NumOf(latest)
        BY <1>6 DEF PathTo, NumOf
    <2>2. \A f \in NewHeads' : Comparable(last, f)
        <3>1. \A f \in NewHeads' : f \in Path[tip]
            BY <1>10, HeadTypes
        <3> QED
            BY <3>1, SourceTypes, BranchIsComparable
    <2> QED
        BY <1>3, <1>5, <1>6, <1>7, <2>1, <2>2 DEF AnchoredFlight, Comparable
<1>15. UnanchoredFlight'
    BY <1>3, <1>5, PathFacts DEF UnanchoredFlight
<1>16. WatermarkGoesAhead'
    <2>1. batch' = batch /\ watermark' = watermark
        BY <1>1 DEF streamVars
    <2>2. \A b \in batch.blocks, c \in buffer.blocks \cup blocks : Num[b] < Num[c]
        <3>1. \A b \in batch.blocks : b \in Flying /\ Num[b] \in Nat
            BY SourceTypes, PathFacts DEF Flying
        <3>2. \A b \in batch.blocks, c \in buffer.blocks : Num[b] < Num[c]
            BY <1>1 DEF SourceInv, ReadingInv, WatermarkGoesAhead
        <3>3. \A b \in batch.blocks, c \in blocks : Num[b] < Num[c]
            BY <1>3, <1>4, <3>1, SourceTypes
        <3> QED
            BY <3>2, <3>3
    <2>3. buffer'.blocks # {}
        BY <1>3, <1>5
    <2> QED
        BY <1>1, <1>5, <1>6, <2>1, <2>2, <2>3 DEF SourceInv, ReadingInv, WatermarkGoesAhead, NumOf
<1>17. ForkIsAboveHeads'
    BY <1>1 DEF ForkIsAboveHeads
<1>18. request'.from >= FromBlock
    BY <1>3, <1>4, <1>5, SourceTypes, PathFacts
<1>19. ReadingInv'
    BY <1>14, <1>15, <1>16, <1>17, <1>18 DEF ReadingInv
<1> QED
    BY <1>6, <1>11, <1>12, <1>13, <1>19 DEF SourceInv

LEMMA AnswerForkKeepsSource ==
    ASSUME SourceInv, AnswerFork, UNCHANGED targetVars
    PROVE  SourceInv'
<1>1. /\ run = "reading" /\ request.anchor # None /\ request.anchor \notin Path[tip]
      /\ failure' = CanonicalBefore(tip, request.from)
      /\ UNCHANGED <<portalVars, request, buffer, streamVars, crashes, targetVars>>
    BY DEF AnswerFork, ReadingAhead
<1>2. RowsInv' /\ latest' = latest /\ floor' = floor
    BY <1>1, RowsStay DEF targetVars
<1>3. Flying' = Flying /\ NewHeads' = NewHeads /\ Heads' = Heads
    BY <1>1, <1>2 DEF Flying, NewHeads, Heads, streamVars, targetVars
<1>4. failure' \subseteq Block
    BY <1>1, SourceTypes, PathFacts DEF CanonicalBefore
<1>5. TypeOK'
    BY <1>1, <1>4 DEF SourceInv, TypeOK, SourceTypeOK, portalVars, streamVars, targetVars
<1>6. StoppedIsEmpty'
    BY <1>1 DEF StoppedIsEmpty, streamVars
<1>7. HeadsAreFinal'
    BY <1>1, <1>3 DEF SourceInv, HeadsAreFinal, portalVars
<1>8. PathTo(latest)' = PathTo(latest) /\ NumOf(latest)' = NumOf(latest) /\ NumOf(floor)' = NumOf(floor)
    BY <1>2 DEF PathTo, NumOf
<1>9. AnchoredFlight'
    BY <1>1, <1>2, <1>3, <1>8 DEF SourceInv, ReadingInv, AnchoredFlight
<1>10. UnanchoredFlight'
    BY <1>1 DEF UnanchoredFlight
<1>11. WatermarkGoesAhead'
    BY <1>1, <1>2, <1>8 DEF SourceInv, ReadingInv, WatermarkGoesAhead, streamVars, NumOf
<1>12. ForkIsAboveHeads'
    <2>1. ASSUME NEW f \in NewHeads
          PROVE  f \in Path[request.anchor]
        <3>1. Comparable(request.anchor, f)
            BY <1>1 DEF SourceInv, ReadingInv, AnchoredFlight
        <3>2. f \in Path[tip]
            BY HeadTypes
        <3>3. request.anchor \notin Path[f]
            BY <1>1, <3>2, SourceTypes, AncestorFacts
        <3> QED
            BY <3>1, <3>3 DEF Comparable
    <2> QED
        BY <1>1, <1>3, <2>1 DEF ForkIsAboveHeads
<1>13. ReadingInv'
    BY <1>1, <1>9, <1>10, <1>11, <1>12 DEF SourceInv, ReadingInv
<1> QED
    BY <1>2, <1>5, <1>6, <1>7, <1>13 DEF SourceInv

LEMMA TakeBatchKeepsSource ==
    ASSUME SourceInv, TakeBatch, UNCHANGED targetVars
    PROVE  SourceInv'
<1>1. /\ run = "reading" /\ batch.blocks = {} /\ buffer.blocks # {}
      /\ watermark' = MaxFinalized(watermark, buffer.finalized)
      /\ batch' = [blocks |-> buffer.blocks, finalized |-> watermark']
      /\ buffer' = NoData
      /\ UNCHANGED <<portalVars, request, failure, run, crashes, targetVars>>
    BY DEF TakeBatch
<1>2. RowsInv' /\ latest' = latest /\ floor' = floor
    BY <1>1, RowsStay DEF targetVars
<1>3. /\ batch'.blocks = buffer.blocks /\ batch'.finalized = watermark'
      /\ buffer'.blocks = {} /\ buffer'.finalized = None
    BY <1>1 DEF NoData
<1>4. /\ watermark \in Cursor /\ buffer.finalized \in Cursor
      /\ watermark' \in {watermark, buffer.finalized}
      /\ NumOf(watermark)' >= NumOf(watermark)
      /\ NumOf(watermark) \in Int /\ NumOf(watermark)' \in Int /\ NumOf(floor) \in Int
    <2>1. watermark \in Cursor /\ buffer.finalized \in Cursor /\ floor \in Cursor
        BY SourceTypes
    <2>2. watermark' \in {watermark, buffer.finalized} /\ NumOf(watermark') >= NumOf(watermark)
        BY <1>1, <2>1, MaxFinalizedFacts
    <2>3. NumOf(watermark)' = NumOf(watermark')
        BY DEF NumOf
    <2> QED
        BY <2>1, <2>2, <2>3, CursorFacts
<1>5. Flying' = Flying
    BY <1>1, <1>3 DEF Flying
<1>6. NewHeads' \subseteq NewHeads /\ Heads' \subseteq Heads
    <2>1. NewHeads' \subseteq NewHeads
        BY <1>3, <1>4 DEF NewHeads
    <2> QED
        BY <1>1, <1>2, <2>1 DEF Heads, targetVars
<1>7. TypeOK'
    <2>1. NoData \in [blocks : SUBSET Block, finalized : Cursor, full : BOOLEAN]
        BY DEF NoData, Cursor
    <2>2. watermark' \in Cursor
        BY <1>4
    <2>3. batch' \in [blocks : SUBSET Block, finalized : Cursor]
        BY <1>1, <2>2, SourceTypes
    <2> QED
        BY <1>1, <2>1, <2>2, <2>3 DEF SourceInv, TypeOK, SourceTypeOK, portalVars, targetVars
<1>8. StoppedIsEmpty'
    BY <1>1 DEF StoppedIsEmpty
<1>9. HeadsAreFinal'
    BY <1>1, <1>6 DEF SourceInv, HeadsAreFinal, portalVars
<1>10. PathTo(latest)' = PathTo(latest) /\ NumOf(latest)' = NumOf(latest) /\ NumOf(floor)' = NumOf(floor)
    BY <1>2 DEF PathTo, NumOf
<1>11. request.anchor # None
    BY <1>1 DEF SourceInv, ReadingInv, UnanchoredFlight, Flying
<1>12. AnchoredFlight'
    BY <1>1, <1>2, <1>5, <1>6, <1>10 DEF SourceInv, ReadingInv, AnchoredFlight
<1>13. UnanchoredFlight'
    BY <1>1, <1>11 DEF UnanchoredFlight
<1>14. WatermarkGoesAhead'
    <2>1. NumOf(floor)' <= NumOf(watermark)'
        BY <1>1, <1>4, <1>10 DEF SourceInv, ReadingInv, WatermarkGoesAhead
    <2> QED
        BY <1>1, <1>3, <2>1 DEF WatermarkGoesAhead
<1>15. ForkIsAboveHeads'
    BY <1>1, <1>6 DEF SourceInv, ReadingInv, ForkIsAboveHeads
<1>16. ReadingInv'
    BY <1>1, <1>12, <1>13, <1>14, <1>15 DEF SourceInv, ReadingInv
<1> QED
    BY <1>2, <1>7, <1>8, <1>9, <1>16 DEF SourceInv
-----------------------------------------------------------------------------
(* The target's steps: the source's part of the invariant.                 *)

\* What a commit takes continues the cursor and leaves what comes after it.
LEMMA PartFacts ==
    ASSUME SourceInv, run = "reading", batch.blocks # {}
    PROVE  /\ request.anchor \in Block
           /\ Part \subseteq batch.blocks
           /\ Last(Part) \in Part /\ Last(Part) \in Path[request.anchor]
           /\ Part \subseteq Path[Last(Part)]
           /\ \A b \in Flying \ Part : Num[b] > Num[Last(Part)]
           /\ \A b \in Part : Num[b] > NumOf(latest) /\ Num[b] >= FromBlock
           /\ PathTo(latest) \subseteq Path[Last(Part)]
           /\ \A b \in Path[Last(Part)] \ PathTo(latest) :
                b \in Selected /\ Num[b] >= FromBlock => b \in Part
<1> DEFINE anchor == request.anchor
           current == Last(Part)
           finalized == {b \in batch.blocks : Num[b] <= Num[batch.finalized]}
<1>1. request.anchor # None
    BY DEF SourceInv, ReadingInv, UnanchoredFlight, Flying
<1>2. /\ anchor \in Block /\ latest \in Cursor
      /\ Flying \subseteq Path[anchor] /\ PathTo(latest) \subseteq Path[anchor]
      /\ \A b \in Flying : Num[b] > NumOf(latest) /\ Num[b] >= FromBlock
      /\ \A b \in Path[anchor] \ PathTo(latest) :
           b \in Selected /\ Num[b] >= FromBlock => b \in Flying
    BY <1>1, SourceTypes DEF SourceInv, ReadingInv, AnchoredFlight, Cursor
<1>3. /\ batch.blocks \subseteq Path[anchor]
      /\ \A b \in Flying : b \in batch.blocks \/ b \in buffer.blocks
      /\ \A b \in batch.blocks : b \in Flying
    BY <1>2 DEF Flying
<1>4. \A b \in Path[anchor] : b \in Block /\ Num[b] \in Nat
    BY <1>2, PathFacts
<1>5. /\ Part # {} /\ Part \subseteq batch.blocks
      /\ \A b \in batch.blocks \ Part, p \in Part : Num[p] < Num[b]
    <2>1. CASE ~PerBlock \/ batch.finalized = None
        BY <2>1 DEF Part
    <2>2. CASE ~(~PerBlock \/ batch.finalized = None) /\ finalized # {}
        <3>1. Part = finalized
            BY <2>2 DEF Part
        <3>2. Num[batch.finalized] \in Nat
            BY <2>2, SourceTypes, PathFacts DEF Cursor
        <3> QED
            BY <2>2, <3>1, <3>2, <1>3, <1>4
    <2>3. CASE ~(~PerBlock \/ batch.finalized = None) /\ finalized = {}
        <3>1. Part = {First(batch.blocks)}
            BY <2>3 DEF Part
        <3>2. /\ First(batch.blocks) \in batch.blocks
              /\ \A b \in batch.blocks : Num[First(batch.blocks)] <= Num[b]
            BY SourceTypes, FirstBlock
        <3>3. ASSUME NEW b \in batch.blocks, b # First(batch.blocks)
              PROVE  Num[First(batch.blocks)] < Num[b]
            <4>1. Num[b] # Num[First(batch.blocks)]
                BY <1>2, <1>3, <3>2, <3>3, OneBlockPerNumber
            <4> QED
                BY <1>3, <1>4, <3>2, <4>1
        <3> QED
            BY <3>1, <3>2, <3>3
    <2> QED
        BY <2>1, <2>2, <2>3
<1>6. current \in Part /\ \A b \in Part : Num[b] <= Num[current]
    BY <1>2, <1>3, <1>5, LastBlock
<1> HIDE DEF current
<1>7. current \in Path[anchor] /\ Part \subseteq Path[anchor]
    BY <1>3, <1>5, <1>6
<1>8. \A b \in Part : b \in Path[current]
    BY <1>2, <1>6, <1>7, LowerIsAncestor
<1>9. ASSUME NEW b \in Flying, b \notin Part
      PROVE  Num[b] > Num[current]
    <2>1. CASE b \in batch.blocks
        BY <1>5, <1>6, <1>9, <2>1
    <2>2. CASE b \in buffer.blocks
        BY <1>5, <1>6, <2>2 DEF SourceInv, ReadingInv, WatermarkGoesAhead
    <2> QED
        BY <1>3, <2>1, <2>2
<1>10. \A b \in Part : Num[b] > NumOf(latest) /\ Num[b] >= FromBlock
    BY <1>2, <1>3, <1>5
<1>11. PathTo(latest) \subseteq Path[current]
    <2>1. CASE latest = None
        BY <2>1 DEF PathTo
    <2>2. CASE latest # None
        <3>1. /\ latest \in Block /\ NumOf(latest) = Num[latest] /\ PathTo(latest) = Path[latest]
              /\ latest \in Path[anchor]
            BY <1>2, <2>2, CursorFacts, PathFacts
        <3>2. Num[latest] <= Num[current]
            BY <1>4, <1>6, <1>7, <1>10, <3>1
        <3>3. latest \in Path[current]
            BY <1>2, <1>7, <3>1, <3>2, LowerIsAncestor
        <3> QED
            BY <1>4, <1>7, <3>1, <3>3, AncestorFacts
    <2> QED
        BY <2>1, <2>2
<1>12. ASSUME NEW b \in Path[current], b \notin PathTo(latest), b \in Selected, Num[b] >= FromBlock
       PROVE  b \in Part
    <2>1. current \in Block /\ b \in Path[anchor] /\ Num[b] <= Num[current]
        BY <1>2, <1>4, <1>7, AncestorFacts
    <2>2. b \in Flying /\ Num[b] \in Nat /\ Num[current] \in Nat
        BY <1>2, <1>4, <1>7, <1>12, <2>1
    <2> QED
        BY <1>9, <2>1, <2>2
<1> QED
    BY <1>2, <1>5, <1>6, <1>7, <1>8, <1>9, <1>10, <1>11, <1>12 DEF current

\* The clean-up of a commit leaves its own row alone.
LEMMA SafeIsBelow ==
    ASSUME CursorIsKept, NEW current \in Block, NEW finalized \in Cursor, Num[current] >= FromBlock
    PROVE  SafeNumber(current, finalized) < Num[current]
<1>1. Num[current] \in Nat /\ Retention \in Nat /\ FromBlock \in Nat /\ Num[current] > 0
    BY PathFacts, PostgresAssumption, SourceAssumption DEF CursorIsKept
<1> DEFINE top == IF finalized # None /\ Num[finalized] < Num[current]
                  THEN Num[finalized] ELSE Num[current]
<1>2. top \in Nat /\ top <= Num[current]
    BY <1>1, PathFacts DEF Cursor
<1> HIDE DEF top
<1>3. SafeNumber(current, finalized) = IF top > Retention THEN top - Retention ELSE 0
    BY DEF SafeNumber, top
<1> QED
    BY <1>1, <1>2, <1>3 DEF CursorIsKept

\* The state after a commit.
LEMMA CommitFacts ==
    ASSUME CursorIsKept, SourceInv, CommitBatch
    PROVE  LET current == Last(Part)
               row == [current |-> current, finalized |-> batch.finalized,
                       chain |-> RollbackChain(Part, batch.finalized)]
           IN  /\ run = "reading" /\ batch.blocks # {}
               /\ UNCHANGED <<portalVars, clientVars, watermark, run, crashes>>
               /\ batch' = IF batch.blocks = Part THEN NoBatch
                           ELSE [batch EXCEPT !.blocks = @ \ Part]
               /\ current \in Block /\ batch.finalized = watermark
               /\ row \in SyncRow /\ sync' \in SUBSET SyncRow
               /\ row \in sync' /\ sync' \subseteq sync \cup {row}
               /\ latest' = current /\ floor' = watermark
               /\ NumOf(latest) < Num[current] /\ Num[current] >= FromBlock
               /\ NumOf(floor) <= NumOf(watermark)
<1> DEFINE current == Last(Part)
           row == [current |-> current, finalized |-> batch.finalized,
                   chain |-> RollbackChain(Part, batch.finalized)]
           safe == SafeNumber(current, batch.finalized)
<1>1. /\ run = "reading" /\ batch.blocks # {}
      /\ UNCHANGED <<portalVars, clientVars, watermark, run, crashes>>
      /\ batch' = IF batch.blocks = Part THEN NoBatch ELSE [batch EXCEPT !.blocks = @ \ Part]
      /\ sync' = {r \in sync \cup {row} : CleansUp => Num[r.current] > safe}
    BY DEF CommitBatch, HandOver
<1>2. /\ Part \subseteq batch.blocks /\ current \in Part
      /\ Num[current] > NumOf(latest) /\ Num[current] >= FromBlock
    BY <1>1, PartFacts
<1>3. /\ batch.blocks \subseteq Block /\ batch.finalized \in Cursor
      /\ batch.finalized = watermark /\ NumOf(floor) <= NumOf(watermark)
    BY <1>1, SourceTypes DEF SourceInv, ReadingInv, WatermarkGoesAhead
<1>4. current \in Block /\ Num[current] \in Nat
    BY <1>2, <1>3, PathFacts
<1>5. row \in SyncRow
    BY <1>2, <1>3, <1>4 DEF SyncRow, RollbackChain
<1>6. safe < Num[current] /\ safe \in Int
    <2>1. safe \in Int
        BY <1>3, <1>4, PathFacts, PostgresAssumption DEF SafeNumber, Cursor
    <2> QED
        BY <1>2, <1>3, <1>4, <2>1, SafeIsBelow
<1> HIDE DEF safe
<1>7. sync \in SUBSET SyncRow /\ \A r \in sync : Num[r.current] <= NumOf(latest) /\ r \in SyncRow
    BY LatestFacts DEF SourceInv, TypeOK, RowsInv
<1>8. sync' \in SUBSET SyncRow /\ row \in sync' /\ sync' \subseteq sync \cup {row}
    BY <1>1, <1>4, <1>5, <1>6, <1>7
<1>9. NumOf(latest) \in Int
    BY SourceTypes, CursorFacts
<1>10. \A r \in sync' : r # row => Num[r.current] < Num[row.current]
    <2>1. \A r \in sync : Num[r.current] \in Nat
        BY <1>7, PathFacts DEF SyncRow
    <2> QED
        BY <1>2, <1>4, <1>7, <1>8, <1>9, <2>1
<1>11. LatestRow(sync)' = row
    <2> HIDE DEF row
    <2>1. LatestRow(sync') = row
        BY <1>8, <1>10, LatestRowIs
    <2> QED
        BY <2>1 DEF LatestRow
<1>12. latest' = current /\ floor' = watermark
    BY <1>3, <1>8, <1>11 DEF latest, floor
<1> QED
    BY <1>1, <1>2, <1>3, <1>4, <1>5, <1>8, <1>12

LEMMA WriteType ==
    ASSUME NEW t \in [Key -> Cursor], NEW h \in Block, NEW S \in SUBSET Path[h]
    PROVE  Write(t, S) \in [Key -> Cursor]
<1>1. ASSUME NEW k \in Key
      PROVE  LET writers == {b \in S : Effect[b][k] # "keep"}
             IN  writers # {} => Last(writers) \in Block
    <2> DEFINE writers == {b \in S : Effect[b][k] # "keep"}
    <2>1. writers # {} => Last(writers) \in writers
        BY LastBlock
    <2> QED
        BY <2>1, PathFacts
<1> QED
    BY <1>1 DEF Write, Cursor

LEMMA CommitTypes ==
    ASSUME CursorIsKept, SourceInv, CommitBatch
    PROVE  TypeOK'
<1>1. /\ run = "reading" /\ batch.blocks # {}
      /\ UNCHANGED <<portalVars, clientVars, watermark, run, crashes>>
      /\ batch' = IF batch.blocks = Part THEN NoBatch
                  ELSE [batch EXCEPT !.blocks = @ \ Part]
      /\ sync' \in SUBSET SyncRow /\ Last(Part) \in Block
    BY CommitFacts
<1>2. table \in [Key -> Cursor] /\ undo \in SUBSET UndoRecord /\ saves \in 0..(2 * CleanupEvery - 1)
    BY DEF SourceInv, TypeOK
<1>3. table' \in [Key -> Cursor]
    <2>1. table' = Write(table, Part)
        BY DEF CommitBatch
    <2>2. Part \in SUBSET Path[Last(Part)]
        BY <1>1, PartFacts
    <2> QED
        BY <1>1, <1>2, <2>1, <2>2, WriteType
<1>4. undo' \in SUBSET UndoRecord
    <2> DEFINE taken == Snapshots(table, Part, Num[Last(Part)])
    <2>1. taken \in SUBSET UndoRecord
        <3>1. Num[Last(Part)] \in Nat
            BY <1>1, PathFacts
        <3> QED
            BY <1>2, <3>1 DEF Snapshots, UndoRecord
    <2>2. undo' \subseteq undo \cup taken
        BY DEF CommitBatch
    <2> QED
        BY <1>2, <2>1, <2>2
<1>5. saves' \in 0..(2 * CleanupEvery - 1)
    BY <1>2, PostgresAssumption DEF CommitBatch, NextSave
<1>6. batch' \in [blocks : SUBSET Block, finalized : Cursor]
    <2>1. NoBatch \in [blocks : SUBSET Block, finalized : Cursor]
        BY DEF NoBatch, Cursor
    <2>2. batch \in [blocks : SUBSET Block, finalized : Cursor]
        BY DEF SourceInv, TypeOK, SourceTypeOK
    <2> QED
        BY <1>1, <2>1, <2>2
<1> QED
    BY <1>1, <1>3, <1>4, <1>5, <1>6 DEF SourceInv, TypeOK, SourceTypeOK, portalVars, clientVars
LEMMA CommitKeepsSource ==
    ASSUME CursorIsKept, SourceInv, CommitBatch
    PROVE  SourceInv'
<1> DEFINE current == Last(Part)
           row == [current |-> current, finalized |-> batch.finalized,
                   chain |-> RollbackChain(Part, batch.finalized)]
<1>1. /\ run = "reading" /\ batch.blocks # {}
      /\ UNCHANGED <<portalVars, clientVars, watermark, run, crashes>>
      /\ batch' = IF batch.blocks = Part THEN NoBatch
                  ELSE [batch EXCEPT !.blocks = @ \ Part]
      /\ current \in Block /\ batch.finalized = watermark
      /\ row \in SyncRow /\ sync' \in SUBSET SyncRow
      /\ row \in sync' /\ sync' \subseteq sync \cup {row}
      /\ latest' = current /\ floor' = watermark
      /\ NumOf(latest) < Num[current] /\ Num[current] >= FromBlock
      /\ NumOf(floor) <= NumOf(watermark)
    BY CommitFacts
<1>2. /\ request.anchor \in Block
      /\ Part \subseteq batch.blocks
      /\ current \in Part /\ current \in Path[request.anchor]
      /\ Part \subseteq Path[current]
      /\ \A b \in Flying \ Part : Num[b] > Num[current]
      /\ \A b \in Part : Num[b] > NumOf(latest) /\ Num[b] >= FromBlock
      /\ PathTo(latest) \subseteq Path[current]
      /\ \A b \in Path[current] \ PathTo(latest) :
           b \in Selected /\ Num[b] >= FromBlock => b \in Part
    BY <1>1, PartFacts
<1>3. TypeOK'
    BY CommitTypes
<1> HIDE DEF current
<1>4. /\ batch.blocks \subseteq Block /\ watermark \in Cursor /\ floor \in Cursor
      /\ latest \in Cursor /\ Num[current] \in Nat /\ FromBlock \in Nat
      /\ NumOf(watermark) \in Int /\ NumOf(floor) \in Int /\ NumOf(latest) \in Int
      /\ request.anchor # None
    BY <1>1, <1>2, SourceTypes, CursorFacts, PathFacts
<1>5. batch'.blocks = batch.blocks \ Part /\ (batch'.blocks # {} => batch'.finalized = watermark)
    <2>1. CASE batch.blocks = Part
        BY <1>1, <2>1 DEF NoBatch
    <2>2. CASE batch.blocks # Part
        <3>1. batch' = [batch EXCEPT !.blocks = @ \ Part]
            BY <1>1, <2>2
        <3>2. batch \in [blocks : SUBSET Block, finalized : Cursor]
            BY DEF SourceInv, TypeOK, SourceTypeOK
        <3> QED
            BY <1>1, <3>1, <3>2
    <2> QED
        BY <2>1, <2>2
<1>6. Flying' = (batch.blocks \ Part) \cup buffer.blocks
    BY <1>1, <1>5 DEF Flying, clientVars
<1>7. \A b \in buffer.blocks : b \notin Part
    BY <1>1, <1>2, SourceTypes, PathFacts DEF SourceInv, ReadingInv, WatermarkGoesAhead
<1>8. Flying' = Flying \ Part
    BY <1>6, <1>7 DEF Flying
<1>9. NewHeads' = NewHeads /\ Heads' \subseteq Heads
    <2>1. NewHeads' = NewHeads
        BY <1>1 DEF NewHeads, clientVars
    <2>2. \A r \in sync' : r \in sync \/ r.finalized = watermark
        BY <1>1
    <2>3. \A f \in Heads' : f # None /\ (f \in NewHeads \/ f = watermark \/ \E r \in sync : f = r.finalized)
        BY <1>1, <2>1, <2>2 DEF Heads
    <2> QED
        BY <2>1, <2>3 DEF Heads, NewHeads
<1>10. StoppedIsEmpty'
    BY <1>1 DEF StoppedIsEmpty
<1>11. HeadsAreFinal'
    BY <1>1, <1>9 DEF SourceInv, HeadsAreFinal, portalVars
<1>12. PathTo(latest)' = Path[current] /\ NumOf(latest)' = Num[current] /\ NumOf(floor)' = NumOf(watermark)
    BY <1>1, PathFacts DEF PathTo, NumOf
<1>13. Path[current] \subseteq Path[request.anchor]
    BY <1>2, AncestorFacts
<1>14. request' = request /\ buffer' = buffer /\ failure' = failure /\ watermark' = watermark
    BY <1>1 DEF clientVars
<1>15. AnchoredFlight'
    <2>1. /\ request.from = Num[request.anchor] + 1
          /\ request.anchor \in Flying \cup {latest}
          /\ Flying \subseteq Path[request.anchor]
          /\ \A b \in Flying : Num[b] > NumOf(latest) /\ Num[b] >= FromBlock
          /\ \A b \in Path[request.anchor] \ PathTo(latest) :
               b \in Selected /\ Num[b] >= FromBlock => b \in Flying
          /\ \A f \in NewHeads : Comparable(request.anchor, f)
        BY <1>1, <1>4 DEF SourceInv, ReadingInv, AnchoredFlight
    <2>2. request.anchor \in Flying' \cup {current}
        <3>1. request.anchor # latest
            <4>1. Num[current] <= Num[request.anchor]
                BY <1>2, AncestorFacts
            <4>2. request.anchor = latest => NumOf(latest) = Num[request.anchor]
                BY <1>4 DEF NumOf
            <4> QED
                BY <1>1, <1>4, <4>1, <4>2
        <3>2. CASE request.anchor \in Part
            <4>1. Num[request.anchor] <= Num[current] /\ Num[current] <= Num[request.anchor]
                BY <1>1, <1>2, <3>2, AncestorFacts
            <4>2. Num[request.anchor] \in Nat
                BY <1>2, PathFacts
            <4>3. Num[current] = Num[request.anchor]
                BY <1>4, <4>1, <4>2
            <4> QED
                BY <1>2, <4>3, AncestorFacts
        <3> QED
            BY <1>8, <2>1, <3>1, <3>2
    <2>3. \A b \in Path[request.anchor] \ Path[current] :
            b \in Selected /\ Num[b] >= FromBlock => b \in Flying'
        BY <1>2, <1>8, <2>1
    <2>4. \A b \in Flying' : Num[b] > Num[current] /\ Num[b] >= FromBlock
        BY <1>2, <1>8, <2>1
    <2>5. \A f \in NewHeads' : Comparable(request.anchor, f)'
        BY <1>9, <1>14, <2>1 DEF Comparable
    <2> QED
        BY <1>1, <1>8, <1>9, <1>12, <1>13, <1>14, <2>1, <2>2, <2>3, <2>4, <2>5 DEF AnchoredFlight
<1>16. UnanchoredFlight'
    BY <1>4, <1>14 DEF UnanchoredFlight
<1>17. WatermarkGoesAhead'
    <2>1. NumOf(watermark)' = NumOf(watermark)
        BY <1>14 DEF NumOf
    <2>2. batch'.blocks = {} => batch' = NoBatch /\ watermark' = floor'
        <3>1. batch'.blocks = {} => batch.blocks = Part
            BY <1>2, <1>5
        <3> QED
            BY <1>1, <1>14, <3>1
    <2>3. /\ buffer.blocks = {} => buffer = NoData
          /\ \A b \in batch.blocks, c \in buffer.blocks : Num[b] < Num[c]
        BY <1>1 DEF SourceInv, ReadingInv, WatermarkGoesAhead
    <2> QED
        BY <1>4, <1>5, <1>12, <1>14, <2>1, <2>2, <2>3 DEF WatermarkGoesAhead
<1>18. ForkIsAboveHeads'
    BY <1>1, <1>9, <1>14 DEF SourceInv, ReadingInv, ForkIsAboveHeads
<1>19. ReadingInv'
    BY <1>1, <1>14, <1>15, <1>16, <1>17, <1>18 DEF SourceInv, ReadingInv
<1>20. ChainIsOwnBranch'
    <2>1. /\ \A r \in sync : /\ r.current \in PathTo(latest) /\ r.current \in Block
                             /\ Num[r.current] < Num[current]
          /\ \A r \in sync : \A b \in r.chain : b \in Path[r.current] /\ Num[b] > NumOf(r.finalized)
          /\ \A r, q \in sync : Num[q.current] = Num[r.current] => q = r
        <3>1. ChainIsOwnBranch
            BY DEF SourceInv, RowsInv
        <3>2. \A r \in sync : r \in SyncRow /\ Num[r.current] <= NumOf(latest)
            BY <1>4, <3>1, LatestFacts DEF SourceInv
        <3>3. \A r \in sync : Num[r.current] < Num[current]
            BY <1>1, <1>4, <3>2, PathFacts DEF SyncRow
        <3> QED
            BY <3>1, <3>2, <3>3 DEF ChainIsOwnBranch, SyncRow
    <2>2. \A b \in row.chain : b \in Path[current] /\ Num[b] > NumOf(row.finalized)
        <3>1. CASE batch.finalized = None
            BY <3>1 DEF RollbackChain
        <3>2. CASE batch.finalized # None
            BY <1>2, <3>2 DEF RollbackChain, NumOf
        <3> QED
            BY <3>1, <3>2
    <2>3. ASSUME NEW r \in sync'
          PROVE  /\ r.current \in Path[current]
                 /\ \A b \in r.chain : b \in Path[r.current] /\ Num[b] > NumOf(r.finalized)
                 /\ \A q \in sync' : Num[q.current] = Num[r.current] => q = r
        <3>1. CASE r \in sync
            <4>1. \A q \in sync' : q \in sync \/ Num[q.current] = Num[current]
                BY <1>1
            <4>2. Num[r.current] # Num[current]
                BY <1>4, <2>1, <3>1, PathFacts
            <4> QED
                BY <1>2, <2>1, <3>1, <4>1, <4>2
        <3>2. CASE r = row
            <4>1. \A q \in sync' : q \in sync \/ q = row
                BY <1>1
            <4>2. \A q \in sync : Num[q.current] # Num[current]
                BY <1>4, <2>1, PathFacts
            <4>3. r.current = current /\ current \in Path[current]
                BY <1>1, <3>2, PathFacts
            <4> QED
                BY <2>2, <3>2, <4>1, <4>2, <4>3
        <3> QED
            BY <1>1, <3>1, <3>2
    <2> QED
        BY <1>12, <2>3 DEF ChainIsOwnBranch, NumOf
<1>21. RowsInv'
    <2>1. \A b \in row.chain : Num[b] >= FromBlock
        BY <1>2 DEF RollbackChain
    <2>2. \A r \in sync : /\ \A b \in r.chain : Num[b] >= FromBlock
                          /\ NumOf(r.finalized) <= NumOf(floor)
                          /\ NumOf(r.finalized) \in Int
        BY CursorFacts DEF SourceInv, RowsInv, TypeOK, SyncRow
    <2>3. \A r \in sync' : /\ \A b \in r.chain : Num[b] >= FromBlock
                           /\ NumOf(r.finalized) <= NumOf(watermark)
        <3>1. \A r \in sync' : r \in sync \/ r = row
            BY <1>1
        <3>2. row.finalized = watermark
            BY <1>1
        <3> QED
            BY <1>1, <1>4, <2>1, <2>2, <3>1, <3>2
    <2>4. watermark # None => Comparable(current, watermark)
        <3> SUFFICES ASSUME watermark # None
                     PROVE  Comparable(current, watermark)
            OBVIOUS
        <3>1. watermark \in NewHeads /\ watermark \in Block
            BY <1>4 DEF NewHeads, Cursor
        <3>2. Comparable(request.anchor, watermark)
            BY <1>1, <1>4, <3>1 DEF SourceInv, ReadingInv, AnchoredFlight
        <3>3. CASE watermark \in Path[request.anchor]
            BY <1>2, <3>3, BranchIsComparable
        <3>4. CASE request.anchor \in Path[watermark]
            BY <1>2, <3>1, <3>4, AncestorFacts DEF Comparable
        <3> QED
            BY <3>2, <3>3, <3>4 DEF Comparable
    <2>5. ~(Num[current] + 1 < FromBlock)
        BY <1>1, <1>4
    <2>6. current \in Cursor
        BY <1>1 DEF Cursor
    <2> QED
        BY <1>1, <1>12, <1>20, <2>3, <2>4, <2>5, <2>6 DEF RowsInv, Comparable, NumOf
<1> QED
    BY <1>3, <1>10, <1>11, <1>19, <1>21 DEF SourceInv
-----------------------------------------------------------------------------
(* The fork search over the sync rows.                                     *)

\* Numbers tell the sync rows apart, so there are finitely many.
LEMMA SyncIsFinite ==
    ASSUME TypeOK, latest \in Cursor, ChainIsOwnBranch
    PROVE  IsFiniteSet(sync)
<1> DEFINE number == [r \in sync |-> Num[r.current]]
<1>1. \A r \in sync : r \in SyncRow /\ Num[r.current] <= NumOf(latest)
    BY LatestFacts
<1>2. \A r \in sync : Num[r.current] \in Nat
    BY <1>1, PathFacts DEF SyncRow
<1>3. \A r, q \in sync : Num[r.current] = Num[q.current] => r = q
    BY DEF ChainIsOwnBranch
<1>4. CASE sync = {}
    BY <1>4, FS_EmptySet
<1>5. CASE sync # {}
    <2>1. NumOf(latest) \in Nat
        <3>1. NumOf(latest) \in Int
            BY CursorFacts
        <3> QED
            BY <1>1, <1>2, <1>5, <3>1
    <2>2. number \in [sync -> 0..NumOf(latest)]
        BY <1>1, <1>2, <2>1
    <2>3. \A r, q \in sync : number[r] = number[q] => r = q
        BY <1>3
    <2>4. 0 \in Int /\ NumOf(latest) \in Int
        BY <2>1
    <2> HIDE DEF number
    <2>5. number \in Injection(sync, 0..NumOf(latest))
        BY <2>2, <2>3, Fun_IsInj
    <2>6. IsFiniteSet(0..NumOf(latest))
        BY <2>4, FS_Interval
    <2> QED
        BY <2>5, <2>6, FS_Injection
<1> QED
    BY <1>4, <1>5

\* How many sync rows are no older than r: its place in History.
RowRank(r) == Cardinality({q \in sync : Num[q.current] >= Num[r.current]})

LEMMA RowRankDescends ==
    ASSUME TypeOK, latest \in Cursor, ChainIsOwnBranch,
           NEW r \in sync, NEW q \in sync, Num[r.current] < Num[q.current]
    PROVE  RowRank(q) < RowRank(r) /\ RowRank(q) \in Nat /\ RowRank(r) \in Nat
<1> DEFINE above(s) == {o \in sync : Num[o.current] >= Num[s.current]}
<1>1. \A s \in sync : Num[s.current] \in Nat
    BY PathFacts DEF TypeOK, SyncRow
<1>2. IsFiniteSet(above(r)) /\ IsFiniteSet(above(q))
    <2>1. above(r) \in SUBSET sync /\ above(q) \in SUBSET sync /\ IsFiniteSet(sync)
        BY SyncIsFinite
    <2> HIDE DEF above
    <2> QED
        BY <2>1, FS_Subset
<1>3. above(q) \subseteq above(r) /\ r \in above(r) /\ r \notin above(q)
    BY <1>1
<1>4. Cardinality(above(q)) < Cardinality(above(r)) /\ Cardinality(above(q)) \in Nat
      /\ Cardinality(above(r)) \in Nat
    <2>1. above(q) \in SUBSET above(r) /\ above(q) # above(r)
        BY <1>3
    <2> HIDE DEF above
    <2>2. Cardinality(above(q)) <= Cardinality(above(r))
        BY <1>2, <2>1, FS_Subset
    <2>3. Cardinality(above(q)) # Cardinality(above(r))
        BY <1>2, <2>1, FS_Subset
    <2>4. Cardinality(above(q)) \in Nat /\ Cardinality(above(r)) \in Nat
        BY <1>2, FS_CardinalityType
    <2> QED
        BY <2>2, <2>3, <2>4
<1> QED
    BY <1>4 DEF RowRank

LEMMA RowRankIsBijection ==
    ASSUME TypeOK, latest \in Cursor, ChainIsOwnBranch
    PROVE  /\ Cardinality(sync) \in Nat
           /\ \A r \in sync : RowRank(r) \in 1..Cardinality(sync)
           /\ \A r, q \in sync : RowRank(r) = RowRank(q) => r = q
           /\ \A i \in 1..Cardinality(sync) : \E r \in sync : RowRank(r) = i
<1> DEFINE n == Cardinality(sync)
           rankOf == [r \in sync |-> RowRank(r)]
<1>1. IsFiniteSet(sync) /\ n \in Nat
    BY SyncIsFinite, FS_CardinalityType
<1>2. \A r \in sync : Num[r.current] \in Nat
    BY PathFacts DEF TypeOK, SyncRow
<1>3. ASSUME NEW r \in sync
      PROVE  RowRank(r) \in 1..n
    <2> DEFINE above == {q \in sync : Num[q.current] >= Num[r.current]}
    <2>1. above \in SUBSET sync /\ r \in above
        BY <1>2
    <2> HIDE DEF above
    <2>2. IsFiniteSet(above) /\ Cardinality(above) \in Nat /\ Cardinality(above) <= n
        BY <1>1, <2>1, FS_Subset, FS_CardinalityType
    <2>3. Cardinality(above) # 0
        BY <2>1, <2>2, FS_EmptySet
    <2>4. RowRank(r) = Cardinality(above)
        BY DEF RowRank, above
    <2> QED
        BY <1>1, <2>2, <2>3, <2>4
<1>4. ASSUME NEW r \in sync, NEW q \in sync, RowRank(r) = RowRank(q)
      PROVE  r = q
    <2>1. ~(Num[r.current] < Num[q.current]) /\ ~(Num[q.current] < Num[r.current])
        BY <1>4, RowRankDescends
    <2>2. Num[r.current] = Num[q.current]
        BY <1>2, <2>1
    <2> QED
        BY <2>2 DEF ChainIsOwnBranch
<1>5. rankOf \in Injection(sync, 1..n)
    <2>1. rankOf \in [sync -> 1..n]
        BY <1>3
    <2>2. \A r, q \in sync : rankOf[r] = rankOf[q] => r = q
        BY <1>4
    <2> HIDE DEF rankOf, n
    <2> QED
        BY <2>1, <2>2, Fun_IsInj
<1>6. IsFiniteSet(1..n) /\ Cardinality(1..n) = n
    <2>1. 1 \in Int /\ n \in Int
        BY <1>1
    <2> HIDE DEF n
    <2>2. IsFiniteSet(1..n) /\ Cardinality(1..n) = IF 1 > n THEN 0 ELSE n - 1 + 1
        BY <2>1, FS_Interval
    <2> QED
        BY <1>1, <2>2
<1>7. rankOf \in Surjection(sync, 1..n)
    <2> HIDE DEF rankOf
    <2> QED
        BY <1>1, <1>5, <1>6, FS_Injection
<1>8. \A i \in 1..n : \E r \in sync : rankOf[r] = i
    <2> HIDE DEF rankOf, n
    <2> QED
        BY <1>7, Fun_SurjectionProperties
<1> QED
    BY <1>1, <1>3, <1>4, <1>8

\* Every record of History is a sync row's, and every row has one.
LEMMA HistoryFacts ==
    ASSUME TypeOK, latest \in Cursor, ChainIsOwnBranch
    PROVE  /\ DOMAIN History \subseteq Nat
           /\ \A i \in DOMAIN History : \E r \in sync :
                /\ History[i] = [chain |-> r.chain, finalized |-> r.finalized]
                /\ History[i].chain = r.chain /\ History[i].finalized = r.finalized
           /\ \A r \in sync : \E i \in DOMAIN History : History[i].finalized = r.finalized
<1> DEFINE n == Cardinality(sync)
           row(i) == CHOOSE r \in sync : RowRank(r) = i
<1>1. /\ n \in Nat
      /\ \A r \in sync : RowRank(r) \in 1..n
      /\ \A r, q \in sync : RowRank(r) = RowRank(q) => r = q
      /\ \A i \in 1..n : \E r \in sync : RowRank(r) = i
    BY RowRankIsBijection
<1>2. History = [i \in 1..n |-> [chain |-> row(i).chain, finalized |-> row(i).finalized]]
    BY DEF History, RowRank
<1>3. \A i \in 1..n : row(i) \in sync /\ RowRank(row(i)) = i
    BY <1>1
<1>4. \A r \in sync : row(RowRank(r)) = r
    BY <1>1, <1>3
<1> HIDE DEF row, n
<1>5. DOMAIN History = 1..n
    BY <1>2
<1>6. \A i \in 1..n : /\ History[i] = [chain |-> row(i).chain, finalized |-> row(i).finalized]
                      /\ History[i].chain = row(i).chain
                      /\ History[i].finalized = row(i).finalized
    BY <1>2
<1>7. \A i \in 1..n : i \in Nat
    BY <1>1
<1>8. \A r \in sync : RowRank(r) \in 1..n /\ History[RowRank(r)].finalized = r.finalized
    BY <1>1, <1>4, <1>6
<1> QED
    BY <1>3, <1>5, <1>6, <1>7, <1>8

\* The search's floor is the target's.
LEMMA FloorIsFloor ==
    ASSUME SourceInv
    PROVE  Floor(History) = floor
<1> DEFINE heads == {i \in DOMAIN History : History[i].finalized # None}
           higher(i, j) == LET m == Num[History[i].finalized]
                               o == Num[History[j].finalized]
                           IN  m > o \/ (m = o /\ i <= j)
<1>1. TypeOK /\ latest \in Cursor /\ ChainIsOwnBranch /\ final \in Block /\ floor \in Cursor
    BY SourceTypes DEF SourceInv, RowsInv
<1>2. /\ DOMAIN History \subseteq Nat
      /\ \A i \in DOMAIN History : \E r \in sync : History[i].finalized = r.finalized
      /\ \A r \in sync : \E i \in DOMAIN History : History[i].finalized = r.finalized
    BY <1>1, HistoryFacts
<1>3. \A r \in sync : r.finalized \in Cursor /\ NumOf(r.finalized) <= NumOf(floor)
    BY DEF SourceInv, RowsInv, TypeOK, SyncRow
<1>4. \A i \in DOMAIN History :
        History[i].finalized \in Cursor /\ NumOf(History[i].finalized) <= NumOf(floor)
    BY <1>2, <1>3
<1>5. \A i \in heads : History[i].finalized \in Path[final]
    <2>1. \A r \in sync : r.finalized # None => r.finalized \in Path[final]
        BY DEF SourceInv, HeadsAreFinal, Heads
    <2> QED
        BY <1>2, <2>1
<1>6. CASE floor = None
    <2>1. NumOf(floor) = -1
        BY <1>1, <1>6, CursorFacts
    <2>2. \A i \in DOMAIN History : NumOf(History[i].finalized) = -1
        BY <1>4, <2>1, CursorFacts
    <2>3. \A i \in DOMAIN History : History[i].finalized = None
        BY <1>4, <2>2, CursorFacts
    <2>4. heads = {}
        BY <2>3
    <2> QED
        BY <1>6, <2>4 DEF Floor
<1>7. CASE floor # None
    <2>1. sync # {} => \E r \in sync : floor = r.finalized
        BY <1>1, LatestFacts
    <2>2. sync # {}
        BY <1>7 DEF floor
    <2>3. PICK t \in DOMAIN History : History[t].finalized = floor
        BY <1>2, <2>1, <2>2
    <2>4. floor \in Block /\ Num[floor] \in Nat /\ NumOf(floor) = Num[floor] /\ t \in heads
        BY <1>1, <1>7, <2>3, CursorFacts, PathFacts
    <2>5. \A i \in heads : /\ Num[History[i].finalized] \in Nat
                           /\ Num[History[i].finalized] <= Num[floor]
        BY <1>4, <2>4, CursorFacts, PathFacts
    <2> DEFINE top == {i \in heads : Num[History[i].finalized] = Num[floor]}
    <2>6. top \in SUBSET Nat /\ top # {}
        BY <1>2, <2>3, <2>4
    <2>7. PICK m \in top : \A i \in top : m <= i
        BY <2>6, LeastNumber
    <2>8. \A j \in heads : higher(m, j)
        BY <2>5, <2>4, <2>7
    <2>9. ASSUME NEW i \in heads, \A j \in heads : higher(i, j)
          PROVE  History[i].finalized = floor
        <3>1. Num[History[i].finalized] >= Num[floor]
            BY <2>3, <2>4, <2>5, <2>9
        <3>2. Num[History[i].finalized] = Num[floor]
            BY <2>4, <2>5, <3>1
        <3>3. floor \in Path[final]
            BY <1>5, <2>3, <2>4
        <3> QED
            BY <1>1, <1>5, <3>2, <3>3, OneBlockPerNumber
    <2>10. heads # {} /\ m \in heads
        BY <2>7
    <2>11. Floor(History) = History[CHOOSE i \in heads : \A j \in heads : higher(i, j)].finalized
        BY <2>10 DEF Floor
    <2> HIDE DEF higher, heads
    <2> QED
        BY <2>8, <2>9, <2>10, <2>11
<1> QED
    BY <1>6, <1>7

\* The search returns a retained block that is not below the floor, or the floor.
LEMMA ResolvedCursor ==
    ASSUME NEW history, DOMAIN history \subseteq Nat,
           NEW h \in Block, \A v \in Visits(history) : v[2] \in Path[h],
           NEW canonical \in SUBSET Block, NEW a \in Block,
           a = ResolveForkCursor(history, canonical)
    PROVE  \/ \E v \in Visits(history) : v[2] = a /\ ~BelowFloor(history, v)
           \/ a = Floor(history)
<1> DEFINE ends == Ends(history, canonical)
           end == EndOf(history, canonical)
<1>1. CASE ends # {} /\ ~BelowFloor(history, end)
    <2> DEFINE records == {v[1] : v \in ends}
    <2>1. \A v \in ends : v \in Visits(history) /\ v[1] \in Nat /\ v[2] \in Path[h]
        BY DEF Ends, Visits
    <2>2. records \in SUBSET Nat /\ records # {}
        BY <1>1, <2>1
    <2>3. PICK i \in records : \A j \in records : i <= j
        BY <2>2, LeastNumber
    <2> DEFINE blocks == {v[2] : v \in {u \in ends : u[1] = i}}
    <2>4. blocks \in SUBSET Path[h] /\ blocks # {}
        BY <2>1, <2>3
    <2>5. Last(blocks) \in blocks /\ \A b \in blocks : Num[b] <= Num[Last(blocks)]
        BY <2>4, LastBlock
    <2>6. PICK v \in ends : v[1] = i /\ v[2] = Last(blocks)
        BY <2>5
    <2>7. ASSUME NEW w \in ends, w # v
          PROVE  Before(v, w)
        <3>1. v[1] <= w[1] /\ v[1] \in Nat /\ w[1] \in Nat
            BY <2>1, <2>3, <2>6
        <3>2. CASE w[1] = i
            <4>1. w[2] \in blocks
                BY <3>2
            <4>2. Num[w[2]] <= Num[v[2]]
                BY <4>1, <2>5, <2>6
            <4>3. v = <<v[1], v[2]>> /\ w = <<w[1], w[2]>>
                BY <2>1 DEF Visits
            <4>4. w[2] # v[2]
                BY <4>3, <2>6, <2>7, <3>2
            <4>5. Num[w[2]] # Num[v[2]]
                BY <2>1, <4>4, OneBlockPerNumber
            <4>6. Num[w[2]] \in Nat /\ Num[v[2]] \in Nat
                BY <2>1, PathFacts
            <4> QED
                BY <4>2, <4>5, <4>6, <2>6, <3>2 DEF Before
        <3> QED
            BY <2>6, <3>1, <3>2 DEF Before
    <2>8. end \in ends
        BY <2>7 DEF EndOf
    <2>9. a = end[2]
        BY <1>1 DEF ResolveForkCursor
    <2> QED
        BY <1>1, <2>1, <2>8, <2>9
<1>2. CASE ~(ends # {} /\ ~BelowFloor(history, end))
    <2>1. a = CanonicalFloor(FinalWindow(history, canonical), Floor(history))
        BY <1>2 DEF ResolveForkCursor
    <2> QED
        BY <2>1, PathFacts DEF CanonicalFloor
<1> QED
    BY <1>1, <1>2
\* The state before and after a rollback.
LEMMA ForkFacts ==
    ASSUME SourceInv, ForkRaised, NEW ancestor \in Block,
           ancestor = ResolveForkCursor(History, failure)
    PROVE  /\ latest \in Block /\ floor \in Cursor /\ watermark = floor
           /\ floor # None => floor \in Path[latest]
           /\ ancestor \in Path[latest] /\ NumOf(floor) <= Num[ancestor]
           /\ Num[ancestor] + 1 < FromBlock => ancestor \in Path[final]
<1>1. /\ run = "reading" /\ batch.blocks = {} /\ buffer.blocks = {} /\ failure # {}
    BY DEF ForkRaised
<1>2. /\ TypeOK /\ latest \in Cursor /\ ChainIsOwnBranch /\ floor \in Cursor
      /\ failure \subseteq Block /\ FromBlock \in Nat
    BY SourceTypes DEF SourceInv, RowsInv, TypeOK, SourceTypeOK
<1>3. watermark = floor /\ Flying = {}
    BY <1>1 DEF SourceInv, ReadingInv, WatermarkGoesAhead, Flying
<1>4. request.anchor # None /\ \A f \in NewHeads : f \in Path[request.anchor]
    BY <1>1 DEF SourceInv, ReadingInv, ForkIsAboveHeads
<1>5. request.anchor = latest /\ latest \in Block
    BY <1>1, <1>2, <1>3, <1>4 DEF SourceInv, ReadingInv, AnchoredFlight, Cursor
<1>6. floor # None => floor \in Path[latest]
    BY <1>3, <1>4, <1>5 DEF NewHeads
<1>7. Path[latest] = PathTo(latest)
    BY <1>2, <1>4, <1>5, CursorFacts
<1>8. \A v \in Visits(History) : /\ v[1] \in DOMAIN History
                                 /\ v[2] \in Block /\ v[2] \in History[v[1]].chain
    BY DEF Visits
<1>9. \A i \in DOMAIN History : \E r \in sync : History[i].chain = r.chain
    BY <1>2, HistoryFacts
<1>10. \A r \in sync : \A b \in r.chain : b \in Path[latest] /\ Num[b] >= FromBlock
    <2>1. \A r \in sync : r.current \in Path[latest]
        BY <1>2, <1>7 DEF ChainIsOwnBranch
    <2>2. \A r \in sync : \A b \in r.chain : b \in Path[r.current]
        BY <1>2 DEF ChainIsOwnBranch
    <2>3. \A r \in sync : \A b \in r.chain : Num[b] >= FromBlock
        BY DEF SourceInv, RowsInv
    <2> QED
        BY <1>5, <2>1, <2>2, <2>3, AncestorFacts
<1>11. \A v \in Visits(History) : v[2] \in Path[latest] /\ Num[v[2]] >= FromBlock
    BY <1>8, <1>9, <1>10
<1>12. \/ \E v \in Visits(History) : v[2] = ancestor /\ ~BelowFloor(History, v)
       \/ ancestor = Floor(History)
    <2>1. DOMAIN History \subseteq Nat
        BY <1>2, HistoryFacts
    <2> QED
        BY <1>2, <1>5, <1>11, <2>1, ResolvedCursor
<1>13. Floor(History) = floor
    BY FloorIsFloor
<1>14. Num[ancestor] \in Nat
    BY PathFacts
<1>15. CASE \E v \in Visits(History) : v[2] = ancestor /\ ~BelowFloor(History, v)
    <2>1. PICK v \in Visits(History) : v[2] = ancestor /\ ~BelowFloor(History, v)
        BY <1>15
    <2>2. ancestor \in Path[latest] /\ Num[ancestor] >= FromBlock
        BY <1>11, <2>1
    <2>3. floor = None \/ ~(Num[ancestor] < Num[floor])
        BY <1>13, <2>1 DEF BelowFloor
    <2>4. NumOf(floor) <= Num[ancestor]
        <3>1. CASE floor = None
            BY <1>14, <3>1 DEF NumOf
        <3>2. CASE floor # None
            <4>1. NumOf(floor) = Num[floor] /\ Num[floor] \in Nat
                BY <1>2, <3>2, CursorFacts, PathFacts
            <4> QED
                BY <1>14, <2>3, <3>2, <4>1
        <3> QED
            BY <3>1, <3>2
    <2> QED
        BY <1>2, <1>3, <1>5, <1>6, <1>14, <2>2, <2>4
<1>16. CASE ancestor = Floor(History)
    <2>1. ancestor = floor /\ floor # None
        BY <1>13, <1>16, PathFacts
    <2>2. floor \in Path[latest] /\ NumOf(floor) = Num[ancestor]
        BY <1>6, <2>1 DEF NumOf
    <2>3. floor \in Path[final]
        BY <2>1, HeadTypes DEF Heads
    <2> QED
        BY <1>2, <1>3, <1>5, <1>6, <1>14, <2>1, <2>2, <2>3
<1> QED
    BY <1>12, <1>15, <1>16

\* The sync rows after a rollback.
LEMMA RollbackFacts ==
    ASSUME SourceInv, ForkRaised, NEW ancestor \in Block,
           ancestor = ResolveForkCursor(History, failure), RollbackTo(ancestor)
    PROVE  LET row == ForkRow(ancestor)
           IN  /\ sync' = {r \in sync : Num[r.current] < Num[ancestor]} \cup {row}
               /\ row \in SyncRow /\ sync' \in SUBSET SyncRow
               /\ row.current = ancestor /\ row.finalized = floor
               /\ \A b \in row.chain : /\ Num[b] > NumOf(floor) /\ Num[b] <= Num[ancestor]
                                       /\ \E r \in sync : b \in r.chain
               /\ latest' = ancestor /\ floor' = floor
<1> DEFINE row == ForkRow(ancestor)
           below == {r \in sync : Num[r.current] < Num[ancestor]}
<1>1. sync' = below \cup {row}
    BY DEF RollbackTo
<1>2. TypeOK /\ latest \in Block /\ floor \in Cursor /\ ChainIsOwnBranch /\ Num[ancestor] \in Nat
      /\ \A r \in sync : r.current \in Path[latest]
    <2>1. latest \in Block /\ floor \in Cursor /\ ChainIsOwnBranch
        BY ForkFacts DEF SourceInv, RowsInv
    <2>2. PathTo(latest) = Path[latest]
        BY <2>1, PathFacts DEF PathTo
    <2> QED
        BY <2>1, <2>2, PathFacts DEF SourceInv, ChainIsOwnBranch
<1>3. NumOf(floor) \in Int
    BY <1>2, CursorFacts
<1>4. \A r \in sync : r \in SyncRow /\ Num[r.current] \in Nat
    BY <1>2, PathFacts DEF TypeOK, SyncRow
<1>5. below # {} => LatestRow(below) \in below
    <2>1. below \in SUBSET SyncRow
        BY <1>4
    <2>2. \A r \in below : r.current \in Path[latest]
        BY <1>2
    <2> HIDE DEF below
    <2> QED
        BY <1>2, <2>1, <2>2, RowsHaveALatest
<1> DEFINE start == IF below = {} THEN NumOf(floor)
                    ELSE IF NumOf(floor) > Num[LatestRow(below).current] THEN NumOf(floor)
                    ELSE Num[LatestRow(below).current]
           rows == {r \in sync : below = {} \/ Num[r.current] >= Num[LatestRow(below).current]}
           chain == {b \in UNION {r.chain : r \in rows} : Num[b] <= Num[ancestor] /\ Num[b] > start}
<1>6. start \in Int /\ start >= NumOf(floor)
    <2> HIDE DEF below
    <2>1. below # {} => Num[LatestRow(below).current] \in Int
        BY <1>4, <1>5 DEF below
    <2> QED
        BY <1>3, <2>1
<1>7. row = [current |-> ancestor, finalized |-> floor, chain |-> chain]
    BY DEF ForkRow
<1>8. row.current = ancestor /\ row.finalized = floor /\ row.chain = chain
    BY <1>7
<1> HIDE DEF start, row
<1>9. ASSUME NEW b \in chain
      PROVE  /\ Num[b] > NumOf(floor) /\ Num[b] <= Num[ancestor]
             /\ (\E r \in sync : b \in r.chain) /\ b \in Block
    <2>1. PICK r \in sync : b \in r.chain
        OBVIOUS
    <2>2. b \in Block /\ Num[b] \in Nat
        BY <1>4, <2>1, PathFacts DEF SyncRow
    <2> QED
        BY <1>3, <1>6, <2>1, <2>2
<1> HIDE DEF chain
<1>10. row \in SyncRow
    BY <1>2, <1>7, <1>9 DEF SyncRow
<1>11. sync' \in SUBSET SyncRow /\ row \in sync'
    BY <1>1, <1>4, <1>10
<1>12. \A r \in sync' : r # row => Num[r.current] < Num[row.current]
    BY <1>1, <1>8
<1>13. LatestRow(sync)' = row
    <2>1. LatestRow(sync') = row
        BY <1>11, <1>12, LatestRowIs
    <2> QED
        BY <2>1 DEF LatestRow
<1>14. latest' = ancestor /\ floor' = floor
    <2>1. sync' # {}
        BY <1>11
    <2>2. latest' = LatestRow(sync)'.current /\ floor' = LatestRow(sync)'.finalized
        BY <2>1 DEF latest, floor
    <2> QED
        BY <1>8, <1>13, <2>2
<1> QED
    BY <1>1, <1>8, <1>9, <1>10, <1>11, <1>14 DEF row

LEMMA RewindType ==
    ASSUME NEW t \in [Key -> Cursor], NEW U \in SUBSET UndoRecord, NEW number \in Nat
    PROVE  Rewind(t, U, number) \in [Key -> Cursor]
<1>1. ASSUME NEW k \in Key
      PROVE  LET above == {u \in U : u.key = k /\ u.number > number}
             IN  above # {} =>
                   (CHOOSE u \in above : \A w \in above : u.number <= w.number).before \in Cursor
    <2> DEFINE above == {u \in U : u.key = k /\ u.number > number}
               numbers == {u.number : u \in above}
    <2>1. ASSUME above # {}
          PROVE  \E u \in above : \A w \in above : u.number <= w.number
        <3>1. numbers \in SUBSET Nat /\ numbers # {}
            BY <2>1 DEF UndoRecord
        <3>2. PICK n \in numbers : \A m \in numbers : n <= m
            BY <3>1, LeastNumber
        <3> QED
            BY <3>2
    <2>2. ASSUME above # {}
          PROVE  (CHOOSE u \in above : \A w \in above : u.number <= w.number) \in above
        BY <2>1, <2>2
    <2>3. \A u \in above : u.before \in Cursor
        BY DEF UndoRecord
    <2> QED
        BY <2>2, <2>3
<1> QED
    BY <1>1 DEF Rewind
LEMMA RollbackKeepsSource ==
    ASSUME SourceInv, ForkRaised, NEW ancestor \in Block,
           ancestor = ResolveForkCursor(History, failure), RollbackTo(ancestor)
    PROVE  SourceInv'
<1> DEFINE row == ForkRow(ancestor)
<1>1. /\ sync' = {r \in sync : Num[r.current] < Num[ancestor]} \cup {row}
      /\ row \in SyncRow /\ sync' \in SUBSET SyncRow
      /\ row.current = ancestor /\ row.finalized = floor
      /\ \A b \in row.chain : /\ Num[b] > NumOf(floor) /\ Num[b] <= Num[ancestor]
                              /\ \E r \in sync : b \in r.chain
      /\ latest' = ancestor /\ floor' = floor
    BY RollbackFacts
<1> HIDE DEF row
<1>2. /\ latest \in Block /\ floor \in Cursor /\ watermark = floor
      /\ floor # None => floor \in Path[latest]
      /\ ancestor \in Path[latest] /\ NumOf(floor) <= Num[ancestor]
      /\ Num[ancestor] + 1 < FromBlock => ancestor \in Path[final]
    BY ForkFacts
<1>3. /\ run = "reading"
      /\ request' = Continuing(ancestor) /\ buffer' = NoData /\ failure' = {} /\ batch' = NoBatch
      /\ UNCHANGED <<portalVars, watermark, run, crashes, saves>>
      /\ table' = Rewind(table, undo, Num[ancestor])
      /\ undo' \subseteq undo
    BY DEF RollbackTo, ResumeAfterFork, ForkRaised, ReadFrom
<1>4. /\ Num[ancestor] \in Nat /\ ancestor # None /\ FromBlock \in Nat
      /\ Path[ancestor] \subseteq Path[latest]
      /\ PathTo(latest) = Path[latest]
      /\ PathTo(latest)' = Path[ancestor] /\ NumOf(floor)' = NumOf(floor)
      /\ NumOf(latest)' = Num[ancestor]
    BY <1>1, <1>2, PathFacts, AncestorFacts, SourceTypes DEF PathTo, NumOf
<1>5. request' = IF Num[ancestor] + 1 >= FromBlock
                 THEN [from |-> Num[ancestor] + 1, anchor |-> ancestor] ELSE NoRequest
    BY <1>3, <1>4 DEF Continuing
<1>6. TypeOK'
    <2>1. request' \in [from : Nat, anchor : Cursor]
        BY <1>4, <1>5 DEF NoRequest, Cursor
    <2>2. /\ NoData \in [blocks : SUBSET Block, finalized : Cursor, full : BOOLEAN]
          /\ NoBatch \in [blocks : SUBSET Block, finalized : Cursor]
        BY DEF NoData, NoBatch, Cursor
    <2>3. table' \in [Key -> Cursor] /\ undo' \in SUBSET UndoRecord
        BY <1>3, <1>4, RewindType DEF SourceInv, TypeOK
    <2> QED
        BY <1>1, <1>3, <2>1, <2>2, <2>3 DEF SourceInv, TypeOK, SourceTypeOK, portalVars
<1>7. StoppedIsEmpty'
    BY <1>3 DEF StoppedIsEmpty
<1>8. Flying' = {} /\ NewHeads' = {floor} \ {None}
    BY <1>2, <1>3 DEF Flying, NewHeads, NoData, NoBatch
<1>9. Heads' \subseteq Heads
    <2>1. \A r \in sync' : r \in sync \/ r.finalized = floor
        BY <1>1
    <2>2. \A f \in Heads' : f # None /\ (f = floor \/ \E r \in sync : f = r.finalized)
        BY <1>1, <1>8, <2>1 DEF Heads
    <2> QED
        BY <2>2 DEF Heads
<1>10. HeadsAreFinal'
    BY <1>3, <1>9 DEF SourceInv, HeadsAreFinal, portalVars
<1>11. floor # None => floor \in Path[ancestor]
    BY <1>2, LowerIsAncestor DEF NumOf
<1>12. AnchoredFlight'
    <2> SUFFICES ASSUME request'.anchor # None
                 PROVE  AnchoredFlight'
        BY DEF AnchoredFlight
    <2>1. request' = [from |-> Num[ancestor] + 1, anchor |-> ancestor]
        BY <1>5 DEF NoRequest
    <2>2. request'.from = Num[ancestor] + 1 /\ request'.anchor = ancestor
        BY <2>1
    <2>3. \A f \in NewHeads' : Comparable(ancestor, f)
        BY <1>8, <1>11 DEF Comparable
    <2> QED
        BY <1>1, <1>4, <1>8, <2>2, <2>3 DEF AnchoredFlight, Comparable
<1>13. UnanchoredFlight'
    <2> SUFFICES ASSUME request'.anchor = None
                 PROVE  UnanchoredFlight'
        BY DEF UnanchoredFlight
    <2>1. request' = NoRequest /\ Num[ancestor] + 1 < FromBlock
        <3>1. ~(Num[ancestor] + 1 >= FromBlock)
            BY <1>4, <1>5
        <3> QED
            BY <1>4, <1>5, <3>1
    <2> QED
        BY <1>1, <1>3, <1>8, <2>1 DEF UnanchoredFlight, NoData, NoRequest
<1>14. WatermarkGoesAhead'
    <2>1. watermark' = floor' /\ NumOf(floor)' = NumOf(watermark)'
        BY <1>1, <1>2, <1>3 DEF NumOf
    <2>2. NumOf(floor)' \in Int
        BY <1>2, <1>4, CursorFacts
    <2>3. batch'.blocks = {} /\ buffer'.blocks = {}
        BY <1>3 DEF NoBatch, NoData
    <2> QED
        BY <1>3, <2>1, <2>2, <2>3 DEF WatermarkGoesAhead
<1>15. ForkIsAboveHeads'
    BY <1>3 DEF ForkIsAboveHeads
<1>16. request'.from >= FromBlock
    <2>1. CASE Num[ancestor] + 1 >= FromBlock
        BY <1>5, <2>1
    <2>2. CASE ~(Num[ancestor] + 1 >= FromBlock)
        BY <1>4, <1>5, <2>2 DEF NoRequest
    <2> QED
        BY <2>1, <2>2
<1>17. ReadingInv'
    BY <1>12, <1>13, <1>14, <1>15, <1>16 DEF ReadingInv
<1>18. /\ \A r \in sync : r.current \in Path[latest] /\ r.current \in Block
       /\ \A r \in sync : \A b \in r.chain : b \in Path[r.current] /\ Num[b] > NumOf(r.finalized)
       /\ \A r \in sync : \A b \in r.chain : Num[b] >= FromBlock
       /\ \A r, q \in sync : Num[q.current] = Num[r.current] => q = r
       /\ \A r \in sync : NumOf(r.finalized) <= NumOf(floor)
    BY <1>4 DEF SourceInv, RowsInv, ChainIsOwnBranch, TypeOK, SyncRow
<1>19. \A b \in row.chain : b \in Path[ancestor] /\ Num[b] > NumOf(floor) /\ Num[b] >= FromBlock
    <2> SUFFICES ASSUME NEW b \in row.chain
                 PROVE  b \in Path[ancestor] /\ Num[b] > NumOf(floor) /\ Num[b] >= FromBlock
        OBVIOUS
    <2>1. PICK r \in sync : b \in r.chain
        BY <1>1
    <2>2. b \in Path[latest]
        BY <1>2, <1>18, <2>1, AncestorFacts
    <2>3. b \in Path[ancestor]
        BY <1>1, <1>2, <2>2, LowerIsAncestor
    <2> QED
        BY <1>1, <1>18, <2>1, <2>3
<1>20. ChainIsOwnBranch'
    <2>1. ASSUME NEW r \in sync'
          PROVE  /\ r.current \in Path[ancestor]
                 /\ \A b \in r.chain : b \in Path[r.current] /\ Num[b] > NumOf(r.finalized)
                 /\ \A q \in sync' : Num[q.current] = Num[r.current] => q = r
        <3>1. \A q \in sync' : q = row \/ (q \in sync /\ Num[q.current] < Num[ancestor])
            BY <1>1
        <3>2. CASE r \in sync /\ Num[r.current] < Num[ancestor]
            <4>1. Num[r.current] \in Nat
                BY <1>18, <3>2, PathFacts
            <4>2. r.current \in Path[ancestor]
                BY <1>2, <1>4, <1>18, <3>2, <4>1, LowerIsAncestor
            <4> QED
                BY <1>1, <1>4, <1>18, <3>1, <3>2, <4>1, <4>2
        <3>3. CASE r = row
            <4>1. r.current \in Path[ancestor]
                BY <1>1, <3>3, PathFacts
            <4> QED
                BY <1>1, <1>4, <1>19, <3>1, <3>3, <4>1
        <3> QED
            BY <3>1, <3>2, <3>3
    <2> QED
        BY <1>4, <2>1 DEF ChainIsOwnBranch, NumOf
<1>21. RowsInv'
    <2>1. \A r \in sync' : r = row \/ r \in sync
        BY <1>1
    <2>2. NumOf(floor) \in Int
        BY <1>2, CursorFacts
    <2>3. \A r \in sync' : /\ \A b \in r.chain : Num[b] >= FromBlock
                           /\ NumOf(r.finalized) <= NumOf(floor)
        BY <1>1, <1>18, <1>19, <2>1, <2>2
    <2>4. ancestor \in Cursor
        BY DEF Cursor
    <2>5. floor # None => Comparable(ancestor, floor)
        BY <1>11 DEF Comparable
    <2> QED
        BY <1>1, <1>2, <1>3, <1>4, <1>20, <2>3, <2>4, <2>5 DEF RowsInv, Comparable, NumOf, portalVars
<1> QED
    BY <1>6, <1>7, <1>10, <1>17, <1>21 DEF SourceInv

LEMMA StartKeepsSource ==
    ASSUME SourceInv, StartRun
    PROVE  SourceInv'
<1>1. /\ run' = "reading" /\ watermark' = floor
      /\ request' = Continuing(latest) /\ buffer' = NoData /\ failure' = {} /\ batch' = NoBatch
      /\ UNCHANGED <<portalVars, crashes, targetVars>>
    BY DEF StartRun, Start, ReadFrom
<1>2. RowsInv' /\ latest' = latest /\ floor' = floor
    BY <1>1, RowsStay DEF targetVars
<1>3. latest \in Cursor /\ floor \in Cursor /\ FromBlock \in Nat /\ (latest # None => Num[latest] \in Nat)
    BY SourceTypes, PathFacts DEF Cursor
<1>4. request' = IF latest # None /\ Num[latest] + 1 >= FromBlock
                 THEN [from |-> Num[latest] + 1, anchor |-> latest] ELSE NoRequest
    BY <1>1 DEF Continuing
<1>5. TypeOK'
    <2>1. request' \in [from : Nat, anchor : Cursor]
        BY <1>3, <1>4 DEF NoRequest, Cursor
    <2>2. /\ NoData \in [blocks : SUBSET Block, finalized : Cursor, full : BOOLEAN]
          /\ NoBatch \in [blocks : SUBSET Block, finalized : Cursor]
        BY DEF NoData, NoBatch, Cursor
    <2> QED
        BY <1>1, <1>3, <2>1, <2>2 DEF SourceInv, TypeOK, SourceTypeOK, portalVars, targetVars
<1>6. StoppedIsEmpty'
    BY <1>1 DEF StoppedIsEmpty
<1>7. Flying' = {} /\ NewHeads' = {floor} \ {None}
    BY <1>1 DEF Flying, NewHeads, NoData, NoBatch
<1>8. Heads' \subseteq Heads
    BY <1>1, <1>2, <1>7 DEF Heads, targetVars
<1>9. HeadsAreFinal'
    BY <1>1, <1>8 DEF SourceInv, HeadsAreFinal, portalVars
<1>10. PathTo(latest)' = PathTo(latest) /\ NumOf(floor)' = NumOf(floor)
    BY <1>2 DEF PathTo, NumOf
<1>11. AnchoredFlight'
    <2> SUFFICES ASSUME request'.anchor # None
                 PROVE  AnchoredFlight'
        BY DEF AnchoredFlight
    <2>1. latest # None /\ request' = [from |-> Num[latest] + 1, anchor |-> latest]
        BY <1>4 DEF NoRequest
    <2>2. request'.from = Num[latest] + 1 /\ request'.anchor = latest
        BY <2>1
    <2>3. \A f \in NewHeads' : Comparable(latest, f)
        BY <1>7, <2>1 DEF SourceInv, RowsInv
    <2>4. PathTo(latest) = Path[latest]
        BY <1>3, <2>1, CursorFacts
    <2> QED
        BY <1>2, <1>7, <1>10, <2>2, <2>3, <2>4 DEF AnchoredFlight, Comparable
<1>12. UnanchoredFlight'
    <2> SUFFICES ASSUME request'.anchor = None
                 PROVE  UnanchoredFlight'
        BY DEF UnanchoredFlight
    <2>1. request' = NoRequest /\ (latest # None => Num[latest] + 1 < FromBlock)
        <3>1. ~(latest # None /\ Num[latest] + 1 >= FromBlock)
            BY <1>4
        <3> QED
            BY <1>3, <1>4, <3>1
    <2> QED
        BY <1>1, <1>2, <1>7, <2>1 DEF UnanchoredFlight, NoData, NoRequest
<1>13. WatermarkGoesAhead'
    <2>1. watermark' = floor' /\ NumOf(floor)' = NumOf(watermark)' /\ NumOf(floor)' \in Int
        BY <1>1, <1>2, <1>3, <1>10, CursorFacts DEF NumOf
    <2>2. batch'.blocks = {} /\ buffer'.blocks = {}
        BY <1>1 DEF NoBatch, NoData
    <2> QED
        BY <1>1, <2>1, <2>2 DEF WatermarkGoesAhead
<1>14. ForkIsAboveHeads'
    BY <1>1 DEF ForkIsAboveHeads
<1>15. request'.from >= FromBlock
    <2>1. CASE latest # None /\ Num[latest] + 1 >= FromBlock
        BY <1>4, <2>1
    <2>2. CASE ~(latest # None /\ Num[latest] + 1 >= FromBlock)
        BY <1>3, <1>4, <2>2 DEF NoRequest
    <2> QED
        BY <2>1, <2>2
<1>16. ReadingInv'
    BY <1>11, <1>12, <1>13, <1>14, <1>15 DEF ReadingInv
<1> QED
    BY <1>2, <1>5, <1>6, <1>9, <1>16 DEF SourceInv

LEMMA StopKeepsSource ==
    ASSUME SourceInv, Halt \/ CrashAndLoseMemory
    PROVE  SourceInv'
<1>1. /\ run' \in {"halted", "stopped"} /\ crashes' \in 0..MaxCrashes
      /\ request' = NoRequest /\ buffer' = NoData /\ failure' = {}
      /\ batch' = NoBatch /\ watermark' = None
      /\ UNCHANGED <<portalVars, table, undo, sync>>
      /\ saves' \in {saves, 0}
    <2>1. crashes \in 0..MaxCrashes /\ MaxCrashes \in Nat
        BY SourceAssumption DEF SourceInv, TypeOK, SourceTypeOK
    <2>2. CASE Halt
        BY <2>1, <2>2 DEF Halt, HaltOnFork, Volatile, targetVars
    <2>3. CASE CrashAndLoseMemory
        <3>1. crashes < MaxCrashes /\ crashes' = crashes + 1
            BY <2>3 DEF CrashAndLoseMemory, Crash
        <3>2. crashes' \in 0..MaxCrashes
            BY <2>1, <3>1
        <3> QED
            BY <2>3, <3>2 DEF CrashAndLoseMemory, Crash, Volatile
    <2> QED
        BY <2>2, <2>3
<1>2. RowsInv' /\ latest' = latest /\ floor' = floor
    BY <1>1, RowsStay
<1>3. TypeOK'
    <2>1. /\ NoRequest \in [from : Nat, anchor : Cursor]
          /\ NoData \in [blocks : SUBSET Block, finalized : Cursor, full : BOOLEAN]
          /\ NoBatch \in [blocks : SUBSET Block, finalized : Cursor]
          /\ None \in Cursor
        BY SourceAssumption DEF NoRequest, NoData, NoBatch, Cursor
    <2>2. saves' \in 0..(2 * CleanupEvery - 1)
        BY <1>1, PostgresAssumption DEF SourceInv, TypeOK
    <2> QED
        BY <1>1, <2>1, <2>2 DEF SourceInv, TypeOK, SourceTypeOK, portalVars
<1>4. StoppedIsEmpty'
    BY <1>1 DEF StoppedIsEmpty
<1>5. Heads' \subseteq Heads
    BY <1>1, <1>2 DEF Heads, NewHeads, NoData
<1>6. HeadsAreFinal'
    BY <1>1, <1>5 DEF SourceInv, HeadsAreFinal, portalVars
<1>7. ReadingInv'
    BY <1>1 DEF ReadingInv
<1> QED
    BY <1>2, <1>3, <1>4, <1>6, <1>7 DEF SourceInv

LEMMA InitSource == Init => SourceInv
<1> SUFFICES ASSUME Init
             PROVE  SourceInv
    OBVIOUS
<1>1. /\ tip \in Block /\ final \in Path[tip] /\ reorgs = 0
      /\ request = NoRequest /\ buffer = NoData /\ failure = {}
      /\ batch = NoBatch /\ watermark = None /\ run = "stopped" /\ crashes = 0
      /\ table = [k \in Key |-> None] /\ undo = {} /\ sync = {} /\ saves = 0
    BY DEF Init, SourceInit
<1>2. latest = None /\ floor = None
    BY <1>1 DEF latest, floor
<1>3. TypeOK
    <2>1. /\ NoRequest \in [from : Nat, anchor : Cursor]
          /\ NoData \in [blocks : SUBSET Block, finalized : Cursor, full : BOOLEAN]
          /\ NoBatch \in [blocks : SUBSET Block, finalized : Cursor]
          /\ None \in Cursor
        BY SourceAssumption DEF NoRequest, NoData, NoBatch, Cursor
    <2>2. final \in Block /\ 0 \in 0..MaxReorgs /\ 0 \in 0..MaxCrashes /\ 0 \in 0..(2 * CleanupEvery - 1)
        BY <1>1, PathFacts, SourceAssumption, PostgresAssumption
    <2> QED
        BY <1>1, <2>1, <2>2 DEF TypeOK, SourceTypeOK
<1>4. Heads = {}
    BY <1>1, <1>2 DEF Heads, NewHeads, NoData
<1>5. RowsInv
    BY <1>1, <1>2 DEF RowsInv, ChainIsOwnBranch, Cursor
<1> QED
    BY <1>1, <1>3, <1>4, <1>5 DEF SourceInv, StoppedIsEmpty, HeadsAreFinal, ReadingInv

LEMMA NextKeepsSource ==
    ASSUME CursorIsKept, SourceInv, [Next]_vars
    PROVE  SourceInv'
<1>1. CASE SourceNext /\ UNCHANGED targetVars
    BY <1>1, PortalSteps, AnswerBlocksKeepsSource, AnswerForkKeepsSource, TakeBatchKeepsSource
       DEF SourceNext
<1>2. CASE RollbackFork
    <2>1. PICK ancestor \in Block : /\ ancestor = ResolveForkCursor(History, failure)
                                    /\ RollbackTo(ancestor)
        BY <1>2 DEF RollbackFork
    <2> QED
        BY <1>2, <2>1, RollbackKeepsSource DEF RollbackFork
<1>3. CASE UNCHANGED vars
    <2>1. UNCHANGED <<portalVars, clientVars, streamVars, crashes, targetVars>>
        BY <1>3 DEF vars, sourceVars
    <2>2. RowsInv' /\ latest' = latest /\ floor' = floor
        BY <2>1, RowsStay DEF targetVars
    <2>3. Flying' = Flying /\ NewHeads' = NewHeads /\ Heads' = Heads
        BY <2>1, <2>2 DEF Flying, NewHeads, Heads, clientVars, streamVars, targetVars
    <2>4. TypeOK' /\ StoppedIsEmpty' /\ HeadsAreFinal'
        BY <2>1, <2>3 DEF SourceInv, TypeOK, SourceTypeOK, StoppedIsEmpty, HeadsAreFinal,
            portalVars, clientVars, streamVars, targetVars
    <2>5. /\ PathTo(latest)' = PathTo(latest) /\ NumOf(latest)' = NumOf(latest)
          /\ NumOf(floor)' = NumOf(floor)
        BY <2>2 DEF PathTo, NumOf
    <2>6. ReadingInv'
        BY <2>1, <2>2, <2>3, <2>5 DEF SourceInv, ReadingInv, AnchoredFlight, UnanchoredFlight,
            WatermarkGoesAhead, ForkIsAboveHeads, Comparable, NumOf, clientVars, streamVars
    <2> QED
        BY <2>2, <2>4, <2>6 DEF SourceInv
<1> QED
    BY <1>1, <1>2, <1>3, StartKeepsSource, CommitKeepsSource, StopKeepsSource DEF Next

LEMMA SourceInvImplies ==
    ASSUME SourceInv
    PROVE  TypeOK /\ ChainIsOwnBranch /\ InFlightContinuesCursor
<1> DEFINE anchor == request.anchor
           flying == batch.blocks \cup buffer.blocks
<1>1. TypeOK /\ ChainIsOwnBranch
    BY DEF SourceInv, RowsInv
<1>2. ASSUME run = "reading"
      PROVE  /\ NumOf(anchor) + 1 = request.from \/ request = NoRequest
             /\ \A b \in PathTo(anchor) :
                  Num[b] >= FromBlock => (b \in flying => Num[b] > NumOf(latest))
             /\ \A b \in PathTo(anchor) \ PathTo(latest) :
                  b \in Selected /\ Num[b] >= FromBlock => b \in flying
             /\ flying \subseteq PathTo(anchor)
             /\ \A b \in PathTo(latest) : Num[b] >= FromBlock => b \in PathTo(anchor)
    <2>1. CASE anchor # None
        <3>1. /\ request.from = Num[anchor] + 1
              /\ flying \subseteq Path[anchor] /\ PathTo(latest) \subseteq Path[anchor]
              /\ \A b \in flying : Num[b] > NumOf(latest)
              /\ \A b \in Path[anchor] \ PathTo(latest) :
                   b \in Selected /\ Num[b] >= FromBlock => b \in flying
            BY <1>2, <2>1 DEF SourceInv, ReadingInv, AnchoredFlight, Flying
        <3>2. PathTo(anchor) = Path[anchor] /\ NumOf(anchor) = Num[anchor]
            BY <2>1, SourceTypes, CursorFacts
        <3> QED
            BY <3>1, <3>2
    <2>2. CASE anchor = None
        <3>1. /\ request = NoRequest /\ flying = {} /\ PathTo(anchor) = {}
              /\ latest # None => Num[latest] + 1 < FromBlock
            BY <1>2, <2>2 DEF SourceInv, ReadingInv, UnanchoredFlight, PathTo, Flying
        <3>2. ASSUME NEW b \in PathTo(latest)
              PROVE  ~(Num[b] >= FromBlock)
            <4>1. latest \in Block /\ b \in Path[latest] /\ Num[latest] + 1 < FromBlock
                BY <3>1, SourceTypes DEF PathTo, Cursor
            <4>2. Num[b] \in Nat /\ Num[latest] \in Nat /\ Num[b] <= Num[latest] /\ FromBlock \in Nat
                BY <4>1, AncestorFacts, PathFacts, SourceTypes
            <4> QED
                BY <4>1, <4>2
        <3> QED
            BY <3>1, <3>2
    <2> QED
        BY <2>1, <2>2
<1> HIDE DEF anchor, flying
<1>3. /\ {b \in PathTo(anchor) \ PathTo(latest) : b \in Selected /\ Num[b] >= FromBlock} \subseteq flying
           <=> \A b \in PathTo(anchor) \ PathTo(latest) :
                 b \in Selected /\ Num[b] >= FromBlock => b \in flying
      /\ {b \in PathTo(latest) : Num[b] >= FromBlock} \subseteq PathTo(anchor)
           <=> \A b \in PathTo(latest) : Num[b] >= FromBlock => b \in PathTo(anchor)
    OBVIOUS
<1>4. InFlightContinuesCursor
    BY <1>2, <1>3, Zenon DEF InFlightContinuesCursor, anchor, flying
<1> QED
    BY <1>1, <1>4
-----------------------------------------------------------------------------
(* Writing and rewinding.                                                  *)

\* The blocks that determine a key's value.
Writers(blocks, k) == {b \in blocks : Effect[b][k] # "keep"}

LEMMA WritersHaveALast ==
    ASSUME NEW h \in Block, NEW S \in SUBSET Path[h], NEW k \in Key, Writers(S, k) # {}
    PROVE  \E b \in Writers(S, k) : \A c \in Writers(S, k) : Num[c] <= Num[b]
<1>1. Writers(S, k) \in SUBSET Path[h]
    BY DEF Writers
<1>2. /\ Last(Writers(S, k)) \in Writers(S, k)
      /\ \A b \in Writers(S, k) : Num[b] <= Num[Last(Writers(S, k))]
    BY <1>1, LastBlock
<1> QED
    BY <1>2

LEMMA WriteValue ==
    ASSUME NEW t \in [Key -> Cursor], NEW h \in Block, NEW S \in SUBSET Path[h], NEW k \in Key
    PROVE  /\ Writers(S, k) = {} => Write(t, S)[k] = t[k]
           /\ \A b \in Writers(S, k) :
                (\A c \in Writers(S, k) : Num[c] <= Num[b]) =>
                    Write(t, S)[k] = IF Effect[b][k] = "put" THEN b ELSE None
<1>1. Writers(S, k) \in SUBSET Path[h]
    BY DEF Writers
<1>2. Write(t, S)[k] = IF Writers(S, k) = {} THEN t[k]
                       ELSE IF Effect[Last(Writers(S, k))][k] = "put" THEN Last(Writers(S, k))
                       ELSE None
    BY DEF Write, Writers
<1>3. Writers(S, k) # {} => /\ Last(Writers(S, k)) \in Writers(S, k)
                            /\ \A b \in Writers(S, k) : Num[b] <= Num[Last(Writers(S, k))]
    BY <1>1, LastBlock
<1>4. ASSUME NEW b \in Writers(S, k), \A c \in Writers(S, k) : Num[c] <= Num[b]
      PROVE  Last(Writers(S, k)) = b
    <2>1. /\ Last(Writers(S, k)) \in Path[h] /\ b \in Path[h]
          /\ Num[Last(Writers(S, k))] <= Num[b] /\ Num[b] <= Num[Last(Writers(S, k))]
        BY <1>1, <1>3, <1>4
    <2>2. Num[b] \in Nat /\ Num[Last(Writers(S, k))] \in Nat
        BY <2>1, PathFacts
    <2>3. Num[b] = Num[Last(Writers(S, k))]
        BY <2>1, <2>2
    <2> QED
        BY <2>1, <2>3, OneBlockPerNumber
<1> QED
    BY <1>2, <1>3, <1>4

\* The empty table.
NoRows == [k \in Key |-> None]

LEMMA NoRowsType == NoRows \in [Key -> Cursor] /\ \A k \in Key : NoRows[k] = None
BY DEF NoRows, Cursor

\* The queried part of a branch.
Queried(blocks) == {b \in blocks : Num[b] >= FromBlock}

LEMMA ViewIsWrite ==
    ASSUME NEW blocks
    PROVE  View(blocks) = Write(NoRows, Queried(blocks))
BY DEF View, NoRows, Queried

\* Writing the delivered blocks that follow a cursor gives the view of the branch up to any
\* block with the same selected blocks.
LEMMA ViewGrows ==
    ASSUME NEW l \in Cursor, NEW h \in Block, PathTo(l) \subseteq Path[h],
           NEW P \in SUBSET Path[h], \A b \in P : Num[b] > NumOf(l) /\ Num[b] >= FromBlock,
           \A b \in Path[h] \ PathTo(l) : b \in Selected /\ Num[b] >= FromBlock => b \in P
    PROVE  Write(View(PathTo(l)), P) = View(Path[h])
<1> DEFINE old == Queried(PathTo(l))
           all == Queried(Path[h])
<1>1. old \in SUBSET Path[h] /\ all \in SUBSET Path[h] /\ old \subseteq all /\ P \subseteq all
    BY DEF Queried
<1>2. \A b \in all : b \in old \/ b \in P \/ \A k \in Key : Effect[b][k] = "keep"
    <2>1. \A b \in Path[h] : b \in Block
        BY PathFacts
    <2> QED
        BY <2>1, PostgresAssumption DEF Queried
<1>3. \A b \in old, c \in P : Num[b] <= Num[c]
    <2>1. ASSUME NEW b \in old, NEW c \in P
          PROVE  Num[b] <= Num[c]
        <3>1. l \in Block /\ b \in Path[l] /\ NumOf(l) = Num[l]
            BY CursorFacts DEF Queried, PathTo
        <3>2. Num[b] <= Num[l] /\ Num[b] \in Nat /\ Num[l] \in Nat /\ Num[c] \in Nat
            BY <3>1, AncestorFacts, PathFacts
        <3> QED
            BY <3>1, <3>2
    <2> QED
        BY <2>1
<1>4. View(PathTo(l)) = Write(NoRows, old) /\ View(Path[h]) = Write(NoRows, all)
    BY ViewIsWrite
<1>5. Write(NoRows, old) \in [Key -> Cursor] /\ Write(NoRows, all) \in [Key -> Cursor]
    BY <1>1, WriteType, NoRowsType
<1>6. Write(Write(NoRows, old), P) \in [Key -> Cursor]
    BY <1>5, WriteType
<1> HIDE DEF old, all
<1>7. ASSUME NEW k \in Key
      PROVE  Write(Write(NoRows, old), P)[k] = Write(NoRows, all)[k]
    <2>1. /\ Writers(all, k) = Writers(old, k) \cup Writers(P, k)
          /\ \A b \in Writers(old, k), c \in Writers(P, k) : Num[b] <= Num[c]
        BY <1>1, <1>2, <1>3, <1>7 DEF Writers
    <2>2. CASE Writers(P, k) = {}
        <3>1. Write(Write(NoRows, old), P)[k] = Write(NoRows, old)[k]
            BY <1>5, <2>2, WriteValue
        <3>2. CASE Writers(old, k) = {}
            <4>1. Write(NoRows, old)[k] = NoRows[k] /\ Write(NoRows, all)[k] = NoRows[k]
                BY <1>1, <2>1, <2>2, <3>2, NoRowsType, WriteValue
            <4> QED
                BY <3>1, <4>1
        <3>3. CASE Writers(old, k) # {}
            <4>1. PICK b \in Writers(old, k) : \A c \in Writers(old, k) : Num[c] <= Num[b]
                BY <1>1, <3>3, WritersHaveALast
            <4>2. Write(NoRows, old)[k] = IF Effect[b][k] = "put" THEN b ELSE None
                BY <1>1, <4>1, NoRowsType, WriteValue
            <4>3. Write(NoRows, all)[k] = IF Effect[b][k] = "put" THEN b ELSE None
                BY <1>1, <2>1, <2>2, <4>1, NoRowsType, WriteValue
            <4> QED
                BY <3>1, <4>2, <4>3
        <3> QED
            BY <3>2, <3>3
    <2>3. CASE Writers(P, k) # {}
        <3>1. PICK b \in Writers(P, k) : \A c \in Writers(P, k) : Num[c] <= Num[b]
            BY <2>3, WritersHaveALast
        <3>2. Write(Write(NoRows, old), P)[k] = IF Effect[b][k] = "put" THEN b ELSE None
            BY <1>5, <3>1, WriteValue
        <3>3. Write(NoRows, all)[k] = IF Effect[b][k] = "put" THEN b ELSE None
            BY <1>1, <2>1, <3>1, NoRowsType, WriteValue
        <3> QED
            BY <3>2, <3>3
    <2> QED
        BY <2>2, <2>3
<1> QED
    BY <1>4, <1>5, <1>6, <1>7

\* The view does not change from a cursor to a later block without selected blocks between.
LEMMA ViewStays ==
    ASSUME NEW l \in Cursor, NEW h \in Block, PathTo(l) \subseteq Path[h],
           \A b \in Path[h] \ PathTo(l) : ~(b \in Selected /\ Num[b] >= FromBlock)
    PROVE  View(PathTo(l)) = View(Path[h])
<1>1. Queried(PathTo(l)) \in SUBSET Path[h]
    BY DEF Queried
<1>2. View(PathTo(l)) \in [Key -> Cursor]
    BY <1>1, ViewIsWrite, WriteType, NoRowsType
<1>3. Write(View(PathTo(l)), {}) = View(PathTo(l))
    <2>1. Write(View(PathTo(l)), {}) = [k \in Key |-> View(PathTo(l))[k]]
        BY DEF Write
    <2> QED
        BY <1>2, <2>1
<1>4. Write(View(PathTo(l)), {}) = View(Path[h])
    BY ViewGrows
<1> QED
    BY <1>3, <1>4

\* The records of a key above a number.
RecordsAbove(U, k, number) == {u \in U : u.key = k /\ u.number > number}

OnePerNumber(U) == \A u, w \in U : u.key = w.key /\ u.number = w.number => u = w

LEMMA RewindValue ==
    ASSUME NEW t \in [Key -> Cursor], NEW U \in SUBSET UndoRecord, OnePerNumber(U),
           NEW number \in Nat, NEW k \in Key
    PROVE  /\ RecordsAbove(U, k, number) = {} => Rewind(t, U, number)[k] = t[k]
           /\ \A u \in RecordsAbove(U, k, number) :
                (\A w \in RecordsAbove(U, k, number) : u.number <= w.number) =>
                    Rewind(t, U, number)[k] = u.before
           /\ RecordsAbove(U, k, number) # {} =>
                \E u \in RecordsAbove(U, k, number) :
                    \A w \in RecordsAbove(U, k, number) : u.number <= w.number
<1> DEFINE above == RecordsAbove(U, k, number)
           numbers == {u.number : u \in above}
<1>1. Rewind(t, U, number)[k] =
        IF above = {} THEN t[k]
        ELSE (CHOOSE u \in above : \A w \in above : u.number <= w.number).before
    BY DEF Rewind, RecordsAbove
<1>2. \A u \in above : u \in U /\ u.number \in Nat /\ u.key = k
    BY DEF RecordsAbove, UndoRecord
<1>3. above # {} => \E u \in above : \A w \in above : u.number <= w.number
    <2> SUFFICES ASSUME above # {}
                 PROVE  \E u \in above : \A w \in above : u.number <= w.number
        OBVIOUS
    <2>1. numbers \in SUBSET Nat /\ numbers # {}
        BY <1>2
    <2>2. PICK n \in numbers : \A m \in numbers : n <= m
        BY <2>1, LeastNumber
    <2> QED
        BY <2>2
<1>4. ASSUME NEW u \in above, \A w \in above : u.number <= w.number,
             NEW v \in above, \A w \in above : v.number <= w.number
      PROVE  u = v
    <2>1. u.number = v.number
        BY <1>2, <1>4
    <2> QED
        BY <1>2, <2>1 DEF OnePerNumber
<1> HIDE DEF above
<1>5. ASSUME NEW u \in above, \A w \in above : u.number <= w.number
      PROVE  u = CHOOSE v \in above : \A w \in above : v.number <= w.number
    BY <1>4, <1>5
<1> QED
    BY <1>1, <1>3, <1>5 DEF above

\* Records up to a number play no part in rewinding to it.
LEMMA RewindIgnoresBelow ==
    ASSUME NEW t, NEW U, NEW V, NEW number,
           \A u \in U \cup V : u.number > number => (u \in U <=> u \in V)
    PROVE  Rewind(t, U, number) = Rewind(t, V, number)
<1> DEFINE value(k, above) ==
             IF above = {} THEN t[k]
             ELSE (CHOOSE u \in above : \A w \in above : u.number <= w.number).before
<1>1. \A k \in Key : RecordsAbove(U, k, number) = RecordsAbove(V, k, number)
    BY DEF RecordsAbove
<1>2. /\ Rewind(t, U, number) = [k \in Key |-> value(k, RecordsAbove(U, k, number))]
      /\ Rewind(t, V, number) = [k \in Key |-> value(k, RecordsAbove(V, k, number))]
    BY DEF Rewind, RecordsAbove
<1> HIDE DEF value
<1> QED
    BY <1>1, <1>2
\* Rewinding to a number and from there further is rewinding there at once.
LEMMA RewindTwice ==
    ASSUME NEW t \in [Key -> Cursor], NEW U \in SUBSET UndoRecord, OnePerNumber(U),
           NEW m \in Nat, NEW n \in Nat, n <= m
    PROVE  Rewind(Rewind(t, U, m), {u \in U : u.number <= m}, n) = Rewind(t, U, n)
<1> DEFINE t1 == Rewind(t, U, m)
           V == {u \in U : u.number <= m}
<1>1. t1 \in [Key -> Cursor] /\ V \in SUBSET UndoRecord /\ OnePerNumber(V)
    BY RewindType DEF OnePerNumber
<1>2. Rewind(t1, V, n) \in [Key -> Cursor] /\ Rewind(t, U, n) \in [Key -> Cursor]
    <2> HIDE DEF t1, V
    <2> QED
        BY <1>1, RewindType
<1>3. ASSUME NEW k \in Key
      PROVE  Rewind(t1, V, n)[k] = Rewind(t, U, n)[k]
    <2>1. \A u \in U : u.number \in Nat
        BY DEF UndoRecord
    <2>2. /\ \A u \in RecordsAbove(U, k, n) :
               u \in RecordsAbove(V, k, n) \/ u \in RecordsAbove(U, k, m)
          /\ RecordsAbove(V, k, n) \subseteq RecordsAbove(U, k, n)
          /\ RecordsAbove(U, k, m) \subseteq RecordsAbove(U, k, n)
          /\ \A u \in RecordsAbove(V, k, n), w \in RecordsAbove(U, k, m) : u.number <= w.number
        BY <2>1 DEF RecordsAbove
    <2> HIDE DEF V
    <2>3. CASE RecordsAbove(V, k, n) # {}
        <3>1. PICK u \in RecordsAbove(V, k, n) : \A w \in RecordsAbove(V, k, n) : u.number <= w.number
            BY <1>1, <2>3, RewindValue
        <3>2. Rewind(t1, V, n)[k] = u.before
            <4> HIDE DEF t1
            <4> QED
                BY <1>1, <3>1, RewindValue
        <3>3. u \in RecordsAbove(U, k, n) /\ \A w \in RecordsAbove(U, k, n) : u.number <= w.number
            BY <2>2, <3>1
        <3>4. Rewind(t, U, n)[k] = u.before
            BY <3>3, RewindValue
        <3> QED
            BY <3>2, <3>4
    <2>4. CASE RecordsAbove(V, k, n) = {}
        <3>1. Rewind(t1, V, n)[k] = t1[k]
            <4> HIDE DEF t1
            <4> QED
                BY <1>1, <2>4, RewindValue
        <3>2. RecordsAbove(U, k, n) = RecordsAbove(U, k, m)
            BY <2>2, <2>4
        <3>3. CASE RecordsAbove(U, k, m) = {}
            BY <3>1, <3>2, <3>3, RewindValue
        <3>4. CASE RecordsAbove(U, k, m) # {}
            <4>1. PICK u \in RecordsAbove(U, k, m) :
                    \A w \in RecordsAbove(U, k, m) : u.number <= w.number
                BY <3>4, RewindValue
            <4>2. t1[k] = u.before
                BY <4>1, RewindValue
            <4>3. Rewind(t, U, n)[k] = u.before
                BY <3>2, <4>1, RewindValue
            <4> QED
                BY <3>1, <4>2, <4>3
        <3> QED
            BY <3>3, <3>4
    <2> QED
        BY <2>3, <2>4
<1> HIDE DEF t1, V
<1>4. Rewind(t1, V, n) = Rewind(t, U, n)
    BY <1>2, <1>3
<1> QED
    BY <1>4 DEF t1, V

\* The trigger's images undo the batch they were taken in.
LEMMA RewindUndoesBatch ==
    ASSUME NEW t \in [Key -> Cursor], NEW U \in SUBSET UndoRecord, OnePerNumber(U),
           NEW h \in Block, NEW P \in SUBSET Path[h],
           NEW m \in Nat, NEW n \in Nat, n < m, \A u \in U : u.number < m
    PROVE  Rewind(Write(t, P), U \cup Snapshots(t, P, m), n) = Rewind(t, U, n)
<1> DEFINE t1 == Write(t, P)
           V == U \cup Snapshots(t, P, m)
<1>1. \A s \in Snapshots(t, P, m) :
        /\ s \in UndoRecord /\ s.number = m /\ s.key \in Key /\ s.before = t[s.key]
        /\ s = [number |-> m, key |-> s.key, before |-> t[s.key]]
    BY DEF Snapshots, UndoRecord
<1>2. t1 \in [Key -> Cursor] /\ V \in SUBSET UndoRecord /\ OnePerNumber(V)
    <2>1. OnePerNumber(V)
        <3>1. \A u \in U : u.number # m
            BY DEF UndoRecord
        <3> QED
            BY <1>1, <3>1 DEF OnePerNumber
    <2>2. V \in SUBSET UndoRecord
        BY <1>1
    <2> QED
        BY <2>1, <2>2, WriteType
<1>3. Rewind(t1, V, n) \in [Key -> Cursor] /\ Rewind(t, U, n) \in [Key -> Cursor]
    <2> HIDE DEF t1, V
    <2> QED
        BY <1>2, RewindType
<1>4. ASSUME NEW k \in Key
      PROVE  Rewind(t1, V, n)[k] = Rewind(t, U, n)[k]
    <2>1. /\ RecordsAbove(U, k, n) \subseteq RecordsAbove(V, k, n)
          /\ \A u \in RecordsAbove(V, k, n) :
               u \in RecordsAbove(U, k, n) \/ (u \in Snapshots(t, P, m) /\ u.key = k)
          /\ \A u \in RecordsAbove(U, k, n) : u.number < m /\ u.number \in Nat
          /\ \A s \in Snapshots(t, P, m) : s.key = k => s \in RecordsAbove(V, k, n)
        BY <1>1 DEF RecordsAbove, UndoRecord
    <2> HIDE DEF V
    <2>2. CASE RecordsAbove(U, k, n) # {}
        <3>1. PICK u \in RecordsAbove(U, k, n) : \A w \in RecordsAbove(U, k, n) : u.number <= w.number
            BY <2>2, RewindValue
        <3>2. u \in RecordsAbove(V, k, n) /\ \A w \in RecordsAbove(V, k, n) : u.number <= w.number
            BY <1>1, <2>1, <3>1
        <3>3. Rewind(t, U, n)[k] = u.before
            BY <3>1, RewindValue
        <3>4. Rewind(t1, V, n)[k] = u.before
            <4> HIDE DEF t1
            <4> QED
                BY <1>2, <3>2, RewindValue
        <3> QED
            BY <3>3, <3>4
    <2>3. CASE RecordsAbove(U, k, n) = {}
        <3>1. Rewind(t, U, n)[k] = t[k]
            BY <2>3, RewindValue
        <3>2. CASE RecordsAbove(V, k, n) # {}
            <4>1. PICK u \in RecordsAbove(V, k, n) :
                    \A w \in RecordsAbove(V, k, n) : u.number <= w.number
                BY <1>2, <3>2, RewindValue
            <4>2. u.before = t[k]
                BY <1>1, <2>1, <2>3, <4>1
            <4>3. Rewind(t1, V, n)[k] = u.before
                <5> HIDE DEF t1
                <5> QED
                    BY <1>2, <4>1, RewindValue
            <4> QED
                BY <3>1, <4>2, <4>3
        <3>3. CASE RecordsAbove(V, k, n) = {}
            <4>1. Rewind(t1, V, n)[k] = t1[k]
                <5> HIDE DEF t1
                <5> QED
                    BY <1>2, <3>3, RewindValue
            <4>2. ~\E b \in P : Effect[b][k] = "put" \/ (Effect[b][k] = "del" /\ t[k] # None)
                <5>1. \A s \in Snapshots(t, P, m) : s.key # k
                    BY <2>1, <3>3
                <5>2. (\E b \in P : Effect[b][k] = "put" \/ (Effect[b][k] = "del" /\ t[k] # None))
                        => [number |-> m, key |-> k, before |-> t[k]] \in Snapshots(t, P, m)
                    BY DEF Snapshots
                <5> QED
                    BY <5>1, <5>2
            <4>3. \A b \in P : Effect[b][k] \in {"keep", "put", "del"}
                BY PathFacts, PostgresAssumption
            <4>4. CASE Writers(P, k) = {}
                BY <4>1, <4>4, <3>1, WriteValue
            <4>5. CASE Writers(P, k) # {}
                <5>1. PICK b \in Writers(P, k) : \A c \in Writers(P, k) : Num[c] <= Num[b]
                    BY <4>5, WritersHaveALast
                <5>2. t1[k] = IF Effect[b][k] = "put" THEN b ELSE None
                    BY <5>1, WriteValue
                <5>3. Effect[b][k] = "del" /\ t[k] = None
                    BY <4>2, <4>3, <5>1 DEF Writers
                <5> QED
                    BY <3>1, <4>1, <5>2, <5>3
            <4> QED
                BY <4>4, <4>5
        <3> QED
            BY <3>2, <3>3
    <2> QED
        BY <2>2, <2>3
<1> HIDE DEF t1, V
<1>5. Rewind(t1, V, n) = Rewind(t, U, n)
    BY <1>3, <1>4
<1> QED
    BY <1>5 DEF t1, V

\* Rewinding to a number without records above it leaves the table as it is.
LEMMA RewindToTop ==
    ASSUME NEW t \in [Key -> Cursor], NEW U, NEW n, \A u \in U : ~(u.number > n)
    PROVE  Rewind(t, U, n) = t
<1>1. \A k \in Key : {u \in U : u.key = k /\ u.number > n} = {}
    OBVIOUS
<1>2. Rewind(t, U, n) = [k \in Key |-> t[k]]
    BY <1>1 DEF Rewind
<1> QED
    BY <1>2
-----------------------------------------------------------------------------
(* The steps: the tables' part of the invariant.                           *)

LEMMA DataStays ==
    ASSUME DataInv, UNCHANGED <<table, undo, sync>>, HeadsAreKnown'
    PROVE  DataInv'
<1>1. latest' = latest /\ floor' = floor
    BY DEF latest, floor
<1>2. PathTo(latest)' = PathTo(latest) /\ NumOf(latest)' = NumOf(latest)
    BY <1>1 DEF PathTo, NumOf
<1>3. UndoIsOrdered' /\ UndoReaches' /\ TableIsViewOfCursor'
    BY <1>1, <1>2 DEF DataInv, UndoIsOrdered, UndoReaches, TableIsViewOfCursor
<1> QED
    BY <1>3 DEF DataInv

LEMMA SourceStepsKeepData ==
    ASSUME HeadsComeFirst, SourceInv, DataInv, SourceNext, UNCHANGED targetVars
    PROVE  DataInv'
<1>1. UNCHANGED <<table, undo, sync>> /\ latest' = latest /\ floor' = floor
    BY DEF targetVars, latest, floor
<1>2. CASE NewBlock \/ Reorganise \/ Finalize
    <2>1. UNCHANGED <<clientVars, streamVars>>
        BY <1>2 DEF NewBlock, Reorganise, Finalize
    <2> QED
        BY <1>1, <2>1, DataStays DEF DataInv, HeadsAreKnown, NewHeads, clientVars, streamVars
<1>3. CASE AnswerBlocks
    <2>1. UNCHANGED streamVars
        BY <1>3 DEF AnswerBlocks
    <2>2. PICK head \in ReportedHeads : buffer'.finalized = MaxFinalized(buffer.finalized, head)
        BY <1>3 DEF AnswerBlocks
    <2>3. head \in Cursor /\ buffer.finalized \in Cursor
        BY ReportedHeadIsFinal, SourceTypes
    <2>4. head = None => watermark # None \/ buffer.finalized # None
        <3>1. final # None /\ \A f \in Path[final] : f # None
            BY SourceTypes, PathFacts
        <3> QED
            BY <2>2, <3>1, SourceAssumption DEF ReportedHeads, HeadsComeFirst
    <2>5. watermark # None \/ buffer'.finalized # None
        BY <2>2, <2>3, <2>4, MaxFinalizedFacts
    <2>6. HeadsAreKnown'
        BY <1>1, <2>1, <2>5 DEF DataInv, HeadsAreKnown, NewHeads, streamVars
    <2> QED
        BY <1>1, <2>6, DataStays
<1>4. CASE AnswerFork
    <2>1. UNCHANGED <<buffer, streamVars>>
        BY <1>4 DEF AnswerFork
    <2> QED
        BY <1>1, <2>1, DataStays DEF DataInv, HeadsAreKnown, NewHeads, streamVars
<1>5. CASE TakeBatch
    <2>1. /\ buffer.blocks # {} /\ buffer' = NoData
          /\ watermark' = MaxFinalized(watermark, buffer.finalized)
        BY <1>5 DEF TakeBatch
    <2>2. watermark # None \/ buffer.finalized # None
        BY <2>1 DEF DataInv, HeadsAreKnown, NewHeads
    <2>3. watermark' # None
        BY <2>1, <2>2, SourceTypes, MaxFinalizedFacts
    <2>4. HeadsAreKnown'
        BY <1>1, <2>1, <2>3 DEF DataInv, HeadsAreKnown, NoData
    <2> QED
        BY <1>1, <2>4, DataStays
<1> QED
    BY <1>2, <1>3, <1>4, <1>5 DEF SourceNext

LEMMA StartAndStopKeepData ==
    ASSUME SourceInv, DataInv, StartRun \/ Halt \/ CrashAndLoseMemory
    PROVE  DataInv'
<1>1. UNCHANGED <<table, undo, sync>> /\ batch' = NoBatch /\ buffer' = NoData
    BY DEF StartRun, Start, ReadFrom, Halt, HaltOnFork, CrashAndLoseMemory, Crash, Volatile, targetVars
<1>2. latest' = latest /\ floor' = floor
    BY <1>1 DEF latest, floor
<1>3. HeadsAreKnown'
    BY <1>1, <1>2 DEF DataInv, HeadsAreKnown, NoBatch, NoData
<1> QED
    BY <1>1, <1>3, DataStays

\* The undo log after a commit.
LEMMA CommitUndo ==
    ASSUME CursorIsKept, SourceInv, DataInv, CommitBatch
    PROVE  LET current == Last(Part)
               taken == IF Num[current] >= Num[watermark]
                        THEN Snapshots(table, Part, Num[current]) ELSE {}
           IN  /\ watermark # None /\ watermark \in Block
               /\ undo' \subseteq undo \cup taken
               /\ \A u \in undo \cup taken, b \in Block :
                    /\ Num[watermark] <= Num[b] /\ Num[b] <= Num[current]
                    /\ u.number > Num[b]
                    => u \in undo'
<1> DEFINE current == Last(Part)
           safe == SafeNumber(current, watermark)
           taken == IF Num[current] >= Num[watermark]
                    THEN Snapshots(table, Part, Num[current]) ELSE {}
<1>1. /\ run = "reading" /\ batch.blocks # {} /\ current \in Block /\ batch.finalized = watermark
      /\ Num[current] >= FromBlock
    BY CommitFacts
<1>2. watermark # None /\ watermark \in Block
    BY <1>1, SourceTypes DEF DataInv, HeadsAreKnown, Cursor
<1>3. Num[current] \in Nat /\ Num[watermark] \in Nat
    BY <1>1, <1>2, PathFacts
<1>4. undo' = {u \in undo \cup taken : CleansUp /\ safe > 0 => u.number > safe}
    BY <1>1, <1>2 DEF CommitBatch
<1>5. /\ safe \in Int
      /\ safe > 0 => \/ safe <= Num[watermark]
                     \/ safe < Num[current] /\ Num[current] <= Num[watermark]
    <2>1. CASE Num[watermark] < Num[current]
        <3>1. safe = IF Num[watermark] > Retention THEN Num[watermark] - Retention ELSE 0
            BY <1>2, <2>1 DEF SafeNumber
        <3> HIDE DEF safe
        <3> QED
            BY <1>3, <3>1, PostgresAssumption
    <2>2. CASE ~(Num[watermark] < Num[current])
        <3>1. safe = IF Num[current] > Retention THEN Num[current] - Retention ELSE 0
            BY <1>2, <2>2 DEF SafeNumber
        <3> HIDE DEF safe
        <3> QED
            BY <1>3, <2>2, <3>1, PostgresAssumption DEF CursorIsKept
    <2> QED
        BY <2>1, <2>2
<1>6. \A u \in undo \cup taken : u.number \in Nat
    <2>1. \A u \in undo : u.number \in Nat
        BY DEF SourceInv, TypeOK, UndoRecord
    <2>2. \A u \in Snapshots(table, Part, Num[current]) : u.number = Num[current]
        BY DEF Snapshots
    <2>3. \A u \in taken : u.number \in Nat
        BY <1>3, <2>2
    <2> QED
        BY <2>1, <2>3
<1> HIDE DEF safe, taken, current
<1>7. ASSUME NEW u \in undo \cup taken, NEW b \in Block,
             Num[watermark] <= Num[b], Num[b] <= Num[current], u.number > Num[b]
      PROVE  u \in undo'
    <2>1. Num[b] \in Nat
        BY PathFacts
    <2>2. safe > 0 => u.number > safe
        BY <1>3, <1>5, <1>6, <1>7, <2>1
    <2> QED
        BY <1>4, <2>2
<1>8. undo' \subseteq undo \cup taken
    BY <1>4
<1> QED
    BY <1>2, <1>7, <1>8 DEF taken, current

\* A block that is delivered above the finalized head is committed on its own.
LEMMA UnfinalizedIsAlone ==
    ASSUME SourceInv, run = "reading", batch.blocks # {}, batch.finalized # None,
           Num[batch.finalized] < Num[Last(Part)]
    PROVE  Part = {Last(Part)}
<1> DEFINE finalized == {b \in batch.blocks : Num[b] <= Num[batch.finalized]}
<1>1. Last(Part) \in Part /\ batch.blocks \subseteq Block /\ Part \subseteq batch.blocks
    BY PartFacts, SourceTypes
<1>2. Num[Last(Part)] \in Nat /\ Num[batch.finalized] \in Nat
    BY <1>1, SourceTypes, PathFacts DEF Cursor
<1>3. Last(Part) \notin finalized
    BY <1>2
<1>4. finalized = {}
    <2>1. finalized # {} => Part = finalized
        BY PostgresAssumption DEF Part
    <2> QED
        BY <1>1, <1>3, <2>1
<1>5. Part = {First(batch.blocks)}
    BY <1>4, PostgresAssumption DEF Part
<1> QED
    BY <1>1, <1>5

LEMMA CommitKeepsData ==
    ASSUME CursorIsKept, SourceInv, DataInv, CommitBatch
    PROVE  DataInv'
<1> DEFINE current == Last(Part)
           taken == IF Num[current] >= Num[watermark]
                    THEN Snapshots(table, Part, Num[current]) ELSE {}
<1>1. /\ run = "reading" /\ batch.blocks # {}
      /\ UNCHANGED <<portalVars, clientVars, watermark, run, crashes>>
      /\ current \in Block /\ batch.finalized = watermark
      /\ latest' = current /\ floor' = watermark
      /\ NumOf(latest) < Num[current] /\ NumOf(floor) <= NumOf(watermark)
    BY CommitFacts
<1>2. /\ Part \subseteq Path[current] /\ current \in Part
      /\ \A b \in Part : Num[b] > NumOf(latest) /\ Num[b] >= FromBlock
      /\ PathTo(latest) \subseteq Path[current]
      /\ \A b \in Path[current] \ PathTo(latest) :
           b \in Selected /\ Num[b] >= FromBlock => b \in Part
    BY <1>1, PartFacts
<1>3. /\ watermark # None /\ watermark \in Block
      /\ undo' \subseteq undo \cup taken
      /\ \A u \in undo \cup taken, b \in Block :
           /\ Num[watermark] <= Num[b] /\ Num[b] <= Num[current]
           /\ u.number > Num[b]
           => u \in undo'
    BY CommitUndo
<1>4. Num[current] > Num[batch.finalized] => Part = {current}
    BY <1>1, <1>3, UnfinalizedIsAlone, PathFacts
<1>5. table' = Write(table, Part)
    BY DEF CommitBatch
<1> HIDE DEF current
<1>6. /\ latest \in Cursor /\ NumOf(latest) \in Int /\ Num[current] \in Nat /\ Num[watermark] \in Nat
      /\ NumOf(floor) \in Int /\ NumOf(watermark) = Num[watermark]
    BY <1>1, <1>3, SourceTypes, CursorFacts, PathFacts
<1>7. /\ table \in [Key -> Cursor] /\ undo \in SUBSET UndoRecord /\ OnePerNumber(undo)
      /\ \A u \in undo : u.number <= NumOf(latest) /\ u.number \in Nat
      /\ table = View(PathTo(latest))
    BY DEF SourceInv, TypeOK, DataInv, UndoIsOrdered, OnePerNumber, TableIsViewOfCursor, UndoRecord
<1>8. PathTo(latest)' = Path[current] /\ NumOf(latest)' = Num[current]
    BY <1>1, PathFacts DEF PathTo, NumOf
<1>9. HeadsAreKnown'
    <2>1. watermark' = watermark /\ buffer' = buffer
        BY <1>1 DEF clientVars
    <2> QED
        BY <1>1, <1>3, <2>1 DEF DataInv, HeadsAreKnown, NewHeads
<1>10. UndoIsOrdered'
    <2>1. \A s \in Snapshots(table, Part, Num[current]) :
            s.number = Num[current] /\ s = [number |-> Num[current], key |-> s.key, before |-> table[s.key]]
        BY DEF Snapshots
    <2>2. \A u \in undo' : u \in undo \/ u \in Snapshots(table, Part, Num[current])
        BY <1>3
    <2>3. \A u \in undo' : u.number <= Num[current]
        BY <1>1, <1>6, <1>7, <2>1, <2>2
    <2>4. \A u \in undo : u.number # Num[current]
        BY <1>1, <1>6, <1>7
    <2>5. \A u, w \in undo' : u.key = w.key /\ u.number = w.number => u = w
        BY <1>7, <2>1, <2>2, <2>4 DEF OnePerNumber
    <2> QED
        BY <1>8, <2>3, <2>5 DEF UndoIsOrdered
<1>11. table' = View(Path[current])
    BY <1>1, <1>2, <1>5, <1>6, <1>7, ViewGrows
<1>12. TableIsViewOfCursor'
    <2>1. View(PathTo(latest))' = View(PathTo(latest)')
        BY DEF View, Write
    <2> QED
        BY <1>8, <1>11, <2>1 DEF TableIsViewOfCursor
<1>13. ASSUME NEW b \in Path[current], Num[b] >= Num[watermark]
       PROVE  Rewind(table', undo', Num[b]) = View(Path[b])
    <2>1. b \in Block /\ Num[b] \in Nat /\ Num[b] <= Num[current]
        BY <1>1, AncestorFacts, PathFacts
    <2>2. table' \in [Key -> Cursor]
        BY <1>1, <1>2, <1>5, <1>7, WriteType
    <2>3. CASE b = current
        <3>1. \A u \in undo' : ~(u.number > Num[b])
            <4>1. \A u \in undo' : u.number <= Num[current]
                BY <1>8, <1>10 DEF UndoIsOrdered
            <4>2. \A u \in undo' : u.number \in Int
                <5>1. undo' \in SUBSET UndoRecord
                    BY CommitTypes DEF TypeOK
                <5> QED
                    BY <5>1 DEF UndoRecord
            <4> QED
                BY <1>6, <2>3, <4>1, <4>2
        <3>2. Rewind(table', undo', Num[b]) = table'
            BY <2>2, <3>1, RewindToTop
        <3> QED
            BY <1>11, <2>3, <3>2
    <2>4. CASE b # current
        <3>1. Num[b] < Num[current]
            <4>1. Num[b] # Num[current]
                BY <1>1, <2>4, AncestorFacts
            <4> QED
                BY <1>6, <2>1, <4>1
        <3>2. taken = Snapshots(table, Part, Num[current]) /\ Num[current] > Num[watermark]
            BY <1>6, <1>13, <2>1, <3>1
        <3> DEFINE V == undo \cup Snapshots(table, Part, Num[current])
        <3>3. Rewind(table', undo', Num[b]) = Rewind(table', V, Num[b])
            <4>1. \A u \in undo' \cup V : u.number > Num[b] => (u \in undo' <=> u \in V)
                BY <1>3, <1>13, <2>1, <3>2
            <4> HIDE DEF V
            <4> QED
                BY <4>1, RewindIgnoresBelow
        <3>4. Rewind(table', V, Num[b]) = Rewind(table, undo, Num[b])
            <4>1. \A u \in undo : u.number < Num[current]
                BY <1>1, <1>6, <1>7
            <4> QED
                BY <1>1, <1>2, <1>5, <1>6, <1>7, <2>1, <3>1, <4>1, RewindUndoesBatch
        <3>5. CASE b \in PathTo(latest)
            <4>1. floor # None /\ floor \in Block
                BY <3>5, SourceTypes DEF DataInv, HeadsAreKnown, PathTo, Cursor
            <4>2. Num[b] >= Num[floor]
                <5>1. NumOf(floor) = Num[floor]
                    BY <4>1 DEF NumOf
                <5> QED
                    BY <1>1, <1>6, <1>13, <2>1, <5>1
            <4>3. Rewind(table, undo, Num[b]) = View(Path[b])
                BY <3>5, <4>1, <4>2 DEF DataInv, UndoReaches
            <4> QED
                BY <3>3, <3>4, <4>3
        <3>6. CASE b \notin PathTo(latest)
            <4>1. Num[b] > NumOf(latest) /\ PathTo(latest) \subseteq Path[b]
                <5>1. CASE latest = None
                    BY <2>1, <5>1 DEF NumOf, PathTo
                <5>2. CASE latest # None
                    <6>1. /\ latest \in Block /\ latest \in Path[current]
                          /\ NumOf(latest) = Num[latest] /\ PathTo(latest) = Path[latest]
                        BY <1>2, <1>6, <5>2, CursorFacts, PathFacts
                    <6>2. ~(Num[b] <= Num[latest])
                        BY <1>1, <3>6, <6>1, LowerIsAncestor
                    <6>3. Num[latest] <= Num[b]
                        BY <1>6, <2>1, <6>1, <6>2
                    <6>4. latest \in Path[b]
                        BY <1>1, <6>1, <6>3, LowerIsAncestor
                    <6> QED
                        BY <1>6, <2>1, <6>1, <6>2, <6>4, AncestorFacts
                <5> QED
                    BY <5>1, <5>2
            <4>2. Rewind(table, undo, Num[b]) = table
                <5>1. \A u \in undo : ~(u.number > Num[b])
                    BY <1>6, <1>7, <2>1, <4>1
                <5> QED
                    BY <1>7, <5>1, RewindToTop
            <4>3. \A c \in Path[b] \ PathTo(latest) : ~(c \in Selected /\ Num[c] >= FromBlock)
                <5>1. ASSUME NEW c \in Path[b], c \notin PathTo(latest), c \in Selected, Num[c] >= FromBlock
                      PROVE  FALSE
                    <6>1. c \in Path[current] /\ Num[c] <= Num[b] /\ Num[c] \in Nat
                        BY <1>1, <2>1, <5>1, AncestorFacts, PathFacts
                    <6>2. c \in Part
                        BY <1>2, <5>1, <6>1
                    <6>3. c = current
                        BY <1>1, <1>4, <3>2, <6>2
                    <6> QED
                        BY <1>6, <2>1, <3>1, <6>1, <6>3
                <5> QED
                    BY <5>1
            <4>4. View(PathTo(latest)) = View(Path[b])
                BY <1>6, <2>1, <4>1, <4>3, ViewStays
            <4> QED
                BY <1>7, <3>3, <3>4, <4>2, <4>4
        <3> QED
            BY <3>5, <3>6
    <2> QED
        BY <2>3, <2>4
<1>14. UndoReaches'
    <2>1. \A b : /\ Rewind(table, undo, Num[b])' = Rewind(table', undo', Num[b])
                 /\ View(Path[b])' = View(Path[b])
        BY DEF Rewind, View, Write
    <2> QED
        BY <1>1, <1>8, <1>13, <2>1 DEF UndoReaches
<1> QED
    BY <1>9, <1>10, <1>12, <1>14 DEF DataInv
LEMMA RollbackKeepsData ==
    ASSUME SourceInv, DataInv, ForkRaised, NEW ancestor \in Block,
           ancestor = ResolveForkCursor(History, failure), RollbackTo(ancestor)
    PROVE  DataInv'
<1>1. /\ latest \in Block /\ floor \in Cursor /\ watermark = floor
      /\ ancestor \in Path[latest] /\ NumOf(floor) <= Num[ancestor]
    BY ForkFacts
<1>2. latest' = ancestor /\ floor' = floor
    BY RollbackFacts
<1>3. /\ table' = Rewind(table, undo, Num[ancestor])
      /\ undo' = {u \in undo : u.number <= Num[ancestor]}
      /\ batch' = NoBatch /\ buffer' = NoData
    BY DEF RollbackTo, ResumeAfterFork, ReadFrom
<1>4. /\ Num[ancestor] \in Nat /\ latest # None /\ ancestor # None
      /\ PathTo(latest) = Path[latest] /\ PathTo(latest)' = Path[ancestor]
      /\ NumOf(latest)' = Num[ancestor]
      /\ Path[ancestor] \subseteq Path[latest]
    BY <1>1, <1>2, PathFacts, AncestorFacts DEF PathTo, NumOf
<1>5. floor # None /\ floor \in Block /\ NumOf(floor) = Num[floor]
    BY <1>1, <1>4, CursorFacts DEF DataInv, HeadsAreKnown
<1>6. \A b \in Path[latest] : Num[b] >= Num[floor] => Rewind(table, undo, Num[b]) = View(Path[b])
    BY <1>4, <1>5 DEF DataInv, UndoReaches
<1>7. table \in [Key -> Cursor] /\ undo \in SUBSET UndoRecord /\ OnePerNumber(undo)
    BY DEF SourceInv, TypeOK, DataInv, UndoIsOrdered, OnePerNumber
<1>8. HeadsAreKnown'
    BY <1>2, <1>3, <1>5 DEF HeadsAreKnown, NoBatch, NoData
<1>9. UndoIsOrdered'
    BY <1>3, <1>4, <1>7 DEF UndoIsOrdered, OnePerNumber
<1>10. TableIsViewOfCursor'
    <2>1. Num[ancestor] >= Num[floor]
        BY <1>1, <1>4, <1>5, PathFacts
    <2>2. table' = View(Path[ancestor])
        BY <1>1, <1>3, <1>6, <2>1
    <2>3. View(PathTo(latest))' = View(PathTo(latest)')
        BY DEF View, Write
    <2> QED
        BY <1>4, <2>2, <2>3 DEF TableIsViewOfCursor
<1>11. UndoReaches'
    <2>1. ASSUME NEW b \in Path[ancestor], Num[b] >= Num[floor]
          PROVE  Rewind(table', undo', Num[b]) = View(Path[b])
        <3>1. Num[b] \in Nat /\ Num[b] <= Num[ancestor] /\ b \in Path[latest]
            BY <1>4, AncestorFacts, PathFacts
        <3>2. Rewind(table', undo', Num[b]) = Rewind(table, undo, Num[b])
            BY <1>3, <1>4, <1>7, <3>1, RewindTwice
        <3> QED
            BY <1>6, <2>1, <3>1, <3>2
    <2>2. \A b : /\ Rewind(table, undo, Num[b])' = Rewind(table', undo', Num[b])
                 /\ View(Path[b])' = View(Path[b])
        BY DEF Rewind, View, Write
    <2> QED
        BY <1>2, <1>4, <2>1, <2>2 DEF UndoReaches
<1> QED
    BY <1>8, <1>9, <1>10, <1>11 DEF DataInv

LEMMA InitData == Init => DataInv
<1> SUFFICES ASSUME Init
             PROVE  DataInv
    OBVIOUS
<1>1. /\ buffer = NoData /\ batch = NoBatch
      /\ table = [k \in Key |-> None] /\ undo = {} /\ sync = {}
    BY DEF Init, SourceInit
<1>2. latest = None /\ floor = None /\ PathTo(latest) = {}
    BY <1>1 DEF latest, floor, PathTo
<1>3. View({}) = [k \in Key |-> None]
    BY DEF View, Write
<1> QED
    BY <1>1, <1>2, <1>3 DEF DataInv, HeadsAreKnown, UndoIsOrdered, UndoReaches,
        TableIsViewOfCursor, NoData, NoBatch

LEMMA NextKeepsData ==
    ASSUME CursorIsKept, HeadsComeFirst, SourceInv, DataInv, [Next]_vars
    PROVE  DataInv'
<1>1. CASE RollbackFork
    <2>1. PICK ancestor \in Block : /\ ancestor = ResolveForkCursor(History, failure)
                                    /\ RollbackTo(ancestor)
        BY <1>1 DEF RollbackFork
    <2> QED
        BY <1>1, <2>1, RollbackKeepsData DEF RollbackFork
<1>2. CASE UNCHANGED vars
    <2>1. UNCHANGED <<table, undo, sync, batch, buffer, watermark>>
        BY <1>2 DEF vars, sourceVars, clientVars, streamVars, targetVars
    <2>2. latest' = latest /\ floor' = floor
        BY <2>1 DEF latest, floor
    <2>3. HeadsAreKnown'
        BY <2>1, <2>2 DEF DataInv, HeadsAreKnown, NewHeads
    <2> QED
        BY <2>1, <2>3, DataStays
<1> QED
    BY <1>1, <1>2, SourceStepsKeepData, StartAndStopKeepData, CommitKeepsData DEF Next

-----------------------------------------------------------------------------
(* The refinement.                                                         *)

\* The instance has the operators of ForkResolution a second time.
LEMMA SinkOperators ==
    /\ Sink!Cursor = Cursor
    /\ \A c : Sink!NumOf(c) = NumOf(c)
    /\ \A c, p : Sink!Extends(c, p) <=> Extends(c, p)
    /\ \A f, g : Sink!MaxFinalized(f, g) = MaxFinalized(f, g)
BY DEF Sink!Cursor, Cursor, Sink!NumOf, NumOf, Sink!Extends, Extends,
    Sink!MaxFinalized, MaxFinalized

LEMMA InitMapsToSink == Init => Sink!Init
<1> SUFFICES ASSUME Init
             PROVE  Sink!Init
    OBVIOUS
<1>1. table = [k \in Key |-> None] /\ sync = {}
    BY DEF Init
<1>2. latest = None /\ floor = None
    BY <1>1 DEF latest, floor
<1>3. View({}) = [k \in Key |-> None]
    BY DEF View, Write
<1> QED
    BY <1>1, <1>2, <1>3 DEF Sink!Init

LEMMA CommitIsSinkCommit ==
    ASSUME CursorIsKept, SourceInv, DataInv, DataInv', CommitBatch
    PROVE  Sink!Commit
<1> DEFINE current == Last(Part)
           row == [current |-> current, finalized |-> batch.finalized,
                   chain |-> RollbackChain(Part, batch.finalized)]
<1>1. /\ run = "reading" /\ batch.blocks # {} /\ current \in Block
      /\ latest' = current /\ floor' = watermark
      /\ NumOf(latest) < Num[current] /\ NumOf(floor) <= NumOf(watermark)
    BY CommitFacts
<1>2. PathTo(latest) \subseteq Path[current]
    BY <1>1, PartFacts
<1> HIDE DEF current
<1>3. latest \in Cursor /\ floor \in Cursor /\ watermark \in Cursor /\ final \in Block
    BY SourceTypes
<1>4. Extends(current, latest)
    <2>1. CASE latest = None
        BY <2>1 DEF Extends
    <2>2. CASE latest # None
        <3>1. latest \in PathTo(latest) /\ NumOf(latest) = Num[latest] /\ Num[latest] \in Nat
            BY <1>3, <2>2, CursorFacts, PathFacts
        <3> QED
            BY <1>1, <1>2, <3>1 DEF Extends
    <2> QED
        BY <2>1, <2>2
<1>5. watermark = MaxFinalized(floor, watermark)
    <2>1. CASE floor = None \/ watermark = None
        <3>1. watermark = None => floor = None
            BY <1>1, <1>3, CursorFacts
        <3> QED
            BY <2>1, <3>1 DEF MaxFinalized
    <2>2. CASE floor # None /\ watermark # None
        <3>1. floor \in Path[final] /\ watermark \in Path[final]
            BY <2>2, HeadTypes DEF Heads, NewHeads
        <3>2. Num[floor] <= Num[watermark] /\ Num[floor] \in Nat /\ Num[watermark] \in Nat
            BY <1>1, <1>3, <2>2, CursorFacts, PathFacts
        <3>3. ~(Num[watermark] > Num[floor]) => watermark = floor
            BY <1>3, <3>1, <3>2, OneBlockPerNumber
        <3> QED
            BY <2>2, <3>3 DEF MaxFinalized
    <2> QED
        BY <2>1, <2>2
<1>6. table' = View(Path[latest'])
    <2>1. View(PathTo(latest))' = View(PathTo(latest)')
        BY DEF View, Write
    <2>2. PathTo(latest)' = Path[latest']
        BY <1>1, PathFacts DEF PathTo
    <2> QED
        BY <2>1, <2>2 DEF DataInv, TableIsViewOfCursor
<1>7. \E b \in Block : Extends(b, latest) /\ latest' = b
    BY <1>1, <1>4
<1>8. \E f \in Cursor : floor' = MaxFinalized(floor, f)
    BY <1>1, <1>3, <1>5
<1> QED
    BY <1>6, <1>7, <1>8, SinkOperators DEF Sink!Commit

LEMMA RollbackIsSinkRollback ==
    ASSUME SourceInv, DataInv', RollbackFork
    PROVE  Sink!Rollback
<1>1. PICK ancestor \in Block : /\ ancestor = ResolveForkCursor(History, failure)
                                /\ RollbackTo(ancestor)
    BY DEF RollbackFork
<1>2. ForkRaised
    BY DEF RollbackFork
<1>3. latest \in Block /\ ancestor \in Path[latest] /\ NumOf(floor) <= Num[ancestor]
    BY <1>1, <1>2, ForkFacts
<1>4. latest' = ancestor /\ floor' = floor
    BY <1>1, <1>2, RollbackFacts
<1>5. table' = View(Path[latest'])
    <2>1. View(PathTo(latest))' = View(PathTo(latest)')
        BY DEF View, Write
    <2>2. PathTo(latest)' = Path[latest']
        BY <1>4, PathFacts DEF PathTo
    <2> QED
        BY <2>1, <2>2 DEF DataInv, TableIsViewOfCursor
<1>6. latest # None
    BY <1>3, PathFacts
<1> QED
    BY <1>3, <1>4, <1>5, <1>6, SinkOperators DEF Sink!Rollback

LEMMA NextMapsToSink ==
    ASSUME CursorIsKept, SourceInv, DataInv, DataInv', [Next]_vars
    PROVE  [Sink!Next]_(Sink!sinkVars)
<1>1. CASE CommitBatch
    BY <1>1, CommitIsSinkCommit DEF Sink!Next
<1>2. CASE RollbackFork
    BY <1>2, RollbackIsSinkRollback DEF Sink!Next
<1>3. CASE UNCHANGED <<table, sync>>
    <2>1. latest' = latest /\ floor' = floor /\ table' = table
        BY <1>3 DEF latest, floor
    <2> QED
        BY <2>1 DEF Sink!sinkVars
<1>4. CASE (SourceNext /\ UNCHANGED targetVars) \/ StartRun \/ Halt \/ CrashAndLoseMemory \/ UNCHANGED vars
    <2>1. UNCHANGED <<table, sync>>
        BY <1>4 DEF StartRun, Halt, CrashAndLoseMemory, targetVars, vars
    <2> QED
        BY <2>1, <1>3
<1> QED
    BY <1>1, <1>2, <1>4 DEF Next

-----------------------------------------------------------------------------
(* The theorems.                                                           *)

\* The source's part of the invariant, whatever heads the Portal reports.
THEOREM AlwaysSourceInv ==
    ASSUME CursorIsKept
    PROVE  Spec => []SourceInv
<1>1. SourceInv /\ [Next]_vars => SourceInv'
    BY NextKeepsSource
<1> QED
    BY InitSource, <1>1, PTL DEF Spec

\* The pipe's and the target's state stays inside its domain.
THEOREM TypesHold ==
    ASSUME CursorIsKept
    PROVE  Spec => []TypeOK
<1>1. SourceInv => TypeOK
    BY SourceInvImplies
<1> QED
    BY AlwaysSourceInv, <1>1, PTL

\* The retained chains are of the committed branch, above the head each was saved under, and
\* numbers tell the rows apart (node-postgres/drizzle-target.ts).
THEOREM ChainsAreOfOwnBranch ==
    ASSUME CursorIsKept
    PROVE  Spec => []ChainIsOwnBranch
<1>1. SourceInv => ChainIsOwnBranch
    BY SourceInvImplies
<1> QED
    BY AlwaysSourceInv, <1>1, PTL

\* No selected block is skipped or read twice between the Portal and the cursor, through any
\* fork, clamp, crash or restart (core/portal-source.ts, portal-client/client.ts).
THEOREM FlightContinuesCursor ==
    ASSUME CursorIsKept
    PROVE  Spec => []InFlightContinuesCursor
<1>1. SourceInv => InFlightContinuesCursor
    BY SourceInvImplies
<1> QED
    BY AlwaysSourceInv, <1>1, PTL

\* The whole invariant.
THEOREM AlwaysDataInv ==
    ASSUME CursorIsKept, HeadsComeFirst
    PROVE  Spec => [](SourceInv /\ DataInv)
<1>1. Init => SourceInv /\ DataInv
    BY InitSource, InitData
<1>2. (SourceInv /\ DataInv) /\ [Next]_vars => (SourceInv /\ DataInv)'
    BY NextKeepsSource, NextKeepsData
<1> QED
    BY <1>1, <1>2, PTL DEF Spec

\* In every state the tables hold the rows of one branch, complete up to the cursor.
THEOREM TableIsAlwaysView ==
    ASSUME CursorIsKept, HeadsComeFirst
    PROVE  Spec => []TableIsViewOfCursor
<1>1. SourceInv /\ DataInv => TableIsViewOfCursor
    BY DEF DataInv
<1> QED
    BY AlwaysDataInv, <1>1, PTL

\* The undo log restores every block a fork may still roll back to, through clean-ups,
\* rollbacks and restarts.
THEOREM UndoAlwaysReachesFloor ==
    ASSUME CursorIsKept, HeadsComeFirst
    PROVE  Spec => []UndoReachesFloor
<1>1. SourceInv /\ DataInv => UndoReachesFloor
    BY DEF DataInv, UndoReaches, UndoReachesFloor
<1> QED
    BY AlwaysDataInv, <1>1, PTL

\* The target implements ReorgSafeSink (core/target.ts): a commit extends its branch, a rollback
\* shortens it and not below the floor.
THEOREM PostgresIsReorgSafe ==
    ASSUME CursorIsKept, HeadsComeFirst
    PROVE  Spec => ImplementsSink
<1>1. (SourceInv /\ DataInv) /\ (SourceInv /\ DataInv)' /\ [Next]_vars
        => [Sink!Next]_(Sink!sinkVars)
    BY NextMapsToSink
<1> QED
    BY InitMapsToSink, AlwaysDataInv, <1>1, PTL DEF Spec, ImplementsSink, Sink!Spec

-----------------------------------------------------------------------------
(* What follows from ReorgSafeSink alone: nothing of the mapping is used.  *)

\* Raising a floor yields a cursor that is no lower than either.
LEMMA MaxFinalizedIsHigher ==
    ASSUME NEW f \in Sink!Cursor, NEW g \in Sink!Cursor
    PROVE  /\ Sink!MaxFinalized(f, g) \in Sink!Cursor
           /\ Sink!NumOf(Sink!MaxFinalized(f, g)) >= Sink!NumOf(f)
  BY ChainAssumption DEF Sink!MaxFinalized, Sink!NumOf, Sink!Cursor, ChainAssumption

\* The data is the data of one branch, complete up to the cursor, in every state.
THEOREM AlwaysConsistent == Sink!Spec => []Sink!Consistent
<1>1. Sink!Init => Sink!Consistent
  BY DEF Sink!Init, Sink!Consistent, Sink!Cursor, Sink!PathTo
<1>2. Sink!Consistent /\ [Sink!Next]_(Sink!sinkVars) => Sink!Consistent'
  <2> SUFFICES ASSUME Sink!Consistent, [Sink!Next]_(Sink!sinkVars) PROVE Sink!Consistent'
    OBVIOUS
  <2> USE ChainAssumption DEF ChainAssumption, Sink!Cursor, Sink!PathTo
  <2>1. CASE Sink!Commit
    <3>1. latest' \in Block /\ table' = View(Path[latest'])
      BY <2>1 DEF Sink!Commit
    <3>2. floor' \in Sink!Cursor
      BY <2>1, MaxFinalizedIsHigher DEF Sink!Commit, Sink!Consistent
    <3> QED
      BY <3>1, <3>2 DEF Sink!Consistent
  <2>2. CASE Sink!Rollback
    <3>1. latest \in Block
      BY <2>2 DEF Sink!Rollback, Sink!Consistent
    <3>2. latest' \in Block
      BY <2>2, <3>1 DEF Sink!Rollback
    <3> QED
      BY <2>2, <3>2 DEF Sink!Rollback, Sink!Consistent
  <2>3. CASE Sink!RaiseFloor
    <3>1. floor' \in Sink!Cursor
      BY <2>3, MaxFinalizedIsHigher DEF Sink!RaiseFloor, Sink!Consistent
    <3> QED
      BY <2>3, <3>1 DEF Sink!RaiseFloor, Sink!Consistent
  <2>4. CASE UNCHANGED Sink!sinkVars
    BY <2>4 DEF Sink!sinkVars, Sink!Consistent
  <2> QED
    BY <2>1, <2>2, <2>3, <2>4 DEF Sink!Next
<1> QED
  BY <1>1, <1>2, PTL DEF Sink!Spec

\* No step takes a final block back or moves the floor back.
THEOREM FinalAlwaysKept == Sink!Spec => [][Sink!FinalIsKept]_(Sink!sinkVars)
<1>1. Sink!Consistent /\ [Sink!Next]_(Sink!sinkVars) => [Sink!FinalIsKept]_(Sink!sinkVars)
  <2> SUFFICES ASSUME Sink!Consistent, Sink!Next PROVE Sink!FinalIsKept
    BY DEF Sink!FinalIsKept
  <2>1. CASE Sink!Commit
    <3>1. Sink!NumOf(floor') >= Sink!NumOf(floor)
      BY <2>1, MaxFinalizedIsHigher DEF Sink!Commit, Sink!Consistent
    <3>2. Sink!PathTo(latest) \subseteq Sink!PathTo(latest')
      <4>1. PICK b \in Block : Sink!Extends(b, latest) /\ latest' = b
        BY <2>1 DEF Sink!Commit
      <4> QED
        BY <4>1, ChainAssumption DEF Sink!Extends, Sink!PathTo, ChainAssumption
    <3> QED
      BY <3>1, <3>2 DEF Sink!FinalIsKept
  <2>2. CASE Sink!Rollback
    <3>1. latest \in Block
      BY <2>2 DEF Sink!Rollback, Sink!Consistent, Sink!Cursor
    <3>2. PICK a \in Path[latest] : Sink!NumOf(floor) <= Num[a] /\ latest' = a
      BY <2>2 DEF Sink!Rollback
    <3>3. a \in Block /\ Path[latest] \subseteq Block
      BY <3>1, <3>2, ChainAssumption DEF ChainAssumption
    <3>4. Sink!NumOf(floor) \in Int
      BY ChainAssumption DEF Sink!NumOf, Sink!Consistent, Sink!Cursor, ChainAssumption
    <3>5. ASSUME NEW b \in Path[latest], Num[b] <= Sink!NumOf(floor)
          PROVE  b \in Path[a]
      <4>1. b \in Block /\ Num[b] \in Int /\ Num[a] \in Int
        BY <3>3, <3>5, ChainAssumption DEF ChainAssumption
      <4>2. Num[b] <= Num[a]
        BY <4>1, <3>2, <3>4, <3>5
      <4> QED
        BY <4>2, <3>1, <3>2, <3>5, ChainAssumption DEF ChainAssumption
    <3>6. Sink!PathTo(latest) = Path[latest] /\ Sink!PathTo(latest') = Path[a]
      BY <3>1, <3>2, <3>3, ChainAssumption DEF Sink!PathTo, ChainAssumption
    <3>7. Sink!NumOf(floor') >= Sink!NumOf(floor)
      BY <2>2, <3>4 DEF Sink!Rollback
    <3> QED
      BY <3>5, <3>6, <3>7 DEF Sink!FinalIsKept
  <2>3. CASE Sink!RaiseFloor
    <3>1. Sink!NumOf(floor') >= Sink!NumOf(floor)
      BY <2>3, MaxFinalizedIsHigher DEF Sink!RaiseFloor, Sink!Consistent
    <3> QED
      BY <2>3, <3>1 DEF Sink!RaiseFloor, Sink!FinalIsKept
  <2> QED
    BY <2>1, <2>2, <2>3 DEF Sink!Next
<1> QED
  BY <1>1, AlwaysConsistent, PTL DEF Sink!Spec

\* Both of the Postgres target: its reader sees one branch up to the cursor, and no step takes a
\* committed block back that a floor has covered (node-postgres/drizzle-target.ts).
THEOREM PostgresKeepsFinalBlocks ==
    ASSUME CursorIsKept, HeadsComeFirst
    PROVE  Spec => []Sink!Consistent /\ [][Sink!FinalIsKept]_(Sink!sinkVars)
  BY PostgresIsReorgSafe, AlwaysConsistent, FinalAlwaysKept, PTL DEF ImplementsSink
=============================================================================
