------------------------- MODULE RangedStreamProofs -------------------------
(***************************************************************************)
(* The merge of core/query-builder.ts and the loop over its pieces, for    *)
(* any query, any block tree, and any number of forks and restarts: no     *)
(* block loses a request, none is read for a request that did not ask for  *)
(* it, and within a range each block is committed on its parent.           *)
(***************************************************************************)
EXTENDS RangedStream, WellFoundedInduction, SequenceTheorems, FiniteSetTheorems, TLAPS

-----------------------------------------------------------------------------
(* The inductive invariant: the merge.                                     *)

Span == [from : Nat, to : 0..Infinity]

\* Piece p asks for block n on behalf of request r.
On(p, n, r) == InPiece(n, p) /\ r \in p.requests

\* A cut falls where a range begins, or behind the end of one, or at an end of the chain.
Border(ranges, n) ==
    \/ n = 0 \/ n = Infinity + 1
    \/ \E r \in DOMAIN ranges : n = ranges[r].from \/ n = ranges[r].to + 1

WellCut(ranges, p) ==
    /\ p \in Piece /\ p.from <= p.to /\ p.to <= Infinity
    /\ Border(ranges, p.from) /\ Border(ranges, p.to + 1)

\* Each block is on one piece for each request that asks for it, and on none for the others.
Partition(ranges, pieces) ==
    /\ \A p \in pieces : WellCut(ranges, p)
    /\ \A r \in DOMAIN ranges : \A n \in 0..Infinity :
         /\ InPiece(n, ranges[r]) => \E p \in pieces : On(p, n, r)
         /\ \A p \in pieces : On(p, n, r) => InPiece(n, ranges[r])
         /\ \A p, q \in pieces : On(p, n, r) /\ On(q, n, r) => p = q

FinishedIsBelow ==
    \A i \in DOMAIN union :
        /\ \A j \in DOMAIN union : i < j => union[i].to < union[j].from
        /\ \A p \in queue \cup {top} : union[i].to < p.from

TopIsLowest == top \notin queue /\ \A p \in queue : top.from <= p.from

\* What holds of the pieces while a merge is under way.
Merges ==
    /\ queue \subseteq Piece /\ top \in Piece /\ union \in Seq(Piece)
    /\ Partition(resolved, Held) /\ FinishedIsBelow /\ TopIsLowest

\* What read() has resolved a request's range to: a range that starts at 'latest' never
\* starts behind the block that follows the cursor.
ResolvedAsAsked(r) ==
    /\ resolved[r] \in Span /\ resolved[r].from <= resolved[r].to
    /\ resolved[r].to = asked[r].to
    /\ IF asked[r].latest
       THEN cursor # None => resolved[r].from <= Num[cursor] + 1
       ELSE resolved[r].from = asked[r].from

MergeInv ==
    IF stage = "merging"
    THEN /\ cursor = Newest
         /\ DOMAIN resolved = DOMAIN asked
         /\ \A r \in DOMAIN asked : ResolvedAsAsked(r)
         /\ Merges
    ELSE resolved = <<>> /\ queue = {} /\ top = NoPiece /\ union = <<>>

-----------------------------------------------------------------------------
(* The inductive invariant: the loop over the pieces.                      *)

\* Pieces ascend, and two that touch are for different requests.
Ascending(pieces) ==
    /\ \A i \in DOMAIN pieces :
         /\ pieces[i] \in Piece
         /\ pieces[i].from <= pieces[i].to /\ pieces[i].to <= Infinity
    /\ \A i, j \in DOMAIN pieces : i < j =>
         /\ pieces[i].to < pieces[j].from
         /\ pieces[j].from = pieces[i].to + 1 => pieces[i].requests # pieces[j].requests

\* Block n is still to be read for request r.
Ahead(r, n) == n >= request.from /\ \E i \in DOMAIN todo : On(todo[i], n, r)

\* What is behind the newest block and asked for is still to be read, and nothing else; of a
\* request that starts at 'latest', everything behind its first block.
NothingSkipped ==
    \A r \in DOMAIN asked : \A n \in 0..Infinity :
        /\ Ahead(r, n) => n <= asked[r].to
        /\ IF asked[r].latest
           THEN /\ Ahead(r, n) => \A m \in n..asked[r].to : Ahead(r, m)
                /\ Covered(r) # {} /\ NumOf(Newest) < n /\ n <= asked[r].to => Ahead(r, n)
           ELSE /\ Ahead(r, n) => asked[r].from <= n
                /\ NumOf(Newest) < n /\ asked[r].from <= n /\ n <= asked[r].to => Ahead(r, n)

\* The request is within or just behind the current piece, and above all that is committed.
RequestIsNext ==
    /\ NumOf(cursor) < todo[1].from
    /\ todo[1].from <= request.from /\ request.from <= todo[1].to + 1
    /\ \A c \in committed :
         /\ Num[c.block] < request.from
         /\ todo[1].from <= Num[c.block] => c.requests = todo[1].requests

\* A request is anchored at the newest block if it continues it, unless another piece read it.
AnchoredAtNewest ==
    /\ request.anchor # None =>
         request.anchor = Newest /\ Num[request.anchor] + 1 = request.from
    /\ \A c \in committed :
         Num[c.block] + 1 = request.from =>
            request.anchor = c.block \/ c.requests # todo[1].requests

ReadingInv ==
    IF stage = "reading"
    THEN /\ todo # <<>>
         /\ Ascending(todo)
         /\ RequestIsNext /\ AnchoredAtNewest /\ NothingSkipped
    ELSE todo = <<>> /\ request = NoRequest

\* A number is committed once.
OnePerNumber ==
    \A c, d \in committed : Num[c.block] = Num[d.block] => c = d

StreamInv ==
    /\ TypeOK
    /\ MergeInv /\ ReadingInv
    /\ OnePerNumber /\ LinkedWithinARange

-----------------------------------------------------------------------------
(* Numbers and branches.                                                   *)

\* Every nonempty set of numbers has a least one.
LEMMA LeastNumber ==
    ASSUME NEW S \in SUBSET Nat, S # {}
    PROVE  \E m \in S : \A n \in S : m <= n
<1>1. \E m \in S : \A n \in S : ~(<<n, m>> \in OpToRel(<, Nat))
    BY NatLessThanWellFounded, WFMin
<1>2. PICK m \in S : \A n \in S : ~(<<n, m>> \in OpToRel(<, Nat))
    BY <1>1
<1>3. \A n \in S : ~(n < m)
    BY <1>2 DEF OpToRel
<1> QED
    BY <1>3

\* Two blocks of one branch with the same number are the same block.
LEMMA OneBlockPerNumber ==
    ASSUME NEW h \in Block, NEW b \in Path[h], NEW c \in Path[h], Num[b] = Num[c]
    PROVE  b = c
BY ChainAssumption

\* Blocks of a branch below one of its blocks are that block's ancestors.
LEMMA LowerIsAncestor ==
    ASSUME NEW h \in Block, NEW b \in Path[h], NEW c \in Path[h], Num[b] <= Num[c]
    PROVE  b \in Path[c]
BY ChainAssumption

-----------------------------------------------------------------------------
(* Cutting two pieces that overlap.                                        *)

LEMMA PieceFacts ==
    ASSUME NEW p \in Piece
    PROVE  p.from \in Nat /\ p.to \in Nat /\ p.requests \in SUBSET Request
BY DEF Piece

LEMMA SamePiece ==
    ASSUME NEW p \in Piece, NEW q \in Piece,
           p.from = q.from, p.to = q.to, p.requests = q.requests
    PROVE  p = q
BY DEF Piece

\* The part two overlapping pieces share starts with one of them and ends with one of them.
LEMMA IntersectionFacts ==
    ASSUME NEW a \in Piece, NEW b \in Piece, Intersects(a, b), a.from <= b.from
    PROVE  /\ Intersection(a, b).from = b.from
           /\ Intersection(a, b).to \in {a.to, b.to}
           /\ Intersection(a, b).to <= a.to /\ Intersection(a, b).to <= b.to
           /\ b.from <= Intersection(a, b).to
           /\ MergedPiece(a, b) =
                [from |-> b.from, to |-> Intersection(a, b).to,
                 requests |-> a.requests \cup b.requests]
           /\ MergedPiece(a, b) \in Piece
BY PieceFacts DEF Intersects, Intersection, Later, Earlier, MergedPiece, Piece

\* What is left of a piece before and behind a part of it.
LEMMA DifferenceFacts ==
    ASSUME NEW a \in Piece, NEW i, i.from \in Nat, i.to \in Nat
    PROVE  /\ \A p \in Difference(a, i) :
                /\ p \in Piece /\ p.requests = a.requests /\ p.from <= p.to
                /\ \/ p.from = a.from /\ p.to = i.from - 1
                   \/ p.from = i.to + 1 /\ p.to = a.to
           /\ \A n \in Nat : InPiece(n, a) /\ n < i.from =>
                \E p \in Difference(a, i) : p.from = a.from /\ p.to = i.from - 1
           /\ \A n \in Nat : InPiece(n, a) /\ n > i.to =>
                \E p \in Difference(a, i) : p.from = i.to + 1 /\ p.to = a.to
<1> DEFINE before == [a EXCEPT !.to = i.from - 1]
<1> DEFINE behind == [a EXCEPT !.from = i.to + 1]
<1>1. /\ a = [from |-> a.from, to |-> a.to, requests |-> a.requests]
      /\ a.from \in Nat /\ a.to \in Nat /\ a.requests \in SUBSET Request
    BY DEF Piece
<1>2. before = [from |-> a.from, to |-> i.from - 1, requests |-> a.requests]
    BY <1>1
<1>3. behind = [from |-> i.to + 1, to |-> a.to, requests |-> a.requests]
    BY <1>1
<1>4. Difference(a, i) = {p \in {before, behind} : p.from <= p.to}
    BY DEF Difference
<1>5. before.from <= before.to => before \in Piece
    BY <1>1, <1>2 DEF Piece
<1>6. behind \in Piece
    BY <1>1, <1>3 DEF Piece
<1> HIDE DEF before, behind
<1>7. \A p \in Difference(a, i) :
        /\ p \in Piece /\ p.requests = a.requests /\ p.from <= p.to
        /\ \/ p.from = a.from /\ p.to = i.from - 1
           \/ p.from = i.to + 1 /\ p.to = a.to
    BY <1>2, <1>3, <1>4, <1>5, <1>6
<1>8. \A n \in Nat : InPiece(n, a) /\ n < i.from => before \in Difference(a, i)
    BY <1>1, <1>2, <1>4 DEF InPiece
<1>9. \A n \in Nat : InPiece(n, a) /\ n > i.to => behind \in Difference(a, i)
    BY <1>1, <1>3, <1>4 DEF InPiece
<1>10. before.from = a.from /\ before.to = i.from - 1
    BY <1>2
<1>11. behind.from = i.to + 1 /\ behind.to = a.to
    BY <1>3
<1> QED
    BY <1>7, <1>8, <1>9, <1>10, <1>11, Zenon

\* Two pieces that overlap are cut in up to three, and every block keeps its requests.
LEMMA OverlapKeepsPartition ==
    ASSUME NEW ranges, NEW pieces, Partition(ranges, pieces),
           NEW a \in pieces, NEW b \in pieces, a # b,
           a.from <= b.from, Intersects(a, b)
    PROVE  Partition(ranges,
             (pieces \ {a, b}) \cup {MergedPiece(a, b)}
               \cup Difference(a, Intersection(a, b)) \cup Difference(b, Intersection(a, b)))
<1> DEFINE i == Intersection(a, b)
<1> DEFINE both == MergedPiece(a, b)
<1> DEFINE rest == Difference(a, i) \cup Difference(b, i)
<1> DEFINE cut == (pieces \ {a, b}) \cup {both} \cup rest
<1>1. /\ WellCut(ranges, a) /\ WellCut(ranges, b)
      /\ \A p \in pieces : WellCut(ranges, p) /\ p \in Piece
    BY DEF Partition, WellCut
<1>2. /\ a.from \in Nat /\ a.to \in Nat /\ b.from \in Nat /\ b.to \in Nat
      /\ a \in Piece /\ b \in Piece
    BY <1>1, PieceFacts DEF WellCut
<1>3. /\ i.from = b.from /\ i.to \in {a.to, b.to} /\ i.to <= a.to /\ i.to <= b.to
      /\ b.from <= i.to /\ i.from \in Nat /\ i.to \in Nat
      /\ both = [from |-> b.from, to |-> i.to, requests |-> a.requests \cup b.requests]
      /\ both \in Piece
    BY <1>2, IntersectionFacts
<1>4. both.from = b.from /\ both.to = i.to /\ both.requests = a.requests \cup b.requests
    BY <1>3
<1> HIDE DEF i, both
<1>5. \A x \in {a, b} :
        /\ \A p \in Difference(x, i) :
                /\ p \in Piece /\ p.requests = x.requests /\ p.from <= p.to
                /\ \/ p.from = x.from /\ p.to = i.from - 1
                   \/ p.from = i.to + 1 /\ p.to = x.to
        /\ \A n \in Nat : InPiece(n, x) /\ n < i.from =>
             \E p \in Difference(x, i) : p.from = x.from /\ p.to = i.from - 1
        /\ \A n \in Nat : InPiece(n, x) /\ n > i.to =>
             \E p \in Difference(x, i) : p.from = i.to + 1 /\ p.to = x.to
    BY <1>2, <1>3, DifferenceFacts
<1>6. \A p \in cut : WellCut(ranges, p)
  <2>1. WellCut(ranges, both)
      BY <1>1, <1>2, <1>3, <1>4, RangeAssumption DEF WellCut, Border
  <2>2. ASSUME NEW x \in {a, b}, NEW p \in Difference(x, i) PROVE WellCut(ranges, p)
    <3>1. p \in Piece /\ p.from <= p.to /\ p.from \in Nat /\ p.to \in Nat
        BY <1>5, PieceFacts
    <3>2. CASE p.from = x.from /\ p.to = i.from - 1
      <4>1. p.to + 1 = b.from /\ p.to <= Infinity
          BY <3>1, <3>2, <1>1, <1>2, <1>3, RangeAssumption DEF WellCut
      <4> QED
          BY <3>1, <3>2, <4>1, <1>1 DEF WellCut
    <3>3. CASE p.from = i.to + 1 /\ p.to = x.to
      <4>1. p.to <= Infinity /\ Border(ranges, p.from)
          BY <3>3, <1>1, <1>3 DEF WellCut
      <4> QED
          BY <3>1, <3>3, <4>1, <1>1 DEF WellCut
    <3> QED
        BY <3>2, <3>3, <1>5
  <2> QED
      BY <1>1, <2>1, <2>2
<1>7. ASSUME NEW r \in DOMAIN ranges, NEW n \in 0..Infinity
      PROVE  /\ InPiece(n, ranges[r]) => \E p \in cut : On(p, n, r)
             /\ \A p \in cut : On(p, n, r) => InPiece(n, ranges[r])
             /\ \A p, q \in cut : On(p, n, r) /\ On(q, n, r) => p = q
  <2>0. n \in Nat
      BY RangeAssumption
  <2>1. /\ InPiece(n, ranges[r]) => \E p \in pieces : On(p, n, r)
        /\ \A p \in pieces : On(p, n, r) => InPiece(n, ranges[r])
        /\ \A p, q \in pieces : On(p, n, r) /\ On(q, n, r) => p = q
      BY DEF Partition
  <2>2. On(both, n, r) <=> /\ i.from <= n /\ n <= i.to
                           /\ On(a, n, r) \/ On(b, n, r)
      BY <2>0, <1>2, <1>3, <1>4 DEF On, InPiece
  <2>3. ASSUME NEW x \in {a, b}, NEW p \in Difference(x, i), On(p, n, r)
        PROVE  On(x, n, r) /\ ~(i.from <= n /\ n <= i.to)
      BY <2>0, <2>3, <1>2, <1>3, <1>5, PieceFacts DEF On, InPiece
  <2>4. ASSUME NEW x \in {a, b}, On(x, n, r), ~(i.from <= n /\ n <= i.to)
        PROVE  \E p \in Difference(x, i) : On(p, n, r)
    <3>1. InPiece(n, x) /\ r \in x.requests
        BY <2>4 DEF On
    <3>2. CASE n < i.from
      <4>1. PICK p \in Difference(x, i) : p.from = x.from /\ p.to = i.from - 1
          BY <2>0, <3>1, <3>2, <1>5
      <4> QED
          BY <4>1, <3>1, <3>2, <2>0, <1>3, <1>5 DEF On, InPiece
    <3>3. CASE n > i.to
      <4>1. PICK p \in Difference(x, i) : p.from = i.to + 1 /\ p.to = x.to
          BY <2>0, <3>1, <3>3, <1>5
      <4> QED
          BY <4>1, <3>1, <3>3, <2>0, <1>3, <1>5 DEF On, InPiece
    <3> QED
        BY <3>2, <3>3, <2>4, <2>0, <1>3
  \* A cut piece that has r at n comes from one that had it.
  <2>5. \A p \in cut : On(p, n, r) =>
          \/ p \in pieces \ {a, b}
          \/ p = both /\ (On(a, n, r) \/ On(b, n, r)) /\ i.from <= n /\ n <= i.to
          \/ \E x \in {a, b} : p \in Difference(x, i) /\ On(x, n, r) /\ ~(i.from <= n /\ n <= i.to)
      BY <2>2, <2>3
  <2>6. InPiece(n, ranges[r]) => \E p \in cut : On(p, n, r)
    <3>1. SUFFICES ASSUME NEW p \in pieces, On(p, n, r)
                   PROVE  \E q \in cut : On(q, n, r)
        BY <2>1
    <3>2. CASE p \notin {a, b}
        BY <3>1, <3>2
    <3>3. CASE p \in {a, b} /\ i.from <= n /\ n <= i.to
        BY <3>1, <3>3, <2>2
    <3>4. CASE p \in {a, b} /\ ~(i.from <= n /\ n <= i.to)
        BY <3>1, <3>4, <2>4
    <3> QED
        BY <3>2, <3>3, <3>4
  <2>7. \A p \in cut : On(p, n, r) => InPiece(n, ranges[r])
      BY <2>1, <2>5
  <2>8. ASSUME NEW p \in cut, NEW q \in cut, On(p, n, r), On(q, n, r) PROVE p = q
    <3>1. p \in pieces \ {a, b} => p = q
        BY <2>1, <2>5, <2>8
    <3>2. q \in pieces \ {a, b} => p = q
        BY <2>1, <2>5, <2>8
    <3>3. ASSUME NEW x \in {a, b}, NEW y \in {a, b},
                 p \in Difference(x, i), q \in Difference(y, i), On(x, n, r), On(y, n, r)
          PROVE  p = q
      <4>1. x = y
          BY <2>1, <3>3
      <4>2. p.from = q.from /\ p.to = q.to
          BY <3>3, <4>1, <2>8, <2>0, <1>2, <1>3, <1>5 DEF On, InPiece
      <4> QED
          BY <4>1, <4>2, <3>3, <1>5, SamePiece
    <3> QED
        BY <2>5, <2>8, <3>1, <3>2, <3>3
  <2> QED
      BY <2>6, <2>7, <2>8
<1>8. Partition(ranges, cut)
    BY <1>6, <1>7 DEF Partition
<1>9. cut = (pieces \ {a, b}) \cup {both} \cup Difference(a, i) \cup Difference(b, i)
    OBVIOUS
<1> QED
    BY <1>8, <1>9 DEF i, both

-----------------------------------------------------------------------------
(* The steps of the merge.                                                 *)

\* Before the first cut, each range is a piece of its own.
LEMMA PiecesArePartition ==
    ASSUME NEW ranges, DOMAIN ranges \in SUBSET Request,
           \A r \in DOMAIN ranges : ranges[r] \in Span /\ ranges[r].from <= ranges[r].to
    PROVE  Partition(ranges, IF ranges = <<>> THEN {Everything} ELSE Pieces(ranges))
<1>1. CASE ranges = <<>>
  <2>1. DOMAIN ranges = {}
      BY <1>1
  <2>2. WellCut(ranges, Everything)
      BY RangeAssumption DEF WellCut, Everything, Piece, Border
  <2> QED
      BY <1>1, <2>1, <2>2 DEF Partition
<1>2. CASE ranges # <<>>
  <2> DEFINE P(r) == [from |-> ranges[r].from, to |-> ranges[r].to, requests |-> {r}]
  <2>1. \A r \in DOMAIN ranges :
          /\ ranges[r].from \in Nat /\ ranges[r].to \in Nat
          /\ ranges[r].from <= ranges[r].to /\ ranges[r].to <= Infinity
      BY RangeAssumption DEF Span
  <2>2. \A r \in DOMAIN ranges : P(r) \in Piece
      BY <2>1 DEF Piece
  <2>3. \A r \in DOMAIN ranges :
          P(r).from = ranges[r].from /\ P(r).to = ranges[r].to /\ P(r).requests = {r}
      OBVIOUS
  <2>4. Pieces(ranges) = {P(r) : r \in DOMAIN ranges}
      BY DEF Pieces
  <2> HIDE DEF P
  <2>5. \A p \in Pieces(ranges) : WellCut(ranges, p)
      BY <2>1, <2>2, <2>3, <2>4 DEF WellCut, Border
  <2>6. ASSUME NEW r \in DOMAIN ranges, NEW n \in 0..Infinity
        PROVE  /\ InPiece(n, ranges[r]) => \E p \in Pieces(ranges) : On(p, n, r)
               /\ \A p \in Pieces(ranges) : On(p, n, r) => InPiece(n, ranges[r])
               /\ \A p, q \in Pieces(ranges) : On(p, n, r) /\ On(q, n, r) => p = q
    <3>1. \A p \in Pieces(ranges) : On(p, n, r) => p = P(r) /\ InPiece(n, ranges[r])
        BY <2>3, <2>4 DEF On, InPiece
    <3>2. InPiece(n, ranges[r]) => On(P(r), n, r)
        BY <2>3 DEF On, InPiece
    <3> QED
        BY <3>1, <3>2, <2>4
  <2> QED
      BY <1>2, <2>5, <2>6 DEF Partition
<1> QED
    BY <1>1, <1>2

LEMMA BeginMergeInv ==
    ASSUME NEW ranges, DOMAIN ranges \in SUBSET Request,
           \A r \in DOMAIN ranges : ranges[r] \in Span /\ ranges[r].from <= ranges[r].to,
           BeginMerge(ranges)
    PROVE  /\ resolved' = ranges /\ union' = <<>>
           /\ queue' \subseteq Piece /\ top' \in Piece
           /\ Partition(ranges, Held') /\ FinishedIsBelow' /\ TopIsLowest'
<1> DEFINE pieces == IF ranges = <<>> THEN {Everything} ELSE Pieces(ranges)
<1>1. Partition(ranges, pieces)
    BY PiecesArePartition
<1>2. resolved' = ranges /\ union' = <<>> /\ Pop(pieces)
    BY DEF BeginMerge
<1> HIDE DEF pieces
<1>3. PICK p \in Lowest(pieces) : top' = p /\ queue' = pieces \ {p}
    BY <1>2 DEF Pop
<1>4. p \in pieces /\ \A q \in pieces : p.from <= q.from
    BY DEF Lowest
<1>5. pieces \subseteq Piece
    BY <1>1 DEF Partition, WellCut
<1>6. DOMAIN union' = {}
    BY <1>2
<1>7. Held' = pieces
    BY <1>3, <1>4, <1>6 DEF Held
<1>8. FinishedIsBelow' /\ TopIsLowest'
    BY <1>3, <1>4, <1>6 DEF FinishedIsBelow, TopIsLowest
<1> QED
    BY <1>1, <1>2, <1>3, <1>4, <1>5, <1>7, <1>8

LEMMA MergesFacts ==
    ASSUME Merges
    PROVE  /\ \A p \in Held : /\ p \in Piece /\ p.from \in Nat /\ p.to \in Nat
                              /\ p.from <= p.to
           /\ top \in Held /\ queue \subseteq Held
           /\ \A i \in DOMAIN union :
                /\ union[i] \in Held /\ union[i] \notin queue /\ union[i] # top
                /\ i \in Nat
<1>1. \A p \in Held : p \in Piece /\ p.from <= p.to
    BY DEF Merges, Partition, WellCut
<1>2. \A p \in Held : p.from \in Nat /\ p.to \in Nat
    BY <1>1, PieceFacts
<1>3. top \in Held /\ queue \subseteq Held /\ \A i \in DOMAIN union : union[i] \in Held
    BY DEF Held
<1>4. \A i \in DOMAIN union : \A p \in queue \cup {top} : union[i].to < p.from
    BY DEF Merges, FinishedIsBelow
<1>5. \A i \in DOMAIN union : union[i] \notin queue \cup {top}
    BY <1>1, <1>2, <1>3, <1>4
<1>6. \A i \in DOMAIN union : i \in Nat
    BY DEF Merges
<1> QED
    BY <1>1, <1>2, <1>3, <1>5, <1>6

LEMMA DisjointKeepsMerge ==
    ASSUME Merges, MergeDisjoint
    PROVE  Merges'
<1>1. PICK next \in Lowest(queue) :
        /\ ~Intersects(top, next)
        /\ top' = next /\ queue' = queue \ {next}
    BY DEF MergeDisjoint
<1>2. union' = Append(union, top) /\ resolved' = resolved
    BY DEF MergeDisjoint
<1>3. next \in queue /\ \A q \in queue : next.from <= q.from
    BY DEF Lowest
<1>4. union \in Seq(Piece) /\ top \in Piece /\ queue \subseteq Piece
    BY DEF Merges
<1>5. /\ union' \in Seq(Piece) /\ Len(union') = Len(union) + 1 /\ Len(union) \in Nat
      /\ DOMAIN union = 1..Len(union) /\ DOMAIN union' = 1..Len(union) + 1
      /\ \A i \in DOMAIN union : union'[i] = union[i]
      /\ union'[Len(union) + 1] = top
    BY <1>2, <1>4, AppendProperties, LenProperties
<1>6. {union'[i] : i \in DOMAIN union'} = {union[i] : i \in DOMAIN union} \cup {top}
    BY <1>5
<1>7. Held' = Held
    BY <1>1, <1>3, <1>6 DEF Held
<1>8. \A p \in Held : p.from \in Nat /\ p.to \in Nat /\ p.from <= p.to
    BY MergesFacts
<1>9. top \in Held /\ queue \subseteq Held /\ \A i \in DOMAIN union : union[i] \in Held
    BY MergesFacts
<1>10. top.from <= next.from
    BY <1>3 DEF Merges, TopIsLowest
<1>11. top.to < next.from
    BY <1>1, <1>3, <1>8, <1>9, <1>10 DEF Intersects, Intersection, Later, Earlier
<1>12. \A q \in queue' \cup {top'} : q \in queue /\ next.from <= q.from
    BY <1>1, <1>3, <1>8, <1>9
<1>13. /\ \A i, j \in DOMAIN union : i < j => union[i].to < union[j].from
       /\ \A i \in DOMAIN union : \A p \in queue \cup {top} : union[i].to < p.from
    BY DEF Merges, FinishedIsBelow
<1>14. ASSUME NEW i \in DOMAIN union'
       PROVE  /\ \A j \in DOMAIN union' : i < j => union'[i].to < union'[j].from
              /\ \A p \in queue' \cup {top'} : union'[i].to < p.from
  <2>1. CASE i \in DOMAIN union
    <3>1. \A j \in DOMAIN union' : i < j => union'[i].to < union'[j].from
        BY <1>5, <1>13, <2>1
    <3> QED
        BY <1>5, <1>12, <1>13, <2>1, <3>1
  <2>2. CASE i = Len(union) + 1
    <3>1. \A j \in DOMAIN union' : ~(i < j)
        BY <1>5, <2>2
    <3>2. \A p \in queue' \cup {top'} : union'[i].to < p.from
      <4>1. union'[i] = top
          BY <1>5, <2>2
      <4>2. \A q \in queue : next.from <= q.from => top.to < q.from
          BY <1>3, <1>8, <1>9, <1>11
      <4> QED
          BY <4>1, <4>2, <1>12
    <3> QED
        BY <3>1, <3>2
  <2> QED
      BY <1>5, <2>1, <2>2
<1>15. FinishedIsBelow'
    BY <1>14 DEF FinishedIsBelow
<1>16. TopIsLowest'
    BY <1>1, <1>12 DEF TopIsLowest
<1>17. Partition(resolved', Held')
    BY <1>2, <1>7 DEF Merges
<1> QED
    BY <1>1, <1>3, <1>4, <1>5, <1>15, <1>16, <1>17 DEF Merges

LEMMA OverlapKeepsMerge ==
    ASSUME Merges, MergeOverlap
    PROVE  Merges'
<1>1. PICK next \in Lowest(queue) :
        /\ Intersects(top, next)
        /\ Pop((queue \ {next}) \cup {MergedPiece(top, next)}
                 \cup Difference(top, Intersection(top, next))
                 \cup Difference(next, Intersection(top, next)))
    BY DEF MergeOverlap
<1> DEFINE i == Intersection(top, next)
<1> DEFINE fresh == {MergedPiece(top, next)} \cup Difference(top, i) \cup Difference(next, i)
<1> DEFINE heap == (queue \ {next}) \cup fresh
<1>2. PICK p \in Lowest(heap) : top' = p /\ queue' = heap \ {p}
    BY <1>1 DEF Pop
<1>3. union' = union /\ resolved' = resolved
    BY DEF MergeOverlap
<1>4. next \in queue /\ next # top /\ next \in Held /\ top \in Held /\ top.from <= next.from
    BY MergesFacts DEF Lowest, Merges, TopIsLowest
<1>5. /\ \A q \in Held : q \in Piece /\ q.from \in Nat /\ q.to \in Nat /\ q.from <= q.to
      /\ queue \subseteq Held
      /\ \A k \in DOMAIN union : union[k] \in Held /\ union[k] \notin queue /\ union[k] # top
    BY MergesFacts
<1>6. Partition(resolved, (Held \ {top, next}) \cup {MergedPiece(top, next)}
                             \cup Difference(top, i) \cup Difference(next, i))
    BY <1>1, <1>4, OverlapKeepsPartition DEF Merges
<1> HIDE DEF i
<1>7. Held \ {top, next} = (queue \ {next}) \cup {union[k] : k \in DOMAIN union}
    BY <1>4, <1>5 DEF Held, Merges, TopIsLowest
<1> HIDE DEF fresh
<1>8. p \in heap /\ \A q \in heap : p.from <= q.from
    BY DEF Lowest
<1>9. Held' = (Held \ {top, next}) \cup fresh
  <2>1. Held' = heap \cup {union[k] : k \in DOMAIN union}
      BY <1>2, <1>3, <1>8 DEF Held
  <2> QED
      BY <2>1, <1>7
<1>10. Partition(resolved', Held')
    BY <1>3, <1>6, <1>9 DEF fresh
<1>11. heap \subseteq Held'
    BY <1>7, <1>9
<1>12. \A q \in Held' : q \in Piece /\ q.from \in Nat /\ q.to \in Nat
    BY <1>10, PieceFacts DEF Partition, WellCut
<1>13. /\ i.from = next.from /\ i.to \in {top.to, next.to} /\ i.from \in Nat /\ i.to \in Nat
       /\ next.from <= i.to /\ MergedPiece(top, next).from = next.from
    BY <1>1, <1>4, <1>5, IntersectionFacts DEF i
<1>14. \A q \in heap : top.from <= q.from
  <2>1. \A q \in queue : top.from <= q.from
      BY DEF Merges, TopIsLowest
  <2>2. \A x \in {top, next} : \A q \in Difference(x, i) :
          q.from = x.from \/ q.from = i.to + 1
      BY <1>4, <1>5, <1>13, DifferenceFacts
  <2>3. \A q \in fresh : q.from \in {next.from, top.from, i.to + 1}
      BY <2>2, <1>13 DEF fresh
  <2> QED
      BY <2>1, <2>3, <1>4, <1>5, <1>13
<1>15. FinishedIsBelow'
  <2>1. \A k \in DOMAIN union : union[k].to < top.from
      BY DEF Merges, FinishedIsBelow
  <2>2. \A k \in DOMAIN union : \A q \in heap : union[k].to < q.from
      BY <2>1, <1>4, <1>5, <1>11, <1>12, <1>14
  <2>3. \A q \in queue' \cup {top'} : q \in heap
      BY <1>2, <1>8
  <2>4. \A k, j \in DOMAIN union : k < j => union[k].to < union[j].from
      BY DEF Merges, FinishedIsBelow
  <2> QED
      BY <2>2, <2>3, <2>4, <1>3 DEF FinishedIsBelow
<1>16. TopIsLowest'
    BY <1>2, <1>8 DEF TopIsLowest
<1>17. queue' \subseteq Piece /\ top' \in Piece /\ union' \in Seq(Piece)
    BY <1>2, <1>3, <1>8, <1>11, <1>12 DEF Merges
<1> QED
    BY <1>10, <1>15, <1>16, <1>17 DEF Merges

-----------------------------------------------------------------------------
(* Clipping the pieces to what is behind the cursor.                       *)

LEMMA NumFacts ==
    /\ \A b \in Block : Num[b] \in Nat /\ Num[b] < Infinity /\ NumOf(b) = Num[b]
    /\ \A c \in Cursor : NumOf(c) + 1 \in Nat /\ NumOf(c) \in Int /\ -1 <= NumOf(c)
    /\ NumOf(None) = -1
BY ChainAssumption, StreamAssumption DEF NumOf, Cursor

LEMMA BehindFacts ==
    ASSUME NEW p \in Piece, NEW latest \in Cursor
    PROVE  /\ Behind(p, latest) \in Piece
           /\ Behind(p, latest).to = p.to /\ Behind(p, latest).requests = p.requests
           /\ Behind(p, latest).from = IF p.from <= NumOf(latest) THEN NumOf(latest) + 1 ELSE p.from
<1>1. p = [from |-> p.from, to |-> p.to, requests |-> p.requests]
    BY DEF Piece
<1>2. p.from \in Nat /\ p.to \in Nat /\ p.requests \in SUBSET Request
    BY PieceFacts
<1>3. NumOf(latest) + 1 \in Nat /\ NumOf(latest) \in Int
    BY NumFacts
<1>4. Behind(p, latest) =
        [from |-> Later(p.from, NumOf(latest) + 1), to |-> p.to, requests |-> p.requests]
    BY <1>1 DEF Behind
<1>5. Later(p.from, NumOf(latest) + 1) =
        IF p.from <= NumOf(latest) THEN NumOf(latest) + 1 ELSE p.from
    BY <1>2, <1>3 DEF Later
<1>6. Later(p.from, NumOf(latest) + 1) \in Nat
    BY <1>2, <1>3 DEF Later
<1> QED
    BY <1>2, <1>4, <1>5, <1>6 DEF Piece

\* The loop of applyRangeBound keeps the pieces that have something behind the cursor, in order.
LEMMA BoundedFacts ==
    ASSUME NEW pieces \in Seq(Piece), NEW latest \in Cursor
    PROVE  /\ Bounded(pieces, latest) \in Seq(Piece)
           /\ \A k \in DOMAIN Bounded(pieces, latest) :
                \E m \in DOMAIN pieces :
                    /\ Bounded(pieces, latest)[k] = Behind(pieces[m], latest)
                    /\ Behind(pieces[m], latest).from <= Behind(pieces[m], latest).to
           /\ \A m \in DOMAIN pieces :
                Behind(pieces[m], latest).from <= Behind(pieces[m], latest).to =>
                    \E k \in DOMAIN Bounded(pieces, latest) :
                        Bounded(pieces, latest)[k] = Behind(pieces[m], latest)
           /\ \A k, l \in DOMAIN Bounded(pieces, latest) : k < l =>
                \E m, q \in DOMAIN pieces :
                    /\ m < q
                    /\ Bounded(pieces, latest)[k] = Behind(pieces[m], latest)
                    /\ Bounded(pieces, latest)[l] = Behind(pieces[q], latest)
<1> DEFINE N == Len(pieces)
<1> DEFINE B(n) == Behind(pieces[n], latest)
<1> DEFINE kept(n) == B(n).from <= B(n).to
<1> DEFINE Next1(g, n) == IF kept(n) THEN Append(g[n - 1], B(n)) ELSE g[n - 1]
<1> DEFINE Loop(f) == [n \in 0..N |-> IF n = 0 THEN <<>> ELSE Next1(f, n)]
<1> DEFINE f == CHOOSE f : f = Loop(f)
<1>1. Bounded(pieces, latest) = f[N]
    BY DEF Bounded
<1>2. N \in Nat /\ DOMAIN pieces = 1..N /\ \A n \in 1..N : pieces[n] \in Piece
    BY LenProperties
<1>3. \A n \in 1..N : B(n) \in Piece
    BY <1>2, BehindFacts
<1> HIDE DEF N, B, kept
\* The loop has a result: it has one up to every piece.
<1> DEFINE Upto(g, k) == /\ g \in [0..k -> Seq(Piece)] /\ g[0] = <<>>
                         /\ \A n \in 1..k : g[n] = Next1(g, n)
<1>4. \A k \in 0..N : \E g : Upto(g, k)
  <2> DEFINE Bad == {k \in 0..N : ~\E g : Upto(g, k)}
  <2>1. SUFFICES ASSUME Bad # {} PROVE FALSE
      OBVIOUS
  <2>2. Bad \in SUBSET Nat
      OBVIOUS
  <2>3. PICK k \in Bad : \A n \in Bad : k <= n
      BY <2>1, <2>2, LeastNumber
  <2>4. k \in 0..N /\ ~\E g : Upto(g, k)
      OBVIOUS
  <2>5. CASE k = 0
    <3> DEFINE g == [n \in 0..0 |-> <<>>]
    <3>1. g \in [0..k -> Seq(Piece)] /\ g[0] = <<>> /\ 1..k = {}
        BY <2>5
    <3> QED
        BY <3>1, <2>4
  <2>6. CASE k # 0
    <3>1. k - 1 \in 0..N /\ ~(k <= k - 1)
        BY <2>4, <2>6, <1>2
    <3>2. PICK g : Upto(g, k - 1)
      <4> HIDE DEF Upto
      <4> QED
        BY <2>3, <3>1
    <3> DEFINE h == [n \in 0..k |-> IF n = k THEN Next1(g, k) ELSE g[n]]
    <3>3. g[k - 1] \in Seq(Piece) /\ B(k) \in Piece
        BY <3>2, <2>4, <2>6, <1>2, <1>3
    <3>4. Next1(g, k) \in Seq(Piece)
        BY <3>3, AppendProperties
    <3> HIDE DEF Next1
    <3>5. /\ \A n \in 0..(k - 1) : h[n] = g[n]
          /\ h[k] = Next1(g, k)
        BY <2>4, <2>6, <1>2
    <3>6. h \in [0..k -> Seq(Piece)]
        BY <3>2, <3>4, <2>4, <1>2
    <3>7. h[0] = <<>>
        BY <3>2, <3>5, <2>4, <2>6, <1>2
    <3>8. ASSUME NEW n \in 1..k PROVE h[n] = Next1(h, n)
      <4>1. h[n] = Next1(g, n)
          BY <3>2, <3>5, <2>4, <2>6, <1>2
      <4>2. h[n - 1] = g[n - 1]
          BY <3>5, <2>4, <1>2
      <4> QED
          BY <4>1, <4>2 DEF Next1
    <3>9. Upto(h, k)
        BY <3>6, <3>7, <3>8
    <3> QED
        BY <3>9, <2>4
  <2> QED
      BY <2>5, <2>6
<1>5. f = Loop(f)
  <2>0. N \in 0..N
      BY <1>2
  <2>1. PICK g : Upto(g, N)
    <3> HIDE DEF Upto
    <3> QED
      BY <1>4, <2>0
  <2>2. \A n \in 0..N : Loop(g)[n] = g[n]
    <3> HIDE DEF Next1
    <3> QED
      BY <2>1, <1>2
  <2>3. Loop(g) = g
    <3>1. g = [n \in 0..N |-> g[n]]
        BY <2>1
    <3> HIDE DEF Next1
    <3>2. Loop(g) = [n \in 0..N |-> Loop(g)[n]]
        OBVIOUS
    <3> QED
        BY <3>1, <3>2, <2>2
  <2>4. \E x : x = Loop(x)
      BY <2>3
  <2> QED
      BY <2>4, Zenon
<1> HIDE DEF f
<1>6. f[0] = <<>> /\ \A n \in 1..N : f[n] = Next1(f, n)
  <2> HIDE DEF Next1
  <2>1. \A n \in 0..N : f[n] = IF n = 0 THEN <<>> ELSE Next1(f, n)
      BY <1>5
  <2> QED
      BY <2>1, <1>2
<1> HIDE DEF Upto, Loop
<1> DEFINE
    Sound(n) == \A k \in DOMAIN f[n] : \E m \in 1..n : f[n][k] = B(m) /\ kept(m)
    Complete(n) == \A m \in 1..n : kept(m) => \E k \in DOMAIN f[n] : f[n][k] = B(m)
    Ordered(n) == \A k, l \in DOMAIN f[n] : k < l =>
                    \E m, q \in 1..n : m < q /\ f[n][k] = B(m) /\ f[n][l] = B(q)
    Right(n) == f[n] \in Seq(Piece) /\ Sound(n) /\ Complete(n) /\ Ordered(n)
<1>7. Right(0)
    BY <1>6
<1>8. ASSUME NEW n \in 1..N, Right(n - 1) PROVE Right(n)
  <2>1. f[n - 1] \in Seq(Piece) /\ B(n) \in Piece /\ n \in Nat
      BY <1>2, <1>3, <1>8
  <2>2. CASE ~kept(n)
    <3>1. f[n] = f[n - 1]
        BY <1>6, <2>2
    <3>2. Sound(n)
        BY <3>1, <1>8, <2>1
    <3>3. Complete(n)
      <4>1. \A m \in 1..n : kept(m) => m \in 1..(n - 1)
          BY <2>1, <2>2
      <4> QED
          BY <3>1, <4>1, <1>8
    <3>4. Ordered(n)
      <4>1. \A m \in 1..(n - 1) : m \in 1..n
          BY <2>1
      <4> QED
          BY <3>1, <4>1, <1>8
    <3> QED
        BY <3>1, <3>2, <3>3, <3>4, <2>1
  <2>3. CASE kept(n)
    <3> DEFINE L == Len(f[n - 1])
    <3>1. f[n] = Append(f[n - 1], B(n))
        BY <1>6, <2>3
    <3>2. /\ f[n] \in Seq(Piece) /\ L \in Nat
          /\ DOMAIN f[n] = 1..L + 1 /\ DOMAIN f[n - 1] = 1..L
          /\ \A k \in 1..L : f[n][k] = f[n - 1][k]
          /\ f[n][L + 1] = B(n)
        BY <3>1, <2>1, AppendProperties, LenProperties
    <3> HIDE DEF L
    <3>3. /\ \A k \in DOMAIN f[n] : k \in 1..L \/ k = L + 1
          /\ \A m \in 1..n : m \in 1..(n - 1) \/ m = n
          /\ \A m \in 1..(n - 1) : m \in 1..n /\ m < n
          /\ n \in 1..n
        BY <3>2, <2>1
    <3>4. Sound(n)
        BY <3>2, <3>3, <2>3, <1>8
    <3>5. Complete(n)
      <4>1. ASSUME NEW m \in 1..n, kept(m) PROVE \E k \in DOMAIN f[n] : f[n][k] = B(m)
        <5>1. CASE m = n
            BY <5>1, <3>2
        <5>2. CASE m \in 1..(n - 1)
          <6>1. PICK k \in DOMAIN f[n - 1] : f[n - 1][k] = B(m)
              BY <4>1, <5>2, <1>8
          <6>2. k \in DOMAIN f[n] /\ f[n][k] = B(m)
              BY <6>1, <3>2
          <6> QED
              BY <6>2
        <5> QED
            BY <5>1, <5>2, <3>3
      <4> QED
          BY <4>1
    <3>6. ASSUME NEW k \in DOMAIN f[n], NEW l \in DOMAIN f[n], k < l
          PROVE  \E m, q \in 1..n : m < q /\ f[n][k] = B(m) /\ f[n][l] = B(q)
      <4>1. k \in 1..L
          BY <3>2, <3>6
      <4>2. CASE l \in 1..L
        <5>0. k \in DOMAIN f[n - 1] /\ l \in DOMAIN f[n - 1] /\ Ordered(n - 1)
            BY <4>1, <4>2, <3>2, <1>8
        <5>1. PICK m \in 1..(n - 1), q \in 1..(n - 1) :
                m < q /\ f[n - 1][k] = B(m) /\ f[n - 1][l] = B(q)
            BY <5>0, <3>6, Zenon
        <5> QED
            BY <5>1, <4>1, <4>2, <3>2, <3>3
      <4>3. CASE l = L + 1
        <5>1. PICK m \in 1..(n - 1) : f[n - 1][k] = B(m)
            BY <4>1, <3>2, <1>8
        <5> QED
            BY <5>1, <4>1, <4>3, <3>2, <3>3
      <4> QED
          BY <4>2, <4>3, <3>3
    <3> QED
        BY <3>2, <3>4, <3>5, <3>6
  <2> QED
      BY <2>2, <2>3
<1> HIDE DEF Right
<1>9. Right(N)
  <2> DEFINE Bad == {n \in 0..N : ~Right(n)}
  <2>1. SUFFICES ASSUME Bad # {} PROVE FALSE
      BY <1>2
  <2>2. Bad \in SUBSET Nat
      OBVIOUS
  <2>3. PICK n \in Bad : \A m \in Bad : n <= m
      BY <2>1, <2>2, LeastNumber
  <2>4. n # 0
      BY <1>7
  <2>5. n \in 1..N /\ n - 1 \in 0..N /\ n - 1 < n
      BY <2>3, <2>4, <1>2
  <2>6. Right(n - 1)
      BY <2>3, <2>5
  <2> QED
      BY <2>3, <2>5, <2>6, <1>8
<1>10. f[N] \in Seq(Piece) /\ Sound(N) /\ Complete(N) /\ Ordered(N)
    BY <1>9 DEF Right
<1>11. DOMAIN pieces = 1..N
    BY <1>2
<1> DEFINE R == f[N]
<1>12. \A k \in DOMAIN R : \E m \in DOMAIN pieces : R[k] = B(m) /\ kept(m)
    BY <1>10, <1>11
<1>13. \A m \in DOMAIN pieces : kept(m) => \E k \in DOMAIN R : R[k] = B(m)
    BY <1>10, <1>11
<1>14. \A k, l \in DOMAIN R : k < l =>
         \E m, q \in DOMAIN pieces : m < q /\ R[k] = B(m) /\ R[l] = B(q)
  <2>1. Ordered(N)
      BY <1>10, Zenon
  <2>2. ASSUME NEW k \in DOMAIN f[N], NEW l \in DOMAIN f[N], k < l
        PROVE  \E m, q \in DOMAIN pieces : m < q /\ f[N][k] = B(m) /\ f[N][l] = B(q)
    <3>1. PICK m \in 1..N, q \in 1..N : m < q /\ f[N][k] = B(m) /\ f[N][l] = B(q)
        BY <2>1, <2>2, Zenon
    <3> QED
        BY <3>1, <1>11
  <2> QED
      BY <2>2, Zenon
<1>15. R = Bounded(pieces, latest) /\ R \in Seq(Piece)
    BY <1>1, <1>10
<1> HIDE DEF R
<1> QED
    BY <1>12, <1>13, <1>14, <1>15 DEF B, kept

\* The finished list: it ascends, pieces that touch differ, and each request has its blocks.
LEMMA MergedFacts ==
    ASSUME Merges, MergeEnds,
           \A r \in DOMAIN resolved : resolved[r] \in Span /\ resolved[r].from <= resolved[r].to
    PROVE  /\ Merged \in Seq(Piece) /\ Ascending(Merged)
           /\ \A r \in DOMAIN resolved : \A n \in 0..Infinity :
                InPiece(n, resolved[r]) <=> \E i \in DOMAIN Merged : On(Merged[i], n, r)
<1> DEFINE L == Len(union)
<1> DEFINE M == Merged
<1>1. queue = {} /\ union \in Seq(Piece) /\ top \in Piece
    BY DEF MergeEnds, Merges
<1>2. /\ M \in Seq(Piece) /\ L \in Nat
      /\ DOMAIN union = 1..L /\ DOMAIN M = 1..L + 1
      /\ \A i \in 1..L : M[i] = union[i]
      /\ M[L + 1] = top
    BY <1>1, AppendProperties, LenProperties DEF Merged
<1> HIDE DEF L, M
<1>3. \A p \in Held : \E i \in DOMAIN M : p = M[i]
    BY <1>1, <1>2 DEF Held
<1>4. \A i \in DOMAIN M : M[i] \in Held
    BY <1>2 DEF Held
<1>5. \A i \in DOMAIN M : /\ WellCut(resolved, M[i]) /\ M[i] \in Piece
                          /\ M[i].from \in Nat /\ M[i].to \in Nat /\ M[i].from <= M[i].to
                          /\ M[i].to <= Infinity
    BY <1>4, PieceFacts DEF Merges, Partition, WellCut
<1>6. \A i, j \in DOMAIN M : i < j => M[i].to < M[j].from
  <2>1. SUFFICES ASSUME NEW i \in DOMAIN M, NEW j \in DOMAIN M, i < j PROVE M[i].to < M[j].from
      OBVIOUS
  <2>2. i \in 1..L /\ M[i] = union[i]
      BY <1>2, <2>1
  <2>3. CASE j \in 1..L
      BY <1>2, <2>1, <2>2, <2>3 DEF Merges, FinishedIsBelow
  <2>4. CASE j = L + 1
      BY <1>2, <2>2, <2>4 DEF Merges, FinishedIsBelow
  <2> QED
      BY <1>2, <2>3, <2>4
<1>7. \A r \in DOMAIN resolved : \A n \in 0..Infinity :
        InPiece(n, resolved[r]) <=> \E i \in DOMAIN M : On(M[i], n, r)
    BY <1>3, <1>4 DEF Merges, Partition
\* Two pieces that hold the same block are one.
<1>8. \A i, j \in DOMAIN M : \A n \in Nat : InPiece(n, M[i]) /\ InPiece(n, M[j]) => i = j
  <2>1. \A i, j \in DOMAIN M : i < j \/ j < i \/ i = j
      BY <1>2
  <2> QED
      BY <2>1, <1>5, <1>6 DEF InPiece
<1>9. \A i \in DOMAIN M : \A r \in DOMAIN resolved : \A n \in 0..Infinity :
        InPiece(n, M[i]) => (r \in M[i].requests <=> InPiece(n, resolved[r]))
  <2>1. \A n \in 0..Infinity : n \in Nat
      BY RangeAssumption
  <2> QED
      BY <2>1, <1>7, <1>8 DEF On
<1>10. ASSUME NEW i \in DOMAIN M, NEW j \in DOMAIN M, i < j, M[j].from = M[i].to + 1,
              M[i].requests = M[j].requests
       PROVE  FALSE
  <2>1. /\ M[i].to \in 0..Infinity /\ InPiece(M[i].to, M[i])
        /\ M[j].from \in 0..Infinity /\ InPiece(M[j].from, M[j])
        /\ M[j].from # 0 /\ M[j].from # Infinity + 1
      BY <1>5, <1>10, RangeAssumption DEF InPiece
  <2>2. Border(resolved, M[j].from)
      BY <1>5 DEF WellCut
  <2>3. PICK r \in DOMAIN resolved : \/ M[j].from = resolved[r].from
                                     \/ M[j].from = resolved[r].to + 1
      BY <2>1, <2>2 DEF Border
  <2>4. InPiece(M[i].to, resolved[r]) <=> InPiece(M[j].from, resolved[r])
      BY <1>9, <1>10, <2>1
  <2>5. resolved[r].from \in Nat /\ resolved[r].to \in Nat /\ resolved[r].from <= resolved[r].to
      BY RangeAssumption DEF Span
  <2> QED
      BY <2>3, <2>4, <2>5, <1>5, <1>10 DEF InPiece
<1>11. Ascending(M)
    BY <1>5, <1>6, <1>10 DEF Ascending
<1> QED
    BY <1>2, <1>7, <1>11 DEF M

\* Clipped to what is behind the cursor, they are as before there, and nothing is below.
LEMMA ClippedFacts ==
    ASSUME NEW pieces \in Seq(Piece), Ascending(pieces), NEW latest \in Cursor
    PROVE  /\ Bounded(pieces, latest) \in Seq(Piece)
           /\ Ascending(Bounded(pieces, latest))
           /\ \A k \in DOMAIN Bounded(pieces, latest) :
                NumOf(latest) < Bounded(pieces, latest)[k].from
           /\ \A r : \A n \in 0..Infinity :
                (\E k \in DOMAIN Bounded(pieces, latest) : On(Bounded(pieces, latest)[k], n, r))
                  <=> NumOf(latest) < n /\ \E m \in DOMAIN pieces : On(pieces[m], n, r)
<1> DEFINE R == Bounded(pieces, latest)
<1> DEFINE B(m) == Behind(pieces[m], latest)
<1>1. /\ R \in Seq(Piece)
      /\ \A k \in DOMAIN R : \E m \in DOMAIN pieces : R[k] = B(m) /\ B(m).from <= B(m).to
      /\ \A m \in DOMAIN pieces : B(m).from <= B(m).to => \E k \in DOMAIN R : R[k] = B(m)
      /\ \A k, l \in DOMAIN R : k < l =>
            \E m, q \in DOMAIN pieces : m < q /\ R[k] = B(m) /\ R[l] = B(q)
    BY BoundedFacts
<1>2. \A m \in DOMAIN pieces :
        /\ pieces[m] \in Piece /\ pieces[m].from \in Nat /\ pieces[m].to \in Nat
        /\ pieces[m].from <= pieces[m].to /\ pieces[m].to <= Infinity
    BY PieceFacts DEF Ascending
<1>3. NumOf(latest) \in Int /\ -1 <= NumOf(latest) /\ NumOf(latest) + 1 \in Nat
    BY NumFacts
<1>4. \A m \in DOMAIN pieces :
        /\ B(m) \in Piece /\ B(m).to = pieces[m].to /\ B(m).requests = pieces[m].requests
        /\ B(m).from = IF pieces[m].from <= NumOf(latest) THEN NumOf(latest) + 1
                                                          ELSE pieces[m].from
    BY <1>2, BehindFacts
<1> HIDE DEF R, B
<1>5. \A m \in DOMAIN pieces : NumOf(latest) < B(m).from /\ pieces[m].from <= B(m).from
    BY <1>2, <1>3, <1>4
<1>6. \A k \in DOMAIN R : /\ R[k] \in Piece /\ R[k].from <= R[k].to /\ R[k].to <= Infinity
                          /\ NumOf(latest) < R[k].from
  <2>1. SUFFICES ASSUME NEW k \in DOMAIN R
                 PROVE  /\ R[k] \in Piece /\ R[k].from <= R[k].to /\ R[k].to <= Infinity
                        /\ NumOf(latest) < R[k].from
      OBVIOUS
  <2>2. PICK m \in DOMAIN pieces : R[k] = B(m) /\ B(m).from <= B(m).to
      BY <1>1
  <2> QED
      BY <2>2, <1>2, <1>4, <1>5
<1>7. ASSUME NEW k \in DOMAIN R, NEW l \in DOMAIN R, k < l
      PROVE  /\ R[k].to < R[l].from
             /\ R[l].from = R[k].to + 1 => R[k].requests # R[l].requests
  <2>1. PICK m \in DOMAIN pieces, q \in DOMAIN pieces : m < q /\ R[k] = B(m) /\ R[l] = B(q)
      BY <1>1, <1>7
  <2>2. /\ pieces[m].to < pieces[q].from
        /\ pieces[q].from = pieces[m].to + 1 => pieces[m].requests # pieces[q].requests
      BY <2>1 DEF Ascending
  <2>3. NumOf(latest) < R[k].from /\ R[k].from <= R[k].to /\ R[k].from \in Nat /\ R[k].to \in Nat
      BY <1>6, PieceFacts
  <2>4. NumOf(latest) < pieces[m].to
      BY <2>1, <2>3, <1>3, <1>4
  <2>5. R[l].from = pieces[q].from
      BY <2>1, <2>2, <2>4, <1>2, <1>3, <1>4
  <2> QED
      BY <2>1, <2>2, <2>5, <1>4
<1>8. Ascending(R)
    BY <1>6, <1>7 DEF Ascending
<1>9. ASSUME NEW r, NEW n \in 0..Infinity
      PROVE  (\E k \in DOMAIN R : On(R[k], n, r))
               <=> NumOf(latest) < n /\ \E m \in DOMAIN pieces : On(pieces[m], n, r)
  <2>0. n \in Nat
      BY RangeAssumption
  <2>1. ASSUME NEW k \in DOMAIN R, On(R[k], n, r)
        PROVE  NumOf(latest) < n /\ \E m \in DOMAIN pieces : On(pieces[m], n, r)
    <3>1. PICK m \in DOMAIN pieces : R[k] = B(m) /\ B(m).from <= B(m).to
        BY <1>1
    <3> QED
        BY <3>1, <2>0, <2>1, <1>2, <1>3, <1>4, SMTT(30) DEF On, InPiece
  <2>2. ASSUME NumOf(latest) < n, NEW m \in DOMAIN pieces, On(pieces[m], n, r)
        PROVE  \E k \in DOMAIN R : On(R[k], n, r)
    <3>1. B(m).from <= n /\ n <= B(m).to
        BY <2>0, <2>2, <1>2, <1>3, <1>4 DEF On, InPiece
    <3>2. B(m).from <= B(m).to
        BY <3>1, <2>0, <1>4, PieceFacts
    <3>3. PICK k \in DOMAIN R : R[k] = B(m)
        BY <3>2, <1>1
    <3> QED
        BY <3>1, <3>3, <2>2, <1>4 DEF On, InPiece
  <2> QED
      BY <2>1, <2>2
<1> QED
    BY <1>1, <1>6, <1>8, <1>9 DEF R

-----------------------------------------------------------------------------
(* What is committed.                                                      *)

\* A set of blocks has a highest block: numbers are bounded.
LEMMA LastIsHighest ==
    ASSUME NEW S \in SUBSET Block, S # {}
    PROVE  Last(S) \in S /\ \A b \in S : Num[b] <= Num[Last(S)]
<1> DEFINE Rooms == {Infinity - Num[b] : b \in S}
<1>1. \A b \in S : Num[b] \in Nat /\ Num[b] < Infinity
    BY NumFacts
<1>2. Rooms \in SUBSET Nat /\ Rooms # {}
    BY <1>1, RangeAssumption
<1>3. PICK m \in Rooms : \A n \in Rooms : m <= n
    BY <1>2, LeastNumber
<1>4. PICK b \in S : m = Infinity - Num[b]
    OBVIOUS
<1>5. ASSUME NEW c \in S PROVE Num[c] <= Num[b]
  <2>1. m <= Infinity - Num[c]
      BY <1>3
  <2> QED
      BY <2>1, <1>1, <1>4, RangeAssumption
<1>6. \E x \in S : \A c \in S : Num[c] <= Num[x]
    BY <1>5
<1> QED
    BY <1>6 DEF Last

LEMMA LastIs ==
    ASSUME NEW S \in SUBSET Block, NEW b \in S, \A c \in S : c # b => Num[c] < Num[b]
    PROVE  Last(S) = b
<1>1. Last(S) \in S /\ Num[b] <= Num[Last(S)]
    BY LastIsHighest
<1> QED
    BY <1>1, NumFacts

LEMMA CommittedFacts ==
    ASSUME TypeOK
    PROVE  /\ \A c \in committed :
                /\ c.block \in Block /\ Num[c.block] \in Nat /\ c.requests \in SUBSET Request
                /\ c = [block |-> c.block, requests |-> c.requests]
           /\ CommittedBlocks \in SUBSET Block
BY NumFacts DEF TypeOK, CommittedBlocks

LEMMA NewestFacts ==
    ASSUME TypeOK
    PROVE  /\ Newest \in Cursor /\ NumOf(Newest) \in Int /\ -1 <= NumOf(Newest)
           /\ \A c \in committed : Num[c.block] <= NumOf(Newest)
           /\ committed = {} => Newest = None /\ NumOf(Newest) = -1
           /\ committed # {} =>
                /\ Newest \in Block /\ Newest # None /\ Newest \in CommittedBlocks
                /\ NumOf(Newest) = Num[Newest] /\ Num[Newest] \in Nat
<1>1. /\ \A c \in committed : c.block \in Block /\ Num[c.block] \in Nat
      /\ CommittedBlocks \in SUBSET Block
    BY CommittedFacts
<1>2. CASE committed = {}
    BY <1>2, NumFacts DEF Newest, Cursor
<1>3. CASE committed # {}
  <2>1. CommittedBlocks # {} /\ \A c \in committed : c.block \in CommittedBlocks
      BY <1>3 DEF CommittedBlocks
  <2>2. Newest = Last(CommittedBlocks)
      BY <1>3 DEF Newest
  <2>3. Newest \in CommittedBlocks /\ \A b \in CommittedBlocks : Num[b] <= Num[Newest]
      BY <1>1, <2>1, <2>2, LastIsHighest
  <2>4. Newest \in Block /\ Newest # None /\ NumOf(Newest) = Num[Newest] /\ Num[Newest] \in Nat
      BY <1>1, <2>3, NumFacts, ChainAssumption
  <2> QED
      BY <1>1, <1>3, <2>1, <2>3, <2>4 DEF Cursor
<1> QED
    BY <1>2, <1>3

LEMMA AskedFacts ==
    ASSUME TypeOK
    PROVE  /\ DOMAIN asked \in SUBSET Request
           /\ \A r \in DOMAIN asked :
                /\ asked[r].latest \in BOOLEAN
                /\ asked[r].from \in Nat /\ asked[r].to \in 0..Infinity /\ asked[r].to \in Nat
<1>1. PICK requests \in SUBSET Request : asked \in [requests -> NaturalRange]
    BY StreamAssumption DEF TypeOK
<1> QED
    BY <1>1, RangeAssumption DEF NaturalRange

-----------------------------------------------------------------------------
(* The steps around the loop.                                              *)

LEMMA InitStream == Init => StreamInv
<1> SUFFICES ASSUME Init PROVE StreamInv
    OBVIOUS
<1>1. TypeOK
  <2>1. NoPiece \in Piece /\ NoRequest \in [from : Nat, anchor : Cursor]
      BY DEF NoPiece, Piece, NoRequest, Cursor
  <2>2. \A S : <<>> \in Seq(S)
      BY EmptySeq
  <2> QED
      BY <2>1, <2>2, StreamAssumption DEF Init, TypeOK, Cursor
<1> QED
    BY <1>1 DEF Init, StreamInv, MergeInv, ReadingInv, OnePerNumber, LinkedWithinARange

LEMMA PortalKeepsStream ==
    ASSUME StreamInv, NewBlock \/ Reorganise
    PROVE  StreamInv'
<1>1. UNCHANGED <<mergeVars, asked, readVars, committed, starts>>
    BY DEF NewBlock, Reorganise
<1>2. tip' \in Block /\ reorgs' \in 0..MaxReorgs
    BY StreamAssumption DEF StreamInv, TypeOK, NewBlock, Reorganise
<1>3. TypeOK'
    BY <1>1, <1>2 DEF StreamInv, TypeOK, mergeVars, readVars
<1>4. Newest' = Newest /\ Held' = Held
    BY <1>1 DEF Newest, CommittedBlocks, Held, mergeVars
<1>5. MergeInv'
    BY <1>1, <1>4 DEF StreamInv, MergeInv, mergeVars, readVars, ResolvedAsAsked, Merges,
                      FinishedIsBelow, TopIsLowest
<1>6. ReadingInv'
    BY <1>1, <1>4 DEF StreamInv, ReadingInv, readVars, RequestIsNext, AnchoredAtNewest,
                      NothingSkipped, Ahead, Covered
<1> QED
    BY <1>1, <1>3, <1>5, <1>6 DEF StreamInv, OnePerNumber, LinkedWithinARange

LEMMA StutterKeepsStream ==
    ASSUME StreamInv, UNCHANGED vars
    PROVE  StreamInv'
<1>1. UNCHANGED <<mergeVars, portalVars, asked, readVars, committed, starts>>
    BY DEF vars
<1>3. TypeOK'
    BY <1>1 DEF StreamInv, TypeOK, mergeVars, portalVars, readVars
<1>4. Newest' = Newest /\ Held' = Held
    BY <1>1 DEF Newest, CommittedBlocks, Held, mergeVars
<1>5. MergeInv'
    BY <1>1, <1>4 DEF StreamInv, MergeInv, mergeVars, readVars, ResolvedAsAsked, Merges,
                      FinishedIsBelow, TopIsLowest
<1>6. ReadingInv'
    BY <1>1, <1>4 DEF StreamInv, ReadingInv, readVars, RequestIsNext, AnchoredAtNewest,
                      NothingSkipped, Ahead, Covered
<1> QED
    BY <1>1, <1>3, <1>5, <1>6 DEF StreamInv, OnePerNumber, LinkedWithinARange

LEMMA StartKeepsStream ==
    ASSUME StreamInv, Start
    PROVE  StreamInv'
<1> DEFINE ranges == [r \in DOMAIN asked |-> Resolved(asked[r], cursor')]
<1>1. stage = "stopped" /\ cursor' = Newest
    BY DEF Start
<1>2. UNCHANGED <<portalVars, asked, todo, request, committed, starts>>
    BY DEF Start
<1>3. TypeOK /\ todo = <<>> /\ request = NoRequest
    BY <1>1 DEF StreamInv, ReadingInv
<1>4. cursor' \in Cursor /\ Newest' = Newest
    BY <1>1, <1>2, <1>3, NewestFacts DEF Newest, CommittedBlocks
<1>5. ReadingInv' \/ stage' = "reading"
    BY <1>2, <1>3 DEF ReadingInv
<1>6. CASE \E r \in DOMAIN ranges : ranges[r].to < ranges[r].from
  <2>1. stage' = "refused" /\ UNCHANGED mergeVars
      BY <1>6 DEF Start
  <2>2. TypeOK'
      BY <2>1, <1>2, <1>3, <1>4 DEF TypeOK, mergeVars, portalVars
  <2>3. MergeInv'
      BY <2>1, <1>1 DEF StreamInv, MergeInv, mergeVars
  <2> QED
      BY <2>1, <2>2, <2>3, <1>2, <1>5 DEF StreamInv, OnePerNumber, LinkedWithinARange
<1>7. CASE ~\E r \in DOMAIN ranges : ranges[r].to < ranges[r].from
  <2>1. stage' = "merging" /\ BeginMerge(ranges)
      BY <1>7 DEF Start
  <2>2. /\ DOMAIN asked \in SUBSET Request
        /\ \A r \in DOMAIN asked :
             /\ asked[r].latest \in BOOLEAN
             /\ asked[r].from \in Nat /\ asked[r].to \in 0..Infinity /\ asked[r].to \in Nat
      BY <1>3, AskedFacts
  <2>3. tip \in Block /\ Num[tip] \in Nat
      BY <1>3, NumFacts DEF TypeOK
  <2> DEFINE next == IF cursor' = None THEN Infinity ELSE Num[cursor'] + 1
  <2>4. next \in Nat
      BY <1>4, NumFacts, RangeAssumption DEF Cursor
  <2>5. \A r \in DOMAIN asked :
          ranges[r] = [from |-> IF asked[r].latest THEN Earlier(Num[tip], next)
                                                   ELSE asked[r].from,
                       to |-> asked[r].to]
      BY DEF Resolved
  <2> HIDE DEF next
  <2>6. Earlier(Num[tip], next) \in Nat /\ Earlier(Num[tip], next) <= next
      BY <2>3, <2>4 DEF Earlier
  <2>7. \A r \in DOMAIN asked :
          /\ ranges[r].from = IF asked[r].latest THEN Earlier(Num[tip], next) ELSE asked[r].from
          /\ ranges[r].to = asked[r].to
          /\ ranges[r] = [from |-> ranges[r].from, to |-> ranges[r].to]
      BY <2>5
  <2>8. DOMAIN ranges = DOMAIN asked
      OBVIOUS
  <2> HIDE DEF ranges
  <2>9. \A r \in DOMAIN asked : ranges[r].from \in Nat
      BY <2>2, <2>6, <2>7
  <2>10. \A r \in DOMAIN asked : ranges[r] \in Span
    <3>1. TAKE r \in DOMAIN asked
    <3>2. ranges[r].to \in 0..Infinity
        BY <2>2, <2>7
    <3>3. ranges[r].from \in Nat
        BY <2>9
    <3>4. [from |-> ranges[r].from, to |-> ranges[r].to] \in Span
        BY <3>2, <3>3 DEF Span
    <3> QED
        BY <2>7, <3>4
  <2>11. \A r \in DOMAIN asked : ranges[r].from <= ranges[r].to
      BY <1>7, <2>2, <2>7, <2>8, <2>9
  <2>12. /\ resolved' = ranges /\ union' = <<>>
         /\ queue' \subseteq Piece /\ top' \in Piece
         /\ Partition(ranges, Held') /\ FinishedIsBelow' /\ TopIsLowest'
      BY <2>1, <2>2, <2>8, <2>10, <2>11, BeginMergeInv
  <2>13. union' \in Seq(Piece)
      BY <2>12, EmptySeq
  <2>14. TypeOK'
      BY <2>1, <2>12, <2>13, <1>2, <1>3, <1>4 DEF TypeOK, portalVars
  <2>15. ASSUME NEW r \in DOMAIN asked, asked[r].latest, cursor' # None
         PROVE  ranges[r].from <= Num[cursor'] + 1
      BY <2>15, <2>6, <2>7 DEF next
  <2>16. \A r \in DOMAIN asked : ResolvedAsAsked(r)'
      BY <2>7, <2>10, <2>11, <2>12, <2>15, <1>2 DEF ResolvedAsAsked
  <2>17. MergeInv'
      BY <2>1, <2>8, <2>12, <2>13, <2>16, <1>1, <1>2, <1>4 DEF MergeInv, Merges
  <2> QED
      BY <2>1, <2>14, <2>17, <1>2, <1>5 DEF StreamInv, OnePerNumber, LinkedWithinARange
<1> QED
    BY <1>6, <1>7

LEMMA MergeStepKeepsStream ==
    ASSUME StreamInv, MergeStep
    PROVE  StreamInv'
<1>1. UNCHANGED <<portalVars, asked, readVars, committed, starts>>
    BY DEF MergeStep
<1>2. stage = "merging"
    BY DEF StreamInv, MergeInv, MergeStep, MergeDisjoint, MergeOverlap, Merging
<1>3. Merges'
    BY <1>2, DisjointKeepsMerge, OverlapKeepsMerge DEF StreamInv, MergeInv, MergeStep
<1>4. resolved' = resolved
    BY DEF MergeStep, MergeDisjoint, MergeOverlap
<1>5. Newest' = Newest
    BY <1>1 DEF Newest, CommittedBlocks
<1>6. TypeOK'
    BY <1>1, <1>3 DEF StreamInv, TypeOK, Merges, portalVars, readVars
<1>7. MergeInv'
    BY <1>1, <1>2, <1>3, <1>4, <1>5 DEF StreamInv, MergeInv, readVars, ResolvedAsAsked
<1>8. ReadingInv'
    BY <1>1, <1>2 DEF StreamInv, ReadingInv, readVars
<1> QED
    BY <1>1, <1>6, <1>7, <1>8 DEF StreamInv, OnePerNumber, LinkedWithinARange

LEMMA StopKeepsStream ==
    ASSUME StreamInv, NEW next \in {"stopped", "halted"}, Stop(next),
           UNCHANGED <<portalVars, asked>>, starts' \in 0..MaxStarts,
           committed' \subseteq committed
    PROVE  StreamInv'
<1>1. /\ stage' = next /\ todo' = <<>> /\ request' = NoRequest /\ cursor' = None
      /\ resolved' = <<>> /\ queue' = {} /\ top' = NoPiece /\ union' = <<>>
    BY DEF Stop
<1>2. NoPiece \in Piece /\ NoRequest \in [from : Nat, anchor : Cursor] /\ None \in Cursor
    BY DEF NoPiece, Piece, NoRequest, Cursor
<1>3. \A S : <<>> \in Seq(S)
    BY EmptySeq
<1>4. TypeOK'
    BY <1>1, <1>2, <1>3 DEF StreamInv, TypeOK, portalVars
<1>5. MergeInv' /\ ReadingInv'
    BY <1>1 DEF MergeInv, ReadingInv
<1>6. OnePerNumber' /\ LinkedWithinARange'
    BY DEF StreamInv, OnePerNumber, LinkedWithinARange
<1> QED
    BY <1>4, <1>5, <1>6 DEF StreamInv

LEMMA StopsKeepStream ==
    ASSUME StreamInv, RollBack \/ HaltOnFork \/ Restart
    PROVE  StreamInv'
<1>1. CASE RollBack
    BY <1>1, StopKeepsStream DEF RollBack, StreamInv, TypeOK
<1>2. CASE HaltOnFork
    BY <1>2, StopKeepsStream DEF HaltOnFork, StreamInv, TypeOK
<1>3. CASE Restart
  <2>1. starts' \in 0..MaxStarts
      BY <1>3, StreamAssumption DEF Restart, StreamInv, TypeOK
  <2> QED
      BY <1>3, <2>1, StopKeepsStream DEF Restart
<1> QED
    BY <1>1, <1>2, <1>3

-----------------------------------------------------------------------------
(* The steps of the loop.                                                  *)

LEMMA AscendingFacts ==
    ASSUME NEW pieces \in Seq(Piece), Ascending(pieces), pieces # <<>>
    PROVE  /\ 1 \in DOMAIN pieces /\ DOMAIN pieces = 1..Len(pieces) /\ Len(pieces) \in Nat
           /\ \A i \in DOMAIN pieces :
                /\ pieces[i] \in Piece /\ pieces[i].from \in Nat /\ pieces[i].to \in Nat
                /\ pieces[i].from <= pieces[i].to /\ pieces[i].to <= Infinity
                /\ pieces[1].from <= pieces[i].from
                /\ i # 1 => pieces[1].to < pieces[i].from
<1>1. DOMAIN pieces = 1..Len(pieces) /\ Len(pieces) \in Nat /\ 1 \in DOMAIN pieces
    BY LenProperties, EmptySeq
<1>2. \A i \in DOMAIN pieces :
        /\ pieces[i] \in Piece /\ pieces[i].from \in Nat /\ pieces[i].to \in Nat
        /\ pieces[i].from <= pieces[i].to /\ pieces[i].to <= Infinity
    BY PieceFacts DEF Ascending
<1>3. \A i \in DOMAIN pieces : i # 1 => pieces[1].to < pieces[i].from
    BY <1>1 DEF Ascending
<1> QED
    BY <1>1, <1>2, <1>3

LEMMA OpeningFacts ==
    ASSUME NEW p \in Piece, TypeOK
    PROVE  /\ Opening(p) \in [from : Nat, anchor : Cursor]
           /\ Opening(p).from = p.from
           /\ Opening(p).anchor =
                IF cursor # None /\ p.from = Num[cursor] + 1 THEN cursor ELSE None
BY PieceFacts DEF Opening, TypeOK, Cursor

LEMMA ReadRangesType ==
    ASSUME TypeOK, NEW pieces \in Seq(Piece), ReadRanges(pieces)
    PROVE  /\ todo' \in Seq(Piece) /\ request' \in [from : Nat, anchor : Cursor]
           /\ stage' \in {"reading", "done"}
<1>1. todo' \in Seq(Piece) /\ stage' \in {"reading", "done"}
    BY DEF ReadRanges
<1>2. CASE pieces = <<>>
    BY <1>1, <1>2 DEF ReadRanges, NoRequest, Cursor
<1>3. CASE pieces # <<>>
  <2>1. pieces[1] \in Piece
      BY <1>3, EmptySeq, LenProperties
  <2> QED
      BY <1>1, <1>3, <2>1, OpeningFacts DEF ReadRanges
<1> QED
    BY <1>2, <1>3

LEMMA StartReadingKeepsStream ==
    ASSUME StreamInv, StartReading
    PROVE  StreamInv'
<1> DEFINE R == Bounded(Merged, cursor)
<1>1. stage = "merging" /\ MergeEnds /\ ReadRanges(R)
    BY DEF StartReading
<1>2. /\ resolved' = <<>> /\ queue' = {} /\ top' = NoPiece /\ union' = <<>>
      /\ UNCHANGED <<portalVars, asked, cursor, committed, starts>>
    BY DEF StartReading
<1>3. /\ TypeOK /\ OnePerNumber /\ cursor = Newest /\ DOMAIN resolved = DOMAIN asked
      /\ \A r \in DOMAIN asked : ResolvedAsAsked(r)
      /\ Merges
    BY <1>1 DEF StreamInv, MergeInv
<1>4. cursor \in Cursor
    BY <1>3 DEF TypeOK
<1>5. \A r \in DOMAIN asked :
        /\ resolved[r] \in Span /\ resolved[r].from \in Nat /\ resolved[r].to \in Nat
        /\ resolved[r].from <= resolved[r].to /\ resolved[r].to = asked[r].to
    BY <1>3, RangeAssumption DEF ResolvedAsAsked, Span
<1>6. /\ Merged \in Seq(Piece) /\ Ascending(Merged)
      /\ \A r \in DOMAIN asked : \A n \in 0..Infinity :
           InPiece(n, resolved[r]) <=> \E i \in DOMAIN Merged : On(Merged[i], n, r)
    BY <1>1, <1>3, <1>5, MergedFacts
<1>7. /\ R \in Seq(Piece) /\ Ascending(R)
      /\ \A k \in DOMAIN R : NumOf(cursor) < R[k].from
      /\ \A r : \A n \in 0..Infinity :
           (\E k \in DOMAIN R : On(R[k], n, r))
             <=> NumOf(cursor) < n /\ \E m \in DOMAIN Merged : On(Merged[m], n, r)
    BY <1>4, <1>6, ClippedFacts
<1> HIDE DEF R
<1>8. TypeOK'
  <2>1. /\ todo' \in Seq(Piece) /\ request' \in [from : Nat, anchor : Cursor]
        /\ stage' \in {"reading", "done"}
      BY <1>1, <1>3, <1>7, ReadRangesType
  <2>2. NoPiece \in Piece /\ <<>> \in Seq(Piece)
      BY EmptySeq DEF NoPiece, Piece
  <2> QED
      BY <2>1, <2>2, <1>2, <1>3 DEF TypeOK, portalVars
<1>9. MergeInv'
    BY <1>1, <1>2 DEF MergeInv, ReadRanges
<1>10. Newest' = Newest
    BY <1>2 DEF Newest, CommittedBlocks
<1>11. CASE R = <<>>
  <2>1. ReadingInv'
      BY <1>1, <1>11 DEF ReadRanges, ReadingInv
  <2> QED
      BY <2>1, <1>2, <1>8, <1>9 DEF StreamInv, OnePerNumber, LinkedWithinARange
<1>12. CASE R # <<>>
  <2>1. /\ 1 \in DOMAIN R
        /\ \A i \in DOMAIN R : /\ R[i] \in Piece /\ R[i].from \in Nat /\ R[i].to \in Nat
                               /\ R[i].from <= R[i].to /\ R[1].from <= R[i].from
      BY <1>7, <1>12, AscendingFacts
  <2>2. todo' = R /\ stage' = "reading" /\ request' = Opening(R[1])
      BY <1>1, <1>12 DEF ReadRanges
  <2>3. /\ request'.from = R[1].from
        /\ request'.anchor =
             IF cursor # None /\ R[1].from = Num[cursor] + 1 THEN cursor ELSE None
      BY <2>1, <2>2, <1>3, OpeningFacts
  <2>4. /\ NumOf(cursor) \in Int /\ NumOf(cursor) < R[1].from
        /\ \A c \in committed : Num[c.block] \in Nat /\ Num[c.block] <= NumOf(cursor)
        /\ committed # {} => cursor # None /\ NumOf(cursor) = Num[cursor]
                             /\ cursor \in CommittedBlocks
      BY <2>1, <1>3, <1>7, NewestFacts, CommittedFacts
  <2>5. RequestIsNext'
      BY <2>1, <2>2, <2>3, <2>4, <1>2 DEF RequestIsNext
  <2>6. AnchoredAtNewest'
    <3>1. request'.anchor # None =>
             request'.anchor = Newest /\ Num[request'.anchor] + 1 = request'.from
        BY <2>3, <1>3
    <3>2. ASSUME NEW c \in committed, Num[c.block] + 1 = request'.from
          PROVE  request'.anchor = c.block
      <4>1. committed # {} /\ Num[c.block] = Num[cursor] /\ R[1].from = Num[cursor] + 1
          BY <3>2, <2>1, <2>3, <2>4
      <4>2. PICK d \in committed : d.block = cursor
          BY <4>1, <2>4 DEF CommittedBlocks
      <4>3. c = d
          BY <4>1, <4>2, <1>3 DEF OnePerNumber
      <4> QED
          BY <4>1, <4>2, <4>3, <2>3, <2>4
    <3> QED
        BY <3>1, <3>2, <1>2, <1>10 DEF AnchoredAtNewest
  <2>7. \A r \in DOMAIN asked : \A n \in 0..Infinity :
          Ahead(r, n)' <=> NumOf(cursor) < n /\ InPiece(n, resolved[r])
    <3>1. SUFFICES ASSUME NEW r \in DOMAIN asked, NEW n \in 0..Infinity
                   PROVE  Ahead(r, n)' <=> NumOf(cursor) < n /\ InPiece(n, resolved[r])
        OBVIOUS
    <3>2. n \in Nat
        BY RangeAssumption
    <3>3. \A k \in DOMAIN R : On(R[k], n, r) => n >= R[1].from
        BY <3>2, <2>1 DEF On, InPiece
    <3>4. Ahead(r, n)' <=> \E k \in DOMAIN R : On(R[k], n, r)
        BY <3>3, <2>2, <2>3 DEF Ahead
    <3> QED
        BY <3>4, <1>6, <1>7
  <2>8. NothingSkipped'
    <3>1. ASSUME NEW r \in DOMAIN asked, NEW n \in 0..Infinity
          PROVE  /\ Ahead(r, n)' => n <= asked[r].to
                 /\ IF asked[r].latest
                    THEN /\ Ahead(r, n)' => \A m \in n..asked[r].to : Ahead(r, m)'
                         /\ Covered(r) # {} /\ NumOf(Newest) < n /\ n <= asked[r].to
                              => Ahead(r, n)'
                    ELSE /\ Ahead(r, n)' => asked[r].from <= n
                         /\ NumOf(Newest) < n /\ asked[r].from <= n /\ n <= asked[r].to
                              => Ahead(r, n)'
      <4>1. n \in Nat /\ Infinity \in Nat
          BY RangeAssumption
      <4>2. /\ resolved[r].from \in Nat /\ resolved[r].to \in Nat
            /\ resolved[r].to = asked[r].to /\ asked[r].to <= Infinity
          BY <1>5, <4>1 DEF Span
      <4>3. Ahead(r, n)' <=> NumOf(cursor) < n /\ resolved[r].from <= n /\ n <= asked[r].to
          BY <2>7, <4>2 DEF InPiece
      <4>4. ASSUME Ahead(r, n)' PROVE \A m \in n..asked[r].to : Ahead(r, m)'
        <5>1. TAKE m \in n..asked[r].to
        <5>2. m \in 0..Infinity /\ n <= m /\ m <= asked[r].to
            BY <4>1, <4>2
        <5>3. NumOf(cursor) < m /\ resolved[r].from <= m
            BY <5>2, <4>1, <4>2, <4>3, <4>4, <2>4
        <5>4. InPiece(m, resolved[r])
            BY <5>2, <5>3, <4>2 DEF InPiece
        <5> QED
            BY <5>2, <5>3, <5>4, <2>7
      <4>5. ASSUME asked[r].latest, Covered(r) # {}, NumOf(Newest) < n, n <= asked[r].to
            PROVE  Ahead(r, n)'
        <5>1. committed # {}
            BY <4>5 DEF Covered
        <5>2. resolved[r].from <= Num[cursor] + 1
            BY <5>1, <4>5, <1>3, <2>4 DEF ResolvedAsAsked
        <5> QED
            BY <5>1, <5>2, <4>1, <4>2, <4>3, <4>5, <1>3, <2>4
      <4>6. ~asked[r].latest => resolved[r].from = asked[r].from
          BY <1>3 DEF ResolvedAsAsked
      <4>7. Ahead(r, n)' => n <= asked[r].to
          BY <4>3
      <4>8. CASE asked[r].latest
          BY <4>4, <4>5, <4>7, <4>8
      <4>9. CASE ~asked[r].latest
          BY <4>3, <4>6, <4>9, <1>3
      <4> QED
          BY <4>8, <4>9
    <3> QED
        BY <3>1, <1>2, <1>10 DEF NothingSkipped, Covered
  <2>9. ReadingInv'
      BY <2>1, <2>2, <2>5, <2>6, <2>8, <1>7, <1>12 DEF ReadingInv
  <2> QED
      BY <2>9, <1>2, <1>8, <1>9 DEF StreamInv, OnePerNumber, LinkedWithinARange
<1> QED
    BY <1>11, <1>12

\* What holds while a range is read.
LEMMA ReadingFacts ==
    ASSUME StreamInv, stage = "reading"
    PROVE  /\ TypeOK /\ OnePerNumber /\ LinkedWithinARange
           /\ todo \in Seq(Piece) /\ todo # <<>> /\ Ascending(todo)
           /\ RequestIsNext /\ AnchoredAtNewest /\ NothingSkipped
           /\ request.from \in Nat /\ request.anchor \in Cursor
           /\ cursor \in Cursor /\ NumOf(cursor) \in Int
           /\ \A c \in committed :
                /\ c.block \in Block /\ Num[c.block] \in Nat
                /\ Num[c.block] <= NumOf(Newest)
                /\ c = [block |-> c.block, requests |-> c.requests]
BY CommittedFacts, NewestFacts, NumFacts DEF StreamInv, ReadingInv, TypeOK

LEMMA NextRangeKeepsStream ==
    ASSUME StreamInv, NextRange
    PROVE  StreamInv'
<1> DEFINE T == Tail(todo)
<1>1. stage = "reading" /\ request.from > todo[1].to /\ ReadRanges(T)
    BY DEF NextRange
<1>2. UNCHANGED <<mergeVars, portalVars, asked, cursor, committed, starts>>
    BY DEF NextRange
<1>3. /\ TypeOK /\ OnePerNumber
      /\ todo \in Seq(Piece) /\ todo # <<>> /\ Ascending(todo)
      /\ RequestIsNext /\ NothingSkipped
      /\ request.from \in Nat /\ NumOf(cursor) \in Int
      /\ \A c \in committed : Num[c.block] \in Nat
    BY <1>1, ReadingFacts
<1>4. /\ 1 \in DOMAIN todo /\ DOMAIN todo = 1..Len(todo) /\ Len(todo) \in Nat
      /\ \A i \in DOMAIN todo :
           /\ todo[i] \in Piece /\ todo[i].from \in Nat /\ todo[i].to \in Nat
           /\ todo[i].from <= todo[i].to /\ todo[i].to <= Infinity
           /\ i # 1 => todo[1].to < todo[i].from
    BY <1>3, AscendingFacts
<1>5. /\ T \in Seq(Piece) /\ Len(T) = Len(todo) - 1
      /\ DOMAIN T = 1..Len(T)
      /\ \A i \in DOMAIN T : i + 1 \in DOMAIN todo /\ T[i] = todo[i + 1]
    BY <1>3, <1>4, HeadTailProperties, LenProperties
<1> HIDE DEF T
<1>6. TypeOK'
  <2>1. /\ todo' \in Seq(Piece) /\ request' \in [from : Nat, anchor : Cursor]
        /\ stage' \in {"reading", "done"}
      BY <1>1, <1>3, <1>5, ReadRangesType
  <2> QED
      BY <2>1, <1>2, <1>3 DEF TypeOK, portalVars, mergeVars
<1>7. MergeInv'
    BY <1>1, <1>2 DEF StreamInv, MergeInv, ReadRanges, mergeVars
<1>8. Newest' = Newest
    BY <1>2 DEF Newest, CommittedBlocks
<1>9. CASE T = <<>>
  <2>1. ReadingInv'
      BY <1>1, <1>9 DEF ReadRanges, ReadingInv
  <2> QED
      BY <2>1, <1>2, <1>6, <1>7 DEF StreamInv, OnePerNumber, LinkedWithinARange
<1>10. CASE T # <<>>
  <2>1. 1 \in DOMAIN T /\ T[1] = todo[2] /\ 2 \in DOMAIN todo
      BY <1>5, <1>10, EmptySeq
  <2>2. todo' = T /\ stage' = "reading" /\ request' = Opening(T[1])
      BY <1>1, <1>10 DEF ReadRanges
  <2>3. /\ T[1] \in Piece /\ T[1].from \in Nat /\ T[1].to \in Nat /\ T[1].from <= T[1].to
        /\ todo[1].to < T[1].from
        /\ T[1].from = todo[1].to + 1 => todo[1].requests # T[1].requests
    <3>1. /\ T[1] \in Piece /\ T[1].from \in Nat /\ T[1].to \in Nat /\ T[1].from <= T[1].to
          /\ todo[1].to < T[1].from
        BY <2>1, <1>4
    <3>2. todo[2].from = todo[1].to + 1 => todo[1].requests # todo[2].requests
      <4>1. \A i, j \in DOMAIN todo : i < j =>
              (todo[j].from = todo[i].to + 1 => todo[i].requests # todo[j].requests)
          BY <1>3 DEF Ascending
      <4>2. 1 < 2
          OBVIOUS
      <4> QED
          BY <4>1, <4>2, <2>1, <1>4
    <3> QED
        BY <3>1, <3>2, <2>1
  <2>4. /\ NumOf(cursor) < todo[1].from
        /\ request.from = todo[1].to + 1
        /\ \A c \in committed :
             /\ Num[c.block] <= todo[1].to
             /\ todo[1].from <= Num[c.block] => c.requests = todo[1].requests
      BY <1>1, <1>3, <1>4 DEF RequestIsNext
  <2>5. request'.from = T[1].from /\ request'.anchor = None
    <3>1. cursor # None => T[1].from # Num[cursor] + 1
        BY <2>3, <2>4, <1>3, <1>4 DEF NumOf
    <3> QED
        BY <3>1, <2>2, <2>3, <1>3, OpeningFacts
  <2>6. RequestIsNext'
      BY <2>2, <2>3, <2>4, <2>5, <1>2, <1>3, <1>4 DEF RequestIsNext
  <2>7. AnchoredAtNewest'
    <3>1. ASSUME NEW c \in committed, Num[c.block] + 1 = request'.from
          PROVE  c.requests # T[1].requests
      <4>1. Num[c.block] = todo[1].to /\ T[1].from = todo[1].to + 1
          BY <3>1, <2>3, <2>4, <2>5, <1>3, <1>4
      <4> QED
          BY <4>1, <2>3, <2>4, <1>4
    <3> QED
        BY <3>1, <2>2, <2>5, <1>2 DEF AnchoredAtNewest
  <2>8. \A r \in DOMAIN asked : \A n \in Nat : Ahead(r, n)' <=> Ahead(r, n)
    <3>1. SUFFICES ASSUME NEW r \in DOMAIN asked, NEW n \in Nat
                   PROVE  Ahead(r, n)' <=> Ahead(r, n)
        OBVIOUS
    <3>2. ASSUME Ahead(r, n)' PROVE Ahead(r, n)
      <4>1. PICK i \in DOMAIN T : n >= T[1].from /\ On(T[i], n, r)
          BY <3>2, <2>2, <2>5 DEF Ahead
      <4>2. n >= request.from
          BY <4>1, <2>3, <2>4, <1>4
      <4>3. i + 1 \in DOMAIN todo /\ On(todo[i + 1], n, r)
          BY <4>1, <1>5
      <4> QED
          BY <4>2, <4>3 DEF Ahead
    <3>3. ASSUME Ahead(r, n) PROVE Ahead(r, n)'
      <4>1. PICK i \in DOMAIN todo : On(todo[i], n, r)
          BY <3>3 DEF Ahead
      <4>2. n >= request.from
          BY <3>3 DEF Ahead
      <4>3. i # 1
          BY <4>1, <4>2, <2>4, <1>4 DEF On, InPiece
      <4>4. i - 1 \in DOMAIN T /\ T[i - 1] = todo[i]
          BY <4>1, <4>3, <1>4, <1>5
      <4>5. T[1].from <= todo[i].from
        <5>1. i = 2 \/ 2 < i
            BY <4>3, <1>4
        <5>2. 2 < i => todo[2].to < todo[i].from
            BY <2>1, <1>3 DEF Ascending
        <5> QED
            BY <5>1, <5>2, <2>1, <1>4
      <4>6. n >= T[1].from
          BY <4>1, <4>5, <2>3, <1>4 DEF On, InPiece
      <4> QED
          BY <4>1, <4>4, <4>6, <2>2, <2>5 DEF Ahead
    <3> QED
        BY <3>2, <3>3
  <2>9. NothingSkipped'
    <3>1. \A n \in 0..Infinity : n \in Nat
        BY RangeAssumption
    <3>2. \A r \in DOMAIN asked : \A n \in 0..Infinity : \A m \in n..asked[r].to : m \in Nat
        BY RangeAssumption, <1>3, AskedFacts
    <3>3. \A r : Covered(r)' = Covered(r)
        BY <1>2 DEF Covered
    <3> QED
        BY <2>8, <3>1, <3>2, <3>3, <1>2, <1>3, <1>8 DEF NothingSkipped
  <2>10. Ascending(T)
    <3>1. \A i \in DOMAIN T : /\ T[i] \in Piece /\ T[i].from <= T[i].to /\ T[i].to <= Infinity
        BY <1>4, <1>5
    <3>2. ASSUME NEW i \in DOMAIN T, NEW j \in DOMAIN T, i < j
          PROVE  /\ T[i].to < T[j].from
                 /\ T[j].from = T[i].to + 1 => T[i].requests # T[j].requests
      <4>1. i + 1 \in DOMAIN todo /\ j + 1 \in DOMAIN todo /\ i + 1 < j + 1
          BY <3>2, <1>5
      <4> QED
          BY <4>1, <1>3, <1>5 DEF Ascending
    <3> QED
        BY <3>1, <3>2 DEF Ascending
  <2>11. ReadingInv'
      BY <2>2, <2>6, <2>7, <2>9, <2>10, <1>10 DEF ReadingInv
  <2> QED
      BY <2>11, <1>2, <1>6, <1>7 DEF StreamInv, OnePerNumber, LinkedWithinARange
<1> QED
    BY <1>9, <1>10

LEMMA ReceiveKeepsStream ==
    ASSUME StreamInv, Receive
    PROVE  StreamInv'
<1>1. stage = "reading" /\ request.from <= todo[1].to
    BY DEF Receive, Reading
<1>2. request.anchor = None \/ request.anchor \in Below
    BY DEF Receive
<1>3. UNCHANGED <<mergeVars, portalVars, asked, stage, cursor, todo, starts>>
    BY DEF Receive
<1>4. PICK last \in {b \in Path[tip] : request.from <= Num[b] /\ Num[b] <= todo[1].to} :
        /\ committed' = committed \cup
             {[block |-> b, requests |-> todo[1].requests] :
                b \in {d \in Path[last] : request.from <= Num[d]}}
        /\ request' = [from |-> Num[last] + 1, anchor |-> last]
    BY DEF Receive
<1> DEFINE new == {d \in Path[last] : request.from <= Num[d]}
<1> DEFINE rec(b) == [block |-> b, requests |-> todo[1].requests]
<1>5. /\ TypeOK /\ OnePerNumber /\ LinkedWithinARange
      /\ todo \in Seq(Piece) /\ todo # <<>> /\ Ascending(todo)
      /\ RequestIsNext /\ AnchoredAtNewest /\ NothingSkipped
      /\ request.from \in Nat
      /\ cursor \in Cursor /\ NumOf(cursor) \in Int
      /\ \A c \in committed :
           /\ c.block \in Block /\ Num[c.block] \in Nat
           /\ Num[c.block] <= NumOf(Newest)
    BY <1>1, ReadingFacts
<1>6. /\ 1 \in DOMAIN todo
      /\ \A i \in DOMAIN todo :
           /\ todo[i] \in Piece /\ todo[i].from \in Nat /\ todo[i].to \in Nat
           /\ todo[i].requests \in SUBSET Request
           /\ todo[i].from <= todo[i].to /\ todo[i].to <= Infinity
    BY <1>5, AscendingFacts, PieceFacts
<1>7. /\ tip \in Block /\ last \in Path[tip] /\ last \in Block /\ last \in new
      /\ Num[last] \in Nat /\ request.from <= Num[last] /\ Num[last] <= todo[1].to
      /\ Num[last] < Infinity
    BY <1>4, <1>5, NumFacts, ChainAssumption DEF TypeOK
<1>8. /\ new \subseteq Path[last] /\ new \subseteq Path[tip]
      /\ \A d \in new : /\ d \in Block /\ Num[d] \in Nat /\ request.from <= Num[d]
                        /\ Num[d] <= Num[last] /\ (d # last => Num[d] < Num[last])
    BY <1>7, NumFacts, ChainAssumption
<1>9. /\ committed' = committed \cup {rec(b) : b \in new}
      /\ request'.from = Num[last] + 1 /\ request'.anchor = last
    BY <1>4
<1>10. \A b : rec(b).block = b /\ rec(b).requests = todo[1].requests
    OBVIOUS
<1>11. /\ todo[1].from <= request.from
       /\ NumOf(cursor) < todo[1].from
       /\ \A c \in committed :
            /\ Num[c.block] < request.from
            /\ todo[1].from <= Num[c.block] => c.requests = todo[1].requests
    BY <1>5 DEF RequestIsNext
<1> HIDE DEF new
<1>12. \A c \in committed' : c \in committed \/ \E b \in new : c = rec(b)
    BY <1>9
<1> HIDE DEF rec
<1>13. TypeOK'
  <2>1. request' \in [from : Nat, anchor : Cursor]
      BY <1>4, <1>7 DEF Cursor
  <2>2. \A b \in new : rec(b) \in [block : Block, requests : SUBSET Request]
      BY <1>6, <1>8 DEF rec
  <2>3. committed' \subseteq [block : Block, requests : SUBSET Request]
      BY <2>2, <1>5, <1>9 DEF TypeOK
  <2> QED
      BY <2>1, <2>3, <1>3, <1>5 DEF TypeOK, mergeVars, portalVars
<1>14. OnePerNumber'
  <2>1. ASSUME NEW c \in committed', NEW d \in committed', Num[c.block] = Num[d.block]
        PROVE  c = d
    <3>1. CASE c \in committed /\ d \in committed
        BY <2>1, <3>1, <1>5 DEF OnePerNumber
    <3>2. ASSUME NEW x \in committed, NEW b \in new PROVE Num[x.block] # Num[b]
        BY <1>5, <1>8, <1>11
    <3>3. ASSUME NEW b \in new, NEW e \in new, c = rec(b), d = rec(e) PROVE c = d
      <4>1. Num[b] = Num[e]
          BY <2>1, <3>3, <1>10
      <4>2. b = e
          BY <4>1, <1>7, <1>8, OneBlockPerNumber
      <4> QED
          BY <4>2, <3>3
    <3> QED
        BY <2>1, <3>1, <3>2, <3>3, <1>10, <1>12
  <2> QED
      BY <2>1 DEF OnePerNumber
<1>15. Newest' = last
  <2>1. CommittedBlocks' = CommittedBlocks \cup new
      BY <1>9, <1>10 DEF CommittedBlocks
  <2>2. \A b \in CommittedBlocks : b \in Block /\ Num[b] \in Nat /\ Num[b] < request.from
      BY <1>5, <1>11 DEF CommittedBlocks
  <2>3. \A b \in CommittedBlocks' : b \in Block /\ (b # last => Num[b] < Num[last])
      BY <2>1, <2>2, <1>5, <1>7, <1>8
  <2>4. last \in CommittedBlocks'
      BY <2>1, <1>7
  <2>5. \A S \in SUBSET Block :
          last \in S /\ (\A b \in S : b # last => Num[b] < Num[last]) => Last(S) = last
      BY LastIs
  <2>6. Last(CommittedBlocks') = last
      BY <2>3, <2>4, <2>5
  <2>7. committed' # {}
      BY <1>7, <1>9
  <2>8. Newest' = Last(CommittedBlocks')
      BY <2>7 DEF Newest, CommittedBlocks, Last
  <2> QED
      BY <2>6, <2>8
<1>16. LinkedWithinARange'
  <2>1. SUFFICES ASSUME NEW c \in committed', NEW d \in committed',
                        Num[d.block] = Num[c.block] + 1, c.requests = d.requests
                 PROVE  c.block \in Path[d.block]
      BY DEF LinkedWithinARange
  <2>2. CASE c \in committed /\ d \in committed
      BY <2>1, <2>2, <1>5 DEF LinkedWithinARange
  <2>3. ASSUME c \in committed, NEW e \in new, d = rec(e) PROVE c.block \in Path[d.block]
    <3>1. d.block = e /\ d.requests = todo[1].requests
        BY <2>3, <1>10
    <3>2. Num[c.block] + 1 = request.from
        BY <2>1, <2>3, <3>1, <1>5, <1>8, <1>11
    <3>3. request.anchor = c.block
        BY <2>1, <2>3, <3>1, <3>2, <1>5 DEF AnchoredAtNewest
    <3>4. c.block \in Path[tip] /\ e \in Path[tip] /\ Num[c.block] <= Num[e]
        BY <2>1, <2>3, <3>1, <3>3, <1>2, <1>5, <1>8, ChainAssumption DEF Below
    <3> QED
        BY <3>1, <3>4, <1>7, LowerIsAncestor
  <2>4. ASSUME NEW b \in new, c = rec(b), NEW e \in new, d = rec(e)
        PROVE  c.block \in Path[d.block]
    <3>1. Num[b] <= Num[e] /\ b \in Path[last] /\ e \in Path[last]
        BY <2>1, <2>4, <1>8, <1>10
    <3>2. b \in Path[e]
        BY <3>1, <1>7, LowerIsAncestor
    <3> QED
        BY <2>4, <3>2, <1>10
  <2>5. ASSUME NEW b \in new, c = rec(b), d \in committed PROVE FALSE
      BY <2>1, <2>5, <1>5, <1>8, <1>10, <1>11
  <2> QED
      BY <2>2, <2>3, <2>4, <2>5, <1>12
<1>17. RequestIsNext'
  <2>1. \A c \in committed' : /\ Num[c.block] < Num[last] + 1
                              /\ todo[1].from <= Num[c.block] => c.requests = todo[1].requests
    <3>1. TAKE c \in committed'
    <3>2. CASE c \in committed
        BY <3>2, <1>5, <1>7, <1>11
    <3>3. ASSUME NEW b \in new, c = rec(b)
          PROVE  Num[c.block] < Num[last] + 1 /\ c.requests = todo[1].requests
        BY <3>3, <1>7, <1>8, <1>10
    <3> QED
        BY <3>2, <3>3, <1>12
  <2>2. todo[1].from <= Num[last] + 1 /\ Num[last] + 1 <= todo[1].to + 1
      BY <1>5, <1>6, <1>7, <1>11
  <2> QED
      BY <2>1, <2>2, <1>3, <1>9, <1>11 DEF RequestIsNext
<1>18. AnchoredAtNewest'
  <2>1. last \in CommittedBlocks'
      BY <1>7, <1>9, <1>10 DEF CommittedBlocks
  <2>2. PICK d \in committed' : d.block = last
      BY <2>1 DEF CommittedBlocks
  <2>3. ASSUME NEW c \in committed', Num[c.block] + 1 = request'.from
        PROVE  request'.anchor = c.block
    <3>1. c.block \in Block /\ Num[c.block] \in Nat
        BY <1>13, NumFacts DEF TypeOK
    <3>2. Num[c.block] = Num[d.block]
        BY <2>2, <2>3, <3>1, <1>7, <1>9
    <3> QED
        BY <2>2, <3>2, <1>9, <1>14 DEF OnePerNumber
  <2> QED
      BY <2>3, <1>9, <1>15 DEF AnchoredAtNewest
<1>19. \A r \in DOMAIN asked : \A n \in Nat :
         Ahead(r, n)' <=> Ahead(r, n) /\ Num[last] < n
  <2>1. SUFFICES ASSUME NEW r \in DOMAIN asked, NEW n \in Nat
                 PROVE  Ahead(r, n)' <=> Ahead(r, n) /\ Num[last] < n
      OBVIOUS
  <2>2. n >= request'.from <=> n >= request.from /\ Num[last] < n
      BY <1>5, <1>7, <1>9
  <2> QED
      BY <2>2, <1>3 DEF Ahead
<1>20. \A r \in DOMAIN asked : \A n \in Nat :
         NumOf(Newest)' < n <=> Num[last] < n
    BY <1>7, <1>15, NumFacts
<1>21. \A r : Covered(r)' # {} =>
         Covered(r) # {} \/ \E b \in new : r \in todo[1].requests
  <2>1. TAKE r
  <2>2. HAVE Covered(r)' # {}
  <2>3. PICK c \in committed' : r \in c.requests
      BY <2>2 DEF Covered
  <2>4. c \in committed => Covered(r) # {}
      BY <2>3 DEF Covered
  <2> QED
      BY <2>3, <2>4, <1>10, <1>12
<1>22. NothingSkipped'
  <2>1. ASSUME NEW r \in DOMAIN asked, NEW n \in 0..Infinity
        PROVE  /\ Ahead(r, n)' => n <= asked[r].to
               /\ IF asked[r].latest
                  THEN /\ Ahead(r, n)' => \A m \in n..asked[r].to : Ahead(r, m)'
                       /\ Covered(r)' # {} /\ Num[last] < n /\ n <= asked[r].to => Ahead(r, n)'
                  ELSE /\ Ahead(r, n)' => asked[r].from <= n
                       /\ Num[last] < n /\ asked[r].from <= n /\ n <= asked[r].to => Ahead(r, n)'
    <3>1. n \in Nat /\ Infinity \in Nat /\ asked[r].to \in Nat /\ asked[r].from \in Nat
          /\ asked[r].to <= Infinity /\ asked[r].latest \in BOOLEAN
        BY <1>5, AskedFacts, RangeAssumption
    <3>2. Ahead(r, n)' <=> Ahead(r, n) /\ Num[last] < n
        BY <3>1, <1>19
    <3>3. /\ Ahead(r, n) => n <= asked[r].to
          /\ asked[r].latest =>
               /\ Ahead(r, n) => \A m \in n..asked[r].to : Ahead(r, m)
               /\ Covered(r) # {} /\ NumOf(Newest) < n /\ n <= asked[r].to => Ahead(r, n)
          /\ ~asked[r].latest =>
               /\ Ahead(r, n) => asked[r].from <= n
               /\ NumOf(Newest) < n /\ asked[r].from <= n /\ n <= asked[r].to => Ahead(r, n)
        BY <1>5 DEF NothingSkipped
    <3>4. Num[last] < n => NumOf(Newest) < n
      <4>1. NumOf(Newest) < Num[last]
        <5>1. committed # {} => \E c \in committed : c.block = Newest
            BY <1>5, NewestFacts DEF CommittedBlocks
        <5> QED
            BY <5>1, <1>5, <1>7, <1>11, NewestFacts
      <4> QED
          BY <4>1, <3>1, <1>5, <1>7, NewestFacts
    <3>5. ASSUME asked[r].latest, Ahead(r, n)' PROVE \A m \in n..asked[r].to : Ahead(r, m)'
      <4>1. TAKE m \in n..asked[r].to
      <4>2. m \in Nat /\ n <= m
          BY <3>1
      <4>3. Ahead(r, m) /\ Num[last] < m
          BY <3>1, <3>2, <3>3, <3>5, <4>2, <1>7
      <4> QED
          BY <4>2, <4>3, <1>19
    <3>6. ASSUME asked[r].latest, Covered(r)' # {}, Num[last] < n, n <= asked[r].to
          PROVE  Ahead(r, n)'
      <4>1. CASE Covered(r) # {}
          BY <3>2, <3>3, <3>4, <3>6, <4>1
      <4>2. CASE r \in todo[1].requests
        <5>1. Num[last] \in 0..Infinity /\ Ahead(r, Num[last])
          <6>1. todo[1].from <= Num[last]
              BY <1>5, <1>6, <1>7, <1>11
          <6>2. On(todo[1], Num[last], r)
              BY <6>1, <4>2, <1>7 DEF On, InPiece
          <6> QED
              BY <6>2, <3>1, <1>6, <1>7 DEF Ahead
        <5>2. \A m \in Num[last]..asked[r].to : Ahead(r, m)
            BY <5>1, <3>6, <1>5 DEF NothingSkipped
        <5>3. n \in Num[last]..asked[r].to
            BY <3>1, <3>6, <1>7
        <5> QED
            BY <5>2, <5>3, <3>2, <3>6
      <4> QED
          BY <4>1, <4>2, <3>6, <1>21
    <3>7. CASE asked[r].latest
        BY <3>2, <3>3, <3>5, <3>6, <3>7
    <3>8. CASE ~asked[r].latest
        BY <3>2, <3>3, <3>4, <3>8
    <3> QED
        BY <3>7, <3>8
  <2>2. \A n \in 0..Infinity : n \in Nat
      BY RangeAssumption
  <2>3. NumOf(Newest)' = Num[last]
      BY <1>7, <1>15, NumFacts
  <2> QED
      BY <2>1, <2>2, <2>3, <1>3 DEF NothingSkipped
<1>23. ReadingInv'
    BY <1>1, <1>3, <1>5, <1>17, <1>18, <1>22 DEF ReadingInv
<1>24. MergeInv'
    BY <1>1, <1>3 DEF StreamInv, MergeInv, mergeVars
<1> QED
    BY <1>13, <1>14, <1>16, <1>23, <1>24 DEF StreamInv

LEMMA NextKeepsStream == StreamInv /\ [Next]_vars => StreamInv'
BY PortalKeepsStream, StutterKeepsStream, StartKeepsStream, MergeStepKeepsStream,
   StartReadingKeepsStream, ReceiveKeepsStream, NextRangeKeepsStream, StopsKeepStream
   DEF Next, PipeStep

-----------------------------------------------------------------------------
(* What has been read for a request.                                       *)

\* No number of a branch is skipped: EVM heights are consecutive, and a query is for numbers.
NumbersAreConsecutive ==
    \A b \in Block : \A n \in 0..Num[b] : \E c \in Path[b] : Num[c] = n

\* CommittedAsAsked, block by block.
AsAskedByBlock ==
    \A r \in DOMAIN asked :
        IF asked[r].latest
        THEN \A n \in Covered(r) : \A k \in Nat :
               n <= k /\ k <= asked[r].to /\ k <= NumOf(Newest) => k \in Covered(r)
        ELSE \A n \in Nat :
               n \in Covered(r) <=>
                 asked[r].from <= n /\ n <= asked[r].to /\ n <= NumOf(Newest)

LEMMA AsAskedIsByBlock ==
    ASSUME TypeOK, AsAskedByBlock
    PROVE  CommittedAsAsked
<1> SUFFICES ASSUME NEW r \in DOMAIN asked
             PROVE  LET last == Earlier(asked[r].to, NumOf(Newest))
                    IN  IF asked[r].latest
                        THEN \A n \in Covered(r) : n..last \subseteq Covered(r)
                        ELSE Covered(r) = asked[r].from..last
    BY DEF CommittedAsAsked
<1> DEFINE last == Earlier(asked[r].to, NumOf(Newest))
<1>1. asked[r].from \in Nat /\ asked[r].to \in Nat
    BY AskedFacts
<1>2. NumOf(Newest) \in Int
    BY NewestFacts
<1>3. last \in Int /\ \A n \in Int : n <= last <=> n <= asked[r].to /\ n <= NumOf(Newest)
    BY <1>1, <1>2 DEF Earlier
<1>4. Covered(r) \subseteq Nat
    BY CommittedFacts DEF Covered
<1> HIDE DEF last
<1>5. CASE asked[r].latest
  <2>1. ASSUME NEW n \in Covered(r), NEW k \in n..last PROVE k \in Covered(r)
    <3>1. n \in Nat /\ k \in Nat /\ n <= k /\ k <= last
        BY <1>3, <1>4
    <3> QED
        BY <3>1, <1>3, <1>5 DEF AsAskedByBlock
  <2> QED
      BY <2>1, <1>5 DEF last
<1>6. CASE ~asked[r].latest
  <2>1. \A n \in Nat : n \in Covered(r) <=> asked[r].from <= n /\ n <= last
      BY <1>3, <1>6 DEF AsAskedByBlock
  <2>2. \A n : n \in asked[r].from..last <=> n \in Nat /\ asked[r].from <= n /\ n <= last
      BY <1>1, <1>3
  <2>3. Covered(r) = asked[r].from..last
      BY <2>1, <2>2, <1>4
  <2> QED
      BY <2>3, <1>6 DEF last
<1> QED
    BY <1>5, <1>6

LEMMA InitAsAsked == Init => AsAskedByBlock
<1> SUFFICES ASSUME Init PROVE AsAskedByBlock
    OBVIOUS
<1>1. Newest = None /\ \A r : Covered(r) = {}
    BY DEF Init, Newest, Covered
<1>2. \A n \in Nat : ~(n <= NumOf(Newest))
    BY <1>1, NumFacts
<1> QED
    BY <1>1, <1>2 DEF AsAskedByBlock

LEMMA ReceiveKeepsAsAsked ==
    ASSUME NumbersAreConsecutive, StreamInv, AsAskedByBlock, Receive
    PROVE  AsAskedByBlock'
<1>1. stage = "reading" /\ request.from <= todo[1].to
    BY DEF Receive, Reading
<1>2. UNCHANGED asked
    BY DEF Receive
<1>3. PICK last \in {b \in Path[tip] : request.from <= Num[b] /\ Num[b] <= todo[1].to} :
        /\ committed' = committed \cup
             {[block |-> b, requests |-> todo[1].requests] :
                b \in {d \in Path[last] : request.from <= Num[d]}}
        /\ request' = [from |-> Num[last] + 1, anchor |-> last]
    BY DEF Receive
<1> DEFINE new == {d \in Path[last] : request.from <= Num[d]}
<1> DEFINE rec(b) == [block |-> b, requests |-> todo[1].requests]
<1>4. /\ TypeOK /\ todo \in Seq(Piece) /\ todo # <<>> /\ Ascending(todo)
      /\ RequestIsNext /\ NothingSkipped
      /\ request.from \in Nat /\ NumOf(cursor) \in Int
      /\ \A c \in committed : Num[c.block] \in Nat /\ Num[c.block] <= NumOf(Newest)
    BY <1>1, ReadingFacts
<1>5. /\ 1 \in DOMAIN todo
      /\ \A i \in DOMAIN todo :
           /\ todo[i].from \in Nat /\ todo[i].to \in Nat /\ todo[i].to <= Infinity
           /\ i # 1 => todo[1].to < todo[i].from
    BY <1>4, AscendingFacts
<1>6. /\ last \in Block /\ Num[last] \in Nat /\ Num[last] < Infinity
      /\ request.from <= Num[last] /\ Num[last] <= todo[1].to /\ last \in new
    BY <1>3, <1>4, NumFacts, ChainAssumption DEF TypeOK
<1>7. \A d \in Path[last] : d \in Block /\ Num[d] \in Nat /\ Num[d] <= Num[last]
    BY <1>6, NumFacts, ChainAssumption
<1>8. \A n \in Nat : request.from <= n /\ n <= Num[last] <=> \E d \in new : Num[d] = n
    BY <1>4, <1>6, <1>7 DEF NumbersAreConsecutive
<1>9. Newest' = last
    <2>1. StreamInv'
        BY ReceiveKeepsStream
    <2>2. stage' = "reading" /\ request'.anchor = last /\ last # None
        BY <1>1, <1>3, <1>6, ChainAssumption DEF Receive
    <2> QED
        BY <2>1, <2>2 DEF StreamInv, ReadingInv, AnchoredAtNewest
<1>10. \A b : rec(b).block = b /\ rec(b).requests = todo[1].requests
    OBVIOUS
<1>11. committed' = committed \cup {rec(b) : b \in new}
    BY <1>3
<1> HIDE DEF rec, new
<1>12. \A r : \A n \in Nat :
         n \in Covered(r)' <=>
            \/ n \in Covered(r)
            \/ r \in todo[1].requests /\ request.from <= n /\ n <= Num[last]
  <2>1. SUFFICES ASSUME NEW r, NEW n \in Nat
                 PROVE  n \in Covered(r)' <=>
                          \/ n \in Covered(r)
                          \/ r \in todo[1].requests /\ request.from <= n /\ n <= Num[last]
      OBVIOUS
  <2>2. n \in Covered(r) <=> \E c \in committed : r \in c.requests /\ Num[c.block] = n
      BY DEF Covered
  <2>3. n \in Covered(r)' <=> \E c \in committed' : r \in c.requests /\ Num[c.block] = n
      BY DEF Covered
  <2>4. (\E c \in {rec(b) : b \in new} : r \in c.requests /\ Num[c.block] = n)
           <=> r \in todo[1].requests /\ \E b \in new : Num[b] = n
    <3>1. (\E c \in {rec(b) : b \in new} : r \in c.requests /\ Num[c.block] = n)
            <=> \E b \in new : r \in rec(b).requests /\ Num[rec(b).block] = n
        OBVIOUS
    <3>2. \A b \in new :
            r \in rec(b).requests /\ Num[rec(b).block] = n
              <=> r \in todo[1].requests /\ Num[b] = n
        BY <1>10
    <3> QED
        BY <3>1, <3>2
  <2> QED
      BY <2>2, <2>3, <2>4, <1>8, <1>11
\* What lies between the newest block and the last received one.
<1>13. \A r \in DOMAIN asked : \A n \in Nat :
         Ahead(r, n) /\ n <= Num[last] => r \in todo[1].requests /\ request.from <= n
    BY <1>4, <1>5, <1>6 DEF Ahead, On, InPiece
<1>14. \A r \in DOMAIN asked : \A n \in Nat :
         r \in todo[1].requests /\ request.from <= n /\ n <= Num[last] => Ahead(r, n)
  <2>1. todo[1].from <= request.from
      BY <1>4 DEF RequestIsNext
  <2> QED
      BY <2>1, <1>4, <1>5, <1>6 DEF Ahead, On, InPiece
<1>15. NumOf(Newest) \in Int /\ NumOf(Newest) < request.from
  <2>1. committed # {} => \E c \in committed : c.block = Newest
      BY <1>4, NewestFacts DEF CommittedBlocks
  <2>2. \A c \in committed : Num[c.block] < request.from
      BY <1>4 DEF RequestIsNext
  <2> QED
      BY <2>1, <2>2, <1>4, NewestFacts
<1>16. NumOf(Newest)' = Num[last]
    BY <1>6, <1>9, NumFacts
<1>17. \A r : \A n \in Covered(r) : n \in Nat /\ n <= NumOf(Newest)
    BY <1>4 DEF Covered
<1>18. ASSUME NEW r \in DOMAIN asked
       PROVE  IF asked[r].latest
              THEN \A n \in Covered(r)' : \A k \in Nat :
                     n <= k /\ k <= asked[r].to /\ k <= Num[last] => k \in Covered(r)'
              ELSE \A n \in Nat :
                     n \in Covered(r)' <=>
                       asked[r].from <= n /\ n <= asked[r].to /\ n <= Num[last]
  <2>1. asked[r].from \in Nat /\ asked[r].to \in Nat /\ asked[r].to <= Infinity
        /\ Infinity \in Nat /\ asked[r].latest \in BOOLEAN
      BY <1>4, AskedFacts, RangeAssumption
  <2>2. CASE asked[r].latest
    <3>1. ASSUME NEW n \in Covered(r)', NEW k \in Nat,
                 n <= k, k <= asked[r].to, k <= Num[last]
          PROVE  k \in Covered(r)'
      <4>1. \A m \in Covered(r)' : m \in Nat
        <5>1. \A c \in committed' : Num[c.block] \in Nat
          <6>1. \A c \in committed' : c \in committed \/ \E b \in new : c = rec(b)
              BY <1>11
          <6>2. \A b \in new : Num[b] \in Nat
              BY <1>7 DEF new
          <6> QED
              BY <6>1, <6>2, <1>4, <1>10
        <5> QED
            BY <5>1 DEF Covered
      <4>2. n \in Nat /\ k \in 0..Infinity
          BY <4>1, <3>1, <2>1
      <4>3. CASE k <= NumOf(Newest)
        <5>1. n \in Covered(r)
            BY <3>1, <4>2, <4>3, <1>12, <1>15, <1>4
        <5>2. k \in Covered(r)
            BY <5>1, <4>3, <3>1, <2>2 DEF AsAskedByBlock
        <5> QED
            BY <5>2, <1>12
      <4>4. CASE NumOf(Newest) < k
        <5>1. CASE n \in Covered(r)
          <6>1. Ahead(r, k)
              BY <5>1, <4>2, <4>4, <3>1, <2>2, <1>4 DEF NothingSkipped
          <6> QED
              BY <6>1, <3>1, <1>12, <1>13
        <5>2. CASE n \notin Covered(r)
          <6>1. r \in todo[1].requests /\ request.from <= n /\ n <= Num[last]
              BY <5>2, <4>2, <3>1, <1>12
          <6>2. request.from <= k
              BY <6>1, <4>2, <3>1, <1>4
          <6> QED
              BY <6>1, <6>2, <3>1, <1>12
        <5> QED
            BY <5>1, <5>2
      <4> QED
          BY <4>3, <4>4, <1>15
    <3> QED
        BY <3>1, <2>2
  <2>3. CASE ~asked[r].latest
    <3>1. ASSUME NEW n \in Nat
          PROVE  n \in Covered(r)' <=>
                   asked[r].from <= n /\ n <= asked[r].to /\ n <= Num[last]
      <4>1. n \in Covered(r) <=>
              asked[r].from <= n /\ n <= asked[r].to /\ n <= NumOf(Newest)
          BY <2>3 DEF AsAskedByBlock
      <4>2. CASE n <= NumOf(Newest)
        <5>1. ~(request.from <= n) /\ n <= Num[last]
            BY <4>2, <1>4, <1>6, <1>15
        <5> QED
            BY <5>1, <4>1, <4>2, <1>12
      <4>3. CASE NumOf(Newest) < n
        <5>1. n \notin Covered(r)
            BY <4>1, <4>3, <1>15
        <5>2. ASSUME r \in todo[1].requests, request.from <= n, n <= Num[last]
              PROVE  asked[r].from <= n /\ n <= asked[r].to
          <6>1. Ahead(r, n) /\ n \in 0..Infinity
              BY <5>2, <1>6, <1>14, <2>1
          <6> QED
              BY <6>1, <2>3, <1>4 DEF NothingSkipped
        <5>3. ASSUME asked[r].from <= n, n <= asked[r].to, n <= Num[last]
              PROVE  r \in todo[1].requests /\ request.from <= n
          <6>1. n \in 0..Infinity
              BY <5>3, <2>1
          <6>2. Ahead(r, n)
              BY <6>1, <5>3, <4>3, <2>3, <1>4 DEF NothingSkipped
          <6> QED
              BY <6>2, <5>3, <1>13
        <5> QED
            BY <5>1, <5>2, <5>3, <1>12
      <4> QED
          BY <4>2, <4>3, <1>15
    <3> QED
        BY <3>1, <2>3
  <2> QED
      BY <2>2, <2>3
<1> QED
    BY <1>2, <1>16, <1>18 DEF AsAskedByBlock

LEMMA RollBackKeepsAsAsked ==
    ASSUME StreamInv, AsAskedByBlock, RollBack
    PROVE  AsAskedByBlock'
<1> DEFINE ancestor == Last(CommittedBlocks \cap Path[tip])
<1>1. /\ committed' = {c \in committed : Num[c.block] <= Num[ancestor]}
      /\ asked' = asked /\ CommittedBlocks \cap Path[tip] # {}
    BY DEF RollBack
<1>2. TypeOK /\ OnePerNumber
    BY DEF StreamInv
<1>3. ancestor \in CommittedBlocks /\ ancestor \in Block /\ Num[ancestor] \in Nat
  <2>1. CommittedBlocks \in SUBSET Block
      BY <1>2, CommittedFacts
  <2> QED
      BY <2>1, <1>1, LastIsHighest, NumFacts
<1> HIDE DEF ancestor
<1>4. PICK a \in committed : a.block = ancestor
    BY <1>3 DEF CommittedBlocks
<1>5. \A c \in committed : /\ c.block \in Block /\ Num[c.block] \in Nat
                           /\ Num[c.block] <= NumOf(Newest)
    BY <1>2, CommittedFacts, NewestFacts
<1>6. a \in committed'
    BY <1>1, <1>3, <1>4
<1>7. Newest' = ancestor
  <2>1. \A c \in committed' :
          c.block \in Block /\ (c.block # ancestor => Num[c.block] < Num[ancestor])
      BY <1>1, <1>2, <1>3, <1>4, <1>5 DEF OnePerNumber
  <2>2. \A b \in CommittedBlocks' :
          b \in Block /\ (b # ancestor => Num[b] < Num[ancestor])
      BY <2>1 DEF CommittedBlocks
  <2>3. ancestor \in CommittedBlocks'
      BY <1>4, <1>6 DEF CommittedBlocks
  <2>4. \A S \in SUBSET Block :
          ancestor \in S /\ (\A b \in S : b # ancestor => Num[b] < Num[ancestor])
             => Last(S) = ancestor
      BY LastIs
  <2>5. Last(CommittedBlocks') = ancestor
      BY <2>2, <2>3, <2>4
  <2>6. committed' # {}
      BY <1>6
  <2>7. Newest' = Last(CommittedBlocks')
      BY <2>6 DEF Newest, CommittedBlocks, Last
  <2> QED
      BY <2>5, <2>7
<1>8. NumOf(Newest)' = Num[ancestor]
    BY <1>3, <1>7, NumFacts
<1>9. NumOf(Newest) \in Int /\ Num[ancestor] <= NumOf(Newest)
    BY <1>2, <1>4, <1>5, NewestFacts
<1>10. \A r : \A n : n \in Covered(r)' <=> n \in Covered(r) /\ n <= Num[ancestor]
  <2>1. \A r : \A n : n \in Covered(r) <=>
          \E c \in committed : r \in c.requests /\ Num[c.block] = n
      BY DEF Covered
  <2>2. \A r : \A n : n \in Covered(r)' <=>
          \E c \in committed' : r \in c.requests /\ Num[c.block] = n
      BY DEF Covered
  <2> QED
      BY <2>1, <2>2, <1>1
<1>11. \A r : \A n \in Covered(r) : n \in Nat
    BY <1>5 DEF Covered
<1>12. ASSUME NEW r \in DOMAIN asked
       PROVE  IF asked[r].latest
              THEN \A n \in Covered(r)' : \A k \in Nat :
                     n <= k /\ k <= asked[r].to /\ k <= Num[ancestor] => k \in Covered(r)'
              ELSE \A n \in Nat :
                     n \in Covered(r)' <=>
                       asked[r].from <= n /\ n <= asked[r].to /\ n <= Num[ancestor]
  <2>1. CASE asked[r].latest
      BY <2>1, <1>3, <1>9, <1>10 DEF AsAskedByBlock
  <2>2. CASE ~asked[r].latest
      BY <2>2, <1>3, <1>9, <1>10 DEF AsAskedByBlock
  <2> QED
      BY <2>1, <2>2
<1> QED
    BY <1>1, <1>8, <1>12 DEF AsAskedByBlock

LEMMA NextKeepsAsAsked ==
    ASSUME NumbersAreConsecutive
    PROVE  StreamInv /\ AsAskedByBlock /\ [Next]_vars => AsAskedByBlock'
<1> SUFFICES ASSUME StreamInv, AsAskedByBlock, [Next]_vars PROVE AsAskedByBlock'
    OBVIOUS
<1>1. CASE UNCHANGED <<asked, committed>>
    BY <1>1 DEF AsAskedByBlock, Newest, CommittedBlocks, Covered
<1>2. CASE Receive
    BY <1>2, ReceiveKeepsAsAsked
<1>3. CASE RollBack
    BY <1>3, RollBackKeepsAsAsked
<1> QED
    BY <1>1, <1>2, <1>3
    DEF Next, PipeStep, Start, MergeStep, StartReading, NextRange, HaltOnFork, NewBlock,
        Reorganise, Restart, vars

-----------------------------------------------------------------------------
(* The theorems.                                                           *)

\* The inductive invariant of the merge and of the loop (core/query-builder.ts:250-278,
\* core/portal-source.ts:331-357), for every query and every block tree.
THEOREM AlwaysStreamInv == Spec => []StreamInv
BY InitStream, NextKeepsStream, PTL DEF Spec

\* The pieces, the requests and what is committed stay in their domains.
THEOREM TypesHold == Spec => []TypeOK
<1>1. StreamInv => TypeOK
    BY DEF StreamInv
<1> QED
    BY <1>1, AlwaysStreamInv, PTL

LEMMA MergesKeepRequests == StreamInv => EveryBlockKeepsItsRequests
<1> SUFFICES ASSUME StreamInv, Merging PROVE EveryBlockKeepsItsRequests
    BY DEF EveryBlockKeepsItsRequests
<1>1. stage = "merging" /\ Merges /\ DOMAIN resolved = DOMAIN asked
    BY DEF StreamInv, MergeInv, Merging
<1>2. ASSUME NEW r \in DOMAIN resolved, NEW n \in 0..Infinity
      PROVE  Cardinality({p \in Held : InPiece(n, p) /\ r \in p.requests})
               = IF InPiece(n, resolved[r]) THEN 1 ELSE 0
  <2> DEFINE S == {p \in Held : InPiece(n, p) /\ r \in p.requests}
  <2>1. /\ InPiece(n, resolved[r]) => \E p \in Held : On(p, n, r)
        /\ \A p \in Held : On(p, n, r) => InPiece(n, resolved[r])
        /\ \A p, q \in Held : On(p, n, r) /\ On(q, n, r) => p = q
      BY <1>1 DEF Merges, Partition
  <2>2. CASE InPiece(n, resolved[r])
    <3>1. PICK p \in Held : On(p, n, r)
        BY <2>1, <2>2
    <3>2. S = {p}
        BY <2>1, <3>1 DEF On
    <3> QED
        BY <2>2, <3>2, FS_Singleton
  <2>3. CASE ~InPiece(n, resolved[r])
    <3>1. S = {}
        BY <2>1, <2>3 DEF On
    <3> QED
        BY <2>3, <3>1, FS_EmptySet
  <2> QED
      BY <2>2, <2>3
<1>3. ASSUME NEW i \in DOMAIN union
      PROVE  /\ \A j \in (i + 1)..Len(union) : union[i].to < union[j].from
             /\ \A p \in queue \cup {top} : union[i].to < p.from
  <2>1. DOMAIN union = 1..Len(union) /\ Len(union) \in Nat
      BY <1>1, LenProperties DEF Merges
  <2>2. \A j \in (i + 1)..Len(union) : j \in DOMAIN union /\ i < j
      BY <2>1
  <2> QED
      BY <2>2, <1>1 DEF Merges, FinishedIsBelow
<1> QED
    BY <1>2, <1>3 DEF EveryBlockKeepsItsRequests

\* The merge loses no request and adds none, at any step and in any order of equal ranges.
THEOREM MergeKeepsRequests == Spec => []EveryBlockKeepsItsRequests
BY MergesKeepRequests, AlwaysStreamInv, PTL

\* Within a range every block is committed on its parent, over forks and restarts.
THEOREM RangesAreLinked == Spec => []LinkedWithinARange
<1>1. StreamInv => LinkedWithinARange
    BY DEF StreamInv
<1> QED
    BY <1>1, AlwaysStreamInv, PTL

\* A request has been read for exactly the blocks it asked for, up to the cursor, where block
\* numbers are consecutive.
THEOREM ReadAsAsked ==
    ASSUME NumbersAreConsecutive
    PROVE  Spec => []CommittedAsAsked
<1>1. Init => AsAskedByBlock
    BY InitAsAsked
<1>2. StreamInv /\ AsAskedByBlock /\ [Next]_vars => AsAskedByBlock'
    BY NextKeepsAsAsked
<1>3. StreamInv /\ AsAskedByBlock => CommittedAsAsked
    BY AsAskedIsByBlock DEF StreamInv
<1> QED
    BY <1>1, <1>2, <1>3, AlwaysStreamInv, PTL DEF Spec

\* A pipe is told of a fork only when its newest block is off the canonical branch: the anchor
\* of a request is the newest block, and the number below the request is its own.
THEOREM OrphansOnlyAreRolledBack == Spec => OnlyOrphansAreRolledBack
<1>1. StreamInv /\ [Next]_vars => [(RollBack \/ HaltOnFork) => Newest \notin Path[tip]]_vars
  <2> SUFFICES ASSUME StreamInv, RollBack \/ HaltOnFork PROVE Newest \notin Path[tip]
      OBVIOUS
  <2>1. /\ stage = "reading" /\ request.anchor # None /\ request.anchor \notin Below
      BY DEF RollBack, HaltOnFork, Forked, Reading
  <2>2. request.anchor = Newest /\ Num[Newest] + 1 = request.from /\ Newest \in Block
      BY <2>1, ReadingFacts DEF AnchoredAtNewest, Cursor
  <2>3. Num[Newest] \in Nat
      BY <2>2, NumFacts
  <2> QED
      BY <2>1, <2>2, <2>3 DEF Below
<1> QED
    BY <1>1, AlwaysStreamInv, PTL DEF Spec, OnlyOrphansAreRolledBack
=============================================================================
