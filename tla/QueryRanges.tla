---------------------------- MODULE QueryRanges ----------------------------
(***************************************************************************)
(* core/query-builder.ts: how the ranges a query was built from become the *)
(* pieces a pipe reads, none overlapping another, each with the requests   *)
(* that ask for its blocks (mergeRangeRequests over internal/heap.ts).     *)
(*                                                                         *)
(* A request is its registration, so merging two of them is a union.  An   *)
(* open range ends at Infinity, a number above every block.  The heap is   *)
(* the set of what it holds; which of several equal ranges it pops first   *)
(* is left open.                                                           *)
(*                                                                         *)
(* Left out: dates (a date is the block the Portal resolves it to).        *)
(*                                                                         *)
(* Definitions commented "Fault" are read as in PortalSource.              *)
(***************************************************************************)
EXTENDS Integers, FiniteSets, Sequences

CONSTANTS
    Request,    \* the requests a query may register
    Infinity    \* the end of an open range

ASSUME RangeAssumption == Infinity \in Nat

VARIABLES
    resolved,   \* the resolved range of each registered request
    queue,      \* the heap
    top,        \* the piece taken from it
    union       \* the pieces that are finished, in order

mergeVars == <<resolved, queue, top, union>>

Piece == [from : Nat, to : Nat, requests : SUBSET Request]
NoPiece == [from |-> 0, to |-> 0, requests |-> {}]

Earlier(m, n) == IF m <= n THEN m ELSE n
Later(m, n) == IF m <= n THEN n ELSE m

\* rangeIntersection, of the two ranges that Intersects says have one.
Intersection(a, b) == [from |-> Later(a.from, b.from), to |-> Earlier(a.to, b.to)]
Intersects(a, b) == Intersection(a, b).from <= Intersection(a, b).to

\* Fault: what is left behind the intersection starts at its last block.
DifferenceOverlaps(a, i) ==
    {p \in {[a EXCEPT !.to = i.from - 1], [a EXCEPT !.from = i.to]} : p.from <= p.to}

\* rangeDifference: what is left of piece a before and behind a part i of it.
Difference(a, i) ==
    {p \in {[a EXCEPT !.to = i.from - 1], [a EXCEPT !.from = i.to + 1]} : p.from <= p.to}

MergedPiece(a, b) ==
    [from     |-> Intersection(a, b).from,
     to       |-> Intersection(a, b).to,
     requests |-> a.requests \cup b.requests]

\* The pieces the heap may pop.
Lowest(pieces) == {p \in pieces : \A q \in pieces : p.from <= q.from}

Pop(pieces) ==
    \E p \in Lowest(pieces) : top' = p /\ queue' = pieces \ {p}

Pieces(ranges) ==
    {[from |-> ranges[r].from, to |-> ranges[r].to, requests |-> {r}] : r \in DOMAIN ranges}

\* Without a request the query is for every block.
Everything == [from |-> 0, to |-> Infinity, requests |-> {}]

BeginMerge(ranges) ==
    /\ resolved' = ranges
    /\ union' = <<>>
    /\ Pop(IF ranges = <<>> THEN {Everything} ELSE Pieces(ranges))

Merging == top # NoPiece

MergeDisjoint ==
    /\ Merging
    /\ \E next \in Lowest(queue) :
        /\ ~Intersects(top, next)
        /\ top' = next /\ queue' = queue \ {next}
    /\ union' = Append(union, top)
    /\ UNCHANGED resolved

MergeOverlap ==
    /\ Merging
    /\ \E next \in Lowest(queue) :
        /\ Intersects(top, next)
        /\ LET i == Intersection(top, next)
           IN  Pop((queue \ {next}) \cup {MergedPiece(top, next)}
                     \cup Difference(top, i) \cup Difference(next, i))
    /\ UNCHANGED <<resolved, union>>

\* The heap is empty: the list is complete.
MergeEnds == Merging /\ queue = {}
Merged == Append(union, top)

-----------------------------------------------------------------------------
InPiece(n, p) == p.from <= n /\ n <= p.to

Held == queue \cup {top} \cup {union[i] : i \in DOMAIN union}

\* While pieces are cut and merged, every block keeps the requests that ask for it: they are
\* all on one piece, no block is on two, and what is finished ascends and lies below the rest
\* (query-builder.ts:250-278).
EveryBlockKeepsItsRequests ==
    Merging /\ resolved # <<>> =>
        /\ \A r \in DOMAIN resolved : \A n \in 0..Infinity :
             Cardinality({p \in Held : InPiece(n, p) /\ r \in p.requests})
               = IF InPiece(n, resolved[r]) THEN 1 ELSE 0
        /\ \A i \in DOMAIN union :
             /\ \A j \in (i + 1)..Len(union) : union[i].to < union[j].from
             /\ \A p \in queue \cup {top} : union[i].to < p.from
=============================================================================
