--------------------------- MODULE ForkResolution ---------------------------
(***************************************************************************)
(* core/fork.ts and core/finalized-watermark.ts: how a pipe finds the      *)
(* block to roll back to after the Portal reported a fork.                 *)
(*                                                                         *)
(* A rollback record is one committed batch: the unfinalized blocks it     *)
(* carried and the finalized head it was committed under.  A history is a  *)
(* sequence of records, newest first.                                      *)
(***************************************************************************)
EXTENDS Chain, Sequences

RollbackRecord == [chain : SUBSET Block, finalized : Cursor]

\* The finalized cursor with the higher number; the first wins a tie.
MaxFinalized(a, b) ==
    IF a = None THEN b
    ELSE IF b = None THEN a
    ELSE IF Num[b] > Num[a] THEN b ELSE a

\* The highest floor of all records; the newest record wins a tie.
Floor(history) ==
    LET heads == {i \in DOMAIN history : history[i].finalized # None}
        higher(i, j) == LET m == Num[history[i].finalized]
                            n == Num[history[j].finalized]
                        IN  m > n \/ (m = n /\ i <= j)
    IN  IF heads = {} THEN None
        ELSE history[CHOOSE i \in heads : \A j \in heads : higher(i, j)].finalized

-----------------------------------------------------------------------------
(***************************************************************************)
(* The search reads the records in order and each chain downwards.  A      *)
(* visit <<i, b>> is block b read from record i.                           *)
(***************************************************************************)
Visits(history) == {v \in (DOMAIN history) \X Block : v[2] \in history[v[1]].chain}

Before(v, w) == v[1] < w[1] \/ (v[1] = w[1] /\ Num[v[2]] > Num[w[2]])

\* What is left of the canonical blocks when the search arrives at visit v.
Window(history, canonical, v) ==
    {u \in canonical : \A w \in Visits(history) : Before(w, v) => Num[u] < Num[w[2]]}

BelowFloor(history, v) ==
    Floor(history) # None /\ Num[v[2]] < Num[Floor(history)]

\* The search ends at v: below the floor, on a match, or with the window exhausted.
EndsAt(history, canonical, v) ==
    \/ BelowFloor(history, v)
    \/ v[2] \in Window(history, canonical, v)
    \/ Window(history, canonical, v) = {}

Ends(history, canonical) ==
    {v \in Visits(history) : EndsAt(history, canonical, v)}

\* The first visit the search ends at.
EndOf(history, canonical) ==
    CHOOSE v \in Ends(history, canonical) :
        \A w \in Ends(history, canonical) : w = v \/ Before(v, w)

\* The canonical blocks left when the search ends without an ancestor.
FinalWindow(history, canonical) ==
    IF Ends(history, canonical) # {}
    THEN Window(history, canonical, EndOf(history, canonical))
    ELSE {u \in canonical : \A w \in Visits(history) : Num[u] < Num[w[2]]}

\* Fault (a slip the code could hold in place of the next definition): the floor only
\* resolves a fork when nothing else is left.
LonelyCanonicalFloor(window, floor) ==
    IF floor # None /\ window = {floor} THEN floor ELSE None

\* No retained block above the floor is canonical, but the floor itself may be.
CanonicalFloor(window, floor) ==
    IF floor # None /\ floor \in window THEN floor ELSE None

(***************************************************************************)
(* The safe cursor: a retained block that is still canonical, else a       *)
(* retained block below the exhausted window (a deep-fork restart), else   *)
(* the floor, else None.                                                   *)
(***************************************************************************)
ResolveForkCursor(history, canonical) ==
    LET end == EndOf(history, canonical)
    IN  IF Ends(history, canonical) # {} /\ ~BelowFloor(history, end)
        THEN end[2]
        ELSE CanonicalFloor(FinalWindow(history, canonical), Floor(history))
=============================================================================
