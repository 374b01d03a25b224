--------------------------- MODULE ReorgSafeSink ---------------------------
(***************************************************************************)
(* What a target of a full stream promises its user, whatever the Portal   *)
(* does: the stored data is always the data of exactly one branch up to    *)
(* the cursor, a commit extends that branch, and a rollback shortens it    *)
(* but never below the finalized floor, which never moves back.            *)
(***************************************************************************)
EXTENDS ForkResolution

CONSTANT View(_)   \* the data a set of blocks of one branch amounts to

VARIABLES cursor, floor, data

sinkVars == <<cursor, floor, data>>

PathTo(c) == IF c = None THEN {} ELSE Path[c]

Init == cursor = None /\ floor = None /\ data = View({})

Commit ==
    /\ \E b \in Block : Extends(b, cursor) /\ cursor' = b
    /\ \E f \in Cursor : floor' = MaxFinalized(floor, f)
    /\ data' = View(Path[cursor'])

Rollback ==
    /\ cursor # None
    /\ \E a \in Path[cursor] : NumOf(floor) <= Num[a] /\ cursor' = a
    /\ floor' = floor
    /\ data' = View(Path[cursor'])

\* A higher finalized head can be persisted before the batch that came with it.
RaiseFloor ==
    /\ \E f \in Cursor : floor' = MaxFinalized(floor, f)
    /\ UNCHANGED <<cursor, data>>

Next == Commit \/ Rollback \/ RaiseFloor

Spec == Init /\ [][Next]_sinkVars
-----------------------------------------------------------------------------
(* What follows from it (proved in PostgresTargetProofs).                  *)

\* The data never mixes branches: whoever reads it between two steps sees one branch,
\* complete up to the cursor (INV-14).
Consistent ==
    /\ cursor \in Cursor /\ floor \in Cursor
    /\ data = View(PathTo(cursor))

\* A block that was committed and reported final is never taken back, not even by a
\* rollback in several steps, since the floor that protects it never moves back
\* (INV-12, INV-13).
FinalIsKept ==
    /\ NumOf(floor') >= NumOf(floor)
    /\ \A b \in PathTo(cursor) : Num[b] <= NumOf(floor) => b \in PathTo(cursor')
=============================================================================
