-------------------------- MODULE MCBigqueryTarget --------------------------
(***************************************************************************)
(* BigqueryTarget on a small tree, with two tables.                        *)
(***************************************************************************)
EXTENDS BigqueryTarget, MCTree

MCBlock == DOMAIN TinyTree
MCNum == NumbersOf(TinyTree)
MCPath == PathsOf(TinyTree)
MCSelected == {"g", "a1", "a2", "b2", "c2"}
Tables == Permutations(Table)
=============================================================================
