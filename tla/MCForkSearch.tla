---------------------------- MODULE MCForkSearch ----------------------------
(***************************************************************************)
(* Every history of up to MaxRecords batches on the tree, met by every     *)
(* branch the Portal can have moved to.                                    *)
(***************************************************************************)
EXTENDS ForkSearch, MCTree

MCBlock == DOMAIN WideTree
MCNum == NumbersOf(WideTree)
MCPath == PathsOf(WideTree)
MCSelected == {"g", "a1", "a2", "a3", "b1", "b2", "b3"}
SparseSelected == {"g", "a2"}
=============================================================================
