---------------------------- MODULE MCPortalCache ----------------------------
(***************************************************************************)
(* PortalCache on small trees.                                             *)
(***************************************************************************)
EXTENDS PortalCache, MCTree

MCBlock == DOMAIN SmallTree
MCNum == NumbersOf(SmallTree)
MCPath == PathsOf(SmallTree)

MCTinyBlock == DOMAIN TinyTree
MCTinyNum == NumbersOf(TinyTree)
MCTinyPath == PathsOf(TinyTree)
=============================================================================
