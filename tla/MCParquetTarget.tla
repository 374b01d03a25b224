--------------------------- MODULE MCParquetTarget ---------------------------
(* Three ranges; the second asks for block 6, which does not exist, so that  *)
(* the stream skips it.  The tables: one with a row for every block, one     *)
(* with a row now and then, one with none.                                   *)
EXTENDS ParquetTarget

TheTables == {"busy", "sparse", "empty"}
TheBlocks == {1, 2, 3, 4, 5, 7, 8, 9, 10, 11}
TheRanges == <<[from |-> 1, to |-> 4], [from |-> 6, to |-> 6], [from |-> 8, to |-> 11]>>
TheEmits ==
    [t \in TheTables |->
       CASE t = "busy" -> TheBlocks [] t = "sparse" -> {3, 10} [] OTHER -> {}]
=============================================================================
