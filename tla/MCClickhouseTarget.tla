------------------------- MODULE MCClickhouseTarget -------------------------
(***************************************************************************)
(* ClickhouseTarget on small trees.                                        *)
(***************************************************************************)
EXTENDS ClickhouseTarget, MCTree

MCBlock == DOMAIN TinyTree
MCNum == NumbersOf(TinyTree)
MCPath == PathsOf(TinyTree)
MCSelected == {"g", "a1", "a2", "b2", "c2"}
Tables == Permutations(Table)

\* g - a1 - a2 - a3, with a branch b forking at g and c4 on top of b3.
FlapTree ==
    "g" :> "g" @@ "a1" :> "g" @@ "a2" :> "a1" @@ "a3" :> "a2"
        @@ "b1" :> "g" @@ "b2" :> "b1" @@ "b3" :> "b2" @@ "b4" :> "b3" @@ "c4" :> "b3"

FlapBlock == DOMAIN FlapTree
FlapNum == NumbersOf(FlapTree)
FlapPath == PathsOf(FlapTree)
FlapSelected == {"g", "a1", "a2"}
=============================================================================
