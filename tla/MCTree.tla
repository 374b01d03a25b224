------------------------------- MODULE MCTree -------------------------------
(***************************************************************************)
(* Small block trees for TLC.  A tree is its parent function; the root is  *)
(* its own parent and has number 0.                                        *)
(***************************************************************************)
EXTENDS Integers, TLC

RECURSIVE AncestorsOf(_, _)
AncestorsOf(parent, b) ==
    IF parent[b] = b THEN {b} ELSE {b} \cup AncestorsOf(parent, parent[b])

RECURSIVE HeightOf(_, _)
HeightOf(parent, b) == IF parent[b] = b THEN 0 ELSE 1 + HeightOf(parent, parent[b])

PathsOf(parent) == [b \in DOMAIN parent |-> AncestorsOf(parent, b)]
NumbersOf(parent) == [b \in DOMAIN parent |-> HeightOf(parent, b)]

\* g - a1 - a2 - a3 - a4, with a branch b forking at g and a branch c forking at a2.
WideTree ==
    "g" :> "g" @@ "a1" :> "g" @@ "a2" :> "a1" @@ "a3" :> "a2" @@ "a4" :> "a3"
        @@ "b1" :> "g" @@ "b2" :> "b1" @@ "b3" :> "b2" @@ "b4" :> "b3"
        @@ "c3" :> "a2" @@ "c4" :> "c3"

\* g - a1 - a2 - a3, with a branch b forking at g and a branch c forking at a1.
SmallTree ==
    "g" :> "g" @@ "a1" :> "g" @@ "a2" :> "a1" @@ "a3" :> "a2"
        @@ "b1" :> "g" @@ "b2" :> "b1" @@ "b3" :> "b2"
        @@ "c2" :> "a1" @@ "c3" :> "c2"

\* g - a1 - a2, with a branch b forking at g and a branch c forking at a1.
TinyTree ==
    "g" :> "g" @@ "a1" :> "g" @@ "a2" :> "a1" @@ "b1" :> "g" @@ "b2" :> "b1" @@ "c2" :> "a1"
=============================================================================
