--------------------------- MODULE MCRangedStream ---------------------------
(***************************************************************************)
(* RangedStream on a small tree, with queries of up to three requests.     *)
(***************************************************************************)
EXTENDS RangedStream, MCTree

MCBlock == DOMAIN SmallTree
MCNum == NumbersOf(SmallTree)
MCPath == PathsOf(SmallTree)

Blocks(m, n) == [latest |-> FALSE, from |-> m, to |-> n]
FromLatest(n) == [latest |-> TRUE, from |-> 0, to |-> n]

\* None; one that starts in another and ends in a third; one inside another, at its first or
\* its last block; a gap; the same twice; 'latest' alone, in and behind others; a bad one.
MCQueries ==
    {<<>>,
     "r1" :> Blocks(0, 2) @@ "r2" :> Blocks(1, 3) @@ "r3" :> Blocks(2, 3),
     "r1" :> Blocks(0, 3) @@ "r2" :> Blocks(0, 1) @@ "r3" :> Blocks(3, 3),
     "r1" :> Blocks(0, 3) @@ "r2" :> Blocks(1, 2) @@ "r3" :> Blocks(1, 2),
     "r1" :> Blocks(0, 0) @@ "r2" :> Blocks(2, 3),
     "r1" :> Blocks(0, 1) @@ "r2" :> FromLatest(Infinity),
     "r1" :> Blocks(1, Infinity) @@ "r2" :> FromLatest(Infinity) @@ "r3" :> Blocks(2, 2),
     "r1" :> FromLatest(3),
     "r1" :> Blocks(0, 2) @@ "r2" :> Blocks(2, 1)}

\* Two ranges side by side.
BorderQueries == {"r1" :> Blocks(0, 1) @@ "r2" :> Blocks(0, 3)}
=============================================================================
