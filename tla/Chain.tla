------------------------------- MODULE Chain -------------------------------
(***************************************************************************)
(* The block tree a Portal serves one branch of at a time, and the shape   *)
(* of its answers.  The Portal is a service outside the repository; its    *)
(* behaviour is taken from what the client relies on and from the mock the *)
(* tests run against (testing/portal-chain.ts).                            *)
(*                                                                         *)
(* A BlockCursor {number, hash} is a Block: Num gives its number and the   *)
(* hash is the block's identity.                                           *)
(***************************************************************************)
EXTENDS Integers, FiniteSets

CONSTANTS
    Block,     \* every block of every branch
    Num,       \* [Block -> Nat], the block number
    Path,      \* [Block -> SUBSET Block], the block and all its ancestors
    Selected,  \* the blocks that hold data the query selects
    Reach,     \* how many canonical blocks a 409 answer carries
    None       \* "no block": an absent cursor, anchor or finalized head

ASSUME ChainAssumption ==
    /\ None \notin Block
    /\ Num \in [Block -> Nat]
    /\ Path \in [Block -> SUBSET Block]
    /\ \A b \in Block : b \in Path[b]
    /\ \A b \in Block : \A c \in Path[b] : Num[c] < Num[b] \/ c = b
    /\ \A b \in Block : \A c, d \in Path[b] : Num[c] <= Num[d] <=> c \in Path[d]
    /\ \A b \in Block : \A c \in Path[b] : Path[c] \subseteq Path[b]
    /\ Selected \subseteq Block
    /\ Reach \in Nat \ {0}

Cursor == Block \cup {None}

\* The number of a cursor, below every block number when there is none.
NumOf(c) == IF c = None THEN -1 ELSE Num[c]

\* c continues cursor p: it is a later block on the same branch.
Extends(c, p) == p = None \/ (p \in Path[c] /\ p # c)

\* The block with the highest (lowest) number in a set of blocks of one branch.
Last(S) == CHOOSE b \in S : \A c \in S : Num[c] <= Num[b]
First(S) == CHOOSE b \in S : \A c \in S : Num[b] <= Num[c]

(***************************************************************************)
(* A 200 answer covers the numbers from `from` to the number of `last`.    *)
(* It carries the selected blocks and both ends of the covered range.      *)
(***************************************************************************)
Delivered(from, last) ==
    {b \in Path[last] : /\ Num[b] >= from
                        /\ b \in Selected \/ b = last \/ Num[b] = from}

\* The canonical blocks just below `from`: the previousBlocks of a 409.
CanonicalBefore(tip, from) ==
    {b \in Path[tip] : Num[b] < from /\ Num[b] >= from - Reach}
=============================================================================
