-------------------------- MODULE PortalCacheProofs --------------------------
(***************************************************************************)
(* The portal cache keeps final blocks only, for every tree, any number of *)
(* pipes and any interleaving of their reads; and one pipe is given one    *)
(* branch through it.                                                      *)
(***************************************************************************)
EXTENDS PortalCache, WellFoundedInduction, FiniteSetTheorems, FunctionTheorems, SequenceTheorems, TLAPS

-----------------------------------------------------------------------------
(* The inductive invariants.                                               *)

\* The finalized block is on every branch the Portal may still take.
FinalIsCanonical == final \in Path[tip]

\* A kept interval is an interval of the final part of the chain.
RowsAreFinal ==
    \A row \in data :
        /\ \E b \in row.blocks : Num[b] = row.last
        /\ row.last <= Num[final]
        /\ row.blocks = {b \in Path[final] : row.first <= Num[b] /\ Num[b] <= row.last}

\* The number a reader's target needs next.
After(r) == IF Newest(r) = None THEN FromBlock ELSE Num[Newest(r)] + 1

\* Between two answers, a reader asks for what follows its newest block.
NextIsNewest(r) ==
    stage[r] \in {"cached", "portal"} /\ held[r] = NoAnswer =>
        next[r] = [number |-> After(r), hash |-> Newest(r)]

\* An answer is held only on its way from the Portal to the target.
HeldOnTheWay(r) ==
    /\ stage[r] \in {"stopped", "cached", "done"} => held[r] = NoAnswer
    /\ stage[r] = "saved" => held[r] # NoAnswer

\* It continues the newest block of the target up to the one the reader asks after, and the head
\* it came with is final.
HeldContinues(r) ==
    held[r] # NoAnswer =>
        /\ next[r].hash \in Block /\ next[r].number = Num[next[r].hash] + 1
        /\ After(r) <= Num[next[r].hash]
        /\ Newest(r) # None => Newest(r) \in Path[next[r].hash]
        /\ held[r].blocks = {b \in Path[next[r].hash] : After(r) <= Num[b]}
        /\ held[r].head # None =>
            /\ held[r].head \in Path[final]
            /\ \A b \in held[r].blocks : Num[b] <= Num[held[r].head] => b \in Path[final]

ReaderInv(r) == NextIsNewest(r) /\ HeldOnTheWay(r) /\ HeldContinues(r)

KeptInv ==
    /\ TypeOK /\ FinalIsCanonical /\ RowsAreFinal
    /\ \A r \in Reader : ReaderInv(r)

\* What a target has or is on its way to it below a kept interval is final as well.
BelowRowIsFinal(r, row) ==
    /\ \A i \in 1..Count(r) : Num[given[r][i]] < row.first => given[r][i] \in Path[final]
    /\ \A b \in held[r].blocks : Num[b] < row.first => b \in Path[final]

BelowRowsIsFinal == \A r \in Reader : \A row \in data : BelowRowIsFinal(r, row)

\* The table is one pipe's own: another one may still have orphaned blocks below a row.
OneReader == \A r, q \in Reader : r = q

GivenInv == KeptInv /\ GivenIsOneBranch /\ BelowRowsIsFinal

-----------------------------------------------------------------------------
(* Numbers and branches.                                                   *)

\* Every nonempty set of numbers has a least one.
LEMMA LeastNumber ==
    ASSUME NEW S \in SUBSET Nat, S # {}
    PROVE  \E m \in S : \A n \in S : m <= n
<1>1. \E m \in S : \A n \in S : ~(<<n, m>> \in OpToRel(<, Nat))
    BY NatLessThanWellFounded, WFMin
<1>2. PICK m \in S : \A n \in S : ~(<<n, m>> \in OpToRel(<, Nat))
    BY <1>1
<1>3. \A n \in S : ~(n < m)
    BY <1>2 DEF OpToRel
<1> QED
    BY <1>3

\* Two blocks of one branch with the same number are the same block.
LEMMA OneBlockPerNumber ==
    ASSUME NEW h \in Block, NEW b \in Path[h], NEW c \in Path[h], Num[b] = Num[c]
    PROVE  b = c
BY ChainAssumption

\* Blocks of a branch below one of its blocks are that block's ancestors.
LEMMA LowerIsAncestor ==
    ASSUME NEW h \in Block, NEW b \in Path[h], NEW c \in Path[h], Num[b] <= Num[c]
    PROVE  b \in Path[c]
BY ChainAssumption

\* A nonempty set of blocks of one branch has a last block.
LEMMA LastBlock ==
    ASSUME NEW h \in Block, NEW S \in SUBSET Path[h], S # {}
    PROVE  Last(S) \in S /\ \A b \in S : Num[b] <= Num[Last(S)]
<1> DEFINE Depths == {Num[h] - Num[b] : b \in S}
<1>1. \A b \in S : b \in Block /\ Num[b] \in Nat /\ Num[h] \in Nat /\ Num[b] <= Num[h]
    BY ChainAssumption
<1>2. Depths \in SUBSET Nat /\ Depths # {}
    BY <1>1
<1>3. PICK d \in Depths : \A n \in Depths : d <= n
    BY <1>2, LeastNumber
<1>4. PICK last \in S : d = Num[h] - Num[last]
    BY <1>3
<1>5. ASSUME NEW b \in S
      PROVE  Num[b] <= Num[last]
    <2>1. Num[h] - Num[b] \in Depths
        OBVIOUS
    <2>2. d <= Num[h] - Num[b]
        BY <2>1, <1>3
    <2> QED
        BY <2>2, <1>1, <1>4
<1> QED
    BY <1>5 DEF Last

\* A nonempty set of blocks has a first block.
LEMMA FirstBlock ==
    ASSUME NEW S \in SUBSET Block, S # {}
    PROVE  First(S) \in S /\ \A b \in S : Num[First(S)] <= Num[b]
<1> DEFINE Numbers == {Num[b] : b \in S}
<1>1. \A b \in S : Num[b] \in Nat
    BY ChainAssumption
<1>2. Numbers \in SUBSET Nat /\ Numbers # {}
    BY <1>1
<1>3. PICK n \in Numbers : \A m \in Numbers : n <= m
    BY <1>2, LeastNumber
<1>4. PICK first \in S : n = Num[first]
    BY <1>3
<1>5. \A b \in S : Num[first] <= Num[b]
    BY <1>3, <1>4
<1> QED
    BY <1>5 DEF First

-----------------------------------------------------------------------------
(* The blocks of a branch in the order of their numbers.                   *)

\* A branch is finite: its blocks have different numbers, none above its last one.
LEMMA PathIsFinite ==
    ASSUME NEW h \in Block, NEW S \in SUBSET Path[h]
    PROVE  IsFiniteSet(S) /\ Cardinality(S) \in Nat
<1> DEFINE numberOf == [b \in S |-> Num[b]]
<1>1. numberOf \in [S -> 0..Num[h]]
    BY ChainAssumption
<1>2. \A b, c \in S : numberOf[b] = numberOf[c] => b = c
    BY OneBlockPerNumber
<1>3. numberOf \in Injection(S, 0..Num[h])
    BY <1>1, <1>2, Fun_IsInj
<1>4. Num[h] \in Int
    BY ChainAssumption
<1>5. IsFiniteSet(0..Num[h])
    BY <1>4, FS_Interval
<1> HIDE DEF numberOf
<1> QED
    BY <1>3, <1>5, FS_Injection, FS_CardinalityType

\* How many blocks of a set have at most the number of b.
Rank(S, b) == Cardinality({c \in S : Num[c] <= Num[b]})

\* Ranks ascend with the numbers.
LEMMA RankAscends ==
    ASSUME NEW h \in Block, NEW S \in SUBSET Path[h], NEW b \in S, NEW c \in S, Num[b] < Num[c]
    PROVE  Rank(S, b) < Rank(S, c)
<1> DEFINE below(d) == {e \in S : Num[e] <= Num[d]}
<1>1. \A d \in S : Num[d] \in Nat
    BY ChainAssumption
<1>2. below(b) \subseteq below(c) /\ c \in below(c) /\ c \notin below(b)
    BY <1>1
<1>3. IsFiniteSet(below(c)) /\ Cardinality(below(c)) \in Nat /\ Cardinality(below(b)) \in Nat
    BY PathIsFinite
<1>4. Cardinality(below(b)) <= Cardinality(below(c))
      /\ (Cardinality(below(c)) = Cardinality(below(b)) => below(c) = below(b))
    BY <1>2, <1>3, FS_Subset
<1> QED
    BY <1>2, <1>3, <1>4 DEF Rank

\* Every block has a rank of its own, from 1 to the number of blocks.
LEMMA RankIsBijection ==
    ASSUME NEW h \in Block, NEW S \in SUBSET Path[h]
    PROVE  /\ \A b \in S : Rank(S, b) \in 1..Cardinality(S)
           /\ \A b, c \in S : Rank(S, b) = Rank(S, c) => b = c
           /\ \A i \in 1..Cardinality(S) : \E b \in S : Rank(S, b) = i
<1> DEFINE n == Cardinality(S)
           rankOf == [b \in S |-> Rank(S, b)]
<1>1. IsFiniteSet(S) /\ n \in Nat
    BY PathIsFinite
<1>2. ASSUME NEW b \in S
      PROVE  Rank(S, b) \in 1..n
    <2> DEFINE below == {c \in S : Num[c] <= Num[b]}
    <2>1. below \in SUBSET S /\ b \in below
        BY ChainAssumption
    <2>2. IsFiniteSet(below) /\ Cardinality(below) \in Nat /\ Cardinality(below) <= n
        BY <1>1, <2>1, FS_Subset, FS_CardinalityType
    <2>3. Cardinality(below) # 0
        BY <2>1, <2>2, FS_EmptySet
    <2> QED
        BY <1>1, <2>2, <2>3 DEF Rank
<1>3. ASSUME NEW b \in S, NEW c \in S, Rank(S, b) = Rank(S, c)
      PROVE  b = c
    <2>1. Num[b] \in Nat /\ Num[c] \in Nat
        BY ChainAssumption
    <2>2. Rank(S, b) \in Nat /\ Rank(S, c) \in Nat
        BY <1>2
    <2>3. ~(Num[b] < Num[c]) /\ ~(Num[c] < Num[b])
        BY <1>3, <2>2, RankAscends
    <2>4. Num[b] = Num[c]
        BY <2>1, <2>3
    <2> QED
        BY <2>4, OneBlockPerNumber
<1>4. rankOf \in Injection(S, 1..n)
    <2>1. rankOf \in [S -> 1..n]
        BY <1>2
    <2>2. \A b, c \in S : rankOf[b] = rankOf[c] => b = c
        BY <1>3
    <2> HIDE DEF rankOf, n
    <2> QED
        BY <2>1, <2>2, Fun_IsInj
<1>5. IsFiniteSet(1..n) /\ Cardinality(1..n) = n
    BY <1>1, FS_Interval
<1>6. rankOf \in Surjection(S, 1..n)
    <2> HIDE DEF rankOf
    <2> QED
        BY <1>1, <1>4, <1>5, FS_Injection
<1>7. \A i \in 1..n : \E b \in S : rankOf[b] = i
    <2> HIDE DEF rankOf
    <2> QED
        BY <1>6, Fun_SurjectionProperties
<1> QED
    BY <1>2, <1>3, <1>7

\* InOrder lists every block of the set, in the order of the numbers.
LEMMA InOrderAscends ==
    ASSUME NEW h \in Block, NEW S \in SUBSET Path[h]
    PROVE  /\ Cardinality(S) \in Nat
           /\ InOrder(S) \in Seq(S) /\ Len(InOrder(S)) = Cardinality(S)
           /\ \A i \in 1..Cardinality(S) : Rank(S, InOrder(S)[i]) = i
           /\ \A b \in S : InOrder(S)[Rank(S, b)] = b
<1> DEFINE n == Cardinality(S)
<1>1. n \in Nat
    BY PathIsFinite
<1>2. InOrder(S) = [i \in 1..n |-> CHOOSE b \in S : Rank(S, b) = i]
    BY DEF InOrder, Rank
<1>3. \A i \in 1..n : InOrder(S)[i] \in S /\ Rank(S, InOrder(S)[i]) = i
    BY <1>2, RankIsBijection
<1>4. InOrder(S) \in Seq(S) /\ Len(InOrder(S)) = n
    BY <1>1, <1>2, <1>3
<1>5. \A b \in S : InOrder(S)[Rank(S, b)] = b
    BY <1>3, RankIsBijection
<1> QED
    BY <1>1, <1>3, <1>4, <1>5
\* Up to any place of it, InOrder lists the blocks with at most that block's number.
LEMMA InOrderUpTo ==
    ASSUME NEW h \in Block, NEW S \in SUBSET Path[h], NEW i \in 1..Cardinality(S)
    PROVE  /\ InOrder(S)[i] \in S
           /\ {InOrder(S)[j] : j \in 1..i} = {b \in S : Num[b] <= Num[InOrder(S)[i]]}
           /\ \A j \in 1..(i - 1) : Num[InOrder(S)[j]] < Num[InOrder(S)[i]]
<1> DEFINE n == Cardinality(S)
           at(j) == InOrder(S)[j]
<1>1. n \in Nat /\ \A j \in 1..n : at(j) \in S /\ Rank(S, at(j)) = j
    BY InOrderAscends
<1>2. \A b \in S : Num[b] \in Nat /\ Rank(S, b) \in 1..n /\ at(Rank(S, b)) = b
    BY ChainAssumption, InOrderAscends, RankIsBijection
<1>3. \A b, c \in S : Num[b] < Num[c] => Rank(S, b) < Rank(S, c)
    BY RankAscends
<1>4. \A b, c \in S : Num[b] = Num[c] => b = c
    BY OneBlockPerNumber
<1> HIDE DEF at, n
<1>5. ASSUME NEW b \in S, NEW c \in S, Rank(S, b) < Rank(S, c)
      PROVE  Num[b] < Num[c]
    <2>1. ~(Num[c] < Num[b])
        BY <1>1, <1>2, <1>3, <1>5
    <2>2. Num[b] # Num[c]
        BY <1>1, <1>2, <1>4, <1>5
    <2> QED
        BY <1>2, <2>1, <2>2
<1>6. i \in 1..n
    BY DEF n
<1>7. \A j \in 1..(i - 1) : Num[at(j)] < Num[at(i)]
    BY <1>1, <1>5, <1>6
<1>8. ASSUME NEW j \in 1..i
      PROVE  at(j) \in S /\ Num[at(j)] <= Num[at(i)]
    <2>1. CASE j = i
        BY <1>1, <1>2, <1>6, <2>1
    <2>2. CASE j # i
        BY <1>1, <1>2, <1>6, <1>7, <2>2
    <2> QED
        BY <2>1, <2>2
<1>9. ASSUME NEW b \in S, Num[b] <= Num[at(i)]
      PROVE  \E j \in 1..i : b = at(j)
    <2>1. ~(i < Rank(S, b))
        <3>1. at(i) \in S /\ Rank(S, at(i)) = i
            BY <1>1, <1>6
        <3> QED
            BY <1>2, <1>5, <1>9, <3>1
    <2> QED
        BY <1>1, <1>2, <1>6, <2>1
<1>10. {at(j) : j \in 1..i} = {b \in S : Num[b] <= Num[at(i)]}
    BY <1>8, <1>9
<1> QED
    BY <1>1, <1>6, <1>7, <1>10 DEF at

\* The last block of the set comes last.
LEMMA InOrderEnds ==
    ASSUME NEW h \in Block, NEW S \in SUBSET Path[h], NEW x \in S,
           \A b \in S : Num[b] <= Num[x]
    PROVE  Cardinality(S) \in Nat \ {0} /\ InOrder(S)[Cardinality(S)] = x
<1>1. {b \in S : Num[b] <= Num[x]} = S
    OBVIOUS
<1>2. Rank(S, x) = Cardinality(S)
    BY <1>1 DEF Rank
<1>3. Rank(S, x) \in 1..Cardinality(S)
    BY RankIsBijection
<1> QED
    BY <1>2, <1>3, InOrderAscends

-----------------------------------------------------------------------------
(* What a target has committed.                                            *)

\* GivenIsOneBranch, of one sequence.
OneBranch(s) ==
    \A i \in 1..Len(s) :
        /\ \A j \in 1..(i - 1) : Num[s[j]] < Num[s[i]]
        /\ {s[j] : j \in 1..i} = {b \in Path[s[i]] : FromBlock <= Num[b]}

\* The blocks of x's branch that are behind the last one of s.
Rest(s, x) ==
    {b \in Path[x] : (IF s = <<>> THEN FromBlock ELSE Num[s[Len(s)]] + 1) <= Num[b]}

\* x is on the branch of s, or s is empty; and there is more to it than s has.
Continues(s, x) == x \in Rest(s, x) /\ (s # <<>> => s[Len(s)] \in Path[x])

\* Committing the rest of a branch.
LEMMA RestIsAppended ==
    ASSUME NEW s \in Seq(Block), NEW x \in Block, Continues(s, x)
    PROVE  LET t == s \o InOrder(Rest(s, x))
           IN  /\ t \in Seq(Block) /\ t # <<>> /\ t[Len(t)] = x
               /\ Len(t) = Len(s) + Cardinality(Rest(s, x))
               /\ Cardinality(Rest(s, x)) \in Nat \ {0}
               /\ \A i \in 1..Len(s) : t[i] = s[i]
               /\ \A k \in 1..Cardinality(Rest(s, x)) :
                    t[Len(s) + k] = InOrder(Rest(s, x))[k]
<1> DEFINE S == Rest(s, x)
           n == Cardinality(S)
           t == s \o InOrder(S)
<1>1. S \in SUBSET Path[x] /\ S \in SUBSET Block
    BY ChainAssumption DEF Rest
<1>2. \A b \in S : Num[b] <= Num[x]
    BY <1>1, ChainAssumption
<1>3. n \in Nat \ {0} /\ InOrder(S)[n] = x
    BY <1>1, <1>2, InOrderEnds DEF Continues
<1>4. InOrder(S) \in Seq(Block) /\ Len(InOrder(S)) = n
    BY <1>1, InOrderAscends, SeqMonotonic
<1>5. /\ t \in Seq(Block) /\ Len(t) = Len(s) + n /\ Len(s) \in Nat
      /\ \A i \in 1..(Len(s) + n) : t[i] = IF i <= Len(s) THEN s[i] ELSE InOrder(S)[i - Len(s)]
    <2> HIDE DEF n, S
    <2>1. t \in Seq(Block) /\ Len(t) = Len(s) + Len(InOrder(S)) /\ Len(s) \in Nat
        BY <1>4
    <2>2. \A i \in 1..(Len(s) + Len(InOrder(S))) :
            t[i] = IF i <= Len(s) THEN s[i] ELSE InOrder(S)[i - Len(s)]
        BY <1>4, ConcatProperties
    <2> QED
        BY <1>4, <2>1, <2>2
<1> HIDE DEF t, n
<1>6. \A i \in 1..Len(s) : t[i] = s[i]
    BY <1>3, <1>5
<1>7. \A k \in 1..n : t[Len(s) + k] = InOrder(S)[k]
    BY <1>3, <1>5
<1>8. t # <<>> /\ t[Len(t)] = x
    <2>1. Len(t) = Len(s) + n /\ n \in 1..n /\ Len(t) > 0
        BY <1>3, <1>5
    <2> QED
        BY <1>3, <1>7, <2>1
<1> QED
    BY <1>3, <1>5, <1>6, <1>7, <1>8 DEF t, n

\* What a target has stays one branch if the rest of a branch that continues it is committed.
LEMMA OneBranchContinues ==
    ASSUME NEW s \in Seq(Block), NEW x \in Block, Continues(s, x), OneBranch(s)
    PROVE  OneBranch(s \o InOrder(Rest(s, x)))
<1> DEFINE S == Rest(s, x)
           n == Cardinality(S)
           I == InOrder(S)
           m == Len(s)
           t == s \o I
<1>1. S \in SUBSET Path[x] /\ S \in SUBSET Block /\ m \in Nat
    BY ChainAssumption DEF Rest
<1>2. /\ t \in Seq(Block) /\ Len(t) = m + n /\ n \in Nat \ {0}
      /\ \A i \in 1..m : t[i] = s[i]
      /\ \A k \in 1..n : t[m + k] = I[k]
    BY RestIsAppended
<1>3. \A k \in 1..n : /\ I[k] \in S
                      /\ {I[j] : j \in 1..k} = {b \in S : Num[b] <= Num[I[k]]}
                      /\ \A j \in 1..(k - 1) : Num[I[j]] < Num[I[k]]
    BY <1>1, InOrderUpTo
<1>4. \A b \in Block : Num[b] \in Nat
    BY ChainAssumption
<1>5. FromBlock \in Nat
    BY CacheAssumption
<1>6. \A i \in 1..m : s[i] \in Block
    OBVIOUS
<1>7. ASSUME NEW b \in S, NEW i \in 1..m
      PROVE  Num[s[i]] < Num[b]
    <2>1. s # <<>> /\ m \in 1..m
        BY <1>1
    <2>2. Num[s[m]] + 1 <= Num[b]
        BY <2>1 DEF Rest
    <2>3. i = m \/ i \in 1..(m - 1)
        BY <1>1
    <2>4. Num[s[i]] <= Num[s[m]]
        BY <1>4, <1>6, <2>1, <2>3, SMTT(30) DEF OneBranch
    <2>5. b \in Block /\ s[m] \in Block /\ s[i] \in Block
        BY <1>1, <1>6, <2>1
    <2>6. Num[b] \in Nat /\ Num[s[m]] \in Nat /\ Num[s[i]] \in Nat
        BY <1>4, <2>5
    <2> QED
        BY <2>2, <2>4, <2>6
<1>8. ASSUME NEW b \in S
      PROVE  {s[j] : j \in 1..m} \cup {c \in S : Num[c] <= Num[b]}
             = {c \in Path[b] : FromBlock <= Num[c]}
    <2>1. b \in Path[x] /\ b \in Block /\ Path[b] \subseteq Path[x] /\ Path[x] \in SUBSET Block
        BY <1>1, ChainAssumption
    <2>2. \A c \in Path[x] : c \in Path[b] <=> Num[c] <= Num[b]
        BY <2>1, ChainAssumption
    <2>3. CASE s = <<>>
        <3>1. {s[j] : j \in 1..m} = {}
            BY <2>3
        <3>2. S = {c \in Path[x] : FromBlock <= Num[c]}
            BY <2>3 DEF Rest
        <3> QED
            BY <2>1, <2>2, <3>1, <3>2
    <2>4. CASE s # <<>>
        <3> DEFINE l == s[m]
        <3>1. m \in 1..m /\ l \in Block /\ l \in Path[x]
            BY <1>1, <2>4 DEF Continues
        <3>2. {s[j] : j \in 1..m} = {c \in Path[l] : FromBlock <= Num[c]}
            BY <3>1 DEF OneBranch
        <3>3. FromBlock <= Num[l]
            BY <3>1, <3>2
        <3>4. S = {c \in Path[x] : Num[l] + 1 <= Num[c]}
            BY <2>4 DEF Rest
        <3>5. Num[l] < Num[b]
            BY <1>7, <3>1
        <3>6. \A c \in Path[x] : c \in Path[l] <=> Num[c] <= Num[l]
            BY <3>1, ChainAssumption
        <3>7. Path[l] \subseteq Path[x]
            BY <3>1, ChainAssumption
        <3> HIDE DEF l, m, S
        <3>8. ASSUME NEW c \in Path[x]
              PROVE  c \in {s[j] : j \in 1..m} \cup {d \in S : Num[d] <= Num[b]}
                     <=> c \in {d \in Path[b] : FromBlock <= Num[d]}
            <4>1. Num[c] \in Nat /\ Num[l] \in Nat /\ Num[b] \in Nat
                BY <1>4, <2>1, <3>1
            <4> QED
                BY <1>5, <2>2, <3>2, <3>3, <3>4, <3>5, <3>6, <4>1
        <3> QED
            BY <1>1, <2>1, <3>2, <3>7, <3>8
    <2> QED
        BY <2>3, <2>4
<1> HIDE DEF S, n, I, m, t
<1>9. ASSUME NEW i \in 1..Len(t)
      PROVE  /\ \A j \in 1..(i - 1) : Num[t[j]] < Num[t[i]]
             /\ {t[j] : j \in 1..i} = {b \in Path[t[i]] : FromBlock <= Num[b]}
    <2>1. CASE i <= m
        <3>1. i \in 1..m /\ t[i] = s[i] /\ \A j \in 1..i : j \in 1..m /\ t[j] = s[j]
            BY <1>1, <1>2, <2>1
        <3>2. \A j \in 1..(i - 1) : j \in 1..i
            BY <1>1
        <3>3. {t[j] : j \in 1..i} = {s[j] : j \in 1..i}
            BY <3>1
        <3> QED
            BY <3>1, <3>2, <3>3 DEF OneBranch, m
    <2>2. CASE i > m
        <3> DEFINE k == i - m
        <3>1. k \in 1..n /\ i = m + k
            BY <1>1, <1>2, <2>2
        <3>2. t[i] = I[k] /\ I[k] \in S
            BY <1>2, <1>3, <3>1
        <3>3. ASSUME NEW j \in 1..i
              PROVE  \/ j \in 1..m /\ t[j] = s[j]
                     \/ j - m \in 1..k /\ t[j] = I[j - m]
            <4>1. CASE j <= m
                BY <1>1, <1>2, <4>1
            <4>2. CASE j > m
                <5>1. j - m \in 1..k /\ j - m \in 1..n /\ j = m + (j - m)
                    BY <1>1, <1>2, <3>1, <4>2
                <5> QED
                    BY <1>2, <5>1
            <4> QED
                BY <1>1, <4>1, <4>2
        <3> HIDE DEF k
        <3>4. ASSUME NEW j \in 1..(i - 1)
              PROVE  Num[t[j]] < Num[t[i]]
            <4>1. j \in 1..i /\ j # i
                BY <1>1, <1>2
            <4>2. CASE j \in 1..m /\ t[j] = s[j]
                BY <1>7, <3>2, <4>2
            <4>3. CASE j - m \in 1..k /\ t[j] = I[j - m]
                <5>1. j - m \in 1..(k - 1)
                    BY <1>1, <1>2, <3>1, <4>1, <4>3
                <5> QED
                    BY <1>3, <3>1, <3>2, <4>3, <5>1
            <4> QED
                BY <3>3, <4>1, <4>2, <4>3
        <3>5. {t[j] : j \in 1..i} = {s[j] : j \in 1..m} \cup {I[j] : j \in 1..k}
            <4>1. {t[j] : j \in 1..i} \subseteq {s[j] : j \in 1..m} \cup {I[j] : j \in 1..k}
                BY <3>3
            <4>2. \A j \in 1..m : j \in 1..i /\ s[j] = t[j]
                BY <1>1, <1>2, <2>2
            <4>3. \A j \in 1..k : m + j \in 1..i /\ I[j] = t[m + j]
                BY <1>1, <1>2, <3>1
            <4>4. {s[j] : j \in 1..m} \subseteq {t[j] : j \in 1..i}
                BY <4>2
            <4>5. {I[j] : j \in 1..k} \subseteq {t[j] : j \in 1..i}
                BY <4>3
            <4> QED
                BY <4>1, <4>4, <4>5
        <3> QED
            BY <1>3, <1>8, <3>1, <3>2, <3>4, <3>5
    <2> QED
        BY <1>1, <1>2, <2>1, <2>2
<1> QED
    BY <1>9 DEF OneBranch, t, I, S

-----------------------------------------------------------------------------
(* What is kept stays canonical.                                           *)

\* The finalized block only moves on along its branch.
LEMMA FinalMovesOn ==
    ASSUME KeptInv, final' \in Block, final \in Path[final'], UNCHANGED <<data, readVars, given>>
    PROVE  RowsAreFinal' /\ \A r \in Reader : ReaderInv(r)'
<1>1. final \in Block /\ Path[final] \subseteq Path[final'] /\ Num[final] <= Num[final']
      /\ Num \in [Block -> Nat] /\ Path[final'] \in SUBSET Block
    BY ChainAssumption DEF KeptInv, TypeOK
<1>2. \A b \in Path[final'] : Num[b] <= Num[final] => b \in Path[final]
    BY ChainAssumption
<1>3. ASSUME NEW row \in data
      PROVE  /\ \E b \in row.blocks : Num[b] = row.last
             /\ row.last <= Num[final']
             /\ row.blocks = {b \in Path[final'] : row.first <= Num[b] /\ Num[b] <= row.last}
    <2>1. row.first \in Nat /\ row.last \in Nat
        BY DEF KeptInv, TypeOK
    <2>2. /\ \E b \in row.blocks : Num[b] = row.last
          /\ row.last <= Num[final]
          /\ row.blocks = {b \in Path[final] : row.first <= Num[b] /\ Num[b] <= row.last}
        BY DEF KeptInv, RowsAreFinal
    <2>3. \A b \in Path[final'] : Num[b] <= row.last => b \in Path[final]
        BY <1>1, <1>2, <2>1, <2>2
    <2> QED
        BY <1>1, <2>1, <2>2, <2>3
<1>4. RowsAreFinal'
    BY <1>3 DEF RowsAreFinal
<1>5. ASSUME NEW r \in Reader
      PROVE  ReaderInv(r)'
    BY <1>1 DEF KeptInv, ReaderInv, NextIsNewest, HeldOnTheWay, HeldContinues, After, Newest,
                readVars
<1> QED
    BY <1>4, <1>5

\* A step of one reader is none of another's.
LEMMA OthersStay ==
    ASSUME KeptInv, NEW r \in Reader, UNCHANGED final,
           \A q \in Reader \ {r} :
               /\ stage'[q] = stage[q] /\ next'[q] = next[q]
               /\ held'[q] = held[q] /\ given'[q] = given[q],
           ReaderInv(r)'
    PROVE  \A q \in Reader : ReaderInv(q)'
<1>1. ASSUME NEW q \in Reader \ {r}
      PROVE  ReaderInv(q)'
    BY DEF KeptInv, ReaderInv, NextIsNewest, HeldOnTheWay, HeldContinues, After, Newest
<1> QED
    BY <1>1

LEMMA KeptInvInit == Init => KeptInv
<1> SUFFICES ASSUME Init PROVE KeptInv
    OBVIOUS
<1>1. TypeOK
    BY ChainAssumption, CacheAssumption DEF Init, TypeOK, NoAnswer, Cursor
<1>2. FinalIsCanonical /\ RowsAreFinal
    BY DEF Init, FinalIsCanonical, RowsAreFinal
<1>3. \A r \in Reader : ReaderInv(r)
    BY DEF Init, ReaderInv, NextIsNewest, HeldOnTheWay, HeldContinues
<1> QED
    BY <1>1, <1>2, <1>3 DEF KeptInv

LEMMA KeptInvPortal == KeptInv /\ (NewBlock \/ Reorganise \/ Finalize) => KeptInv'
<1> SUFFICES ASSUME KeptInv, NewBlock \/ Reorganise \/ Finalize PROVE KeptInv'
    OBVIOUS
<1>1. UNCHANGED <<data, readVars, given, runs>>
    BY DEF NewBlock, Reorganise, Finalize
<1>2. tip \in Block /\ final \in Path[tip] /\ final \in Block
    BY DEF KeptInv, TypeOK, FinalIsCanonical
<1>3. tip' \in Block /\ final' \in Block /\ final \in Path[final'] /\ final' \in Path[tip']
    <2>1. CASE NewBlock \/ Reorganise
        BY <1>2, <2>1, ChainAssumption DEF NewBlock, Reorganise
    <2>2. CASE Finalize
        BY <1>2, <2>2, ChainAssumption DEF Finalize
    <2> QED
        BY <2>1, <2>2
<1>4. reorgs' \in 0..MaxReorgs
    BY CacheAssumption DEF NewBlock, Reorganise, Finalize, KeptInv, TypeOK
<1>5. TypeOK'
    BY <1>1, <1>3, <1>4 DEF KeptInv, TypeOK, readVars
<1> QED
    BY <1>1, <1>3, <1>5, FinalMovesOn DEF KeptInv, FinalIsCanonical

LEMMA KeptInvStart ==
    ASSUME KeptInv, NEW r \in Reader, Start(r)
    PROVE  KeptInv'
<1>1. given[r] \in Seq(Block) /\ FromBlock \in Nat /\ Num \in [Block -> Nat]
    BY ChainAssumption, CacheAssumption DEF KeptInv, TypeOK
<1>2. Newest(r) \in Cursor /\ (Newest(r) # None => Newest(r) \in Block)
    BY <1>1 DEF Newest, Cursor
<1>3. /\ next' = [next EXCEPT ![r] = [number |-> After(r), hash |-> Newest(r)]]
      /\ stage'[r] \in {"cached", "done"}
      /\ stage' \in [Reader -> {"stopped", "cached", "portal", "saved", "done", "failed", "halted"}]
      /\ \A q \in Reader \ {r} : stage'[q] = stage[q]
    BY DEF Start, After, KeptInv, TypeOK
<1>4. After(r) \in Nat
    BY <1>1, <1>2 DEF After
<1>5. next' \in [Reader -> [number : Nat, hash : Cursor]]
    BY <1>2, <1>3, <1>4 DEF KeptInv, TypeOK
<1>6. TypeOK'
    BY <1>3, <1>5 DEF Start, portalVars, KeptInv, TypeOK
<1>7. held[r] = NoAnswer
    BY DEF Start, KeptInv, ReaderInv, HeldOnTheWay
<1>8. next'[r] = [number |-> After(r), hash |-> Newest(r)]
    BY <1>3 DEF KeptInv, TypeOK
<1>9. ReaderInv(r)'
    BY <1>3, <1>7, <1>8
    DEF Start, ReaderInv, NextIsNewest, HeldOnTheWay, HeldContinues, After, Newest
<1>10. \A q \in Reader : ReaderInv(q)'
    BY <1>3, <1>9, OthersStay DEF Start, portalVars, KeptInv, TypeOK
<1> QED
    BY <1>6, <1>10 DEF Start, portalVars, KeptInv, FinalIsCanonical, RowsAreFinal

\* The block a replay ends with is the row's last one.
LEMMA RowEnds ==
    ASSUME KeptInv, NEW row \in data
    PROVE  /\ row.blocks \in SUBSET Path[final] /\ row.blocks \in SUBSET Block
           /\ row.blocks # {} /\ Last(row.blocks) \in row.blocks
           /\ Num[Last(row.blocks)] = row.last
           /\ Cardinality(row.blocks) \in Nat \ {0}
           /\ InOrder(row.blocks) \in Seq(Block)
           /\ Len(InOrder(row.blocks)) = Cardinality(row.blocks)
           /\ InOrder(row.blocks)[Cardinality(row.blocks)] = Last(row.blocks)
<1>1. final \in Block /\ Path[final] \in SUBSET Block
    BY ChainAssumption DEF KeptInv, TypeOK
<1>2. row.blocks \in SUBSET Path[final]
    BY DEF KeptInv, RowsAreFinal
<1>3. PICK b \in row.blocks : Num[b] = row.last
    BY DEF KeptInv, RowsAreFinal
<1>4. Last(row.blocks) \in row.blocks /\ \A c \in row.blocks : Num[c] <= Num[Last(row.blocks)]
    BY <1>1, <1>2, <1>3, LastBlock
<1>5. Num[Last(row.blocks)] <= row.last /\ row.last <= Num[Last(row.blocks)]
    BY <1>3, <1>4 DEF KeptInv, RowsAreFinal
<1>6. Num[Last(row.blocks)] = row.last
    BY <1>1, <1>2, <1>3, <1>4, <1>5, ChainAssumption
<1>7. /\ Cardinality(row.blocks) \in Nat \ {0}
      /\ InOrder(row.blocks)[Cardinality(row.blocks)] = Last(row.blocks)
    BY <1>1, <1>2, <1>4, InOrderEnds
<1>8. /\ InOrder(row.blocks) \in Seq(row.blocks)
      /\ Len(InOrder(row.blocks)) = Cardinality(row.blocks)
    BY <1>1, <1>2, InOrderAscends
<1>9. InOrder(row.blocks) \in Seq(Block)
    BY <1>1, <1>2, <1>8, SeqMonotonic
<1> QED
    BY <1>1, <1>2, <1>4, <1>6, <1>7, <1>8, <1>9

\* A sequence that is appended ends the whole.
LEMMA ConcatEnds ==
    ASSUME NEW S, NEW s \in Seq(S), NEW t \in Seq(S), Len(t) # 0
    PROVE  /\ s \o t \in Seq(S) /\ s \o t # <<>>
           /\ (s \o t)[Len(s \o t)] = t[Len(t)]
<1>1. s \o t \in Seq(S) /\ Len(s) \in Nat /\ Len(t) \in Nat /\ Len(s \o t) = Len(s) + Len(t)
    OBVIOUS
<1>2. (s \o t)[Len(s) + Len(t)] = t[Len(t)]
    BY <1>1
<1> QED
    BY <1>1, <1>2

LEMMA KeptInvReplay ==
    ASSUME KeptInv, NEW r \in Reader, Replay(r)
    PROVE  KeptInv'
<1>1. PICK row \in Rows(r) :
        /\ given' = [given EXCEPT ![r] = @ \o InOrder(row.blocks)]
        /\ next' = [next EXCEPT ![r] = [number |-> Num[Last(row.blocks)] + 1,
                                        hash   |-> Last(row.blocks)]]
    BY DEF Replay
<1>2. row \in data
    BY DEF Rows
<1> DEFINE x == Last(row.blocks)
           I == InOrder(row.blocks)
           n == Cardinality(row.blocks)
<1>3. x \in Block /\ n \in Nat \ {0} /\ I \in Seq(Block) /\ Len(I) = n /\ I[n] = x
    BY <1>2, RowEnds
<1>4. x # None /\ Num[x] \in Nat
    BY <1>3, ChainAssumption
<1> HIDE DEF x, I, n
<1>5. given[r] \in Seq(Block)
    BY DEF KeptInv, TypeOK
<1>6. /\ given'[r] \in Seq(Block) /\ given'[r] # <<>>
      /\ given'[r][Len(given'[r])] = x
    <2>1. given'[r] = given[r] \o I
        BY <1>1 DEF I, KeptInv, TypeOK
    <2> QED
        BY <1>3, <1>5, <2>1, ConcatEnds
<1>7. given' \in [Reader -> Seq(Block)]
    BY <1>1, <1>3, <1>5 DEF I, KeptInv, TypeOK
<1>8. next' \in [Reader -> [number : Nat, hash : Cursor]]
      /\ next'[r] = [number |-> Num[x] + 1, hash |-> x]
    BY <1>1, <1>3, <1>4 DEF x, KeptInv, TypeOK, Cursor
<1>9. TypeOK'
    BY <1>7, <1>8 DEF Replay, portalVars, KeptInv, TypeOK
<1>10. held[r] = NoAnswer /\ stage[r] = "cached"
    BY DEF Replay, KeptInv, ReaderInv, HeldOnTheWay
<1>11. Newest(r)' = x /\ After(r)' = Num[x] + 1
    BY <1>4, <1>6 DEF Newest, After
<1>12. ReaderInv(r)'
    BY <1>8, <1>10, <1>11 DEF Replay, ReaderInv, NextIsNewest, HeldOnTheWay, HeldContinues
<1>13. \A q \in Reader : ReaderInv(q)'
    <2>1. \A q \in Reader \ {r} : /\ stage'[q] = stage[q] /\ next'[q] = next[q]
                                  /\ held'[q] = held[q] /\ given'[q] = given[q]
        BY <1>1 DEF Replay, KeptInv, TypeOK
    <2> QED
        BY <1>12, <2>1, OthersStay DEF Replay, portalVars
<1> QED
    BY <1>9, <1>13 DEF Replay, portalVars, KeptInv, FinalIsCanonical, RowsAreFinal

LEMMA KeptInvLeaveCache ==
    ASSUME KeptInv, NEW r \in Reader, LeaveCache(r)
    PROVE  KeptInv'
<1>1. /\ stage'[r] \in {"done", "portal"}
      /\ stage' \in [Reader -> {"stopped", "cached", "portal", "saved", "done", "failed", "halted"}]
      /\ \A q \in Reader \ {r} : stage'[q] = stage[q]
    BY DEF LeaveCache, KeptInv, TypeOK
<1>2. TypeOK'
    BY <1>1 DEF LeaveCache, portalVars, KeptInv, TypeOK
<1>3. held[r] = NoAnswer /\ next[r] = [number |-> After(r), hash |-> Newest(r)]
    BY DEF LeaveCache, KeptInv, ReaderInv, HeldOnTheWay, NextIsNewest
<1>4. ReaderInv(r)'
    BY <1>1, <1>3
    DEF LeaveCache, ReaderInv, NextIsNewest, HeldOnTheWay, HeldContinues, After, Newest
<1>5. \A q \in Reader : ReaderInv(q)'
    BY <1>1, <1>4, OthersStay DEF LeaveCache, portalVars
<1> QED
    BY <1>2, <1>5 DEF LeaveCache, portalVars, KeptInv, FinalIsCanonical, RowsAreFinal

LEMMA KeptInvReceive ==
    ASSUME KeptInv, NEW r \in Reader, Receive(r)
    PROVE  KeptInv'
<1>1. PICK last \in {b \in Path[tip] : next[r].number <= Num[b] /\ Num[b] <= end[r]},
           head \in Path[final] \cup {None} :
        /\ held' = [held EXCEPT ![r] =
             [blocks |-> {b \in Path[last] : next[r].number <= Num[b]}, head |-> head]]
        /\ next' = [next EXCEPT ![r] = [number |-> Num[last] + 1, hash |-> last]]
    BY DEF Receive
<1>2. held[r] = NoAnswer /\ stage[r] = "portal"
    BY DEF Receive, Asking
<1>3. next[r].number = After(r) /\ next[r].hash = Newest(r)
    <2>1. NextIsNewest(r)
        BY DEF KeptInv, ReaderInv
    <2>2. next[r] = [number |-> After(r), hash |-> Newest(r)]
        BY <1>2, <2>1 DEF NextIsNewest
    <2> QED
        BY <2>2
<1>4. /\ tip \in Block /\ final \in Block /\ final \in Path[tip]
      /\ Path[tip] \in SUBSET Block /\ Path[final] \subseteq Path[tip]
      /\ \A b \in Block : Num[b] \in Nat /\ b # None
    BY ChainAssumption DEF KeptInv, TypeOK, FinalIsCanonical
<1>5. /\ last \in Path[tip] /\ last \in Block /\ last # None /\ After(r) <= Num[last]
      /\ head \in Cursor
      /\ last \in Path[last] /\ Path[last] \in SUBSET Block /\ Path[last] \subseteq Path[tip]
    BY <1>3, <1>4, ChainAssumption DEF Cursor
<1>6. /\ held'[r] = [blocks |-> {b \in Path[last] : After(r) <= Num[b]}, head |-> head]
      /\ next'[r] = [number |-> Num[last] + 1, hash |-> last]
    BY <1>1, <1>3 DEF KeptInv, TypeOK
<1>7. held' \in [Reader -> [blocks : SUBSET Block, head : Cursor]]
      /\ next' \in [Reader -> [number : Nat, hash : Cursor]]
    BY <1>1, <1>4, <1>5 DEF KeptInv, TypeOK, Cursor
<1>8. TypeOK'
    BY <1>7 DEF Receive, portalVars, KeptInv, TypeOK
<1>9. Newest(r)' = Newest(r) /\ After(r)' = After(r)
    BY DEF Receive, Newest, After
<1>10. held'[r] # NoAnswer
    BY <1>5, <1>6 DEF NoAnswer
<1>11. Newest(r) # None => Newest(r) \in Path[last]
    <2> SUFFICES ASSUME Newest(r) # None PROVE Newest(r) \in Path[last]
        OBVIOUS
    <2>1. Newest(r) \in Path[tip]
        BY <1>3 DEF Receive, Below
    <2>2. After(r) = Num[Newest(r)] + 1
        BY DEF After
    <2>3. Num[Newest(r)] <= Num[last]
        BY <1>4, <1>5, <2>1, <2>2
    <2> QED
        BY <1>4, <1>5, <2>1, <2>3, LowerIsAncestor
<1>12. ASSUME head # None
       PROVE  /\ head \in Path[final]
              /\ \A b \in Path[last] : Num[b] <= Num[head] => b \in Path[final]
    <2>1. head \in Path[final] /\ head \in Path[tip] /\ Path[head] \subseteq Path[final]
        BY <1>4, <1>12, ChainAssumption
    <2> QED
        BY <1>4, <1>5, <2>1, LowerIsAncestor
<1>13. HeldContinues(r)'
    BY <1>5, <1>6, <1>9, <1>11, <1>12 DEF Receive, portalVars, HeldContinues
<1>14. ReaderInv(r)'
    BY <1>2, <1>10, <1>13 DEF Receive, ReaderInv, NextIsNewest, HeldOnTheWay
<1>15. \A q \in Reader : ReaderInv(q)'
    <2>1. \A q \in Reader \ {r} : /\ stage'[q] = stage[q] /\ next'[q] = next[q]
                                  /\ held'[q] = held[q] /\ given'[q] = given[q]
        BY <1>1 DEF Receive, KeptInv, TypeOK
    <2> QED
        BY <1>14, <2>1, OthersStay DEF Receive, portalVars
<1> QED
    BY <1>8, <1>15 DEF Receive, portalVars, KeptInv, FinalIsCanonical, RowsAreFinal

\* What is kept of an answer is an interval of the final part of the chain.
LEMMA KeptIsFinal ==
    ASSUME KeptInv, NEW r \in Reader, held[r] # NoAnswer, Kept(r) # {}
    PROVE  LET row == Row(Kept(r))
           IN  /\ row \in [first : Nat, last : Nat, blocks : SUBSET Block]
               /\ \E b \in row.blocks : Num[b] = row.last
               /\ row.last <= Num[final]
               /\ row.blocks = {b \in Path[final] : row.first <= Num[b] /\ Num[b] <= row.last}
               /\ row.first = Num[First(Kept(r))] /\ First(Kept(r)) \in Kept(r)
               /\ After(r) <= row.first
               /\ Kept(r) \subseteq held[r].blocks
<1> DEFINE K == Kept(r)
           x == next[r].hash
           head == held[r].head
           f == First(K)
           l == Last(K)
<1>1. /\ x \in Block /\ held[r].blocks = {b \in Path[x] : After(r) <= Num[b]}
      /\ head # None =>
          /\ head \in Path[final]
          /\ \A b \in held[r].blocks : Num[b] <= Num[head] => b \in Path[final]
    BY DEF KeptInv, ReaderInv, HeldContinues
<1>2. final \in Block /\ Path[final] \in SUBSET Block /\ \A b \in Block : Num[b] \in Nat
    BY ChainAssumption DEF KeptInv, TypeOK
<1>3. head # None /\ K = {b \in held[r].blocks : Num[b] <= Num[head]}
    BY DEF Kept, NumOf
<1>4. K \subseteq Path[final] /\ K \subseteq Path[x] /\ K \in SUBSET Block
    BY <1>1, <1>2, <1>3
<1>5. f \in K /\ \A b \in K : Num[f] <= Num[b]
    BY <1>4, FirstBlock
<1>6. l \in K /\ \A b \in K : Num[b] <= Num[l]
    BY <1>2, <1>4, LastBlock
<1>7. Num[l] <= Num[final]
    BY <1>2, <1>4, <1>6, ChainAssumption
<1>8. After(r) <= Num[f]
    BY <1>1, <1>3, <1>5
<1>9. ASSUME NEW b \in Path[final], Num[f] <= Num[b], Num[b] <= Num[l]
      PROVE  b \in K
    <2>1. b \in Path[l]
        BY <1>2, <1>4, <1>6, <1>9, LowerIsAncestor
    <2>2. b \in Path[x]
        BY <1>1, <1>4, <1>6, <2>1, ChainAssumption
    <2>3. /\ Num[b] \in Nat /\ Num[f] \in Nat /\ Num[l] \in Nat /\ Num[head] \in Nat
          /\ After(r) \in Int
        <3>1. Newest(r) # None => Newest(r) \in Block
            BY DEF KeptInv, TypeOK, Newest
        <3>2. After(r) \in Int
            BY <1>2, <3>1, CacheAssumption DEF After
        <3>3. b \in Block /\ f \in Block /\ l \in Block /\ head \in Block
            BY <1>1, <1>2, <1>3, <1>4, <1>5, <1>6
        <3> QED
            BY <1>2, <3>2, <3>3
    <2>4. Num[l] <= Num[head]
        BY <1>3, <1>6
    <2> QED
        BY <1>1, <1>3, <1>8, <1>9, <2>2, <2>3, <2>4
<1>10. K = {b \in Path[final] : Num[f] <= Num[b] /\ Num[b] <= Num[l]}
    BY <1>4, <1>5, <1>6, <1>9
<1>11. Row(K) = [first |-> Num[f], last |-> Num[l], blocks |-> K]
    BY DEF Row
<1> HIDE DEF f, l, K
<1>12. Row(K) \in [first : Nat, last : Nat, blocks : SUBSET Block]
    BY <1>2, <1>4, <1>5, <1>6, <1>11
<1>13. K \subseteq held[r].blocks
    BY <1>3
<1>14. Row(K).first = Num[f] /\ Row(K).last = Num[l] /\ Row(K).blocks = K
    BY <1>11
<1>15. /\ \E b \in Row(K).blocks : Num[b] = Row(K).last
       /\ Row(K).last <= Num[final]
       /\ Row(K).blocks = {b \in Path[final] : Row(K).first <= Num[b] /\ Num[b] <= Row(K).last}
       /\ Row(K).first = Num[f] /\ f \in K
       /\ After(r) <= Row(K).first
    BY <1>5, <1>6, <1>7, <1>8, <1>10, <1>14
<1> QED
    BY <1>12, <1>13, <1>15 DEF f, K

LEMMA KeptInvSave ==
    ASSUME KeptInv, NEW r \in Reader, Save(r)
    PROVE  KeptInv'
<1>1. /\ stage[r] = "portal" /\ held[r] # NoAnswer
      /\ UNCHANGED <<portalVars, end, next, held, given, runs>>
    BY DEF Save
<1>2. /\ stage'[r] \in {"saved", "failed"}
      /\ stage' \in [Reader -> {"stopped", "cached", "portal", "saved", "done", "failed", "halted"}]
      /\ \A q \in Reader \ {r} : stage'[q] = stage[q]
    BY DEF Save, KeptInv, TypeOK
<1>3. data' = data \/ (Kept(r) # {} /\ data' = data \cup {Row(Kept(r))})
    BY DEF Save
<1>4. data' \subseteq [first : Nat, last : Nat, blocks : SUBSET Block]
    BY <1>1, <1>3, KeptIsFinal DEF KeptInv, TypeOK
<1>5. TypeOK'
    BY <1>1, <1>2, <1>4 DEF portalVars, KeptInv, TypeOK
<1>6. RowsAreFinal'
    <2> SUFFICES ASSUME NEW row \in data'
                 PROVE  /\ \E b \in row.blocks : Num[b] = row.last
                        /\ row.last <= Num[final]
                        /\ row.blocks = {b \in Path[final] : row.first <= Num[b] /\ Num[b] <= row.last}
        BY <1>1 DEF RowsAreFinal, portalVars
    <2>1. CASE row \in data
        BY <2>1 DEF KeptInv, RowsAreFinal
    <2>2. CASE Kept(r) # {} /\ row = Row(Kept(r))
        BY <1>1, <2>2, KeptIsFinal
    <2> QED
        BY <1>3, <2>1, <2>2
<1>7. HeldContinues(r)
    BY DEF KeptInv, ReaderInv
<1>8. ReaderInv(r)'
    BY <1>1, <1>2, <1>7
    DEF portalVars, ReaderInv, NextIsNewest, HeldOnTheWay, HeldContinues, After, Newest
<1>9. \A q \in Reader : ReaderInv(q)'
    BY <1>1, <1>2, <1>8, OthersStay DEF portalVars
<1> QED
    BY <1>1, <1>5, <1>6, <1>9 DEF portalVars, KeptInv, FinalIsCanonical

\* What a target has, and what it needs next.
LEMMA NewestIsLast ==
    ASSUME KeptInv, NEW r \in Reader
    PROVE  /\ given[r] \in Seq(Block) /\ Len(given[r]) \in Nat
           /\ (Newest(r) = None <=> given[r] = <<>>)
           /\ given[r] # <<>> =>
                /\ Len(given[r]) \in 1..Len(given[r])
                /\ Newest(r) = given[r][Len(given[r])] /\ Newest(r) \in Block
                /\ After(r) = Num[given[r][Len(given[r])]] + 1
           /\ given[r] = <<>> => After(r) = FromBlock
           /\ After(r) \in Nat
<1>1. given[r] \in Seq(Block) /\ Len(given[r]) \in Nat
    BY DEF KeptInv, TypeOK
<1>2. given[r] # <<>> =>
        /\ Len(given[r]) \in 1..Len(given[r])
        /\ Newest(r) = given[r][Len(given[r])] /\ Newest(r) \in Block
    BY <1>1 DEF Newest
<1>3. Newest(r) = None <=> given[r] = <<>>
    BY <1>2, ChainAssumption DEF Newest
<1>4. \A b \in Block : Num[b] \in Nat
    BY ChainAssumption
<1> QED
    BY <1>1, <1>2, <1>3, <1>4, CacheAssumption DEF After

\* An answer is the rest of the branch of its last block.
LEMMA HeldIsRest ==
    ASSUME KeptInv, NEW r \in Reader, held[r] # NoAnswer
    PROVE  LET x == next[r].hash
           IN  /\ x \in Block /\ next[r].number = Num[x] + 1
               /\ held[r].blocks = Rest(given[r], x) /\ Continues(given[r], x)
<1> DEFINE x == next[r].hash
           s == given[r]
<1>1. /\ x \in Block /\ next[r].number = Num[x] + 1
      /\ After(r) <= Num[x] /\ (Newest(r) # None => Newest(r) \in Path[x])
      /\ held[r].blocks = {b \in Path[x] : After(r) <= Num[b]}
    BY DEF KeptInv, ReaderInv, HeldContinues
<1>2. x \in Path[x]
    BY <1>1, ChainAssumption
<1>3. After(r) = IF s = <<>> THEN FromBlock ELSE Num[s[Len(s)]] + 1
    BY NewestIsLast
<1>4. held[r].blocks = Rest(s, x) /\ x \in Rest(s, x)
    BY <1>1, <1>2, <1>3 DEF Rest
<1>5. s # <<>> => s[Len(s)] \in Path[x]
    BY <1>1, NewestIsLast
<1> QED
    BY <1>1, <1>4, <1>5 DEF Continues

LEMMA KeptInvHandOver ==
    ASSUME KeptInv, NEW r \in Reader, HandOver(r)
    PROVE  KeptInv'
<1> DEFINE x == next[r].hash
           t == given[r] \o InOrder(Rest(given[r], x))
<1>1. /\ stage[r] = "saved" /\ held[r] # NoAnswer
      /\ UNCHANGED <<portalVars, data, end, next, runs>>
    BY DEF HandOver, KeptInv, ReaderInv, HeldOnTheWay
<1>2. /\ x \in Block /\ next[r].number = Num[x] + 1
      /\ held[r].blocks = Rest(given[r], x) /\ Continues(given[r], x)
    BY <1>1, HeldIsRest
<1>3. t \in Seq(Block) /\ t # <<>> /\ t[Len(t)] = x
    <2>1. given[r] \in Seq(Block)
        BY NewestIsLast
    <2> HIDE DEF x
    <2> QED
        BY <1>2, <2>1, RestIsAppended
<1>4. given' = [given EXCEPT ![r] = t]
    BY <1>2 DEF HandOver
<1> HIDE DEF t
<1>5. given' \in [Reader -> Seq(Block)] /\ given'[r] = t
      /\ \A q \in Reader \ {r} : given'[q] = given[q]
    BY <1>3, <1>4 DEF KeptInv, TypeOK
<1>6. /\ stage' \in [Reader -> {"stopped", "cached", "portal", "saved", "done", "failed", "halted"}]
      /\ held' \in [Reader -> [blocks : SUBSET Block, head : Cursor]]
      /\ held'[r] = NoAnswer /\ stage'[r] = "portal"
      /\ \A q \in Reader \ {r} : stage'[q] = stage[q] /\ held'[q] = held[q]
    BY DEF HandOver, KeptInv, TypeOK, NoAnswer, Cursor
<1>7. TypeOK'
    BY <1>1, <1>5, <1>6 DEF portalVars, KeptInv, TypeOK
<1>8. Newest(r)' = x /\ After(r)' = Num[x] + 1
    BY <1>2, <1>3, <1>5, ChainAssumption DEF Newest, After
<1>9. next'[r] = [number |-> Num[x] + 1, hash |-> x]
    BY <1>1, <1>2 DEF KeptInv, TypeOK
<1>10. ReaderInv(r)'
    BY <1>6, <1>8, <1>9 DEF ReaderInv, NextIsNewest, HeldOnTheWay, HeldContinues
<1>11. \A q \in Reader : ReaderInv(q)'
    BY <1>1, <1>5, <1>6, <1>10, OthersStay DEF portalVars
<1> QED
    BY <1>1, <1>7, <1>11 DEF portalVars, KeptInv, FinalIsCanonical, RowsAreFinal

LEMMA KeptInvQueryIsRead ==
    ASSUME KeptInv, NEW r \in Reader, QueryIsRead(r)
    PROVE  KeptInv'
<1>1. /\ stage'[r] = "done" /\ held[r] = NoAnswer
      /\ stage' \in [Reader -> {"stopped", "cached", "portal", "saved", "done", "failed", "halted"}]
      /\ \A q \in Reader \ {r} : stage'[q] = stage[q]
      /\ UNCHANGED <<portalVars, data, end, next, held, given, runs>>
    BY DEF QueryIsRead, Asking, KeptInv, TypeOK
<1>2. TypeOK'
    BY <1>1 DEF portalVars, KeptInv, TypeOK
<1>3. ReaderInv(r)'
    BY <1>1 DEF ReaderInv, NextIsNewest, HeldOnTheWay, HeldContinues
<1>4. \A q \in Reader : ReaderInv(q)'
    BY <1>1, <1>3, OthersStay DEF portalVars
<1> QED
    BY <1>1, <1>2, <1>4 DEF portalVars, KeptInv, FinalIsCanonical, RowsAreFinal

\* A rollback leaves a beginning of what the target has.
LEMMA RollBackCuts ==
    ASSUME KeptInv, NEW r \in Reader, RollBack(r)
    PROVE  \E n \in 0..Len(given[r]) :
             /\ given' = [given EXCEPT ![r] = SubSeq(given[r], 1, n)]
             /\ SubSeq(given[r], 1, n) \in Seq(Block) /\ Len(SubSeq(given[r], 1, n)) = n
             /\ \A i \in 1..n : SubSeq(given[r], 1, n)[i] = given[r][i]
<1> DEFINE s == given[r]
           common == {i \in 1..Count(r) : given[r][i] \in Path[tip]}
           n == Cardinality(common)
<1>1. s \in Seq(Block) /\ Len(s) \in Nat
    BY NewestIsLast
<1>2. IsFiniteSet(1..Len(s)) /\ Cardinality(1..Len(s)) = Len(s)
    <2> HIDE DEF s
    <2>1. Len(s) \in Int /\ 1 \in Int
        BY <1>1
    <2>2. IsFiniteSet(1..Len(s)) /\ Cardinality(1..Len(s)) = IF 1 > Len(s) THEN 0 ELSE Len(s) - 1 + 1
        BY <2>1, FS_Interval
    <2> QED
        BY <1>1, <2>2
<1>3. common \in SUBSET (1..Len(s))
    BY DEF Count
<1>4. n \in Nat /\ n <= Len(s)
    BY <1>2, <1>3, FS_Subset, FS_CardinalityType
<1>5. given' = [given EXCEPT ![r] = SubSeq(s, 1, n)]
    BY DEF RollBack
<1> HIDE DEF n, s
<1>6. /\ SubSeq(s, 1, n) \in Seq(Block) /\ Len(SubSeq(s, 1, n)) = n
      /\ \A i \in 1..n : SubSeq(s, 1, n)[i] = s[i]
    BY <1>1, <1>4
<1>7. n \in 0..Len(s)
    BY <1>1, <1>4
<1> HIDE DEF common
<1>8. /\ n \in 0..Len(given[r])
      /\ given' = [given EXCEPT ![r] = SubSeq(given[r], 1, n)]
      /\ SubSeq(given[r], 1, n) \in Seq(Block) /\ Len(SubSeq(given[r], 1, n)) = n
      /\ \A i \in 1..n : SubSeq(given[r], 1, n)[i] = given[r][i]
    BY <1>5, <1>6, <1>7 DEF s
<1> QED
    BY <1>8, Zenon

LEMMA KeptInvRollBack ==
    ASSUME KeptInv, NEW r \in Reader, RollBack(r)
    PROVE  KeptInv'
<1>1. /\ stage'[r] \in {"halted", "stopped"} /\ held[r] = NoAnswer
      /\ stage' \in [Reader -> {"stopped", "cached", "portal", "saved", "done", "failed", "halted"}]
      /\ \A q \in Reader \ {r} : stage'[q] = stage[q]
      /\ UNCHANGED <<portalVars, data, end, next, held, runs>>
    BY DEF RollBack, Forked, Asking, KeptInv, TypeOK
<1>2. given' \in [Reader -> Seq(Block)] /\ \A q \in Reader \ {r} : given'[q] = given[q]
    BY RollBackCuts DEF KeptInv, TypeOK
<1>3. TypeOK'
    BY <1>1, <1>2 DEF portalVars, KeptInv, TypeOK
<1>4. ReaderInv(r)'
    BY <1>1 DEF ReaderInv, NextIsNewest, HeldOnTheWay, HeldContinues
<1>5. \A q \in Reader : ReaderInv(q)'
    BY <1>1, <1>2, <1>4, OthersStay DEF portalVars
<1> QED
    BY <1>1, <1>3, <1>5 DEF portalVars, KeptInv, FinalIsCanonical, RowsAreFinal

LEMMA KeptInvRestart ==
    ASSUME KeptInv, NEW r \in Reader, RunAgain(r) \/ Retry(r)
    PROVE  KeptInv'
<1>1. /\ Restart(r)
      /\ given' = given \/ given' = [given EXCEPT ![r] = <<>>]
    BY DEF RunAgain, Retry
<1>2. /\ stage'[r] = "stopped" /\ held'[r] = NoAnswer
      /\ stage' \in [Reader -> {"stopped", "cached", "portal", "saved", "done", "failed", "halted"}]
      /\ held' \in [Reader -> [blocks : SUBSET Block, head : Cursor]]
      /\ end' \in [Reader -> Ends]
      /\ \A q \in Reader \ {r} : stage'[q] = stage[q] /\ held'[q] = held[q]
      /\ UNCHANGED <<portalVars, data, next>>
    BY <1>1 DEF Restart, KeptInv, TypeOK, NoAnswer, Cursor
<1>3. given' \in [Reader -> Seq(Block)] /\ \A q \in Reader \ {r} : given'[q] = given[q]
    <2>1. given \in [Reader -> Seq(Block)] /\ <<>> \in Seq(Block)
        BY DEF KeptInv, TypeOK
    <2>2. CASE given' = given
        BY <2>1, <2>2
    <2>3. CASE given' = [given EXCEPT ![r] = <<>>]
        <3> DEFINE empty == <<>>
        <3>1. empty \in Seq(Block) /\ given' = [given EXCEPT ![r] = empty]
            BY <2>1, <2>3
        <3> HIDE DEF empty
        <3> QED
            BY <2>1, <3>1
    <2> QED
        BY <1>1, <2>2, <2>3
<1>4. runs' \in 0..MaxRuns
    BY CacheAssumption DEF RunAgain, Retry, KeptInv, TypeOK
<1>5. TypeOK'
    BY <1>2, <1>3, <1>4 DEF portalVars, KeptInv, TypeOK
<1>6. ReaderInv(r)'
    BY <1>2 DEF ReaderInv, NextIsNewest, HeldOnTheWay, HeldContinues
<1>7. \A q \in Reader : ReaderInv(q)'
    BY <1>2, <1>3, <1>6, OthersStay DEF portalVars
<1> QED
    BY <1>2, <1>5, <1>7 DEF portalVars, KeptInv, FinalIsCanonical, RowsAreFinal

LEMMA KeptInvNext == KeptInv /\ [Next]_vars => KeptInv'
<1> SUFFICES ASSUME KeptInv, [Next]_vars PROVE KeptInv'
    OBVIOUS
<1>1. CASE NewBlock \/ Reorganise \/ Finalize
    BY <1>1, KeptInvPortal
<1>2. CASE \E r \in Reader : ReadStep(r) \/ RunAgain(r)
    <2>1. PICK r \in Reader : ReadStep(r) \/ RunAgain(r)
        BY <1>2
    <2> QED
        BY <2>1, KeptInvStart, KeptInvReplay, KeptInvLeaveCache, KeptInvReceive, KeptInvSave,
           KeptInvHandOver, KeptInvQueryIsRead, KeptInvRollBack, KeptInvRestart DEF ReadStep
<1>3. CASE UNCHANGED vars
    BY <1>3 DEF vars, portalVars, readVars, KeptInv, TypeOK, FinalIsCanonical, RowsAreFinal,
                ReaderInv, NextIsNewest, HeldOnTheWay, HeldContinues, After, Newest
<1> QED
    BY <1>1, <1>2, <1>3 DEF Next

\* In every reachable state the rows are intervals of the final part of the chain, and what a
\* reader asks for and holds continues what its target has (node-portal-cache.ts:103-166).
THEOREM AlwaysKeptInv == Spec => []KeptInv
BY KeptInvInit, KeptInvNext, PTL DEF Spec

\* What the table holds is canonical and stays so, whatever was reorganised while a batch was
\* on its way and after it was kept: RS-20 (node-portal-cache.ts:145-166).
THEOREM RowsStayCanonical == Spec => []KeptStaysCanonical
<1>1. KeptInv => KeptStaysCanonical
    <2> SUFFICES ASSUME KeptInv, NEW row \in data
                 PROVE  row.blocks = {b \in Path[tip] : row.first <= Num[b] /\ Num[b] <= row.last}
        BY DEF KeptStaysCanonical
    <2>1. /\ tip \in Block /\ final \in Path[tip] /\ Path[final] \subseteq Path[tip]
          /\ Path[tip] \in SUBSET Block /\ \A b \in Block : Num[b] \in Nat
        BY ChainAssumption DEF KeptInv, TypeOK, FinalIsCanonical
    <2>2. /\ row.last \in Nat /\ row.last <= Num[final]
          /\ row.blocks = {b \in Path[final] : row.first <= Num[b] /\ Num[b] <= row.last}
        BY DEF KeptInv, TypeOK, RowsAreFinal
    <2>3. \A b \in Path[tip] : Num[b] <= row.last => b \in Path[final]
        BY <2>1, <2>2, LowerIsAncestor
    <2> QED
        BY <2>1, <2>2, <2>3
<1> QED
    BY <1>1, AlwaysKeptInv, PTL

-----------------------------------------------------------------------------
(* A pipe with a table of its own is given one branch.                     *)

LEMMA GivenIsOneBranchEach ==
    GivenIsOneBranch <=> \A r \in Reader : OneBranch(given[r])
BY DEF GivenIsOneBranch, OneBranch, Count

\* Every block a target has is on the branch of its newest one.
LEMMA GivenIsOnBranch ==
    ASSUME KeptInv, NEW r \in Reader, OneBranch(given[r]), NEW i \in 1..Count(r)
    PROVE  Newest(r) # None /\ given[r][i] \in Path[Newest(r)]
<1> DEFINE s == given[r]
<1>1. Len(s) \in Nat /\ s # <<>> /\ Newest(r) # None
    BY NewestIsLast DEF Count
<1>2. Len(s) \in 1..Len(s) /\ Newest(r) = s[Len(s)]
    BY <1>1, NewestIsLast
<1>3. {s[j] : j \in 1..Len(s)} = {b \in Path[s[Len(s)]] : FromBlock <= Num[b]}
    BY <1>2 DEF OneBranch
<1> QED
    BY <1>1, <1>2, <1>3 DEF Count

\* A beginning of one branch is one branch.
LEMMA PrefixIsOneBranch ==
    ASSUME NEW s \in Seq(Block), OneBranch(s), NEW t, NEW n \in 0..Len(s), Len(t) = n,
           \A i \in 1..n : t[i] = s[i]
    PROVE  OneBranch(t)
<1> SUFFICES ASSUME NEW i \in 1..n
             PROVE  /\ \A j \in 1..(i - 1) : Num[t[j]] < Num[t[i]]
                    /\ {t[j] : j \in 1..i} = {b \in Path[t[i]] : FromBlock <= Num[b]}
    BY DEF OneBranch
<1>1. i \in 1..Len(s) /\ t[i] = s[i] /\ \A j \in 1..i : t[j] = s[j]
    OBVIOUS
<1>2. \A j \in 1..(i - 1) : j \in 1..i
    OBVIOUS
<1>3. {t[j] : j \in 1..i} = {s[j] : j \in 1..i}
    BY <1>1
<1> QED
    BY <1>1, <1>2, <1>3 DEF OneBranch

\* A step that gives and holds nothing new leaves what is below the rows final.
LEMMA NothingNew ==
    ASSUME GivenInv, KeptInv', Path[final] \subseteq Path[final'], data' = data,
           \A r \in Reader :
               /\ \/ given'[r] = given[r]
                  \/ given'[r] = <<>>
                  \/ \E n \in 0..Len(given[r]) :
                        Len(given'[r]) = n /\ \A i \in 1..n : given'[r][i] = given[r][i]
               /\ held'[r] = held[r] \/ held'[r] = NoAnswer
    PROVE  GivenInv'
<1>1. ASSUME NEW r \in Reader
      PROVE  OneBranch(given'[r]) /\ \A row \in data' : BelowRowIsFinal(r, row)'
    <2>1. /\ OneBranch(given[r]) /\ given[r] \in Seq(Block)
          /\ \A row \in data : BelowRowIsFinal(r, row)
        BY NewestIsLast, GivenIsOneBranchEach DEF GivenInv, BelowRowsIsFinal
    <2>2. OneBranch(given'[r])
        <3>1. OneBranch(<<>>)
            BY DEF OneBranch
        <3> QED
            BY <2>1, <3>1, PrefixIsOneBranch
    <2>3. \A i \in 1..Len(given'[r]) : i \in 1..Len(given[r]) /\ given'[r][i] = given[r][i]
        <3>1. Len(given[r]) \in Nat
            BY <2>1
        <3>2. CASE given'[r] = given[r]
            BY <3>2
        <3>3. CASE given'[r] = <<>>
            BY <3>3
        <3>4. CASE \E n \in 0..Len(given[r]) :
                     Len(given'[r]) = n /\ \A i \in 1..n : given'[r][i] = given[r][i]
            BY <3>1, <3>4
        <3> QED
            BY <3>2, <3>3, <3>4
    <2>4. held'[r].blocks \subseteq held[r].blocks
        BY DEF NoAnswer
    <2> QED
        BY <2>1, <2>2, <2>3, <2>4 DEF BelowRowIsFinal, Count
<1> QED
    BY <1>1, GivenIsOneBranchEach DEF GivenInv, BelowRowsIsFinal, GivenIsOneBranch, OneBranch, Count

LEMMA GivenInvInit == Init => GivenInv
<1> SUFFICES ASSUME Init PROVE GivenInv
    OBVIOUS
<1>1. GivenIsOneBranch /\ BelowRowsIsFinal
    BY DEF Init, GivenIsOneBranch, Count, BelowRowsIsFinal
<1> QED
    BY <1>1, KeptInvInit DEF GivenInv

\* The rest of a branch is committed, and it is final below every row.
LEMMA GivenRest ==
    ASSUME GivenInv, KeptInv', NEW r \in Reader, NEW x \in Block, Continues(given[r], x),
           given' = [given EXCEPT ![r] = @ \o InOrder(Rest(given[r], x))],
           \A row \in data : \A b \in Rest(given[r], x) :
               Num[b] < row.first => b \in Path[final],
           UNCHANGED <<final, data>>,
           \A q \in Reader : held'[q] = held[q] \/ held'[q] = NoAnswer
    PROVE  GivenInv'
<1> DEFINE s == given[r]
           S == Rest(s, x)
           n == Cardinality(S)
           t == s \o InOrder(S)
<1>1. s \in Seq(Block) /\ Len(s) \in Nat /\ OneBranch(s) /\ S \in SUBSET Path[x]
    BY NewestIsLast, GivenIsOneBranchEach DEF GivenInv, Rest
<1>2. OneBranch(t)
    BY <1>1, OneBranchContinues
<1>3. /\ Len(t) = Len(s) + n /\ n \in Nat \ {0}
      /\ \A i \in 1..Len(s) : t[i] = s[i]
      /\ \A k \in 1..n : t[Len(s) + k] = InOrder(S)[k]
    <2>1. Continues(s, x)
        OBVIOUS
    <2> HIDE DEF s
    <2> QED
        BY <1>1, <2>1, RestIsAppended
<1>4. \A k \in 1..n : InOrder(S)[k] \in S
    BY <1>1, InOrderUpTo
<1>5. /\ given'[r] = t
      /\ \A q \in Reader \ {r} : given'[q] = given[q]
    BY DEF GivenInv, KeptInv, TypeOK
<1> HIDE DEF t, S, n
<1>6. ASSUME NEW q \in Reader
      PROVE  OneBranch(given'[q])
    BY <1>2, <1>5, GivenIsOneBranchEach DEF GivenInv
<1>7. ASSUME NEW i \in 1..Len(t)
      PROVE  t[i] \in S \/ (i \in 1..Len(s) /\ t[i] = s[i])
    <2>1. CASE i <= Len(s)
        BY <1>1, <1>3, <2>1
    <2>2. CASE i > Len(s)
        <3>1. i - Len(s) \in 1..n /\ i = Len(s) + (i - Len(s))
            BY <1>1, <1>3, <2>2
        <3> QED
            BY <1>3, <1>4, <3>1
    <2> QED
        BY <1>1, <2>1, <2>2
<1>8. ASSUME NEW q \in Reader, NEW row \in data
      PROVE  BelowRowIsFinal(q, row)'
    <2>1. BelowRowIsFinal(q, row)
        BY DEF GivenInv, BelowRowsIsFinal
    <2>2. \A b \in held'[q].blocks : Num[b] < row.first => b \in Path[final]
        BY <2>1 DEF BelowRowIsFinal, NoAnswer
    <2>3. \A i \in 1..Len(given'[q]) : Num[given'[q][i]] < row.first => given'[q][i] \in Path[final]
        <3>1. CASE q = r
            <4> SUFFICES ASSUME NEW i \in 1..Len(t), Num[t[i]] < row.first
                         PROVE  t[i] \in Path[final]
                BY <1>5, <3>1
            <4>1. CASE t[i] \in S
                BY <4>1 DEF S
            <4>2. CASE i \in 1..Len(s) /\ t[i] = s[i]
                BY <2>1, <3>1, <4>2 DEF BelowRowIsFinal, Count
            <4> QED
                BY <1>7, <4>1, <4>2
        <3>2. CASE q # r
            BY <1>5, <2>1, <3>2 DEF BelowRowIsFinal, Count
        <3> QED
            BY <3>1, <3>2
    <2> QED
        BY <2>2, <2>3 DEF BelowRowIsFinal, Count
<1>9. BelowRowsIsFinal'
    BY <1>8 DEF BelowRowsIsFinal
<1>10. GivenIsOneBranch'
    BY <1>6 DEF GivenIsOneBranch, OneBranch, Count
<1> QED
    BY <1>9, <1>10 DEF GivenInv

\* A row found by its first number continues what the target has.
LEMMA GivenInvReplay ==
    ASSUME GivenInv, NEW r \in Reader, Replay(r)
    PROVE  GivenInv'
<1>1. PICK row \in Rows(r) : given' = [given EXCEPT ![r] = @ \o InOrder(row.blocks)]
    BY DEF Replay
<1> DEFINE s == given[r]
           x == Last(row.blocks)
<1>2. KeptInv /\ KeptInv' /\ UNCHANGED <<portalVars, data, held>>
    BY KeptInvReplay DEF GivenInv, Replay
<1>3. row \in data /\ row.first = After(r)
    <2>1. NextIsNewest(r) /\ HeldOnTheWay(r) /\ stage[r] = "cached"
        BY <1>2 DEF KeptInv, ReaderInv, Replay
    <2>2. next[r] = [number |-> After(r), hash |-> Newest(r)]
        BY <2>1 DEF NextIsNewest, HeldOnTheWay
    <2>3. next[r].number = After(r)
        BY <2>2
    <2> QED
        BY <2>3 DEF Rows
<1>4. /\ row.blocks \in SUBSET Path[final] /\ x \in row.blocks /\ x \in Block
      /\ Num[x] = row.last
    BY <1>2, <1>3, RowEnds
<1>5. row.blocks = {b \in Path[final] : After(r) <= Num[b] /\ Num[b] <= row.last}
    BY <1>2, <1>3 DEF KeptInv, RowsAreFinal
<1>6. /\ final \in Block /\ Path[final] \in SUBSET Block /\ x \in Path[final]
      /\ Path[x] \subseteq Path[final] /\ \A b \in Block : Num[b] \in Nat
      /\ \A b \in Path[final] : b \in Path[x] <=> Num[b] <= Num[x]
    BY <1>2, <1>4, ChainAssumption DEF KeptInv, TypeOK
<1>7. After(r) = IF s = <<>> THEN FromBlock ELSE Num[s[Len(s)]] + 1
    BY <1>2, NewestIsLast
<1>8. row.blocks = Rest(s, x)
    <2>1. row.blocks = {b \in Path[x] : After(r) <= Num[b]}
        BY <1>4, <1>5, <1>6
    <2> QED
        BY <1>7, <2>1 DEF Rest
<1>9. s # <<>> => s[Len(s)] \in Path[x]
    <2> SUFFICES ASSUME s # <<>> PROVE s[Len(s)] \in Path[x]
        OBVIOUS
    <2>1. Len(s) \in 1..Count(r) /\ s[Len(s)] \in Block /\ After(r) = Num[s[Len(s)]] + 1
        BY <1>2, NewestIsLast DEF Count
    <2>2. BelowRowIsFinal(r, row)
        BY <1>3 DEF GivenInv, BelowRowsIsFinal
    <2>3. Num[s[Len(s)]] < row.first
        BY <1>3, <1>6, <2>1
    <2>4. s[Len(s)] \in Path[final]
        BY <2>1, <2>2, <2>3 DEF BelowRowIsFinal
    <2>5. After(r) <= Num[x]
        BY <1>4, <1>5
    <2> QED
        BY <1>4, <1>6, <2>1, <2>4, <2>5
<1>10. Continues(s, x)
    BY <1>4, <1>8, <1>9 DEF Continues
<1>11. \A other \in data : \A b \in Rest(s, x) : Num[b] < other.first => b \in Path[final]
    BY <1>4, <1>8
<1> QED
    BY <1>1, <1>2, <1>4, <1>8, <1>10, <1>11, GivenRest DEF portalVars

LEMMA GivenInvHandOver ==
    ASSUME GivenInv, NEW r \in Reader, HandOver(r)
    PROVE  GivenInv'
<1> DEFINE x == next[r].hash
<1>1. KeptInv /\ KeptInv'
    BY KeptInvHandOver DEF GivenInv
<1>2. held[r] # NoAnswer
    BY <1>1 DEF HandOver, KeptInv, ReaderInv, HeldOnTheWay
<1>3. x \in Block /\ held[r].blocks = Rest(given[r], x) /\ Continues(given[r], x)
    BY <1>1, <1>2, HeldIsRest
<1>4. \A row \in data : \A b \in Rest(given[r], x) : Num[b] < row.first => b \in Path[final]
    BY <1>3 DEF GivenInv, BelowRowsIsFinal, BelowRowIsFinal
<1>5. \A q \in Reader : held'[q] = held[q] \/ held'[q] = NoAnswer
    BY <1>1 DEF HandOver, KeptInv, TypeOK
<1> QED
    BY <1>1, <1>3, <1>4, <1>5, GivenRest DEF HandOver, portalVars

\* What an answer holds below a row is on the chain the answer came from, and final.
LEMMA GivenInvReceive ==
    ASSUME GivenInv, NEW r \in Reader, Receive(r)
    PROVE  GivenInv'
<1>1. KeptInv /\ KeptInv' /\ UNCHANGED <<portalVars, data, given>>
    BY KeptInvReceive DEF GivenInv, Receive
<1>2. PICK last \in Path[tip] : /\ held'[r].blocks \subseteq Path[last]
                                /\ \A q \in Reader \ {r} : held'[q] = held[q]
    BY <1>1 DEF Receive, KeptInv, TypeOK
<1>3. /\ tip \in Block /\ final \in Path[tip] /\ final \in Block /\ Path[tip] \in SUBSET Block
      /\ Path[last] \subseteq Path[tip] /\ \A b \in Block : Num[b] \in Nat
    BY <1>1, <1>2, ChainAssumption DEF KeptInv, TypeOK, FinalIsCanonical
<1>4. ASSUME NEW row \in data, NEW b \in Path[tip], Num[b] < row.first
      PROVE  b \in Path[final]
    <2>1. /\ row.blocks # {} /\ row.blocks \in SUBSET Block
          /\ Last(row.blocks) \in row.blocks /\ Num[Last(row.blocks)] = row.last
        BY <1>1, RowEnds
    <2>2. row.first <= row.last /\ row.last <= Num[final]
        BY <1>1, <2>1 DEF KeptInv, RowsAreFinal
    <2>3. row.first \in Nat /\ row.last \in Nat
        BY <1>1 DEF KeptInv, TypeOK
    <2>4. Num[b] <= Num[final]
        BY <1>3, <1>4, <2>2, <2>3
    <2> QED
        BY <1>3, <2>4, LowerIsAncestor
<1>5. ASSUME NEW q \in Reader, NEW row \in data
      PROVE  BelowRowIsFinal(q, row)'
    <2>1. BelowRowIsFinal(q, row)
        BY DEF GivenInv, BelowRowsIsFinal
    <2>2. \A b \in held'[q].blocks : Num[b] < row.first => b \in Path[final]
        BY <1>2, <1>3, <1>4, <2>1 DEF BelowRowIsFinal
    <2> QED
        BY <1>1, <2>1, <2>2 DEF BelowRowIsFinal, Count, portalVars
<1>6. BelowRowsIsFinal'
    BY <1>1, <1>5 DEF BelowRowsIsFinal
<1>7. GivenIsOneBranch'
    BY <1>1 DEF GivenInv, GivenIsOneBranch, Count
<1> QED
    BY <1>1, <1>6, <1>7 DEF GivenInv

\* A new row starts on the branch the target of its reader is given: everything the target has
\* or will be handed below the row are ancestors of the row's first block.
LEMMA GivenInvSave ==
    ASSUME OneReader, GivenInv, NEW r \in Reader, Save(r)
    PROVE  GivenInv'
<1>1. KeptInv /\ KeptInv' /\ held[r] # NoAnswer /\ UNCHANGED <<portalVars, held, given>>
    BY KeptInvSave DEF GivenInv, Save
<1>2. data' = data \/ (Kept(r) # {} /\ data' = data \cup {Row(Kept(r))})
    BY DEF Save
<1> DEFINE x == next[r].hash
           f == First(Kept(r))
<1>3. x \in Block /\ held[r].blocks = Rest(given[r], x) /\ Continues(given[r], x)
    BY <1>1, HeldIsRest
<1>4. Path[x] \in SUBSET Block /\ final \in Block /\ Path[final] \in SUBSET Block
      /\ \A b \in Block : Num[b] \in Nat
    BY <1>1, <1>3, ChainAssumption DEF KeptInv, TypeOK
<1>5. held[r].blocks \subseteq Path[x]
    BY <1>3 DEF Rest
<1>6. \A i \in 1..Count(r) : given[r][i] \in Path[x]
    <2> SUFFICES ASSUME NEW i \in 1..Count(r) PROVE given[r][i] \in Path[x]
        OBVIOUS
    <2>1. OneBranch(given[r])
        BY GivenIsOneBranchEach DEF GivenInv
    <2>2. Newest(r) # None /\ given[r][i] \in Path[Newest(r)]
        BY <1>1, <2>1, GivenIsOnBranch
    <2>3. Newest(r) \in Path[x]
        BY <1>1, <1>3, <2>2, NewestIsLast DEF Continues
    <2> QED
        BY <1>3, <2>2, <2>3, ChainAssumption
<1>7. ASSUME Kept(r) # {}, NEW b \in Path[x], Num[b] < Row(Kept(r)).first
      PROVE  b \in Path[final]
    <2>1. /\ f \in Kept(r) /\ Row(Kept(r)).first = Num[f]
          /\ Kept(r) \subseteq held[r].blocks
          /\ Kept(r) \subseteq Path[final]
        <3>1. Row(Kept(r)).blocks = Kept(r)
            BY DEF Row
        <3> QED
            BY <1>1, <1>7, <3>1, KeptIsFinal
    <2>2. f \in Path[x] /\ f \in Path[final] /\ f \in Block
        BY <1>4, <1>5, <2>1
    <2>3. Num[b] <= Num[f]
        BY <1>4, <1>7, <2>1, <2>2
    <2>4. b \in Path[f]
        BY <1>3, <2>2, <2>3, LowerIsAncestor
    <2> QED
        BY <1>4, <2>2, <2>4, ChainAssumption
<1>8. ASSUME NEW q \in Reader, NEW row \in data'
      PROVE  BelowRowIsFinal(q, row)
    <2>1. CASE row \in data
        BY <2>1 DEF GivenInv, BelowRowsIsFinal
    <2>2. CASE Kept(r) # {} /\ row = Row(Kept(r))
        <3>1. q = r
            BY DEF OneReader
        <3> QED
            BY <1>5, <1>6, <1>7, <2>2, <3>1 DEF BelowRowIsFinal
    <2> QED
        BY <1>2, <2>1, <2>2
<1>9. BelowRowsIsFinal'
    BY <1>1, <1>8 DEF BelowRowsIsFinal, BelowRowIsFinal, Count, portalVars
<1>10. GivenIsOneBranch'
    BY <1>1 DEF GivenInv, GivenIsOneBranch, Count
<1> QED
    BY <1>1, <1>9, <1>10 DEF GivenInv

LEMMA GivenInvNext ==
    ASSUME OneReader, GivenInv, [Next]_vars
    PROVE  GivenInv'
<1>1. KeptInv /\ KeptInv'
    BY KeptInvNext DEF GivenInv
<1>2. CASE NewBlock \/ Reorganise \/ Finalize
    <2>1. UNCHANGED <<data, given, held>>
        BY <1>2 DEF NewBlock, Reorganise, Finalize, readVars
    <2>2. Path[final] \subseteq Path[final']
        BY <1>1, <1>2, ChainAssumption
        DEF NewBlock, Reorganise, Finalize, KeptInv, TypeOK, FinalIsCanonical
    <2> QED
        BY <1>1, <2>1, <2>2, NothingNew
<1>3. ASSUME NEW r \in Reader, RollBack(r)
      PROVE  GivenInv'
    <2>1. UNCHANGED <<portalVars, data, held>>
        BY <1>3 DEF RollBack
    <2>2. PICK n \in 0..Len(given[r]) :
             /\ given' = [given EXCEPT ![r] = SubSeq(given[r], 1, n)]
             /\ Len(SubSeq(given[r], 1, n)) = n
             /\ \A i \in 1..n : SubSeq(given[r], 1, n)[i] = given[r][i]
        BY <1>1, <1>3, RollBackCuts
    <2>3. given'[r] = SubSeq(given[r], 1, n) /\ \A q \in Reader \ {r} : given'[q] = given[q]
        BY <1>1, <2>2 DEF KeptInv, TypeOK
    <2> QED
        BY <1>1, <2>1, <2>2, <2>3, NothingNew DEF portalVars
<1>4. ASSUME NEW r \in Reader, RunAgain(r) \/ Retry(r)
      PROVE  GivenInv'
    <2>1. UNCHANGED <<portalVars, data>> /\ held' = [held EXCEPT ![r] = NoAnswer]
          /\ given' \in {given, [given EXCEPT ![r] = <<>>]}
        BY <1>4 DEF RunAgain, Retry, Restart
    <2>2. \A q \in Reader : /\ given'[q] = given[q] \/ given'[q] = <<>>
                            /\ held'[q] = held[q] \/ held'[q] = NoAnswer
        BY <1>1, <2>1 DEF KeptInv, TypeOK
    <2> QED
        BY <1>1, <2>1, <2>2, NothingNew DEF portalVars
<1>5. ASSUME NEW r \in Reader, Start(r) \/ LeaveCache(r) \/ QueryIsRead(r)
      PROVE  GivenInv'
    <2>1. UNCHANGED <<portalVars, data, given, held>>
        BY <1>5 DEF Start, LeaveCache, QueryIsRead
    <2> QED
        BY <1>1, <2>1, NothingNew DEF portalVars
<1>6. CASE UNCHANGED vars
    BY <1>1, <1>6, NothingNew DEF vars, portalVars, readVars
<1>7. CASE \E r \in Reader : ReadStep(r) \/ RunAgain(r)
    BY <1>3, <1>4, <1>5, <1>7, GivenInvReplay, GivenInvReceive, GivenInvSave, GivenInvHandOver
    DEF ReadStep
<1> QED
    BY <1>2, <1>6, <1>7 DEF Next

\* Over replays, the switch, forks and restarts in any order, the target of a pipe with a table
\* of its own is given one branch (node-portal-cache.ts:103-134).
THEOREM OneReaderIsGivenOneBranch ==
    ASSUME OneReader
    PROVE  Spec => []GivenIsOneBranch
<1>1. GivenInv => GivenIsOneBranch
    BY DEF GivenInv
<1>2. GivenInv /\ [Next]_vars => GivenInv'
    BY GivenInvNext
<1> QED
    BY <1>1, <1>2, GivenInvInit, PTL DEF Spec
=============================================================================
