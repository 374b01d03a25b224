-------------------------- MODULE ForkSearchProofs --------------------------
(***************************************************************************)
(* The fork search of core/fork.ts is correct for every block tree, every  *)
(* history one pipe can have committed and every canonical answer.         *)
(***************************************************************************)
EXTENDS ForkSearch, WellFoundedInduction, TLAPS

-----------------------------------------------------------------------------
(* The inductive invariant.                                                *)

\* All retained blocks and floors are on one branch.
OneBranch(h) ==
    /\ \A v \in Visits(history) : v[2] \in Path[h]
    /\ \A i \in DOMAIN history : history[i].finalized \in Path[h] \cup {None}

\* The search goes down the branch, through the records and inside each of them.
Descending ==
    \A v, w \in Visits(history) : Before(v, w) => Num[w[2]] < Num[v[2]]

HistoryInv == Descending /\ \E h \in Block : OneBranch(h)

Visited == Visits(history) \ todo

\* What was visited comes first, none of it is canonical or below the floor, and the
\* window is what is left below it.
SearchInv ==
    /\ \A v \in Visited, w \in todo : Before(v, w)
    /\ \A v \in Visited : v[2] \notin canonical
    /\ \A v \in Visited : floor # None => Num[v[2]] >= Num[floor]
    /\ window = {u \in canonical : \A v \in Visited : Num[u] < Num[v[2]]}

ResultInv ==
    /\ NeverBelowFloor
    /\ FindsLatestCommonBlock
    /\ RestartOnlyBelowWindow
    /\ CanonicalFloorResolves

IInv == TypeOK /\ HistoryInv /\ SearchInv /\ ResultInv

-----------------------------------------------------------------------------
(* Numbers and branches.                                                   *)

\* Every nonempty set of numbers has a least one.
LEMMA LeastNumber ==
    ASSUME NEW S \in SUBSET Nat, S # {}
    PROVE  \E m \in S : \A n \in S : m <= n
<1>1. \E m \in S : \A n \in S : ~(<<n, m>> \in OpToRel(<, Nat))
    BY NatLessThanWellFounded, WFMin
<1>2. PICK m \in S : \A n \in S : ~(<<n, m>> \in OpToRel(<, Nat))
    BY <1>1
<1>3. \A n \in S : ~(n < m)
    BY <1>2 DEF OpToRel
<1> QED
    BY <1>3

\* Two blocks of one branch with the same number are the same block.
LEMMA OneBlockPerNumber ==
    ASSUME NEW h \in Block, NEW b \in Path[h], NEW c \in Path[h], Num[b] = Num[c]
    PROVE  b = c
BY ChainAssumption

\* A nonempty set of blocks of one branch has a last block.
LEMMA LastBlock ==
    ASSUME NEW h \in Block, NEW S \in SUBSET Path[h], S # {}
    PROVE  Last(S) \in S /\ \A b \in S : Num[b] <= Num[Last(S)]
<1> DEFINE Depths == {Num[h] - Num[b] : b \in S}
<1>1. \A b \in S : b \in Block /\ Num[b] \in Nat /\ Num[h] \in Nat /\ Num[b] <= Num[h]
    BY ChainAssumption
<1>2. Depths \in SUBSET Nat /\ Depths # {}
    BY <1>1
<1>3. PICK d \in Depths : \A n \in Depths : d <= n
    BY <1>2, LeastNumber
<1>4. PICK last \in S : d = Num[h] - Num[last]
    BY <1>3
<1>5. ASSUME NEW b \in S
      PROVE  Num[b] <= Num[last]
    <2>1. Num[h] - Num[b] \in Depths
        OBVIOUS
    <2>2. d <= Num[h] - Num[b]
        BY <2>1, <1>3
    <2> QED
        BY <2>2, <1>1, <1>4
<1> QED
    BY <1>5 DEF Last

-----------------------------------------------------------------------------
(* Histories.                                                              *)

LEMMA VisitType ==
    ASSUME NEW v \in Visits(history)
    PROVE  /\ v[1] \in DOMAIN history /\ v[2] \in Block
           /\ v[2] \in history[v[1]].chain
           /\ v[2] \in retained
BY DEF Visits, retained

\* The floor of a history is one of its finalized heads, or none.
LEMMA FloorType ==
    ASSUME history \in Seq(RollbackRecord), NEW h \in Block, OneBranch(h)
    PROVE  floor \in Path[h] \cup {None}
<1> DEFINE heads == {i \in DOMAIN history : history[i].finalized # None}
           higher(i, j) == LET m == Num[history[i].finalized]
                               n == Num[history[j].finalized]
                           IN  m > n \/ (m = n /\ i <= j)
           blocks == {history[i].finalized : i \in heads}
<1>1. CASE heads = {}
    BY <1>1 DEF floor, Floor
<1>2. CASE heads # {}
    <2>1. blocks \in SUBSET Path[h] /\ blocks # {}
        BY <1>2 DEF OneBranch
    <2>2. Last(blocks) \in blocks /\ \A b \in blocks : Num[b] <= Num[Last(blocks)]
        BY <2>1, LastBlock
    <2> DEFINE top == {i \in heads : history[i].finalized = Last(blocks)}
    <2>3. top \in SUBSET Nat /\ top # {}
        <3>1. DOMAIN history \subseteq Nat
            OBVIOUS
        <3>2. \E i \in heads : history[i].finalized = Last(blocks)
            BY <2>2
        <3> QED
            BY <3>1, <3>2
    <2>4. PICK i \in top : \A j \in top : i <= j
        BY <2>3, LeastNumber
    <2>5. ASSUME NEW j \in heads
          PROVE  higher(i, j)
        <3>1. history[j].finalized \in blocks /\ history[i].finalized = Last(blocks)
            BY <2>4
        <3>2. history[j].finalized \in Path[h] /\ Last(blocks) \in Path[h]
            BY <3>1, <2>1, <2>2
        <3>3. Num[history[j].finalized] \in Nat /\ Num[Last(blocks)] \in Nat
            BY <3>2, ChainAssumption
        <3>4. Num[history[j].finalized] <= Num[Last(blocks)]
            BY <3>1, <2>2
        <3>5. CASE Num[history[j].finalized] = Num[Last(blocks)]
            <4>1. j \in top
                BY <3>5, <3>2, <3>1, OneBlockPerNumber
            <4> QED
                BY <4>1, <2>4, <3>1, <3>5
        <3> QED
            BY <3>1, <3>3, <3>4, <3>5
    <2>6. \E k \in heads : \A j \in heads : higher(k, j)
        BY <2>4, <2>5
    <2>7. floor = history[CHOOSE k \in heads : \A j \in heads : higher(k, j)].finalized
        BY <1>2 DEF floor, Floor
    <2>8. \E k \in heads : floor = history[k].finalized
        BY <2>6, <2>7
    <2> QED
        BY <2>8 DEF OneBranch
<1> QED
    BY <1>1, <1>2

-----------------------------------------------------------------------------
(* A step of the search.                                                   *)

\* Visits are linearly ordered.
LEMMA BeforeTotal ==
    ASSUME history \in Seq(RollbackRecord), NEW h \in Block, OneBranch(h),
           NEW v \in Visits(history), NEW w \in Visits(history), v # w
    PROVE  Before(v, w) \/ Before(w, v)
<1>1. /\ v = <<v[1], v[2]>> /\ w = <<w[1], w[2]>>
      /\ v[1] \in Nat /\ w[1] \in Nat
      /\ v[2] \in Path[h] /\ w[2] \in Path[h]
    BY DEF Visits, OneBranch
<1>2. Num[v[2]] \in Nat /\ Num[w[2]] \in Nat
    BY <1>1, ChainAssumption
<1>3. CASE v[1] = w[1]
    <2>1. v[2] # w[2]
        BY <1>1, <1>3
    <2>2. Num[v[2]] # Num[w[2]]
        BY <2>1, <1>1, OneBlockPerNumber
    <2> QED
        BY <2>2, <1>2, <1>3 DEF Before
<1> QED
    BY <1>1, <1>3 DEF Before

\* As long as visits are left, there is a next one.
LEMMA NextVisitFirst ==
    ASSUME history \in Seq(RollbackRecord), NEW h \in Block, OneBranch(h),
           todo \subseteq Visits(history), todo # {}
    PROVE  NextVisit \in todo /\ \A w \in todo : w = NextVisit \/ Before(NextVisit, w)
<1> DEFINE records == {v[1] : v \in todo}
<1>1. records \in SUBSET Nat /\ records # {}
    <2>1. \A v \in todo : v[1] \in Nat
        BY DEF Visits
    <2> QED
        BY <2>1
<1>2. PICK i \in records : \A j \in records : i <= j
    BY <1>1, LeastNumber
<1> DEFINE blocks == {v[2] : v \in {u \in todo : u[1] = i}}
<1>3. blocks \in SUBSET Path[h] /\ blocks # {}
    BY <1>2 DEF OneBranch
<1>4. Last(blocks) \in blocks /\ \A b \in blocks : Num[b] <= Num[Last(blocks)]
    BY <1>3, LastBlock
<1>5. PICK v \in todo : v[1] = i /\ v[2] = Last(blocks)
    BY <1>4
<1>6. ASSUME NEW w \in todo, w # v
      PROVE  Before(v, w)
    <2>1. v[1] <= w[1] /\ v[1] \in Nat /\ w[1] \in Nat
        BY <1>1, <1>2, <1>5
    <2>2. CASE w[1] = i
        <3>1. w[2] \in blocks
            BY <2>2
        <3>2. Num[w[2]] <= Num[v[2]]
            BY <3>1, <1>4, <1>5
        <3>3. Num[w[2]] \in Nat /\ Num[v[2]] \in Nat
            BY VisitType, ChainAssumption
        <3>4. ~Before(w, v)
            BY <3>2, <3>3, <2>1, <2>2, <1>5 DEF Before
        <3> QED
            BY <3>4, <1>6, BeforeTotal
    <2> QED
        BY <2>1, <2>2, <1>5 DEF Before
<1>7. \E u \in todo : \A w \in todo : w = u \/ Before(u, w)
    BY <1>6
<1> QED
    BY <1>7 DEF NextVisit

-----------------------------------------------------------------------------
(* The initial states.                                                     *)

\* What a pipe has committed lies on one branch and is searched downwards.
LEMMA CommitsMakeHistories ==
    ASSUME NEW commits \in Commits, NEW heads \in Heads(commits),
           history = HistoryOf(commits, heads)
    PROVE  /\ history \in Seq(RollbackRecord)
           /\ commits[1] \in Block
           /\ HistoryInv
<1>1. PICK n \in 1..MaxRecords : commits \in [1..n -> Block]
    BY DEF Commits
<1>2. /\ DOMAIN commits = 1..n /\ Len(commits) = n /\ n \in Nat /\ 1 \in 1..n
      /\ \A i \in 1..n : commits[i] \in Block /\ Num[commits[i]] \in Nat
    BY <1>1, SearchAssumption, ChainAssumption
<1>3. /\ DOMAIN history = 1..n
      /\ \A i \in 1..n : history[i] =
             BatchRecord(IF i = n THEN 0 ELSE Num[commits[i + 1]] + 1, commits[i], heads[i])
    BY <1>2 DEF HistoryOf
<1>4. \A i \in 1..n : heads[i] \in Path[commits[1]] \cup {None} /\ heads[i] \in Cursor
    BY <1>2 DEF Heads
<1>5. \A i \in 1..n : /\ history[i].finalized = heads[i]
                      /\ history[i].chain \in SUBSET Path[commits[i]]
    BY <1>3 DEF BatchRecord, Delivered
<1>6. \A i \in 1..n : history[i] \in RollbackRecord
    <2>1. \A i \in 1..n : Path[commits[i]] \subseteq Block
        BY <1>2, ChainAssumption
    <2>2. ASSUME NEW i \in 1..n
          PROVE  history[i] \in RollbackRecord
        <3>1. \E from : history[i] = BatchRecord(from, commits[i], heads[i])
            BY <1>3
        <3>2. history[i] = [chain |-> history[i].chain, finalized |-> history[i].finalized]
            BY <3>1 DEF BatchRecord
        <3>3. history[i].chain \in SUBSET Block /\ history[i].finalized \in Cursor
            BY <1>4, <1>5, <2>1
        <3> QED
            BY <3>2, <3>3 DEF RollbackRecord
    <2> QED
        BY <2>2
<1>7. history \in Seq(RollbackRecord)
    <2>1. history = [i \in 1..n |-> history[i]]
        BY <1>2 DEF HistoryOf
    <2> QED
        BY <2>1, <1>6, <1>2
<1>8. \A i, j \in 1..n : i <= j => commits[j] \in Path[commits[i]]
    <2>1. \A i, j \in 1..n : i < j => Extends(commits[i], commits[j])
        BY <1>2 DEF Commits
    <2>2. \A i, j \in 1..n : i < j => commits[j] \in Path[commits[i]]
        BY <2>1, <1>2, ChainAssumption DEF Extends
    <2>3. \A i \in 1..n : commits[i] \in Path[commits[i]]
        BY <1>2, ChainAssumption
    <2> QED
        BY <2>2, <2>3
<1>9. \A v \in Visits(history) : /\ v[1] \in 1..n /\ v[2] \in Path[commits[v[1]]]
                               /\ v[2] \in Block /\ Num[v[2]] \in Nat
    <2>1. \A v \in Visits(history) : /\ v[1] \in 1..n /\ v[2] \in Block
                                   /\ v[2] \in history[v[1]].chain
        BY <1>3 DEF Visits
    <2>2. \A v \in Visits(history) : history[v[1]].chain \subseteq Path[commits[v[1]]]
        BY <2>1, <1>5
    <2>3. \A b \in Block : Num[b] \in Nat
        BY ChainAssumption
    <2> QED
        BY <2>1, <2>2, <2>3
<1>10. OneBranch(commits[1])
    <2>1. \A v \in Visits(history) : v[2] \in Path[commits[1]]
        BY <1>2, <1>8, <1>9, ChainAssumption
    <2> QED
        BY <2>1, <1>3, <1>4, <1>5 DEF OneBranch
<1>11. ASSUME NEW v \in Visits(history), NEW w \in Visits(history), Before(v, w)
       PROVE  Num[w[2]] < Num[v[2]]
    <2>1. CASE v[1] = w[1]
        BY <2>1, <1>11, <1>9 DEF Before
    <2>2. CASE v[1] < w[1]
        <3> DEFINE below == commits[v[1] + 1]
        <3>1. v[1] # n /\ v[1] + 1 \in 1..n /\ v[1] + 1 <= w[1]
            BY <2>2, <1>9, <1>2
        <3>2. history[v[1]] = BatchRecord(Num[below] + 1, commits[v[1]], heads[v[1]])
            BY <3>1, <1>3, <1>9
        <3>3. v[2] \in history[v[1]].chain
            BY DEF Visits
        <3>4. v[2] \in Delivered(Num[below] + 1, commits[v[1]])
            BY <3>2, <3>3 DEF BatchRecord
        <3>5. Num[v[2]] >= Num[below] + 1
            BY <3>4 DEF Delivered
        <3>6. commits[w[1]] \in Path[below]
            BY <3>1, <1>8, <1>9
        <3>7. w[2] \in Path[below]
            BY <3>1, <3>6, <1>2, <1>9, ChainAssumption
        <3>8. Num[w[2]] <= Num[below] /\ Num[below] \in Nat
            BY <3>1, <3>7, <1>2, <1>9, ChainAssumption
        <3> QED
            BY <3>5, <3>8, <1>9
    <2> QED
        BY <2>1, <2>2, <1>11 DEF Before
<1> QED
    BY <1>2, <1>7, <1>10, <1>11 DEF HistoryInv, Descending

LEMMA InitInv == Init => IInv
<1> SUFFICES ASSUME Init PROVE IInv
    OBVIOUS
<1>0. PICK commits \in Commits :
        \E heads \in Heads(commits) :
            /\ history = HistoryOf(commits, heads)
            /\ tip \in Block
            /\ canonical = CanonicalBefore(tip, Num[commits[1]] + 1)
    BY DEF Init
<1>1. PICK heads \in Heads(commits) :
        /\ history = HistoryOf(commits, heads)
        /\ tip \in Block
        /\ canonical = CanonicalBefore(tip, Num[commits[1]] + 1)
    BY <1>0
<1>2. history \in Seq(RollbackRecord) /\ HistoryInv
    BY <1>1, CommitsMakeHistories
<1>3. canonical \subseteq Block
    BY <1>1, ChainAssumption DEF CanonicalBefore
<1>4. todo = Visits(history) /\ window = canonical /\ result = "searching"
    BY DEF Init
<1>5. TypeOK
    BY <1>1, <1>2, <1>3, <1>4 DEF TypeOK
<1>6. SearchInv
    BY <1>4 DEF SearchInv, Visited
<1>7. ResultInv
    BY <1>4, SearchAssumption DEF ResultInv, NeverBelowFloor, FindsLatestCommonBlock,
        RestartOnlyBelowWindow, CanonicalFloorResolves, Cursor
<1> QED
    BY <1>2, <1>5, <1>6, <1>7 DEF IInv

-----------------------------------------------------------------------------
(* The steps.                                                              *)

\* A common block at or above the floor has not been visited yet.
LEMMA CommonIsAhead ==
    ASSUME IInv, NEW b \in retained \cap canonical,
           floor = None \/ Num[b] >= Num[floor]
    PROVE  \E v \in todo : v[2] = b
<1>1. PICK i \in DOMAIN history : b \in history[i].chain
    BY DEF retained
<1>2. b \in Block
    BY DEF IInv, TypeOK
<1>3. <<i, b>> \in Visits(history)
    BY <1>1, <1>2 DEF Visits
<1>4. <<i, b>> \notin Visited
    BY DEF IInv, SearchInv
<1> QED
    BY <1>3, <1>4 DEF Visited

\* No visit left is above the next one.
LEMMA NextVisitHighest ==
    ASSUME IInv, todo # {}
    PROVE  /\ NextVisit \in todo /\ NextVisit \in Visits(history)
           /\ NextVisit[2] \in retained
           /\ NextVisit[2] \in Block
           /\ \A w \in todo : w = NextVisit \/ Before(NextVisit, w)
           /\ \A w \in todo : Num[w[2]] <= Num[NextVisit[2]]
           /\ \A v \in Visited : Num[NextVisit[2]] < Num[v[2]]
           /\ \A w \in Visits(history) : w[2] \in Block /\ Num[w[2]] \in Nat
<1>1. PICK h \in Block : OneBranch(h)
    BY DEF IInv, HistoryInv
<1>2. /\ NextVisit \in todo /\ todo \subseteq Visits(history)
      /\ \A w \in todo : w = NextVisit \/ Before(NextVisit, w)
    BY <1>1, NextVisitFirst DEF IInv, TypeOK
<1>3. \A w \in Visits(history) : w[2] \in Block /\ Num[w[2]] \in Nat
    BY VisitType, ChainAssumption
<1>4. \A w \in todo : Num[w[2]] <= Num[NextVisit[2]]
    BY <1>2, <1>3 DEF IInv, HistoryInv, Descending
<1>5. \A v \in Visited : Num[NextVisit[2]] < Num[v[2]]
    BY <1>2 DEF IInv, HistoryInv, Descending, SearchInv, Visited
<1> QED
    BY <1>2, <1>3, <1>4, <1>5, VisitType

\* A search that ends without an ancestor has passed every common block, and still has
\* the floor in its window if that is canonical.
LEMMA WithoutAncestor ==
    ASSUME IInv, result = "searching", canonical' = canonical, history' = history,
           result' = CanonicalFloor(window, floor),
           \A v \in todo : floor # None /\ Num[v[2]] < Num[floor]
    PROVE  ResultInv' /\ result' \in Cursor
<1>1. PICK h \in Block : OneBranch(h)
    BY DEF IInv, HistoryInv
<1>2. floor \in Path[h] \cup {None} /\ floor' = floor /\ retained' = retained
    BY <1>1, FloorType DEF IInv, TypeOK, floor, retained
<1>3. floor \in Cursor /\ (floor # None => Num[floor] \in Nat)
    BY <1>2, ChainAssumption DEF Cursor
<1>4. \A b \in retained \cap canonical : floor # None /\ ~(Num[b] >= Num[floor])
    <2>1. ASSUME NEW b \in retained \cap canonical, floor = None \/ Num[b] >= Num[floor]
          PROVE  FALSE
        <3>1. PICK v \in todo : v[2] = b
            BY <2>1, CommonIsAhead
        <3>2. b \in Block /\ Num[b] \in Nat
            BY ChainAssumption DEF IInv, TypeOK
        <3> QED
            BY <3>1, <3>2, <2>1, <1>3
    <2> QED
        BY <2>1
<1>5. floor # None /\ floor \in canonical => floor \in window
    <2> SUFFICES ASSUME floor # None, floor \in canonical, NEW v \in Visited
                 PROVE  Num[floor] < Num[v[2]]
        BY DEF IInv, SearchInv
    <2>1. v \in Visits(history) /\ v[2] \notin canonical /\ Num[v[2]] >= Num[floor]
        BY DEF IInv, SearchInv, Visited
    <2>2. v[2] \in Path[h] /\ Num[v[2]] \in Nat
        BY <2>1, <1>1, VisitType, ChainAssumption DEF OneBranch
    <2>3. Num[v[2]] # Num[floor]
        BY <2>1, <2>2, <1>2, OneBlockPerNumber
    <2> QED
        BY <2>1, <2>2, <2>3, <1>3
<1>6. result' = IF floor # None /\ floor \in window THEN floor ELSE None
    BY DEF CanonicalFloor
<1>7. window \subseteq canonical
    BY DEF IInv, TypeOK
<1>8. NeverBelowFloor'
    BY <1>2, <1>3, <1>6, ChainAssumption DEF NeverBelowFloor
<1>9. FindsLatestCommonBlock'
    <2>1. {b \in retained \cap canonical : floor = None \/ Num[b] >= Num[floor]} = {}
        BY <1>4
    <2> QED
        BY <2>1, <1>2 DEF FindsLatestCommonBlock
<1>10. RestartOnlyBelowWindow'
    BY <1>6, <1>7, ChainAssumption DEF RestartOnlyBelowWindow
<1>11. CanonicalFloorResolves'
    BY <1>2, <1>5, <1>6 DEF CanonicalFloorResolves
<1> QED
    BY <1>3, <1>6, <1>8, <1>9, <1>10, <1>11 DEF ResultInv, Cursor

\* The next visit ends the search: its block is canonical, or no canonical block is left.
LEMMA FoundAncestor ==
    ASSUME IInv, result = "searching", todo # {},
           canonical' = canonical, history' = history, result' = NextVisit[2],
           ~(floor # None /\ Num[NextVisit[2]] < Num[floor]),
           NextVisit[2] \in window \/ window = {}
    PROVE  ResultInv' /\ result' \in Cursor
<1> DEFINE block == NextVisit[2]
<1>1. PICK h \in Block : OneBranch(h)
    BY DEF IInv, HistoryInv
<1>2. floor \in Path[h] \cup {None} /\ floor' = floor /\ retained' = retained
    BY <1>1, FloorType DEF IInv, TypeOK, floor, retained
<1>3. floor \in Cursor /\ (floor # None => Num[floor] \in Nat)
    BY <1>2, ChainAssumption DEF Cursor
<1>4. /\ NextVisit \in Visits(history) /\ block \in retained
      /\ block \in Block /\ Num[block] \in Nat
      /\ \A w \in todo : Num[w[2]] <= Num[block]
      /\ \A v \in Visited : Num[block] < Num[v[2]]
    BY NextVisitHighest
<1>5. block \in Path[h]
    BY <1>1, <1>4 DEF OneBranch
<1>6. floor = None \/ Num[block] >= Num[floor]
    BY <1>3, <1>4
<1>7. \A u \in canonical : u \in Block /\ Num[u] \in Nat
    BY ChainAssumption DEF IInv, TypeOK
<1> DEFINE common == {b \in retained \cap canonical : floor = None \/ Num[b] >= Num[floor]}
<1>8. ASSUME NEW b \in common
      PROVE  /\ b \in Path[h] /\ Num[b] \in Nat /\ Num[b] <= Num[block]
             /\ block \in canonical
    <2>1. PICK w \in todo : w[2] = b
        BY CommonIsAhead
    <2>2. w \in Visits(history)
        BY <2>1 DEF IInv, TypeOK
    <2>3. b \in Path[h] /\ Num[b] \in Nat /\ Num[b] <= Num[block]
        BY <2>1, <2>2, <1>1, <1>4, <1>7 DEF OneBranch
    <2>4. \A v \in Visited : Num[b] < Num[v[2]]
        <3>1. \A v \in Visited : v[2] \in Block /\ Num[v[2]] \in Nat
            BY VisitType, ChainAssumption DEF Visited
        <3> QED
            BY <3>1, <2>3, <1>4
    <2>5. b \in window
        BY <2>4 DEF IInv, SearchInv
    <2> QED
        BY <2>3, <2>5 DEF IInv, TypeOK
<1>9. NeverBelowFloor'
    BY <1>2, <1>6 DEF NeverBelowFloor
<1>10. FindsLatestCommonBlock'
    <2> SUFFICES ASSUME common # {}
                 PROVE  block = Last(common)
        BY <1>2 DEF FindsLatestCommonBlock
    <2>1. common \in SUBSET Path[h] /\ block \in common
        BY <1>4, <1>6, <1>8
    <2>2. Last(common) \in common /\ Num[block] <= Num[Last(common)]
        BY <2>1, LastBlock
    <2>3. Num[Last(common)] = Num[block]
        BY <2>2, <1>8, <1>4
    <2> QED
        BY <2>1, <2>2, <2>3, OneBlockPerNumber
<1>11. RestartOnlyBelowWindow'
    <2> SUFFICES ASSUME block \notin canonical, NEW u \in canonical
                 PROVE  \E b \in retained : Num[block] < Num[b] /\ Num[b] <= Num[u]
        BY <1>2, <1>4 DEF RestartOnlyBelowWindow
    <2>1. u \notin window
        BY DEF IInv, TypeOK
    <2>2. PICK v \in Visited : ~(Num[u] < Num[v[2]])
        BY <2>1 DEF IInv, SearchInv
    <2>3. v[2] \in retained /\ Num[v[2]] \in Nat
        BY VisitType, ChainAssumption DEF Visited
    <2> QED
        BY <2>2, <2>3, <1>4, <1>7
<1>12. CanonicalFloorResolves'
    BY <1>4, ChainAssumption DEF CanonicalFloorResolves
<1> QED
    BY <1>4, <1>9, <1>10, <1>11, <1>12 DEF ResultInv, Cursor

\* The next visit narrows the window.
LEMMA NarrowsWindow ==
    ASSUME IInv, result = "searching", todo # {}, UNCHANGED <<history, tip, canonical, result>>,
           ~(floor # None /\ Num[NextVisit[2]] < Num[floor]),
           NextVisit[2] \notin window,
           window' = {u \in window : Num[u] < Num[NextVisit[2]]},
           todo' = todo \ {NextVisit}
    PROVE  SearchInv'
<1> DEFINE block == NextVisit[2]
<1>1. PICK h \in Block : OneBranch(h)
    BY DEF IInv, HistoryInv
<1>2. floor \in Path[h] \cup {None} /\ floor' = floor
    BY <1>1, FloorType DEF IInv, TypeOK, floor
<1>3. /\ NextVisit \in todo /\ NextVisit \in Visits(history)
      /\ \A w \in todo : w = NextVisit \/ Before(NextVisit, w)
      /\ \A v \in Visited : Num[block] < Num[v[2]]
      /\ block \in Block /\ Num[block] \in Nat
    BY NextVisitHighest
<1>4. Visited' = Visited \cup {NextVisit}
    BY <1>3 DEF Visited
<1>5. \A v \in Visited', w \in todo' : Before(v, w)
    BY <1>3, <1>4 DEF IInv, SearchInv
<1>6. block \notin canonical
    BY <1>3 DEF IInv, SearchInv
<1>7. floor # None => Num[block] >= Num[floor]
    BY <1>2, <1>3, ChainAssumption
<1>8. window' = {u \in canonical : \A v \in Visited' : Num[u] < Num[v[2]]}
    BY <1>4 DEF IInv, SearchInv
<1> QED
    BY <1>2, <1>4, <1>5, <1>6, <1>7, <1>8 DEF IInv, SearchInv

LEMMA StepInv == IInv /\ [Next]_vars => IInv'
<1> SUFFICES ASSUME IInv, [Next]_vars PROVE IInv'
    OBVIOUS
<1>1. CASE UNCHANGED vars
    BY <1>1 DEF vars, IInv, TypeOK, HistoryInv, Descending, OneBranch, SearchInv, Visited,
        ResultInv, NeverBelowFloor, FindsLatestCommonBlock, RestartOnlyBelowWindow,
        CanonicalFloorResolves, floor, retained
<1>2. ASSUME history' = history, tip' = tip, canonical' = canonical
      PROVE  HistoryInv'
    BY <1>2 DEF IInv, HistoryInv, Descending, OneBranch
<1>3. ASSUME UNCHANGED <<history, tip, canonical, todo, window>>,
             ResultInv', result' \in Cursor
      PROVE  IInv'
    <2>1. TypeOK'
        BY <1>3 DEF IInv, TypeOK
    <2>2. SearchInv'
        BY <1>3 DEF IInv, SearchInv, Visited, floor
    <2> QED
        BY <2>1, <2>2, <1>2, <1>3 DEF IInv
<1>4. CASE Visit
    <2> DEFINE block == NextVisit[2]
               below == floor # None /\ Num[block] < Num[floor]
    <2>1. result = "searching" /\ todo # {} /\ UNCHANGED <<history, tip, canonical>>
        BY <1>4 DEF Visit
    <2>2. CASE below
        <3>1. result' = CanonicalFloor(window, floor) /\ UNCHANGED <<todo, window>>
            BY <1>4, <2>2 DEF Visit, PastFloor
        <3>2. \A v \in todo : floor # None /\ Num[v[2]] < Num[floor]
            <4>1. PICK h \in Block : OneBranch(h)
                BY DEF IInv, HistoryInv
            <4>2. floor \in Path[h] \cup {None}
                BY <4>1, FloorType DEF IInv, TypeOK
            <4>3. Num[floor] \in Nat
                BY <2>2, <4>2, ChainAssumption
            <4>4. \A v \in todo : Num[v[2]] <= Num[block] /\ Num[v[2]] \in Nat
                BY <2>1, NextVisitHighest DEF IInv, TypeOK
            <4>5. Num[block] \in Nat
                BY <2>1, <4>4, NextVisitHighest
            <4> QED
                BY <2>2, <4>3, <4>4, <4>5
        <3>3. ResultInv' /\ result' \in Cursor
            BY <2>1, <3>1, <3>2, WithoutAncestor
        <3> QED
            BY <2>1, <3>1, <3>3, <1>3
    <2>3. CASE ~below /\ (block \in window \/ window = {})
        <3>1. result' = block /\ UNCHANGED <<todo, window>>
            BY <1>4, <2>3 DEF Visit, PastFloor, Matches
        <3>2. ResultInv' /\ result' \in Cursor
            BY <2>1, <2>3, <3>1, FoundAncestor
        <3> QED
            BY <2>1, <3>1, <3>2, <1>3
    <2>4. CASE ~below /\ ~(block \in window \/ window = {})
        <3>1. /\ window' = {u \in window : Num[u] < Num[block]}
              /\ todo' = todo \ {NextVisit}
              /\ result' = result
            BY <1>4, <2>4 DEF Visit, PastFloor, Matches, Narrowed, LaterVisits
        <3>2. SearchInv'
            BY <2>1, <2>4, <3>1, NarrowsWindow
        <3>3. TypeOK'
            BY <2>1, <3>1 DEF IInv, TypeOK
        <3>4. ResultInv'
            BY <2>1, <3>1, SearchAssumption DEF ResultInv, NeverBelowFloor, Cursor,
                FindsLatestCommonBlock, RestartOnlyBelowWindow, CanonicalFloorResolves
        <3> QED
            BY <2>1, <3>2, <3>3, <3>4, <1>2 DEF IInv
    <2> QED
        BY <2>2, <2>3, <2>4
<1>5. CASE Exhaust
    <2>1. /\ result = "searching" /\ todo = {}
          /\ result' = CanonicalFloor(window, floor)
          /\ UNCHANGED <<history, tip, canonical, todo, window>>
        BY <1>5 DEF Exhaust
    <2>2. ResultInv' /\ result' \in Cursor
        BY <2>1, WithoutAncestor
    <2> QED
        BY <2>1, <2>2, <1>3
<1> QED
    BY <1>1, <1>4, <1>5 DEF Next

-----------------------------------------------------------------------------
(* The loop and the definition.                                            *)

\* No visit made so far ends the search, and the loop has returned nothing else.
AgreementInv ==
    /\ \A v \in Visited : Window(history, canonical, v) # {}
    /\ LoopAgreesWithDefinition

\* When the loop arrives at a visit, it has made the visits before it, and its window is the
\* one the definition gives.
LEMMA ArrivesWithWindow ==
    ASSUME IInv, todo # {}
    PROVE  /\ window = Window(history, canonical, NextVisit)
           /\ \A w \in Visits(history) : Before(w, NextVisit) <=> w \in Visited
           /\ \A w \in todo : w # NextVisit => ~Before(w, NextVisit)
<1>1. /\ NextVisit \in todo /\ NextVisit \in Visits(history)
      /\ \A w \in todo : w = NextVisit \/ Before(NextVisit, w)
      /\ \A w \in Visits(history) : w[2] \in Block /\ Num[w[2]] \in Nat
    BY NextVisitHighest
<1>2. \A w \in Visits(history) : w[1] \in Nat
    BY DEF IInv, TypeOK, Visits
<1>3. todo \subseteq Visits(history)
    BY DEF IInv, TypeOK
<1>4. \A w \in todo : ~Before(w, NextVisit)
    BY <1>1, <1>2, <1>3 DEF Before
<1>5. \A w \in Visited : Before(w, NextVisit)
    BY <1>1 DEF IInv, SearchInv
<1>6. \A w \in Visits(history) : Before(w, NextVisit) <=> w \in Visited
    BY <1>4, <1>5 DEF Visited
<1>7. window = {u \in canonical : \A w \in Visited : Num[u] < Num[w[2]]}
    BY DEF IInv, SearchInv
<1>8. window = Window(history, canonical, NextVisit)
    <2>1. \A w \in Visited : w \in Visits(history)
        BY DEF Visited
    <2> QED
        BY <1>6, <1>7, <2>1 DEF Window
<1> QED
    BY <1>4, <1>6, <1>8

LEMMA VisitedDoNotEnd ==
    ASSUME IInv, AgreementInv
    PROVE  \A v \in Visited : v \notin Ends(history, canonical)
<1> SUFFICES ASSUME NEW v \in Visited
             PROVE  ~EndsAt(history, canonical, v)
    BY DEF Ends
<1>1. v[2] \notin canonical /\ (floor # None => Num[v[2]] >= Num[floor])
    BY DEF IInv, SearchInv
<1>2. ~BelowFloor(history, v)
    <2>1. PICK h \in Block : OneBranch(h)
        BY DEF IInv, HistoryInv
    <2>2. floor \in Path[h] \cup {None}
        BY <2>1, FloorType DEF IInv, TypeOK
    <2>3. floor # None => Num[floor] \in Nat
        BY <2>2, ChainAssumption
    <2>4. Num[v[2]] \in Nat
        BY VisitType, ChainAssumption DEF Visited
    <2> QED
        BY <1>1, <2>3, <2>4 DEF BelowFloor, floor
<1>3. v[2] \notin Window(history, canonical, v)
    BY <1>1 DEF Window
<1>4. Window(history, canonical, v) # {}
    BY DEF AgreementInv
<1> QED
    BY <1>2, <1>3, <1>4 DEF EndsAt

\* The first visit that ends the loop is the one that ends the search.
LEMMA NextVisitIsEnd ==
    ASSUME IInv, AgreementInv, todo # {}, EndsAt(history, canonical, NextVisit)
    PROVE  Ends(history, canonical) # {} /\ EndOf(history, canonical) = NextVisit
<1> DEFINE ends == Ends(history, canonical)
<1>1. NextVisit \in Visits(history) /\ \A w \in todo : w = NextVisit \/ Before(NextVisit, w)
    BY NextVisitHighest
<1>2. NextVisit \in ends
    BY <1>1 DEF Ends
<1>3. \A w \in ends : w \in todo
    BY VisitedDoNotEnd DEF Ends, Visited
<1>4. \A w \in ends : w = NextVisit \/ Before(NextVisit, w)
    BY <1>1, <1>3
<1>5. \A w \in ends : w # NextVisit => ~Before(w, NextVisit)
    BY <1>3, ArrivesWithWindow
<1>6. \A u \in ends : (\A w \in ends : w = u \/ Before(u, w)) => u = NextVisit
    BY <1>2, <1>5
<1>7. EndOf(history, canonical) = NextVisit
    BY <1>2, <1>4, <1>6 DEF EndOf
<1> QED
    BY <1>2, <1>7

LEMMA StepAgrees == IInv /\ AgreementInv /\ [Next]_vars => AgreementInv'
<1> SUFFICES ASSUME IInv, AgreementInv, [Next]_vars PROVE AgreementInv'
    OBVIOUS
<1>1. CASE UNCHANGED vars
    BY <1>1 DEF vars, AgreementInv, LoopAgreesWithDefinition, Visited
<1>2. ASSUME UNCHANGED <<history, canonical, todo>>,
             result' = ResolveForkCursor(history, canonical)
      PROVE  AgreementInv'
    BY <1>2 DEF AgreementInv, LoopAgreesWithDefinition, Visited
<1>3. CASE Visit
    <2> DEFINE block == NextVisit[2]
               below == floor # None /\ Num[block] < Num[floor]
    <2>1. result = "searching" /\ todo # {} /\ UNCHANGED <<history, canonical>>
        BY <1>3 DEF Visit
    <2>2. window = Window(history, canonical, NextVisit)
        BY <2>1, ArrivesWithWindow
    <2>3. below <=> BelowFloor(history, NextVisit)
        BY DEF BelowFloor, floor
    <2>4. CASE below
        <3>1. result' = CanonicalFloor(window, floor) /\ todo' = todo
            BY <1>3, <2>4 DEF Visit, PastFloor
        <3>2. Ends(history, canonical) # {} /\ EndOf(history, canonical) = NextVisit
            BY <2>1, <2>3, <2>4, NextVisitIsEnd DEF EndsAt
        <3>3. result' = ResolveForkCursor(history, canonical)
            BY <2>2, <2>3, <2>4, <3>1, <3>2 DEF ResolveForkCursor, FinalWindow, floor
        <3> QED
            BY <1>2, <2>1, <3>1, <3>3
    <2>5. CASE ~below /\ (block \in window \/ window = {})
        <3>1. result' = block /\ todo' = todo
            BY <1>3, <2>5 DEF Visit, PastFloor, Matches
        <3>2. Ends(history, canonical) # {} /\ EndOf(history, canonical) = NextVisit
            BY <2>1, <2>2, <2>5, NextVisitIsEnd DEF EndsAt
        <3>3. result' = ResolveForkCursor(history, canonical)
            BY <2>3, <2>5, <3>1, <3>2 DEF ResolveForkCursor
        <3> QED
            BY <1>2, <2>1, <3>1, <3>3
    <2>6. CASE ~below /\ ~(block \in window \/ window = {})
        <3>1. todo' = todo \ {NextVisit} /\ result' = result
            BY <1>3, <2>6 DEF Visit, PastFloor, Matches, LaterVisits
        <3>2. Visited' = Visited \cup {NextVisit}
            BY <2>1, <3>1, NextVisitHighest DEF Visited
        <3>3. \A v \in Visited' : Window(history, canonical, v) # {}
            BY <2>2, <2>6, <3>2 DEF AgreementInv
        <3> QED
            BY <2>1, <3>1, <3>3 DEF AgreementInv, LoopAgreesWithDefinition
    <2> QED
        BY <2>4, <2>5, <2>6
<1>4. CASE Exhaust
    <2>1. /\ todo = {} /\ UNCHANGED <<history, canonical, todo>>
          /\ result' = CanonicalFloor(window, floor)
        BY <1>4 DEF Exhaust
    <2>2. Visited = Visits(history)
        BY <2>1 DEF Visited
    <2>3. Ends(history, canonical) = {}
        BY <2>2, VisitedDoNotEnd DEF Ends
    <2>4. window = FinalWindow(history, canonical)
        BY <2>2, <2>3 DEF IInv, SearchInv, FinalWindow
    <2>5. result' = ResolveForkCursor(history, canonical)
        BY <2>1, <2>3, <2>4 DEF ResolveForkCursor, floor
    <2> QED
        BY <1>2, <2>1, <2>5
<1> QED
    BY <1>1, <1>3, <1>4 DEF Next

-----------------------------------------------------------------------------
\* The invariant holds for every tree, history and answer (core/fork.ts:21-94).
THEOREM Invariance == Spec => []IInv
BY InitInv, StepInv, PTL DEF Spec

\* The search state stays inside its domain.
THEOREM TypeCorrect == Spec => []TypeOK
<1>1. IInv => TypeOK
    BY DEF IInv
<1> QED
    BY <1>1, Invariance, PTL

\* No fork is ever resolved below the highest persisted finalized floor (core/fork.ts:63-66).
THEOREM FloorIsSafe == Spec => []NeverBelowFloor
<1>1. IInv => NeverBelowFloor
    BY DEF IInv, ResultInv
<1> QED
    BY <1>1, Invariance, PTL

\* A common block at or above the floor is found, and the highest one (core/fork.ts:68-71).
THEOREM LatestCommonBlockFound == Spec => []FindsLatestCommonBlock
<1>1. IInv => FindsLatestCommonBlock
    BY DEF IInv, ResultInv
<1> QED
    BY <1>1, Invariance, PTL

\* A block that is not canonical is only a restart below the whole window, on the pipe's own
\* branch (core/fork.ts:73-80).
THEOREM RestartIsBelowWindow == Spec => []RestartOnlyBelowWindow
<1>1. IInv => RestartOnlyBelowWindow
    BY DEF IInv, ResultInv
<1> QED
    BY <1>1, Invariance, PTL

\* A canonical floor resolves every fork (core/fork.ts:89-94).
THEOREM FloorResolves == Spec => []CanonicalFloorResolves
<1>1. IInv => CanonicalFloorResolves
    BY DEF IInv, ResultInv
<1> QED
    BY <1>1, Invariance, PTL

\* The loop returns what ResolveForkCursor defines, so what is shown of either holds of both:
\* the targets' modules use the definition (core/fork.ts:54-94).
THEOREM LoopIsDefinition == Spec => []LoopAgreesWithDefinition
<1>1. Init => AgreementInv
    BY DEF Init, AgreementInv, Visited, LoopAgreesWithDefinition
<1>2. AgreementInv => LoopAgreesWithDefinition
    BY DEF AgreementInv
<1> QED
    BY Invariance, StepAgrees, <1>1, <1>2, PTL DEF Spec
=============================================================================
