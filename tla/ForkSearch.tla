----------------------------- MODULE ForkSearch -----------------------------
(***************************************************************************)
(* The loop of core/fork.ts, one block per step, run on a history a pipe   *)
(* can have committed and on the answer of a Portal that has moved to      *)
(* another branch since.                                                   *)
(***************************************************************************)
EXTENDS ForkResolution

CONSTANTS MaxRecords   \* bound on the number of retained records

ASSUME SearchAssumption ==
    /\ MaxRecords \in Nat
    /\ "searching" \notin Cursor

VARIABLES
    history,    \* the records, newest first
    tip,        \* the Portal's canonical tip
    canonical,  \* canonicalBlocks of the ForkException
    todo,       \* the visits not made yet
    window,     \* the canonical blocks below every block visited
    result      \* "searching", or the cursor returned

vars == <<history, tip, canonical, todo, window, result>>

floor == Floor(history)

-----------------------------------------------------------------------------
(***************************************************************************)
(* Histories a pipe can have.  Every batch extends the one before it; its  *)
(* record holds the delivered blocks above the clamped finalized head,     *)
(* which is on the same branch and never moves back.                       *)
(***************************************************************************)
BatchRecord(from, last, finalized) ==
    [chain |-> IF finalized = None THEN {}
               ELSE {b \in Delivered(from, last) : Num[b] > Num[finalized]},
     finalized |-> finalized]

Commits == {c \in UNION {[1..n -> Block] : n \in 1..MaxRecords} :
               \A i, j \in DOMAIN c : i < j => Extends(c[i], c[j])}

Heads(commits) ==
    {h \in [DOMAIN commits -> Cursor] :
        \A i \in DOMAIN commits :
            /\ h[i] # None => h[i] \in Path[commits[1]]
            /\ i > 1 => MaxFinalized(h[i], h[i - 1]) = h[i - 1]}

HistoryOf(commits, heads) ==
    [i \in DOMAIN commits |->
        BatchRecord(IF i = Len(commits) THEN 0 ELSE Num[commits[i + 1]] + 1,
                    commits[i], heads[i])]

Init ==
    /\ \E commits \in Commits : \E heads \in Heads(commits) :
        /\ history = HistoryOf(commits, heads)
        /\ tip \in {b \in Block : commits[1] \notin Path[b] /\ Num[b] >= Num[commits[1]]}
        /\ canonical = CanonicalBefore(tip, Num[commits[1]] + 1)
    /\ todo = Visits(history)
    /\ window = canonical
    /\ result = "searching"

-----------------------------------------------------------------------------
(***************************************************************************)
(* The loop.  A definition whose comment starts with "Fault" is a slip     *)
(* that the code could hold in place of the definition after it; no        *)
(* behaviour uses it, and each property is known to fail under one.        *)
(***************************************************************************)
retained == UNION {history[i].chain : i \in DOMAIN history}

\* Fault: the chain of a record is not sorted, and is read upwards.
NextVisitUpwards ==
    CHOOSE v \in todo : \A w \in todo :
        v[1] < w[1] \/ (v[1] = w[1] /\ Num[v[2]] <= Num[w[2]])

NextVisit == CHOOSE v \in todo : \A w \in todo : w = v \/ Before(v, w)

LaterVisits == todo \ {NextVisit}

\* Fault: the floor does not end the search.
NeverPastFloor(block) == FALSE

PastFloor(block) == floor # None /\ Num[block] < Num[floor]

\* Fault: blocks are compared by number.
MatchesByNumber(block) == \E u \in window : Num[u] = Num[block]

Matches(block) == block \in window

\* Fault: the canonical block of the visited number stays in the window.
NarrowedInclusively(block) == {u \in window : Num[u] <= Num[block]}

Narrowed(block) == {u \in window : Num[u] < Num[block]}

\* One iteration of the for loop over the retained blocks.
Visit ==
    /\ result = "searching"
    /\ todo # {}
    /\ LET block == NextVisit[2] IN
        IF PastFloor(block)
        THEN /\ result' = CanonicalFloor(window, floor)
             /\ UNCHANGED <<todo, window>>
        ELSE IF Matches(block) \/ window = {}
        THEN /\ result' = block
             /\ UNCHANGED <<todo, window>>
        ELSE /\ window' = Narrowed(block)
             /\ todo' = LaterVisits
             /\ UNCHANGED result
    /\ UNCHANGED <<history, tip, canonical>>

\* The loop ran out of retained blocks.
Exhaust ==
    /\ result = "searching"
    /\ todo = {}
    /\ result' = CanonicalFloor(window, floor)
    /\ UNCHANGED <<history, tip, canonical, todo, window>>

Next == Visit \/ Exhaust

Spec == Init /\ [][Next]_vars /\ WF_vars(Next)

-----------------------------------------------------------------------------
\* The search state stays inside its domain.
TypeOK ==
    /\ history \in Seq(RollbackRecord)
    /\ tip \in Block
    /\ canonical \subseteq Block
    /\ todo \subseteq Visits(history)
    /\ window \subseteq canonical
    /\ result \in Cursor \cup {"searching"}

\* The loop returns what ResolveForkCursor defines (core/fork.ts:54-94).
LoopAgreesWithDefinition ==
    result # "searching" => result = ResolveForkCursor(history, canonical)

\* A rollback never goes below the persisted finalized floor, whichever record
\* holds it (core/fork.ts:31, 63-66; WP-44, INV-13).
NeverBelowFloor ==
    result \in Block /\ floor # None => Num[result] >= Num[floor]

\* When a retained block at or above the floor is among the canonical blocks, the
\* search returns the highest one: it neither passes over a newer common block nor
\* restarts deeper (core/fork.ts:16, 62-84).
FindsLatestCommonBlock ==
    LET common == {b \in retained \cap canonical : floor = None \/ Num[b] >= Num[floor]}
    IN  result # "searching" /\ common # {} => result = Last(common)

\* A block that is not canonical is returned only as a deep-fork restart: the pipe
\* has retained it, and no canonical block at or below it was known (INV-14).
RestartOnlyBelowWindow ==
    result \in Block \ canonical =>
        /\ result \in retained
        /\ \A u \in canonical : \E b \in retained : Num[result] < Num[b] /\ Num[b] <= Num[u]

\* A floor the Portal still reports as canonical always resolves the fork
\* (core/fork.ts:89-94).
CanonicalFloorResolves ==
    floor # None /\ floor \in canonical /\ result # "searching" => result # None

\* ADR-3: "A fork with no common ancestor at or above the floor halts the pipe" -
\* so a pipe whose floor is still canonical does not halt.
HaltsOnlyWithoutCommonAncestor ==
    floor # None /\ result = None => floor \notin Path[tip]
=============================================================================
