---------------------------- MODULE RangedStream ----------------------------
(***************************************************************************)
(* PortalStream.read and readAcrossForks (core/portal-source.ts) over a    *)
(* query of several ranges: the ranges are resolved and merged at every    *)
(* start and after every fork, clipped to what the target has committed,   *)
(* and read one after the other on a chain that may be reorganised.        *)
(*                                                                         *)
(* A batch is committed as it is received; PortalSource is about what lies *)
(* between the two.  The target is one that knows every block it has       *)
(* committed and removes what is above the ancestor it finds.  Everything  *)
(* is unfinalized, and a 409 covers the chain.                             *)
(*                                                                         *)
(* Definitions commented "Fault" are read as in PortalSource.              *)
(***************************************************************************)
EXTENDS Chain, QueryRanges

CONSTANTS
    Queries,    \* the queries a pipe may have: a range for each registered request
    MaxReorgs,  \* bound on reorganisations
    MaxStarts   \* bound on crashes and on runs of a pipe that has ended

NaturalRange == [latest : BOOLEAN, from : Nat, to : 0..Infinity]

ASSUME StreamAssumption ==
    /\ MaxReorgs \in Nat /\ MaxStarts \in Nat
    /\ \A b \in Block : Num[b] < Infinity
    /\ \A q \in Queries : \E requests \in SUBSET Request : q \in [requests -> NaturalRange]

VARIABLES
    tip,        \* the Portal's newest canonical block
    reorgs,     \* reorganisations so far
    asked,      \* the query
    stage,      \* "stopped", "merging", "reading", "done", "halted" or "refused"
    cursor,     \* state.latest of this read()
    todo,       \* the bounded ranges not read to their end, the current one first
    request,    \* the next stream request: fromBlock and parentBlockHash
    committed,  \* the blocks the target has, each with the requests it was read with
    starts      \* restarts so far

portalVars == <<tip, reorgs>>
readVars == <<stage, cursor, todo, request>>
vars == <<mergeVars, portalVars, asked, readVars, committed, starts>>

NoRequest == [from |-> 0, anchor |-> None]

TypeOK ==
    /\ tip \in Block /\ reorgs \in 0..MaxReorgs
    /\ asked \in Queries
    /\ stage \in {"stopped", "merging", "reading", "done", "halted", "refused"}
    /\ cursor \in Cursor
    /\ todo \in Seq(Piece)
    /\ request \in [from : Nat, anchor : Cursor]
    /\ committed \subseteq [block : Block, requests : SUBSET Request]
    /\ starts \in 0..MaxStarts
    /\ queue \subseteq Piece /\ top \in Piece /\ union \in Seq(Piece)

Init ==
    /\ tip \in Block /\ reorgs = 0
    /\ asked \in Queries
    /\ stage = "stopped" /\ cursor = None
    /\ todo = <<>> /\ request = NoRequest
    /\ committed = {} /\ starts = 0
    /\ resolved = <<>> /\ queue = {} /\ top = NoPiece /\ union = <<>>

CommittedBlocks == {c.block : c \in committed}
Newest == IF committed = {} THEN None ELSE Last(CommittedBlocks)

-----------------------------------------------------------------------------
(* The Portal.                                                             *)

NewBlock ==
    /\ tip' \in {b \in Block : tip \in Path[b] /\ Num[b] = Num[tip] + 1}
    /\ UNCHANGED <<mergeVars, reorgs, asked, readVars, committed, starts>>

Reorganise ==
    /\ reorgs < MaxReorgs
    /\ tip' \in {b \in Block : tip \notin Path[b] /\ b \notin Path[tip]}
    /\ reorgs' = reorgs + 1
    /\ UNCHANGED <<mergeVars, asked, readVars, committed, starts>>

\* The canonical block the next request continues from.
Below == {b \in Path[tip] : Num[b] = request.from - 1}

-----------------------------------------------------------------------------
(* calculateRanges.                                                        *)

\* Fault: 'latest' is the head, wherever the pipe has got to.
ResolvedToHead(range, latest) ==
    [from |-> IF range.latest THEN Num[tip] ELSE range.from, to |-> range.to]

\* 'latest' is the head, but never past the block the pipe has to continue with.
Resolved(range, latest) ==
    LET next == IF latest = None THEN Infinity ELSE Num[latest] + 1
    IN  [from |-> IF range.latest THEN Earlier(Num[tip], next) ELSE range.from, to |-> range.to]

\* read(): state.latest is what is committed, after a fork the ancestor.
Start ==
    /\ stage = "stopped"
    /\ cursor' = Newest
    /\ LET ranges == [r \in DOMAIN asked |-> Resolved(asked[r], cursor')]
       IN  IF \E r \in DOMAIN ranges : ranges[r].to < ranges[r].from
           THEN stage' = "refused" /\ UNCHANGED mergeVars
           ELSE stage' = "merging" /\ BeginMerge(ranges)
    /\ UNCHANGED <<portalVars, asked, todo, request, committed, starts>>

MergeStep ==
    /\ MergeDisjoint \/ MergeOverlap
    /\ UNCHANGED <<portalVars, asked, readVars, committed, starts>>

\* What a piece has behind the cursor.
Behind(piece, latest) == [piece EXCEPT !.from = Later(@, NumOf(latest) + 1)]

\* applyRangeBound: the pieces that have a block behind the cursor, each from there on.
Bounded(pieces, latest) ==
    LET result[n \in 0..Len(pieces)] ==
          IF n = 0 THEN <<>>
          ELSE IF Behind(pieces[n], latest).from <= Behind(pieces[n], latest).to
               THEN Append(result[n - 1], Behind(pieces[n], latest))
               ELSE result[n - 1]
    IN  result[Len(pieces)]

\* Fault: the cursor's hash goes with every range.
AnchorEverywhere(piece) == [from |-> piece.from, anchor |-> cursor]

\* Fault: no range starts with the cursor's hash.
AnchorNowhere(piece) == [from |-> piece.from, anchor |-> None]

\* The first request of a range: it is anchored if it continues from the cursor.
Opening(piece) ==
    [from   |-> piece.from,
     anchor |-> IF cursor # None /\ piece.from = Num[cursor] + 1 THEN cursor ELSE None]

ReadRanges(pieces) ==
    /\ todo' = pieces
    /\ stage' = IF pieces = <<>> THEN "done" ELSE "reading"
    /\ request' = IF pieces = <<>> THEN NoRequest ELSE Opening(pieces[1])

StartReading ==
    /\ stage = "merging" /\ MergeEnds
    /\ ReadRanges(Bounded(Merged, cursor))
    /\ resolved' = <<>> /\ queue' = {} /\ top' = NoPiece /\ union' = <<>>
    /\ UNCHANGED <<portalVars, asked, cursor, committed, starts>>

-----------------------------------------------------------------------------
(* The loop over the ranges.                                               *)

Reading == stage = "reading" /\ request.from <= todo[1].to

Receive ==
    /\ Reading
    /\ request.anchor = None \/ request.anchor \in Below
    /\ \E last \in {b \in Path[tip] : request.from <= Num[b] /\ Num[b] <= todo[1].to} :
        /\ committed' = committed \cup
             {[block |-> b, requests |-> todo[1].requests] :
                b \in {d \in Path[last] : request.from <= Num[d]}}
        /\ request' = [from |-> Num[last] + 1, anchor |-> last]
    /\ UNCHANGED <<mergeVars, portalVars, asked, stage, cursor, todo, starts>>

NextRange ==
    /\ stage = "reading" /\ request.from > todo[1].to
    /\ ReadRanges(Tail(todo))
    /\ UNCHANGED <<mergeVars, portalVars, asked, cursor, committed, starts>>

\* 409: the Portal has another block below the request than its anchor.
Forked ==
    /\ Reading
    /\ request.anchor # None
    /\ Below # {} /\ request.anchor \notin Below

Stop(next) ==
    /\ stage' = next
    /\ todo' = <<>> /\ request' = NoRequest /\ cursor' = None
    /\ resolved' = <<>> /\ queue' = {} /\ top' = NoPiece /\ union' = <<>>

\* rollbackFork, then read() again from the ancestor.
RollBack ==
    /\ Forked
    /\ CommittedBlocks \cap Path[tip] # {}
    /\ LET ancestor == Last(CommittedBlocks \cap Path[tip])
       IN  committed' = {c \in committed : Num[c.block] <= Num[ancestor]}
    /\ Stop("stopped")
    /\ UNCHANGED <<portalVars, asked, starts>>

HaltOnFork ==
    /\ Forked
    /\ CommittedBlocks \cap Path[tip] = {}
    /\ Stop("halted")
    /\ UNCHANGED <<portalVars, asked, committed, starts>>

\* The process dies, or a pipe that has read its query is run again.
Restart ==
    /\ stage \in {"merging", "reading", "done"}
    /\ starts < MaxStarts
    /\ starts' = starts + 1
    /\ Stop("stopped")
    /\ UNCHANGED <<portalVars, asked, committed>>

-----------------------------------------------------------------------------
PipeStep ==
    \/ Start \/ MergeStep \/ StartReading
    \/ Receive \/ NextRange \/ RollBack \/ HaltOnFork

Next == PipeStep \/ NewBlock \/ Reorganise \/ Restart

\* The pipe runs on, and the chain grows to the end of the tree.
Spec == Init /\ [][Next]_vars /\ WF_vars(PipeStep) /\ WF_vars(NewBlock)

-----------------------------------------------------------------------------
Covered(r) == {Num[c.block] : c \in {d \in committed : r \in d.requests}}

\* Over crashes, forks and new heads, a request has been read for exactly its blocks up to the
\* cursor; one that starts at 'latest' has no hole behind its first block, although each start
\* resolves it to another head (query-builder.ts:102-117, 320-330).
CommittedAsAsked ==
    \A r \in DOMAIN asked :
        LET last == Earlier(asked[r].to, NumOf(Newest))
        IN  IF asked[r].latest
            THEN \A n \in Covered(r) : n..last \subseteq Covered(r)
            ELSE Covered(r) = asked[r].from..last

\* Within a range, a block is committed on its parent: the hash that anchors each request, and
\* that of the cursor after a restart, leave no room for a branch change (portal-source.ts:331-333,
\* client.ts:409-411).
LinkedWithinARange ==
    \A c, d \in committed :
        Num[d.block] = Num[c.block] + 1 /\ c.requests = d.requests => c.block \in Path[d.block]

\* A fork is only reported to a target whose newest block is no longer canonical: the anchor of
\* a request never names a block that the request does not continue (ADR-20).
OnlyOrphansAreRolledBack ==
    [][(RollBack \/ HaltOnFork) => Newest \notin Path[tip]]_vars

\* A query with an end is read to it on a chain that grows there, in whatever order its ranges
\* overlap, or the pipe has ended with an error.
QueryEnds ==
    (asked # <<>> /\ \A r \in DOMAIN asked : asked[r].to # Infinity)
        => <>[](stage \in {"done", "halted", "refused"})

\* A block is committed on its parent, also at the border of two ranges: "After each received
\* block: fromBlock <- number+1, parentBlockHash <- hash" (src/spec/14-interface-binding.md:23).
LinkedAcrossRanges ==
    \A c, d \in committed :
        Num[d.block] = Num[c.block] + 1 => c.block \in Path[d.block]
=============================================================================
