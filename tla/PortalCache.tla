----------------------------- MODULE PortalCache -----------------------------
(***************************************************************************)
(* portal-cache/node: finalized parts of batches kept in a local table and *)
(* replayed by later reads of the same query, in front of a Portal whose   *)
(* chain may be reorganised; with the restarts of the pipes that use it.   *)
(*                                                                         *)
(* A target knows every block it has committed, in order, and removes what *)
(* is above the ancestor of a fork; the 409 covers the chain.  The client  *)
(* is one answer that is held until it is handed over.                     *)
(*                                                                         *)
(* Left out: the codec, several ranges in a query (RangedStream), queries  *)
(* of another hash (they share nothing), answers without blocks.           *)
(*                                                                         *)
(* Definitions commented "Fault" are read as in PortalSource.              *)
(***************************************************************************)
EXTENDS Chain, Sequences

CONSTANTS
    Reader,     \* the pipes that share the table, with one query
    FromBlock,  \* the first block of the query
    Ends,       \* the last blocks it may be run with; an open one is above every block
    MaxReorgs,  \* bound on reorganisations
    MaxRuns     \* bound on crashes, and on runs of a pipe that has ended

ASSUME CacheAssumption ==
    /\ FromBlock \in Nat /\ Ends \subseteq Nat
    /\ MaxReorgs \in Nat /\ MaxRuns \in Nat

VARIABLES
    tip,        \* the Portal's newest canonical block
    final,      \* its newest finalized block
    reorgs,     \* reorganisations so far
    data,       \* the table: intervals and their blocks
    stage,      \* where a reader's getStream is, or how its run ended
    end,        \* query.toBlock
    next,       \* the cursor of getStream: the next number, the hash before it
    held,       \* an answer not handed over yet, and the head it came with
    given,      \* the blocks the reader's target has committed, in order
    runs        \* crashes and new runs so far

portalVars == <<tip, final, reorgs>>
readVars == <<stage, end, next, held>>
vars == <<portalVars, data, readVars, given, runs>>

NoAnswer == [blocks |-> {}, head |-> None]

TypeOK ==
    /\ tip \in Block /\ final \in Block /\ reorgs \in 0..MaxReorgs
    /\ data \subseteq [first : Nat, last : Nat, blocks : SUBSET Block]
    /\ stage \in [Reader -> {"stopped", "cached", "portal", "saved", "done", "failed", "halted"}]
    /\ end \in [Reader -> Ends]
    /\ next \in [Reader -> [number : Nat, hash : Cursor]]
    /\ held \in [Reader -> [blocks : SUBSET Block, head : Cursor]]
    /\ given \in [Reader -> Seq(Block)]
    /\ runs \in 0..MaxRuns

Init ==
    /\ tip \in Block
    /\ final \in {b \in Path[tip] : Num[b] = 0} /\ reorgs = 0
    /\ data = {}
    /\ stage = [r \in Reader |-> "stopped"]
    /\ end \in [Reader -> Ends]
    /\ next = [r \in Reader |-> [number |-> FromBlock, hash |-> None]]
    /\ held = [r \in Reader |-> NoAnswer]
    /\ given = [r \in Reader |-> <<>>]
    /\ runs = 0

Newest(r) == IF given[r] = <<>> THEN None ELSE given[r][Len(given[r])]
Count(r) == Len(given[r])

\* A set of blocks of one branch in the order of their numbers.
InOrder(blocks) ==
    [i \in 1..Cardinality(blocks) |->
        CHOOSE b \in blocks : Cardinality({c \in blocks : Num[c] <= Num[b]}) = i]

-----------------------------------------------------------------------------
(* The Portal.                                                             *)

NewBlock ==
    /\ tip' \in {b \in Block : tip \in Path[b] /\ Num[b] = Num[tip] + 1}
    /\ UNCHANGED <<final, reorgs, data, readVars, given, runs>>

Reorganise ==
    /\ reorgs < MaxReorgs
    /\ tip' \in {b \in Block : final \in Path[b] /\ tip \notin Path[b] /\ b \notin Path[tip]}
    /\ reorgs' = reorgs + 1
    /\ UNCHANGED <<final, data, readVars, given, runs>>

Finalize ==
    /\ final' \in {b \in Path[tip] : Num[b] = Num[final] + 1}
    /\ UNCHANGED <<tip, reorgs, data, readVars, given, runs>>

\* The canonical block the next request of a reader continues from.
Below(r) == {b \in Path[tip] : Num[b] = next[r].number - 1}

-----------------------------------------------------------------------------
(* read(), and getStream up to the switch.                                 *)

\* Fault: only the blocks of the table give the request its anchor.
StartUnanchored(r) ==
    /\ stage[r] = "stopped"
    /\ next' = [next EXCEPT ![r] =
         [number |-> IF Newest(r) = None THEN FromBlock ELSE Num[Newest(r)] + 1, hash |-> None]]
    /\ stage' = [stage EXCEPT ![r] = IF next'[r].number > end[r] THEN "done" ELSE "cached"]
    /\ UNCHANGED <<portalVars, data, end, held, given, runs>>

\* The range is clipped to what is committed; an empty one is not read.
Start(r) ==
    /\ stage[r] = "stopped"
    /\ next' = [next EXCEPT ![r] =
         [number |-> IF Newest(r) = None THEN FromBlock ELSE Num[Newest(r)] + 1,
          hash   |-> Newest(r)]]
    /\ stage' = [stage EXCEPT ![r] = IF next'[r].number > end[r] THEN "done" ELSE "cached"]
    /\ UNCHANGED <<portalVars, data, end, held, given, runs>>

\* The rows the next SELECT finds; it takes one of them.
Rows(r) == {row \in data : row.first = next[r].number}

Replay(r) ==
    /\ stage[r] = "cached"
    /\ \E row \in Rows(r) :
        /\ given' = [given EXCEPT ![r] = @ \o InOrder(row.blocks)]
        /\ next' = [next EXCEPT ![r] = [number |-> Num[Last(row.blocks)] + 1,
                                        hash   |-> Last(row.blocks)]]
    /\ UNCHANGED <<portalVars, data, stage, end, held, runs>>

\* No row starts here: on to the Portal, unless the query seems to be read.
LeaveCache(r) ==
    /\ stage[r] = "cached"
    /\ Rows(r) = {}
    /\ stage' = [stage EXCEPT ![r] =
         IF end[r] # 0 /\ next[r].number >= end[r] THEN "done" ELSE "portal"]
    /\ UNCHANGED <<portalVars, data, end, next, held, given, runs>>

-----------------------------------------------------------------------------
(* getStream behind the switch.                                            *)

Asking(r) == stage[r] = "portal" /\ held[r] = NoAnswer

\* An answer comes with some finalized head, or without one.
Receive(r) ==
    /\ Asking(r)
    /\ next[r].hash = None \/ next[r].hash \in Below(r)
    /\ \E last \in {b \in Path[tip] : next[r].number <= Num[b] /\ Num[b] <= end[r]} :
       \E head \in Path[final] \cup {None} :
        /\ held' = [held EXCEPT ![r] =
             [blocks |-> {b \in Path[last] : next[r].number <= Num[b]}, head |-> head]]
        /\ next' = [next EXCEPT ![r] = [number |-> Num[last] + 1, hash |-> last]]
    /\ UNCHANGED <<portalVars, data, stage, end, given, runs>>

\* Fault: the whole batch is kept once its head is known.
KeptWhole(r) == IF NumOf(held[r].head) < 1 THEN {} ELSE held[r].blocks

\* The blocks of the batch that are final; a head of 0 counts as none.
Kept(r) ==
    IF NumOf(held[r].head) < 1 THEN {}
    ELSE {b \in held[r].blocks : Num[b] <= Num[held[r].head]}

Row(blocks) == [first |-> Num[First(blocks)], last |-> Num[Last(blocks)], blocks |-> blocks]

\* The interval is a primary key.
Refused(row) == \E old \in data : old.first = row.first /\ old.last = row.last

Save(r) ==
    /\ stage[r] = "portal" /\ held[r] # NoAnswer
    /\ LET kept == Kept(r)
       IN  IF kept = {} THEN stage' = [stage EXCEPT ![r] = "saved"] /\ UNCHANGED data
           ELSE IF Refused(Row(kept))
           THEN stage' = [stage EXCEPT ![r] = "failed"] /\ UNCHANGED data
           ELSE stage' = [stage EXCEPT ![r] = "saved"] /\ data' = data \cup {Row(kept)}
    /\ UNCHANGED <<portalVars, end, next, held, given, runs>>

HandOver(r) ==
    /\ stage[r] = "saved"
    /\ given' = [given EXCEPT ![r] = @ \o InOrder(held[r].blocks)]
    /\ held' = [held EXCEPT ![r] = NoAnswer]
    /\ stage' = [stage EXCEPT ![r] = "portal"]
    /\ UNCHANGED <<portalVars, data, end, next, runs>>

QueryIsRead(r) ==
    /\ Asking(r) /\ next[r].number > end[r]
    /\ stage' = [stage EXCEPT ![r] = "done"]
    /\ UNCHANGED <<portalVars, data, end, next, held, given, runs>>

\* 409: the Portal has another block below the request than its anchor.
Forked(r) ==
    /\ Asking(r) /\ next[r].number <= end[r]
    /\ next[r].hash # None
    /\ Below(r) # {} /\ next[r].hash \notin Below(r)

RollBack(r) ==
    /\ Forked(r)
    /\ LET common == {i \in 1..Count(r) : given[r][i] \in Path[tip]}
       IN  /\ given' = [given EXCEPT ![r] = SubSeq(@, 1, Cardinality(common))]
           /\ stage' = [stage EXCEPT ![r] = IF common = {} THEN "halted" ELSE "stopped"]
    /\ UNCHANGED <<portalVars, data, end, next, held, runs>>

-----------------------------------------------------------------------------
(* Restarts; the query may have been given another end.                    *)

Restart(r) ==
    /\ stage' = [stage EXCEPT ![r] = "stopped"]
    /\ end' \in {e \in [Reader -> Ends] : \A q \in Reader \ {r} : e[q] = end[q]}
    /\ held' = [held EXCEPT ![r] = NoAnswer]
    /\ UNCHANGED <<portalVars, data, next>>

\* A pipe is run again after a crash or its end, with its target or with an empty one.
RunAgain(r) ==
    /\ stage[r] \in {"cached", "portal", "saved", "done"}
    /\ runs < MaxRuns /\ runs' = runs + 1
    /\ given' \in {given, [given EXCEPT ![r] = <<>>]}
    /\ Restart(r)

\* The runner calls a pipe again that has failed.
Retry(r) ==
    /\ stage[r] = "failed"
    /\ Restart(r)
    /\ UNCHANGED <<given, runs>>

-----------------------------------------------------------------------------
ReadStep(r) ==
    \/ Start(r) \/ Replay(r) \/ LeaveCache(r)
    \/ Receive(r) \/ Save(r) \/ HandOver(r) \/ QueryIsRead(r) \/ RollBack(r)
    \/ Retry(r)

Next ==
    \/ NewBlock \/ Reorganise \/ Finalize
    \/ \E r \in Reader : ReadStep(r) \/ RunAgain(r)

\* Pipes run on and are called again, the Portal answers, the chain grows to the end of the tree.
Spec ==
    /\ Init /\ [][Next]_vars
    /\ \A r \in Reader : WF_vars(ReadStep(r))
    /\ WF_vars(NewBlock)

-----------------------------------------------------------------------------
\* What the table holds is canonical and stays so, whatever was reorganised while a batch was
\* on its way and after it was kept: RS-20 (node-portal-cache.ts:145-166).
KeptStaysCanonical ==
    \A row \in data :
        row.blocks = {b \in Path[tip] : row.first <= Num[b] /\ Num[b] <= row.last}

\* Over replays, the switch, forks and restarts in any order, a target is given one branch: what
\* it has up to a block are the blocks of the query on that block's branch, each once and in
\* order, as without a cache (node-portal-cache.ts:103-134).
GivenIsOneBranch ==
    \A r \in Reader : \A i \in 1..Count(r) :
        /\ \A j \in 1..(i - 1) : Num[given[r][j]] < Num[given[r][i]]
        /\ {given[r][j] : j \in 1..i} = {b \in Path[given[r][i]] : FromBlock <= Num[b]}

\* A pipe comes to the tip and stays there, or to the end of its query: neither a row it replays
\* nor one it may not insert twice keeps it from reading on. When a query counts as read is
\* another matter, see DoneIsReadToTheEnd.
CatchesUp ==
    <>[](\A r \in Reader : stage[r] \in {"done", "halted"} \/ Newest(r) = tip)

\* A run that has completed has read its query to the last block: "Cached replay is
\* byte-equivalent to portal replay" (src/spec/02-requirements.md:89).
DoneIsReadToTheEnd ==
    \A r \in Reader : stage[r] = "done" => NumOf(Newest(r)) >= end[r]

\* A run is given no block behind the end of its query.
NothingBehindTheEnd ==
    [][\A r \in Reader : Count(r)' > Count(r) => NumOf(Newest(r)') <= end[r]]_vars

\* No pipe fails on a row it may not insert.
NoRowTwice == \A r \in Reader : stage[r] # "failed"
=============================================================================
