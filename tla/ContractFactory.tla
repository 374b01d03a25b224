-------------------------- MODULE ContractFactory --------------------------
(***************************************************************************)
(* A pipe whose decoder follows the contracts a factory creates            *)
(* (evm/factory.ts, evm/evm-decoder.ts) and keeps them in a store of its   *)
(* own (evm/factory-adapters/sqlite.ts), on a PortalSource.  The store is  *)
(* written by a transformer and rolled back by its hook (core/             *)
(* transformer.ts), before and after the target commits and rolls back:    *)
(* nothing joins the two.                                                  *)
(*                                                                         *)
(* The target is one that commits a batch, or a rollback, with its cursor  *)
(* in one step.  Data: a block may register children, call them, or both.  *)
(* A registration is this factory's ("own"), or one that its address or    *)
(* parameters do not match ("other"): every decoder is shown the logs any  *)
(* of them asked for.  A stored row is the block that registered the child.*)
(*                                                                         *)
(* Left out: pre-indexing, a log that cannot be decoded, several factories *)
(* on one store, a Factory object that outlives its stream, and the cache  *)
(* of look-ups, which every save() and remove() empties.                   *)
(*                                                                         *)
(* Definitions commented "Fault" are read as in PortalSource.              *)
(***************************************************************************)
EXTENDS PortalSource

CONSTANTS
    Child,      \* contract addresses
    Registers,  \* [Block -> [Child -> {"no", "own", "other"}]]
    Calls       \* [Block -> SUBSET Child], who emits an event of the decoder

ASSUME FactoryAssumption ==
    /\ Registers \in [Block -> [Child -> {"no", "own", "other"}]]
    /\ Calls \in [Block -> SUBSET Child]
    /\ \A b \in Block \ Selected : Calls[b] = {} /\ \A c \in Child : Registers[b][c] = "no"

VARIABLES
    store,    \* [Child -> Cursor], the factory table; None where there is no row
    decoded,  \* what the transformers made of the batch the target has
    phase,    \* "idle", "writing" or "rollback": one of store and target is behind
    cursor,   \* the target's cursor,
    floor,    \* the finalized head saved with it,
    chain,    \* its rollback chain
    records,  \* and its data
    torn      \* history: a crash has fallen between the store and the target

targetVars == <<cursor, floor, chain, records>>
factoryVars == <<store, decoded, phase>>
vars == <<sourceVars, targetVars, factoryVars, torn>>

Record == [block : Block, child : Child, created : Nat]

TypeOK ==
    /\ SourceTypeOK
    /\ store \in [Child -> Cursor]
    /\ decoded \subseteq Record /\ records \subseteq Record
    /\ phase \in {"idle", "writing", "rollback"}
    /\ cursor \in Cursor /\ floor \in Cursor /\ chain \subseteq Block
    /\ torn \in BOOLEAN

Init ==
    /\ SourceInit
    /\ store = [c \in Child |-> None]
    /\ decoded = {} /\ phase = "idle"
    /\ cursor = None /\ floor = None /\ chain = {} /\ records = {}
    /\ torn = FALSE

-----------------------------------------------------------------------------
(* The decoder.                                                            *)

\* Factory.decode: the first registration of a child in the batch.
InBatch(c) ==
    LET found == {b \in Part : Registers[b][c] # "no"}
    IN  IF found = {} THEN None ELSE First(found)

\* Fault: only the store is looked up.
LookupInStore(c) ==
    LET row == store[c]
    IN  IF row # None /\ Registers[row][c] = "own" THEN row ELSE None

\* getContract: the batch before the store, and the match of what is found first.
GetContract(c) ==
    LET row == IF InBatch(c) # None THEN InBatch(c) ELSE store[c]
    IN  IF row # None /\ Registers[row][c] = "own" THEN row ELSE None

\* save(): INSERT OR IGNORE keeps the row that is there.
Saved == [c \in Child |-> IF store[c] # None THEN store[c] ELSE InBatch(c)]

\* transform: all registrations of the batch, then all calls, then persist().
Transform ==
    /\ run = "reading" /\ phase = "idle"
    /\ batch.blocks # {}
    /\ decoded' = {[block |-> p[1], child |-> p[2], created |-> Num[GetContract(p[2])]] :
                      p \in {q \in Part \X Child : q[2] \in Calls[q[1]] /\ GetContract(q[2]) # None}}
    /\ store' = Saved
    /\ phase' = "writing"
    /\ UNCHANGED <<sourceVars, targetVars, torn>>

-----------------------------------------------------------------------------
(* The target.                                                             *)

Commit ==
    /\ phase = "writing"
    /\ HandOver
    /\ cursor' = Last(Part)
    /\ floor' = batch.finalized
    /\ chain' = RollbackChain(chain \cup Part, batch.finalized)
    /\ records' = records \cup decoded
    /\ decoded' = {} /\ phase' = "idle"
    /\ UNCHANGED <<store, torn>>

History == IF cursor = None THEN <<>> ELSE <<[chain |-> chain, finalized |-> floor]>>

\* rollbackFork, first half: resolveFork of the target.
RollBackTarget ==
    /\ ForkRaised /\ phase = "idle"
    /\ \E ancestor \in Block :
        /\ ancestor = ResolveForkCursor(History, failure)
        /\ cursor' = ancestor
        /\ chain' = {b \in chain : Num[b] <= Num[ancestor]}
        /\ records' = {r \in records : Num[r.block] <= Num[ancestor]}
    /\ phase' = "rollback"
    /\ UNCHANGED <<sourceVars, floor, store, decoded, torn>>

\* Fault: the contracts of the ancestor itself go too.
RemovedFrom(number) ==
    [c \in Child |-> IF store[c] # None /\ Num[store[c]] >= number THEN None ELSE store[c]]

\* remove(): the rows above the ancestor.
Removed(number) ==
    [c \in Child |-> IF store[c] # None /\ Num[store[c]] > number THEN None ELSE store[c]]

\* Second half: rollbackTransformers, and the stream reads on.
RollBackStore ==
    /\ phase = "rollback"
    /\ ResumeAfterFork(cursor)
    /\ store' = Removed(Num[cursor])
    /\ phase' = "idle"
    /\ UNCHANGED <<targetVars, decoded, torn>>

Halt ==
    /\ phase = "idle"
    /\ HaltOnFork
    /\ ResolveForkCursor(History, failure) = None
    /\ UNCHANGED <<targetVars, factoryVars, torn>>

\* The start hook creates the tables if they are not there, and leaves the rows.
StartRun ==
    /\ Start(cursor, floor)
    /\ UNCHANGED <<targetVars, factoryVars, torn>>

\* A crash, or a stop after the transformers have run.
CrashAndLoseMemory ==
    /\ Crash
    /\ torn' = (torn \/ phase # "idle")
    /\ decoded' = {} /\ phase' = "idle"
    /\ UNCHANGED <<targetVars, store>>

-----------------------------------------------------------------------------
Untouched == UNCHANGED <<targetVars, factoryVars, torn>>

PipeStep ==
    \/ (NewBlock \/ AnswerBlocks \/ AnswerFork \/ TakeBatch) /\ Untouched
    \/ StartRun \/ Transform \/ Commit \/ RollBackTarget \/ RollBackStore \/ Halt

Next ==
    \/ PipeStep
    \/ (Reorganise \/ Finalize) /\ Untouched
    \/ CrashAndLoseMemory

\* As in PostgresTarget, the pipe never stops on its own and the chain keeps growing.
Spec == Init /\ [][Next]_vars /\ WF_vars(PipeStep)

-----------------------------------------------------------------------------
PathTo(c) == {b \in (IF c = None THEN {} ELSE Path[c]) : Num[b] >= FromBlock}

\* The blocks of a branch that register a child with this factory.
Registrations(c, b) == {a \in PathTo(b) : Registers[a][c] = "own"}

\* What a branch amounts to, computed from its blocks alone.
Expected(b) ==
    {[block |-> p[1], child |-> p[2], created |-> Num[First(Registrations(p[2], p[1]))]] :
        p \in {q \in PathTo(b) \X Child : q[2] \in Calls[q[1]] /\ Registrations(q[2], q[1]) # {}}}

Of(children, set) == {r \in set : r.child \in children}

\* A child that every branch calling it registers, all of them alike and at one number.
Steady ==
    {c \in Child :
        /\ \A b, d \in Block :
               Registers[b][c] # "no" /\ Registers[d][c] # "no" =>
                   Num[b] = Num[d] /\ Registers[b][c] = Registers[d][c]
        /\ \A b \in Block : c \in Calls[b] => \E a \in Path[b] : Registers[a][c] # "no"}

\* The target has exactly the events of the contracts registered on the committed branch, each
\* with its registration: none missed, none of a contract that only an abandoned branch
\* created, however the branch came in batches (INV-22, RS-11).  After a crash between the store
\* and the target that is left of it which holds of children every branch registers alike.
RecordsAreOfBranch ==
    LET sure == IF torn THEN Steady ELSE Child
    IN  Of(sure, records) = Of(sure, Expected(cursor))

\* Between two batches the store knows the contracts of the committed branch and no others,
\* each with the number that lets a later rollback tell whether it goes (RS-11).
StoreFollowsBranch ==
    run = "reading" /\ phase = "idle" /\ ~torn =>
        \A c \in Child :
            LET found == {a \in PathTo(cursor) : Registers[a][c] # "no"}
            IN  store[c] = IF found = {} THEN None ELSE First(found)

\* Forks, crashes and the two halves of a rollback do not keep the pipe from the tip (LIV-1).
CatchesUp == <>[](cursor = tip \/ run = "halted")

\* "Auxiliary transformer persistence (e.g. discovered child contracts) follows the same
\* fork/rollback discipline as sink data" (src/spec/10-replay.md:31-36): the target's data is that
\* of its branch, whenever the process crashes.
RecordsSurviveCrashes == records = Expected(cursor)
=============================================================================
