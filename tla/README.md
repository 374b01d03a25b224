# pipes-sdk in TLA+

A pipe of `@subsquid/pipes` reads blocks from a Portal, transforms them and writes them to a
target (Postgres, BigQuery, ClickHouse, ...). The Portal follows the head of a chain, so blocks it
has served may be replaced; a pipe then has to find a block both sides still agree on, take back
what it wrote above it, and go on, across crashes, without ever taking back a block that was
reported final. That is the part of the SDK that is hardest to test, and what these modules are
about. Paths below are relative to `src/packages/pipes/src/` unless they start with `src/`. Codes
such as INV-13 or WP-42 are clauses of the normative specification in `src/spec/`; the definitions
here are translated from the code, and the clauses are only what some properties state.

## 1. The system

| Part | State it keeps | Operations | Interacts with | Hard behaviour | What makes it correct |
|---|---|---|---|---|---|
| Fork resolution `core/fork.ts` | none | `resolveForkCursor` | called by each target's `resolveFork` | sparse chains, records of several forks, a short answer | highest common block; never below the floor |
| Finalized watermark `core/finalized-watermark.ts` | highest finalized head | `seed`, `clamp` | PortalStream | heads that regress or are missing | never moves back, restarts included |
| PortalStream `core/portal-source.ts` | watermark, run | `read`, `applyFinality`, `readAcrossForks`, `rollbackFork`, `stop` | client, target, transformers | a fork found behind a buffered batch; reading on in the same run | each block delivered exactly once per branch |
| Portal client `portal-client/client.ts` | next request, anchor, cuts | `ingest`, `getStreamRequest` | Portal, buffer | 204 / 409 / cut / stalled answers; reading ahead | no gap, no repeat |
| Stream buffer `portal-client/stream-buffer.ts` | buffer, state, futures, timers | `put`, `take`, `flush`, `close`, `fail` | client, PortalStream | two tasks and two timers | data before error; nobody waits forever |
| Drizzle/Postgres `targets/drizzle/node-postgres` | tables, snapshot tables, sync rows | `write`, `resolveFork`, clean-up | PortalStream, database | undo log against clean-up and repeated forks | tables = branch up to the cursor |
| BigQuery `targets/bigquery` | tables, log rows, last cursor | `write`, `resolveFork`, recovery, clean-up | PortalStream, BigQuery | no atomicity across tables; crash anywhere | a restart repairs to the logged cursor |
| ClickHouse `targets/clickhouse` | tables, cursor rows | `write`, `resolveFork`, `onRollback` | PortalStream, ClickHouse | data and cursor in separate inserts | as above |
| Parquet `targets/parquet` | files, state file, open segments | `checkpoint`, `publishAll`, `#deleteFilesAboveCursor` | PortalStream, file system | publish then cursor | published files never change |
| Pub/Sub `targets/pubsub` | outbox, manifest, ledger | `commit`, `drain`, `fork`, compaction | PortalStream, SQLite, Pub/Sub | duplicate and late publications, compensation | consumers converge |
| Portal cache `portal-cache/node` | cached finalized batches | `getStream`, `save` | PortalStream, client | switch from cache to Portal | same blocks as without it |
| Query ranges `core/query-builder.ts` | none | `mergeRangeRequests`, `rangeDifference` | PortalStream | boundaries | every requested block once |
| Transformers, factory `core/transformer.ts`, `evm/factory*` | contracts in SQLite | `transform`, `rollback`, `persist` | PortalStream | persisted before the target, rolled back after it | contracts of one branch |
| HTTP client `http-client/client.ts` | attempt, timers | `request` | Portal client | retry, timeout, abort | answered or failed, once |
| Shutdown `core/shutdown.ts`, runner `runtime/node/runner.ts` | signal, active runs, attempts | `withShutdown`, `start` | PortalStream | deadline against drain | ends; releases the signal |
| Watchdog, progress, metrics, profiling | counters, timers | callbacks | PortalStream | timer against settle | no effect on the pipe |
| Decoders, typed queries, CLI, UI | none of a pipe | | | | |

A run goes like this. The target's `write()` reads its persisted cursor and floor and calls
`read()`. PortalStream asks the client for blocks after the cursor, with the cursor's hash as
`parentBlockHash`. The client reads ahead into the buffer; PortalStream takes a batch, clamps its
finalized head, splits it if the target wants unfinalized blocks one at a time, and yields; the
target commits and asks for the next. When the Portal's chain does not contain the parent it
answers 409 with the blocks just below; the error waits behind whatever is buffered, then
`rollbackFork` calls the target's `resolveFork`, and the same run reads on from the ancestor. With
no ancestor the run ends on E1003.

## 2. The modules

| Module | Models | Kind |
|---|---|---|
| `Chain` | the Portal's block tree and its answers | external, assumptions on the tree |
| `ForkResolution` | `resolveForkCursor`, `maxFinalized` as definitions | operators |
| `ForkSearch` | the loop of `core/fork.ts`, a block per step, over every history a pipe can have | state machine |
| `PortalSource` | Portal, client, buffer, PortalStream, up to the hand-over to a target | state machine without a target |
| `PostgresTarget` | the Postgres target joined to `PortalSource` | composition |
| `BigqueryTarget` | the BigQuery target joined to `PortalSource` | composition |
| `ClickhouseTarget` | the ClickHouse target joined to `PortalSource` | composition |
| `PubsubTarget` | the Pub/Sub target, the wire and a consumer joined to `PortalSource` | composition |
| `ParquetTarget` | the Parquet target on a directory, with the restarts of its process | state machine |
| `StreamBuffer` | the client's `ingest`, the buffer and its reader, with timers and broken bodies | state machine |
| `QueryRanges` | the merge of a query's ranges, step by step | state machine without a pipe |
| `RangedStream` | PortalStream over several ranges, on `Chain` and `QueryRanges` | composition |
| `PortalCache` | the cache in front of the Portal, for one or several pipes | state machine |
| `ContractFactory` | a factory's decoder and contract store, and an atomic target, joined to `PortalSource` | composition |
| `Shutdown` | graceful shutdown and the runner of a process | state machine |
| `HandOff` | what a read-ahead buffer promises | abstract specification |
| `ReorgSafeSink` | what any target of a full stream promises | abstract specification |
| `ForkSearchProofs`, `PostgresTargetProofs`, `PortalCacheProofs`, `RangedStreamProofs`, `ContractFactoryProofs` | theorems on the modules over `Chain` | proofs |
| `StreamBufferProofs`, `ShutdownProofs`, `ParquetTargetProofs` | theorems on the modules without a tree | proofs |
| `MCTree`, `MCForkSearch` and an `MC` module for each target | small trees and constants | TLC instances |

The Postgres, BigQuery, ClickHouse and Pub/Sub targets and `ContractFactory` EXTEND `PortalSource` and conjoin their own
updates to its actions (`Start`, `HandOver`, `ResumeAfterFork`, `HaltOnFork`, `Crash`). Each target
instantiates `ReorgSafeSink` with a refinement mapping of its own: what a table is, what BigQuery's
and ClickHouse's tables are once the next start has repaired them, what a Pub/Sub consumer has once
the outbox is out. `ParquetTarget` stands alone: it takes finalized blocks only, so no fork reaches
it. `StreamBuffer` opens up what `PortalSource` takes for one record and one step. `RangedStream` and
`PortalCache` EXTEND `Chain` only: they take a batch as committed when it is received and their
target knows all it has committed, so that what they show is due to ranges or to the cache alone.
`Shutdown` is about the process around the pipes and knows no blocks.

### How the state corresponds to the code

*Blocks.* A `BlockCursor {number, hash}` is a block of a tree: `Num` is the number, identity is the
hash, `Path` the ancestors. `None` is a missing cursor, anchor or finalized head. `Selected` are the
blocks with data for the query; a 200 answer carries these and both ends of its range
(`Delivered`), so a retained chain may skip numbers. `Reach` is how many canonical blocks a 409
carries.

*Fork search.* A record is `{chain, finalized}`. The double loop over records and sorted chains is a
walk over *visits* `<<i, b>>`; `todo` is what is left of it, `window` the canonical blocks not yet
narrowed away. `Init` builds only histories a pipe can commit: each batch extends the one before,
each record holds the delivered blocks above the clamped head of its batch, heads never regress.
Histories that a BigQuery log holds after a fork, with records of an abandoned branch in them, are
not among them; they arise in `BigqueryTarget`, which calls the same definition.

*Source.* `request` is `{fromBlock, parentBlockHash}`; `buffer` the batch read ahead, `full` when
`put()` waits for the reader (a response with unfinalized blocks is flushed at once); `failure` the
canonical blocks of a ForkException that `fail()` holds behind the buffer; `batch` what PortalStream
has taken and not handed over. `Part` is what `splitByFinality` yields next. `AnswerBlocks` chooses
how far an answer reaches, so a cut response is an answer that ends early.

*Postgres.* `table` maps a key to the block that wrote its row; `undo` are the snapshot rows, the
first before-image per key and batch; `sync` the sync rows. `CommitBatch` is the whole transaction:
`onData`, triggers, `saveCursor`, clean-up of both tables. `RollbackFork` is `resolveFork` with
`saveForkCursor` and `DrizzleTracker.fork`, and the resumption. `saves` counts `#saves` up to what
the clean-up depends on. A transaction attempt that fails and is retried also advances `#saves`, so
in the code the rhythm of clean-ups can shift; it is not modelled.

*BigQuery.* `wal` is the log, newest row first; `phase` and `todo` say which bracket the process is
in and which tables it still has to write. Appends and deletes of different tables are separate
steps in any order, and a crash may come between any two. A start whose newest row is in flight goes
through `BeginRecovery`, `DeleteFrom` and `FinishRecovery`, and may crash there too.

*ClickHouse.* `rows` counts the rows of each block net of cancel rows, so a second insert of the same
block shows as 2. `sync` is the sync table, newest row first; a cancelled row stays until `Merge`
drops it, because `fork` reads it all the same. A start cursor has `current = None` and the last
number of the first batch; the repair of a start removes up to that number only, and everything
above any other cursor. `phase` and `todo` say where `write` or `resolveFork` is; a table is a step.

*Stream buffer.* A step is a stretch of code between two awaits. The three futures are flags:
`flushed`, `hasData`, and `released`, the consumed signal that a waiting `put` holds, which stays
resolved after `_reset` has replaced it. `ingest` says what the client awaits, `reader` whether
`take` is under way and how the stream ended. A byte is a block. `breaks` bounds bodies that end
before the Portal has nothing more to say.

*Parquet.* A file is a window and its rows, on disk once it is renamed; `saved` is the state file.
`PublishTable` is one rename, `SaveCursor` the replacement of the state file, `Crash` may come
between any two. `coverageStart` is the first block each table still owes a file for. A `refused`
process has failed on E2309, E2317 or E2322 and can only be started again.

*Pub/Sub.* `Commit` and `Fork` are whole transactions; `PublishSome` hands the outbox to the wire,
which takes any of it, in any order, and acknowledges a prefix; `Confirm` is the second transaction.
`foldedThrough` is the mark below which manifest rows are dead, and `Compact` removes any of those
at any time. `consumer` keeps the highest sequence number of an id, as the protocol asks of it. An
event occurs once on a branch: `Ops` says what a block maps to.

*Query ranges.* A request stands for its registration, so merging two is a union; an open range ends
at `Infinity`, above every block. `queue` is the heap as a set, `top` the popped piece, `union` the
finished list; which of several equal ranges is popped first is open. `MergeDisjoint` and
`MergeOverlap` are the two branches of the loop. `RangedStream.Start` resolves `latest` and refuses
inverted ranges, `StartReading` clips the pieces to the cursor, `todo` is what is left of the loop
over them, `request` the client's next request. `cursor` is the one of this `read()`: only a range
that continues it is anchored.

*Portal cache.* `data` is the SQLite table, `next` the local `cursor` of `getStream` (next number and
the hash before it), `held` a batch between the client and the target, `given` what the target has
committed, in order. `Save` and `HandOver` are apart, so a crash can fall between them. `RunAgain`
starts the pipe once more with its target or with an empty one, which is what the cache is for.

*Contract factory.* `store` maps a child to the block that registered it, the row of the `factory`
table. `Transform` is one call of the decoder: all registrations of the batch, then all calls, each
looked up in the batch before the store, then `persist`. `decoded` is what the target was handed;
`phase` says which of store and target is behind. `RollBackTarget` and `RollBackStore` are the two
halves of `rollbackFork`. The target is any that commits, and rolls back, in one transaction. `torn`
is history: a crash has fallen while one of the two was behind.

*Shutdown.* `listening`, `aborted` and `activeRuns` are the module's state, shared by all runs;
`deadline` is a run's timer. A run that loses the race is counted in `left` by what it still does.
`told`, `stops` and `calls` are history. `attempts` belongs to the runner.

A definition whose comment starts with *Fault* is a slip the code could hold in place of the
definition after it (a dropped guard, an off-by-one, a missing reset). No behaviour uses it; for
each property of a passing run one is known to violate it, so none of them holds by the shape of
the model.

## 3. What is checked

All runs set `CHECK_DEADLOCK FALSE`: the tree is finite and reorganisations and crashes are bounded,
so every run comes to a state where nothing is left to happen; a search, a stream and a query end.
No run lists a `TypeOK`: those of `ForkSearch`, `PostgresTarget`, `StreamBuffer`, `RangedStream`,
`PortalCache`, `ParquetTarget`, `ContractFactory` and `Shutdown` are proved, the others hold in the
runs below when they are added to the cfg. `SignalsTellTheBuffer` of `StreamBuffer` is proved too and not listed. `SettledTablesAreExact` of
`BigqueryTarget` follows from `CrashLeavesRepairableTables` where the newest log row has no range.

| Run | Bounds | Result |
|---|---|---|
| `ForkSearch` | 11 blocks, branches forking at the root and at height 2, numbers 0-4, up to 3 records, a 409 of 3 blocks, 7 of the 11 blocks selected | holds, 9,810 states |
| `PostgresTarget` | 9 blocks, 3 branches, 2 keys with inserts, updates and deletes, 3 reorganisations, 1 crash, a 409 of 2, retention 1, clean-up at save 1 and every 2, heads that regress or go missing once seen | holds, 134,667 states |
| `BigqueryTarget` | 6 blocks, 3 branches, 2 tables (symmetric), 2 reorganisations, 2 crashes, 3 log rows kept, heads that regress | holds, 662,705 states |
| `ClickhouseTarget` | 6 blocks, 3 branches, 2 tables (symmetric), 2 reorganisations, 2 crashes, 3 cursor rows kept | holds, 493,978 states |
| `StreamBuffer` | a query of 6 blocks, buffer of 3, up to 2 blocks a read, 3 broken bodies | holds, 63,082 states |
| `ParquetTarget` | 3 ranges with a gap and an empty one, 3 tables (rows in every block, in two, in none), 5 starts | holds, 14,195 states |
| `PubsubTarget` | 6 blocks, 3 branches, a materialized id with an inverse and an event, 2 reorganisations, 1 crash | holds, 120,456 states |
| `RangedStream` | 9 queries of up to 3 requests, 9 blocks with numbers 0-3, 3 branches, 2 reorganisations, 2 restarts | holds, 102,454 states |
| `PortalCache` | 9 blocks with numbers 0-3, 3 branches, a query that is open or ends at 2, 2 reorganisations, 2 crashes or re-runs | holds, 362,821 states |
| `Shutdown` | 2 pipes, 3 attempts each, 3 signals | holds, 215,641 states |
| `ContractFactory` | 9 blocks, 3 branches, 3 children (registered everywhere at one number, at different ones or never, by another factory), 2 reorganisations, 2 crashes | holds, 145,477 states |
| `CacheLastBlock` | a query to block 2, 1 restart | violated, see section 5 |

*Fork search.* `LoopAgreesWithDefinition` relates the loop to the definition the targets use.
`NeverBelowFloor`, `FindsLatestCommonBlock`, `RestartOnlyBelowWindow` and `CanonicalFloorResolves`
together say what a caller can rely on: a common block if one is known, the highest; otherwise a
retained block under everything known; never one below the floor; and no halt while the floor is in
the answer.

*Postgres.* `TableIsViewOfCursor`: in every state the tables are what the branch up to the cursor
amounts to, computed from scratch. `UndoReachesFloor`: a rollback to any block at or above the floor
would restore exactly that block's view, so it catches a wrong clean-up before any fork does.
`ChainIsOwnBranch`: sync rows rebuilt by fork after fork only name blocks of the committed branch.
`InFlightContinuesCursor`: cursor, buffered batches and next request fit together, with no gap and
no overlap among the blocks of the query; a cursor in front of it may be off the branch that is read,
because the first request then names no parent. `ImplementsSink`: the refinement. `CatchesUp` holds too, in the configuration
`PostgresLiveness` with 2 reorganisations (65,880 states); the liveness of a pipe on `PortalSource`
is listed once, with `ContractFactory`.

*BigQuery.* `CrashLeavesRepairableTables`: at every step of every bracket, deleting the range of the
newest log row gives the view of that row's cursor in each table; outside a bracket that range is
empty, and the tables need no repair. An append that fails while the process lives on is the same
step as a crash: `write()` drops its buffer and recovers before it reads. `ImplementsSink` reads the
tables through that repair.

*ClickHouse.* The same for another mechanism, and what holds outside a bracket as a property of its
own: there is no log of what
is under way, so `CrashLeavesRepairableTables` rests on the order of the statements (start cursor,
data, cursor; fork cursor, removal), and `SettledTablesAreExact` on the removal of a fork going no
further than the last commit. `StoredChainIsOwnBranch` is violated, see section 5.

*Stream buffer.* `BoundedReadAhead` is the backpressure; `NothingLost` relates the reader's blocks to the client's
next request across every way a body can break. `ImplementsHandOff`: data before the end, in whole
batches. `BufferedIsDelivered` and `StreamEnds` are its liveness, see Fairness.

*Parquet.* `DirectoryIsExact` is what a reader of the directory sees at every moment: each row up to
the saved cursor in exactly one file, and windows that tile the ranges. `OwnFilesAreNeverRefused` and `QueryCompletes` that the pipe survives its own crashes.

*Pub/Sub.* `OutboxCompletesTheWire` relates three parties, the consumer, the outbox and the cursor;
`UndoReachesFloor` says of every block a fork can go back to what the compensations would leave, so
it catches a wrong fold or compaction before a fork does; `OutboxDrains` is its liveness.

*Query ranges.* `EveryBlockKeepsItsRequests` holds at every step of the merge and not only of its
result. `CommittedAsAsked` compares what each request was read for with what it asked for, over
restarts that resolve `latest` to another head. `LinkedWithinARange` and
`OnlyOrphansAreRolledBack` are the two sides of the anchor: without it a reorganisation goes
unnoticed, with a wrong one a fork is reported that is none. `QueryEnds` is the liveness of both.
`LinkedAcrossRanges` is violated, see section 5.

*Portal cache.* `KeptStaysCanonical` is why the table needs no invalidation. `GivenIsOneBranch` is
"the same blocks as without it" for the target: no gap, no repetition, each block on its parent,
over replays, switches, forks, crashes and a row that cannot be inserted. `CatchesUp` excludes that
a pipe replays what the Portal then refuses, for ever. `DoneIsReadToTheEnd` is violated, see section
5.

*Shutdown.* `EveryRunIsTold` relates the shared controller, its listeners and the timers of all runs,
those included that start while others stop. `EachStopCallsBackOnce` counts over the whole life of a
pipe, with runs that are left behind while the runner has started the next.

*Contract factory.* `RecordsAreOfBranch` compares what was decoded batch by batch, across forks and
restarts, with what the blocks of the branch say when they are read at once. After a crash between
the store and the target it is asserted only of children that every branch registers alike, at one
number (`Steady`); what happens to the others is in section 5. `StoreFollowsBranch` is the store's side of it: the
contracts of the branch, each with the number that decides whether a later rollback removes it.
`CatchesUp`: see Fairness.

*Why the bounds are enough.* The search looks at one record and one window at a time; three
records give a newest, a middle and an oldest one, and the tree has a fork above, at and below each
of them. A target's step touches one batch, its predecessor and the records a clean-up reaches; three
reorganisations roll back something written after a rollback of something written after a rollback.
The properties are violated at these bounds by each of the faults above. Two crashes put one into
the repair of another. In the Parquet run each checkpoint has a predecessor and a successor, a range
is closed with and without a rollover in it, and rollover limits and stops fall on different blocks.
Three broken bodies are a cut, its repetition at the same block and a reset.
What they leave out: histories longer than the clean-up interval times two, and more than
two keys whose writers differ in other ways than insert, update and delete.

### Fairness

In `ContractFactory` and `PostgresTarget` the only fair action is `PipeStep`: any step of the pipe, or
a new block. The code justifies it: requests are retried without bound (`http-client/client.ts:198`, ADR-10), the client polls at the head, and `write()` is a
loop without a condition. One fairness for all of them suffices because no step of the pipe can be
repeated without end: each consumes a block, a batch or a failure. `NewBlock` belongs to it as the
environment's promise that the chain keeps growing to the end of the tree; it is needed because a
409 comes only once the new branch is at least as long as the request's anchor. `Reorganise` and
`Crash` are bounded and not fair. `CatchesUp` allows a halt on E1003.

`StreamBuffer` has weak fairness of the two timers, of the reader (a target that is busy comes back
for the next batch) and of what the client does without the Portal: the rest of `put`, `flush`, the
end. `BufferedIsDelivered` holds under that alone, with a Portal that falls silent. Only `StreamEnds`
assumes in addition that the Portal answers and grows to the end of the query, in its own statement.

`ParquetTarget` has weak fairness of `ProcessStep`, which includes the start: the process is run by a
supervisor, and every step of it consumes a block, a table or a file. Crashes and stops are bounded
by `MaxStarts`. `PubsubTarget` has weak fairness of `Open` and `Confirm`, and strong fairness of
`PublishAll`: a publish may fail in part again and again, each failure ends the run and its restart
drains first, and the service does not fail for ever.

`RangedStream` has weak fairness of `PipeStep` and of `NewBlock`, for the reasons given for
`PostgresTarget`; `PortalCache` of each reader's `ReadStep`, which includes the runner's retry of a
run that failed, and of `NewBlock`. `ForkSearch` and `Shutdown` have no liveness property.

## 4. What is proved

tlapm checks these for every block tree that satisfies `ChainAssumption`, every `Reach`, `FromBlock`,
query, buffer size, number of pipes, reorganisations, crashes and records that the modules' assumptions
allow. A theorem says `ASSUME` where it needs more; each such hypothesis is met by the constants of
the run, and each but the last leaves out a case of section 5, where the property is false.

| Hypothesis | Says | Without it |
|---|---|---|
| `CursorIsKept` | retention is above 0, and the query starts above block 0 | findings 11 and 12: the clean-up deletes the newest cursor |
| `HeadsComeFirst` | no batch is committed before the first finalized head | finding 7: rows without an undo record |
| `OneReader` | the cache's table belongs to one pipe | finding 4: another pipe's rows hide a fork |
| `LimitsAreInside` | a rollover limit is reached neither at the last block of a range nor where the process stops | findings 6 and 15: a tail is published at the cursor that is saved already, or left out |
| `RegisteredOnceAndFirst` | a branch registers a child once, and not after an event of it | finding 18: attribution depends on the batch boundaries |
| `NumbersAreConsecutive` | a branch has a block for each number | a request for numbers that do not exist is not read for them; the claim is about EVM heights |

Each module on `Chain` begins with the facts on trees it uses: a path holds one block per number, the
lower of two blocks of a path is an ancestor of the higher, and `Last` and `First` return what their
names say. The last come from a least number (`WellFoundedInduction`). The lemmas are repeated and
not shared, so that each of these modules can be read, and proved, with the module it is about alone.

* `ForkSearchProofs`: `Invariance`, `Spec => []IInv`, and from it `TypeCorrect`, `FloorIsSafe`
  (`NeverBelowFloor`), `LatestCommonBlockFound` (`FindsLatestCommonBlock`), `RestartIsBelowWindow`
  (`RestartOnlyBelowWindow`), `FloorResolves` (`CanonicalFloorResolves`).
  None of the four is inductive: what the search returns depends on what it has passed over. `IInv`
  adds that the visits made are a prefix of the walk, that the window is exactly the canonical blocks
  below every visited number, that no visited block was canonical and at or above the floor, and that
  the history is one a pipe can commit (chains of one branch, newer records above older ones). From
  the last, a record's blocks are visited in falling order across records as well, which is why
  narrowing never discards a block that is still to come. `FloorResolves` needs that every visited
  block is strictly above the floor. `LoopIsDefinition` (`LoopAgreesWithDefinition`) joins the loop
  to the definition the targets call: `AgreementInv` says of each visited block that the definition
  has passed it over for the same reason, and its window is the loop's.

* `PostgresTargetProofs`, in two layers. `SourceInv` (`AlwaysSourceInv`) is about `PortalSource` under
  a target: everything between the cursor and the anchor of the next request is flying and in order;
  an unanchored request has nothing in flight; the watermark runs ahead of the persisted floor by what
  is flying; every finalized head the pipe knows, however it came to know it, is on every branch the
  Portal may still take; a failure waits only for a branch that has those heads. It gives `TypesHold`,
  `ChainsAreOfOwnBranch` (`ChainIsOwnBranch`) and `FlightContinuesCursor`
  (`InFlightContinuesCursor`), whatever heads the Portal reports or withholds. `DataInv`
  (`AlwaysDataInv`) adds the tables and the undo log: one record for a key and a number, none above the
  cursor, and `UndoReaches`. `TableIsViewOfCursor` is not inductive without the last, because a
  rollback makes the table what the log says; nor is `UndoReachesFloor` as it stands, because a floor
  may lie in front of the query. It gives `TableIsAlwaysView`, `UndoAlwaysReachesFloor`
  (`UndoReachesFloor`), and `PostgresIsReorgSafe` (`ImplementsSink`): a commit and a rollback map to
  those of `ReorgSafeSink`, every other step stutters. That a rollback does not go below the floor is
  `ForkResolution`'s choice, bounded by the sync rows that `SourceInv` describes.

  The module ends with what the mapping is worth. `AlwaysConsistent` (`Consistent`) and
  `FinalAlwaysKept` (`FinalIsKept`: a committed block at or below the floor is in every later
  committed branch) hold of every behaviour of `ReorgSafeSink`; their proofs use nothing of Postgres,
  so they are what any target that implements it keeps. `PostgresKeepsFinalBlocks` puts the two
  parts together for the Postgres target; the other three implement `ReorgSafeSink` by TLC, each in
  its mapping.

* `StreamBufferProofs`: `AlwaysIInv`, and from it `TypesHold`, `SignalsAlwaysTellTheBuffer`,
  `ReadAheadIsBounded` (`BoundedReadAhead`) and `NothingIsLost` (`NothingLost`). The bound on the read
  ahead rests on `RoomForARead`: a client that is not waiting in `put` finds less than `MaxBytes`
  buffered, and only the reader's `_reset` lets a waiting one go. That in turn needs
  `FlushedWhileWaiting`, since a flush while the buffer is not ready must not release it.
  `HandOffIsImplemented` (`ImplementsHandOff`): a `take` maps to a hand-over of all that is buffered,
  the end of the stream to the end, and `EndIsFinal` is why nothing follows it.

* `PortalCacheProofs`: `AlwaysKeptInv`, types included, for any number of readers of one table: rows
  are intervals of the finalized part of the chain, and what a reader asks for or holds continues what
  its target has. `RowsStayCanonical` (`KeptStaysCanonical`) follows because a finalized block is on
  the path of every later tip. `OneReaderIsGivenOneBranch` (`GivenIsOneBranch`) adds that what lies
  below a row in the target is final too, which is what the missing anchor of a replay relies on, and
  what a second reader breaks.

* `RangedStreamProofs`: `AlwaysStreamInv`, and from it `TypesHold`, `MergeKeepsRequests`
  (`EveryBlockKeepsItsRequests`), `RangesAreLinked` (`LinkedWithinARange`) and `ReadAsAsked`
  (`CommittedAsAsked`), and the action property `OrphansOnlyAreRolledBack`
  (`OnlyOrphansAreRolledBack`). For the merge the invariant is a partition, each block on one piece
  per request that asks for it, with the order that the heap maintains: the finished list lies below
  the popped piece, which is the lowest left. For the loop it says that the anchor, where there is one,
  is the newest block and is one number below the request, and that touching pieces differ in their
  requests. What `applyRangeBound` returns for a list of any length is read off a least number at
  which it would be wrong (`BoundedFacts`), as the library's induction cannot be used.

* `ParquetTargetProofs`, in two layers, for any number of tables, any ranges and any limits.
  `RowsInv` (`AlwaysRowsInv`) needs no hypothesis and gives `TypesHold` and `RowsAreAlwaysExact`
  (`CommittedRowsAreExact`), which is not inductive: a crash drops open segments, so one must know
  that the rows on disk and the open segments are together what was read, each row once, that no
  open segment holds a row at or below the cursor, and that a file above the cursor exists only while
  a checkpoint is being written or until a recovery has deleted it. `WindowsInv` (`AlwaysWindowsInv`),
  under `LimitsAreInside`, is about the blocks that files claim, rows or not, and gives
  `DirectoryIsAlwaysExact` (`DirectoryIsExact`) and `OwnFilesNeverRefused`
  (`OwnFilesAreNeverRefused`). A table's files claim exactly the queried blocks below its coverage
  start; what is persisted and what is remembered agree except during a checkpoint; and a table owes
  coverage at or below the cursor only after a rollover, which by the hypothesis is inside a range
  that goes on. Hence no tail is published at a cursor that is already saved, and a file above the
  cursor starts where the state file says the table was next due, which is what recovery asks
  before it deletes one. The next queried block, which the code finds by a scan of the ranges, is read
  off a least number, as in `RangedStreamProofs`.

* `ContractFactoryProofs`, in three layers. `SourceInv` is that of `PostgresTargetProofs` with the
  target's cursor, floor and chain for the sync rows, except that between the halves of a rollback the
  request is still the one that failed. `StoreInv` (`AlwaysStoreInv`, with `TypesHold`) needs no
  hypothesis and gives `StoreAlwaysFollowsBranch` (`StoreFollowsBranch`), which is not inductive, as
  it is silent while store and target are apart. `StoreIsExact` says what the store has then: the first
  registrations of the branch with the batch on top while the target writes, and, once the target is
  rolled back, a table of which `remove` leaves those of the shorter branch. That `INSERT OR IGNORE`
  keeps the first one needs that a batch lies above all that is known. `StoreCovers` is what survives a
  torn crash: each row is some branch's registration, and a steady child of the branch has one. Under
  `RegisteredOnceAndFirst`, `RecordsInv` adds that the batch in the target's hands is decoded as its
  branch says, and gives `RecordsAlwaysOfBranch` (`RecordsAreOfBranch`). Its one hard step is
  `Attribution`: `getContract` looks in the batch before the store, and neither look-up knows the block
  of the call, so that it finds the right registration only because the branch has no other.

* `ShutdownProofs`: `AlwaysIInv`, and from it `TypesHold`, `EveryRunIsAlwaysTold`
  (`EveryRunIsTold`) and `CallbacksMatchStops` (`EachStopCallsBackOnce`). Two additions make these
  inductive: among active runs, those that were told are all of them or none, depending on the shared
  controller; and a run is told at most once, which bounds the runs that are left behind by the
  number of stops. The count of active runs uses `FiniteSetTheorems`.

### What is only model-checked

* The invariants and the refinements of `BigqueryTarget`, `ClickhouseTarget` and `PubsubTarget`. No
  step of them is out of the prover's reach. A proof for Bigquery or ClickHouse would need hypotheses that rule out what findings 8, 13 and
  14 show: with records of an abandoned branch among the candidates, the properties are false for
  some trees, and no condition on the constants as simple as those above rules them out.
* Everything temporal beyond an invariant, an action property or a refinement without fairness:
  `CatchesUp`, `BufferedIsDelivered`, `StreamEnds`, `QueryCompletes`, `QueryEnds`, `OutboxDrains`.
  Liveness under fairness and ENABLED are out of the prover's reach.
* What `MCTree` computes: it has the only two RECURSIVE operators, and no module with a theorem, or
  below one, uses it.

## 5. Where the code and its documents disagree

One has a run, listed in `PROJECT.json`.

1. `CacheLastBlock`: with a cache, the switch to the Portal is skipped when the next block is the last
   of the query, because the comparison that ends the read uses `>=`. A pipe that has committed all
   but the last block, or a query of one block, completes without it (REQ-12: cached replay is
   byte-equivalent to portal replay). `node-portal-cache.ts:121`.

The others are reproduced by configurations that no listed run uses (`tlc -config X.cfg M` shows each),
or by the named change to one that is listed or kept.

2. `CacheOverrun` (`MCPortalCache`): the query's hash leaves out its end and rows are replayed whole,
   so a pipe run again with a lower end is given the blocks behind it (REQ-12: identical output).
   `query-builder.ts:449-453`, `node-portal-cache.ts:107-119`.
3. `PortalCache.cfg` with `NoRowTwice` for its invariants: after the switch the Portal may answer with an interval that is
   kept already; the insert fails on the primary key, and with it the run. RS-24 names the rejection,
   REQ-12 calls the fallback transparent. The next attempt replays the row, so `CatchesUp` holds.
   `node-portal-cache.ts:141`.
4. `CacheShared` (`MCPortalCache`, two pipes, one table): a replay ignores the anchor. A pipe that
   stopped on an unfinalized block which was then replaced is given the rows another pipe kept for the
   new branch, and never learns of the fork (IB-3). `node-portal-cache.ts:107`.
5. `RangedStream.cfg` with `Queries <- BorderQueries` and `LinkedAcrossRanges` for its invariants:
   requests that overlap are cut into ranges that touch. Only a
   range that continues the cursor the run started with is anchored, so one that follows the previous
   range without a gap is not, and a reorganisation between them goes unnoticed (IB-3: "After each
   received block: fromBlock <- number+1, parentBlockHash <- hash"; WP-25: composition does not change
   results; ADR-20 speaks of disjoint ranges). `portal-source.ts:333`.
6. `ParquetOwnTail` (`MCParquetTarget`): a rollover at the last block of the query saves the cursor
   there; the stream-end checkpoint then publishes the tail of a table that had no rows, at the same
   cursor. A crash before the state file is replaced leaves a file that is not above the cursor, so
   that every later start keeps it and fails on E2309 (`parquet-target.ts:106-109` promises
   recovery). `parquet-target.ts:374`. A graceful stop right after a rollover does the same at any
   block (`Rollovers = {3}` and `Stops = {3}`).
7. `PostgresTarget.cfg` with `NoHeads = "ever"`: rows committed before the first finalized head have no
   undo record, but a later fork can go below them (WP-43). `drizzle-target.ts:131`.
8. `ClickhouseStaleChain` (`MCClickhouseTarget`): the chain of a fork cursor is merged from all live
   rows by number. Where the new branch has no selected block, a block of an abandoned one stays among
   the candidates of the next fork (DEF-7). `clickhouse-state.ts:239`. `SettledTablesAreExact` is
   violated under the same constants, after a search of several minutes: the pipe resumes after a
   block whose rows it has removed.
9. `PubsubStaleBaseline` (`MCPubsubTarget`): a delete that is final when it is committed removes the
   baseline, then the fold of the same commit puts an older revision back; a fork publishes it
   (CN-35). `pubsub-state.ts:871`.
10. `ForkSearchSparse` (`MCForkSearch`): the deep-fork restart needs an empty window, and a chain that
    skips numbers may run out first. The pipe halts although its floor is canonical (ADR-3 says it
    halts only without a common ancestor). `core/fork.ts:73`.
11. `PostgresTarget.cfg` with `FromBlock = 0`: a pipe from block 0 deletes the cursor of block 0 in
    the transaction that writes it (CN-20); `TableIsViewOfCursor` is violated. `postgres-state.ts:200`.
12. `PostgresTarget.cfg` with `Retention = 0`: 0 is falsy, passes the guard, and the clean-up takes
    the newest cursor; `TableIsViewOfCursor` is violated. `postgres-state.ts:102`.
13. `BigqueryStaleBranch` (`MCBigqueryTarget`): records of an abandoned branch stay in the log. After a
    flap back to the first branch and a short 409, the pipe resumes after a block whose rows it has
    deleted (WP-43). `bigquery-state.ts:542`.
14. `BigqueryStaleHalt` (`MCBigqueryTarget`): such a record at the floor's number removes the floor
    from the window; the pipe halts although the 409 carries the floor (LIV-4).
    `bigquery-state.ts:542`.
15. `ParquetOwnTail` with `CoverageIsTiled` for its invariant: a rollover at the last block of a range saves the cursor there
    while another table still owes the range. After a crash the process resumes in the next range
    without knowing which range was open, and moves the owed table's coverage past it: its files have
    a hole (`parquet-target.ts:87-91` says they tile the range end to end).
16. `ShutdownRunner` (`Shutdown`): a pipe that a signal has stopped throws E3001 or E3002, which the
    runner takes for an error and starts it again; after a missed deadline the new run is beside the
    old one's drain, two writers of one target. `runner.ts:82`.
17. `FactoryTorn` (`MCContractFactory`): contracts are persisted before the target commits, and a start
    removes none. After a crash in between and a reorganisation, the store keeps contracts of the
    abandoned branch: events of an address that the new branch never registered are decoded, and
    since `INSERT OR IGNORE` keeps the old row, a later rollback keeps or removes it by the wrong
    number (RS-11: the store "follows the same fork/rollback discipline as sink data").
    `evm-decoder.ts:508`, `factory-adapters/sqlite.ts:147`.
18. `ContractFactory.cfg` with `Calls <- EarlyCalls`: all registrations of a batch are read before its calls, so an
    event that precedes the registration of its contract is decoded if both are in one batch and
    dropped otherwise (INV-22: two runs "emit the same records with the same attribution", whatever
    their batch boundaries). With `Registers <- TwiceRegisters` instead: of a child registered
    twice, the registration in the batch is attributed before the first one, which is in the store.
    `evm-decoder.ts:433-450`, `factory.ts:148`.

Two were read in the code and are not in a model. A query from `latest` to N that has completed and
is run again is refused with E0002, since `latest` is then the block after N
(`query-builder.ts:102-123`). And an event whose id occurs at or below the ancestor in
a row that is folded, and again above it, is compensated with a delete, which CN-35 forbids
(`pubsub-state.ts:1103-1135`). The model takes an event to occur once on a branch.

The passing runs avoid these cases by their constants, and only these: pipes start at block 1,
retention is 1, a finalized head may go missing only after one was seen, the 409 of the BigQuery,
ClickHouse and Pub/Sub runs covers the tree, ClickHouse sees two reorganisations (a stale candidate
does harm in the third), no rollover limit is reached at the end of a range or where the process stops, no deleted id comes back
in the batch that makes its delete final; in `ContractFactory` a branch registers a child once, before
its events; the `PortalCache` run has one pipe and asserts neither that it stops at its end nor that it reaches it, and `RangedStream`
asserts linkage within a range only.
`PostgresTarget` is checked with a short 409.

## 6. Not modelled

In the targets on `PortalSource`: query ranges with gaps or an end (`RangedStream` has them, with a
simple target), head-only answers (they reach no
target and a 204 carries no finalized head), graceful stop and finalized-only
streams. In Postgres: cursor-key migration, a second writer on the same key. A commit that is not
acknowledged is a commit and a crash: the retry's insert meets the cursor row and ends the run. In
BigQuery: an append still on its way when `write()` is entered again, user hooks; its log rows are ordered by position, and the code makes its timestamps strictly increasing
for that reason (`bigquery-state.ts:473`). In ClickHouse: how a removal nets rows on each engine (its
result is what counts), the clean-up every 25 saves. In Parquet: the engine, temporary files, files
of another pipe or version. In Pub/Sub: identity and state-file refusals, go-live, `assumeNoForks`,
several topics and ordering keys. In the client: metadata and status requests, blocks out of order.

In query ranges: dates, the parsing of a range, field selection. In the cache: the codec, which is a
pure function of a batch. In the runner: the one error it never retries, the metrics server, what
`start()` does once a pipe has given up. In shutdown: the reading of the options.

In the contract factory: pre-indexing, decode errors, several factories on one store, a `Factory` that
outlives the stream of a failed run with what it had not persisted. Of the transformers, only this
one; `head()`, nesting and `stop()` are left out.

Not modelled at all: the HTTP client's retry loop (`PortalSource` and `StreamBuffer` take a request as
answered, failed or still open). Metrics, progress, logging, decoders, generated ABI code, examples,
CLI and UI hold no state a pipe depends on; they are most of the repository's lines.

## 7. Plan

In order of importance. Runs are kept few: one passing run for each component, and a violated one
only for a disagreement.

1. Proofs, for every value of the constants: the invariants of `PubsubTarget`, on the `SourceInv` of
   `ContractFactoryProofs`; those of `BigqueryTarget` and `ClickhouseTarget`, once a condition on the
   trees is found that leaves out findings 8, 13 and 14 and no more.
2. `PostgresTarget` with two writers.
3. The HTTP client's schedule, timeout and abort of one request.
