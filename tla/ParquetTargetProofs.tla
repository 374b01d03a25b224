------------------------- MODULE ParquetTargetProofs -------------------------
(***************************************************************************)
(* The Parquet target: what its directory holds, whatever the tables, the  *)
(* blocks and the ranges, and whenever the process crashes.                *)
(***************************************************************************)
EXTENDS ParquetTarget, FiniteSetTheorems, WellFoundedInduction, TLAPS

-----------------------------------------------------------------------------
(* The rows: RowsInv *)

Active == pc \in {"reading", "saveStart", "batch", "rollover", "checkpoint", "close"}

Seeded == ranges # <<>>

\* What the variables hold in more detail than TypeOK, which follows.
StateInv ==
    /\ files \in [Tables -> SUBSET File]
    /\ \A t \in Tables : \A f \in files[t] : f.from <= f.to
    /\ \/ saved = NoState
       \/ Ranges # <<>> /\ saved = StartState(Ranges[1].from - 1)
       \/ /\ saved = CursorState(saved.number, saved.coverage)
          /\ saved.number \in Queried /\ saved.coverage \in [Tables -> Nat]
    /\ pc \in {"down", "refused", "recovery", "reading", "saveStart", "batch", "rollover",
               "checkpoint", "close"}
    /\ ranges \in {<<>>, Ranges} /\ coverageStart \in [Tables -> Start]
    /\ segments \in [Tables -> SUBSET Queried]
    /\ batch \in Queried \cup {None}
    /\ lastBoundary \in Queried \cup {None} /\ lastCheckpoint \in Queried \cup {None}
    /\ openRange \in 0..Len(Ranges)
    /\ checkpoint \in [to : Queried \cup {None}, closeTails : BOOLEAN, todo : SUBSET Tables,
                       published : BOOLEAN, next : {"down", "reading", "batch", "close"}]
    /\ starts \in 0..MaxStarts

\* A process that is not reading remembers nothing; what it recovers from is
\* what lies above the cursor.
IdleInv ==
    /\ ~Active => /\ ranges = <<>> /\ segments = [t \in Tables |-> {}]
                  /\ openRange = 0 /\ batch = None
                  /\ lastBoundary = None /\ lastCheckpoint = None
                  /\ coverageStart = [t \in Tables |-> None]
    /\ pc # "checkpoint" => checkpoint = NoCheckpoint
    /\ pc = "recovery" => saved # NoState /\ doomed = OverCursor
    /\ pc # "recovery" => doomed = NothingDoomed

\* Nothing is on disk before the state file, nothing below the first range
\* before the first commit.
DiskInv ==
    /\ saved = NoState => files = [t \in Tables |-> {}]
    /\ saved.kind = "start" => \A t \in Tables : \A f \in files[t] : f.from > saved.number

\* The rows on disk and in the open segments are those read so far, each once.
RowsOf(t) == UNION {f.rows : f \in files[t]}

WrittenInv ==
    \A t \in Tables :
        /\ RowsOf(t) \cup segments[t] = {b \in Emits[t] \cap Queried : b <= lastBoundary}
        /\ RowsOf(t) \cap segments[t] = {}
        /\ \A f, g \in files[t] : f # g => f.rows \cap g.rows = {}
        /\ \A f \in files[t] : f.to <= Cursor \/ (pc = "checkpoint" /\ f.to = checkpoint.to)
        /\ \A b \in segments[t] : b > Cursor

\* Where a running process stands.
ProgressInv ==
    /\ lastCheckpoint = Cursor /\ Cursor <= lastBoundary
    /\ openRange = 0 => lastBoundary = Cursor /\ segments = [t \in Tables |-> {}]
    /\ openRange # 0 => lastBoundary \in Queried /\ RangeOf(lastBoundary) = openRange
    /\ ~Seeded => /\ openRange = 0
                  /\ pc \in {"reading", "checkpoint", "close"}
                  /\ pc = "checkpoint" => checkpoint.next = "close"
    /\ saved = NoState => pc \in {"reading", "saveStart", "close"} /\ lastBoundary = None
    /\ saved = NoState /\ pc # "saveStart" => ~Seeded
    /\ pc = "saveStart" => lastBoundary = None
    /\ pc \in {"saveStart", "batch"} => batch \in NextBatchEnds
    /\ pc = "rollover" => Cursor < lastBoundary
    /\ pc = "checkpoint" =>
         /\ lastBoundary \in Queried /\ checkpoint.to = lastBoundary
         /\ checkpoint.next # "down"
         /\ checkpoint.next = "batch" => batch \in NextBatchEnds
         /\ coverageStart \in [Tables -> Nat]
         /\ \A t \in Tables : t \in checkpoint.todo => coverageStart[t] <= lastBoundary
         /\ \A t \in Tables : segments[t] # {} => t \in checkpoint.todo

\* Coverage starts no later than the rows that are still to be published.
SeededInv ==
    Seeded =>
      /\ ranges # <<>> /\ coverageStart \in [Tables -> Nat]
      /\ \A t \in Tables :
           /\ coverageStart[t] >= Ranges[1].from
           /\ \A b \in Pending \cup segments[t] : coverageStart[t] <= b
           /\ openRange # 0 => Ranges[openRange].from <= coverageStart[t]

RowsInv ==
    /\ StateInv /\ IdleInv /\ DiskInv
    /\ CommittedRowsAreExact
    /\ Active => WrittenInv /\ ProgressInv /\ SeededInv

-----------------------------------------------------------------------------
(* The windows: WindowsInv *)

\* No rollover limit is reached where a range ends or the run is stopped: the
\* cases of ParquetOwnTail.cfg, in which a checkpoint finds nothing to commit
\* but tails.
LimitsAreInside ==
    \A b \in Rollovers :
        /\ b \notin Stops
        /\ b \in Queried => \E c \in Queried : b < c /\ RangeOf(c) = RangeOf(b)

Claims(f, b) == f.from <= b /\ b <= f.to

\* A block is claimed once, and only if it was asked for.
ClaimsInv ==
    \A t \in Tables :
        /\ \A f \in files[t] : \A b \in Blocks : Claims(f, b) => b \in Queried
        /\ \A f, g \in files[t] : \A b \in Queried : Claims(f, b) /\ Claims(g, b) => f = g

\* The state file tells what is claimed up to the cursor, and where a remnant
\* may start.  A table owes blocks only after a rollover, and only in the
\* cursor's own range.
SavedInv ==
    saved.kind = "cursor" =>
      \A t \in Tables :
        /\ \A b \in Queried : b <= saved.number =>
             ((\E f \in Committed(t) : Claims(f, b)) <=> b < saved.coverage[t])
        /\ saved.coverage[t] <= saved.number =>
             /\ saved.number \in Rollovers
             /\ Ranges[RangeOf(saved.number)].from <= saved.coverage[t]
        /\ \A f \in files[t] :
             f.to > saved.number /\ f.from <= saved.number => f.from = saved.coverage[t]

\* coverageStart tells what is claimed up to the last block handled.
CoverageInv ==
    Active /\ Seeded =>
      \A t \in Tables :
        /\ \A b \in Queried : b <= lastBoundary =>
             ((\E f \in files[t] : Claims(f, b)) <=> b < coverageStart[t])
        /\ coverageStart[t] <= Cursor => coverageStart[t] = saved.coverage[t]

\* A checkpoint always has something to commit; tails stay open only at a
\* rollover.
CheckpointInv ==
    /\ pc = "rollover" => lastBoundary \in Rollovers
    /\ pc = "checkpoint" =>
         /\ Cursor < lastBoundary
         /\ checkpoint.next = "reading" => lastBoundary \in Rollovers
         /\ checkpoint.next # "reading" =>
              \A t \in Tables \ checkpoint.todo : lastBoundary < coverageStart[t]

WindowsInv ==
    ClaimsInv /\ SavedInv /\ CoverageInv /\ CheckpointInv /\ OwnFilesAreNeverRefused

-----------------------------------------------------------------------------
(* Numbers and ranges *)

\* Every nonempty set of numbers has a least one.
LEMMA LeastNumber ==
    ASSUME NEW S \in SUBSET Nat, S # {}
    PROVE  \E m \in S : \A n \in S : m <= n
<1>1. \E m \in S : \A n \in S : ~(<<n, m>> \in OpToRel(<, Nat))
  BY NatLessThanWellFounded, WFMin
<1>2. PICK m \in S : \A n \in S : ~(<<n, m>> \in OpToRel(<, Nat))
  BY <1>1
<1>3. \A n \in S : ~(n < m)
  BY <1>2 DEF OpToRel
<1> QED
  BY <1>3

\* Min returns what its name says.
LEMMA MinIsLeast ==
    ASSUME NEW S \in SUBSET Nat, S # {}
    PROVE  Min(S) \in S /\ \A n \in S : Min(S) <= n
  BY LeastNumber DEF Min

\* And so does Max, of two numbers.
LEMMA MaxOfTwo ==
    ASSUME NEW m \in Nat, NEW n \in Nat
    PROVE  /\ Max({m, n}) \in {m, n}
           /\ Max({m, n}) >= m /\ Max({m, n}) >= n
<1>1. \E x \in {m, n} : \A y \in {m, n} : x >= y
  OBVIOUS
<1> QED
  BY <1>1 DEF Max

\* The ranges are windows, in order.
LEMMA RangeFacts ==
    /\ DOMAIN Ranges = 1..Len(Ranges) /\ Len(Ranges) \in Nat
    /\ \A i \in DOMAIN Ranges :
         i \in Nat /\ Ranges[i].from \in Nat /\ Ranges[i].to \in Nat /\ Ranges[i].from <= Ranges[i].to
    /\ \A i, j \in DOMAIN Ranges : i < j => Ranges[i].to < Ranges[j].from
<1>1. Ranges \in Seq([from : Nat, to : Nat])
  BY ParquetAssumption DEF ParquetAssumption
<1>2. DOMAIN Ranges = 1..Len(Ranges) /\ Len(Ranges) \in Nat
  BY <1>1
<1>3. ASSUME NEW i \in DOMAIN Ranges
      PROVE  i \in Nat /\ Ranges[i].from \in Nat /\ Ranges[i].to \in Nat /\ Ranges[i].from <= Ranges[i].to
  <2> DEFINE Window == [from : Nat, to : Nat]
  <2>1. Ranges[i] \in Window
    <3>1. Ranges \in Seq(Window)
      BY <1>1
    <3> HIDE DEF Window
    <3> QED
      BY <3>1, <1>3
  <2>2. Ranges[i].from \in Nat /\ Ranges[i].to \in Nat
    BY <2>1
  <2>3. Ranges[i].from <= Ranges[i].to
    BY ParquetAssumption DEF ParquetAssumption
  <2>4. i \in Nat
    BY <1>2
  <2> QED
    BY <2>2, <2>3, <2>4
<1>4. \A i, j \in DOMAIN Ranges : i < j => Ranges[i].to < Ranges[j].from
  BY ParquetAssumption DEF ParquetAssumption
<1> QED
  BY <1>2, <1>3, <1>4

\* A queried block lies in one range, and RangeOf tells which.
LEMMA RangeOfBlock ==
    ASSUME NEW b \in Queried
    PROVE  /\ b \in Nat /\ b \in Blocks /\ Ranges # <<>>
           /\ RangeOf(b) \in DOMAIN Ranges /\ RangeOf(b) \in Nat /\ RangeOf(b) # 0
           /\ Ranges[RangeOf(b)].from <= b /\ b <= Ranges[RangeOf(b)].to
           /\ \A i \in DOMAIN Ranges :
                Ranges[i].from <= b /\ b <= Ranges[i].to => i = RangeOf(b)
<1>1. b \in Nat /\ b \in Blocks
  BY ParquetAssumption DEF ParquetAssumption, Queried
<1>2. \E i \in DOMAIN Ranges : Ranges[i].from <= b /\ b <= Ranges[i].to
  BY DEF Queried
<1>3. /\ RangeOf(b) \in DOMAIN Ranges
      /\ Ranges[RangeOf(b)].from <= b /\ b <= Ranges[RangeOf(b)].to
  BY <1>2 DEF RangeOf
<1>4. RangeOf(b) \in Nat /\ RangeOf(b) # 0
  BY <1>3, RangeFacts
<1>5. Ranges # <<>>
  BY <1>2, RangeFacts
<1>6. ASSUME NEW i \in DOMAIN Ranges, Ranges[i].from <= b, b <= Ranges[i].to
      PROVE  i = RangeOf(b)
  BY <1>1, <1>3, <1>6, RangeFacts
<1> QED
  BY <1>1, <1>3, <1>4, <1>5, <1>6

\* Later blocks are in the same range or in later ones, and a range is an
\* interval.
LEMMA RangesAscend ==
    ASSUME NEW b \in Queried, NEW c \in Queried, b <= c
    PROVE  /\ RangeOf(b) <= RangeOf(c)
           /\ \A d \in Queried : b <= d /\ d <= c /\ RangeOf(b) = RangeOf(c) => RangeOf(d) = RangeOf(b)
           /\ RangeOf(b) # RangeOf(c) => b < Ranges[RangeOf(c)].from
<1>1. RangeOf(b) <= RangeOf(c)
  BY RangeOfBlock, RangeFacts
<1>2. ASSUME NEW d \in Queried, b <= d, d <= c, RangeOf(b) = RangeOf(c)
      PROVE  RangeOf(d) = RangeOf(b)
  <2>1. Ranges[RangeOf(b)].from <= d /\ d <= Ranges[RangeOf(b)].to
    BY <1>2, RangeOfBlock, RangeFacts
  <2> QED
    BY <2>1, RangeOfBlock
<1>3. ASSUME RangeOf(b) # RangeOf(c)
      PROVE  b < Ranges[RangeOf(c)].from
  <2>1. RangeOf(b) < RangeOf(c)
    BY <1>1, <1>3, RangeOfBlock
  <2> QED
    BY <2>1, RangeOfBlock, RangeFacts
<1> QED
  BY <1>1, <1>2, <1>3

\* Where coverage may start: at a block of a range, or behind them all, and
\* never behind a queried block that is still to come.
LEMMA NextQueriedBlockFacts ==
    ASSUME NEW n \in Nat
    PROVE  /\ NextQueriedBlock(n, Ranges) \in Nat
           /\ n <= NextQueriedBlock(n, Ranges)
           /\ \A b \in Queried : n <= b => NextQueriedBlock(n, Ranges) <= b
           /\ \A k \in DOMAIN Ranges :
                Ranges[k].from <= n /\ n <= Ranges[k].to => NextQueriedBlock(n, Ranges) = n
           /\ Ranges # <<>> => Ranges[1].from <= NextQueriedBlock(n, Ranges)
<1> DEFINE ahead == {i \in DOMAIN Ranges : n <= Ranges[i].to}
           next == NextQueriedBlock(n, Ranges)
<1>1. ahead \in SUBSET Nat
  BY RangeFacts
<1>2. CASE ahead = {}
  <2>1. next = n
    BY <1>2 DEF NextQueriedBlock
  <2>2. ~(\E i \in DOMAIN Ranges : n <= Ranges[i].to)
    BY <1>2
  <2>3. ASSUME NEW b \in Queried, n <= b
        PROVE  FALSE
    BY <2>2, <2>3, RangeOfBlock, RangeFacts
  <2>4. Ranges # <<>> => Ranges[1].from <= n
    <3> SUFFICES ASSUME Ranges # <<>> PROVE Ranges[1].from <= n
      OBVIOUS
    <3>1. 1 \in DOMAIN Ranges
      BY ParquetAssumption DEF ParquetAssumption
    <3> QED
      BY <3>1, <2>2, RangeFacts
  <2> HIDE DEF next
  <2> QED
    BY <2>1, <2>3, <2>4 DEF next
<1>3. CASE ahead # {}
  <2> DEFINE m == Min(ahead)
  <2>1. m \in ahead /\ \A i \in ahead : m <= i
    BY <1>1, <1>3, MinIsLeast
  <2>2. next = Max({n, Ranges[m].from})
    BY <1>3 DEF NextQueriedBlock
  <2> HIDE DEF m, next
  <2>3. m \in DOMAIN Ranges /\ m \in Nat /\ n <= Ranges[m].to /\ Ranges[m].from \in Nat
    BY <2>1, RangeFacts
  <2>4. next \in {n, Ranges[m].from} /\ next >= n /\ next >= Ranges[m].from
    BY <2>2, <2>3, MaxOfTwo
  <2>5. \A i \in DOMAIN Ranges : n <= Ranges[i].to => m <= i /\ Ranges[m].from <= Ranges[i].from
    BY <2>1, <2>3, RangeFacts
  <2>6. ASSUME NEW b \in Queried, n <= b
        PROVE  next <= b
    <3>1. /\ RangeOf(b) \in DOMAIN Ranges /\ b \in Nat
          /\ Ranges[RangeOf(b)].from <= b /\ b <= Ranges[RangeOf(b)].to
      BY RangeOfBlock
    <3>2. n <= Ranges[RangeOf(b)].to
      BY <2>6, <3>1, RangeFacts
    <3>3. Ranges[m].from <= b
      BY <2>3, <2>5, <3>1, <3>2, RangeFacts
    <3> QED
      BY <2>4, <2>6, <3>3
  <2>7. ASSUME NEW k \in DOMAIN Ranges, Ranges[k].from <= n, n <= Ranges[k].to
        PROVE  next = n
    BY <2>3, <2>4, <2>5, <2>7, RangeFacts
  <2>8. Ranges # <<>> => Ranges[1].from <= next
    <3> SUFFICES ASSUME Ranges # <<>> PROVE Ranges[1].from <= next
      OBVIOUS
    <3>1. 1 \in DOMAIN Ranges
      BY ParquetAssumption DEF ParquetAssumption
    <3> QED
      BY <3>1, <2>3, <2>4, RangeFacts
  <2>9. next \in Nat /\ n <= next
    BY <2>3, <2>4
  <2> QED
    BY <2>6, <2>7, <2>8, <2>9 DEF next
<1> QED
  BY <1>2, <1>3

\* A store without ranges advances to the block itself.
LEMMA NextBlockWithoutRanges ==
    ASSUME NEW n PROVE NextQueriedBlock(n, <<>>) = n
  BY DEF NextQueriedBlock

-----------------------------------------------------------------------------
(* What the state file and the seeded coverage say *)

\* The three kinds of state, and the cursor each gives.
LEMMA SavedFacts ==
    ASSUME StateInv
    PROVE  /\ Cursor \in Queried \cup {None} /\ Cursor \in Int /\ None <= Cursor
           /\ \/ saved = NoState /\ saved.kind = "none" /\ Cursor = None
              \/ /\ saved # NoState /\ saved.kind = "start" /\ Cursor = None
                 /\ Ranges # <<>> /\ saved.number = Ranges[1].from - 1
              \/ /\ saved # NoState /\ saved.kind = "cursor" /\ Cursor = saved.number
                 /\ saved.number \in Queried /\ saved.coverage \in [Tables -> Nat]
<1>1. CASE saved = NoState
  BY <1>1 DEF NoState, Cursor, None
<1>2. CASE Ranges # <<>> /\ saved = StartState(Ranges[1].from - 1)
  BY <1>2 DEF NoState, StartState, Cursor, None
<1>3. CASE /\ saved = CursorState(saved.number, saved.coverage)
           /\ saved.number \in Queried /\ saved.coverage \in [Tables -> Nat]
  <2>1. saved.kind = "cursor" /\ saved # NoState
    BY <1>3 DEF CursorState, NoState
  <2>2. saved.number \in Nat
    BY <1>3, RangeOfBlock
  <2> QED
    BY <1>3, <2>1, <2>2 DEF Cursor, None
<1> QED
  BY <1>1, <1>2, <1>3 DEF StateInv

\* Seeded coverage is never ahead of a block still to be read, nor behind the
\* first range, and a table that owes blocks of the cursor's range goes on
\* where it was to publish from.
LEMMA SeedFacts ==
    ASSUME StateInv, NEW n \in Nat
    PROVE  /\ SeedCoverage(n, Ranges) \in [Tables -> Nat]
           /\ SeedCoverage(n, <<>>) \in [Tables -> Nat]
           /\ \A t \in Tables :
                /\ \A b \in Queried : n <= b => SeedCoverage(n, Ranges)[t] <= b
                /\ Ranges # <<>> => Ranges[1].from <= SeedCoverage(n, Ranges)[t]
                /\ saved.kind = "cursor" /\ n = saved.number + 1 =>
                     IF saved.coverage[t] <= saved.number
                       THEN Ranges[RangeOf(saved.number)].from <= saved.coverage[t]
                              => SeedCoverage(n, Ranges)[t] = saved.coverage[t]
                       ELSE saved.number < SeedCoverage(n, Ranges)[t]
                /\ saved.kind = "cursor" /\ n = saved.number + 1 /\ saved.number < saved.coverage[t] =>
                     saved.number < SeedCoverage(n, <<>>)[t]
<1> DEFINE ceiling == NextQueriedBlock(n, Ranges)
<1>1. /\ ceiling \in Nat /\ n <= ceiling
      /\ \A b \in Queried : n <= b => ceiling <= b
      /\ Ranges # <<>> => Ranges[1].from <= ceiling
  BY NextQueriedBlockFacts
<1>2. /\ SeedCoverage(n, Ranges) =
           [t \in Tables |-> IF saved.kind # "cursor" THEN ceiling
                             ELSE IF saved.coverage[t] > ceiling THEN ceiling
                             ELSE NextQueriedBlock(saved.coverage[t], Ranges)]
      /\ SeedCoverage(n, <<>>) =
           [t \in Tables |-> IF saved.kind # "cursor" THEN n
                             ELSE IF saved.coverage[t] > n THEN n ELSE saved.coverage[t]]
  BY NextBlockWithoutRanges DEF SeedCoverage
<1> HIDE DEF ceiling
<1>3. CASE saved.kind # "cursor"
  BY <1>1, <1>2, <1>3
<1>4. CASE saved.kind = "cursor"
  <2> DEFINE C == saved.number
             next(t) == NextQueriedBlock(saved.coverage[t], Ranges)
  <2>1. C \in Queried /\ C \in Nat /\ saved.coverage \in [Tables -> Nat]
    BY <1>4, SavedFacts, RangeOfBlock
  <2>2. ASSUME NEW t \in Tables
        PROVE  /\ saved.coverage[t] \in Nat /\ next(t) \in Nat /\ saved.coverage[t] <= next(t)
               /\ \A b \in Queried : saved.coverage[t] <= b => next(t) <= b
               /\ \A k \in DOMAIN Ranges : Ranges[k].from <= saved.coverage[t] /\ saved.coverage[t] <= Ranges[k].to
                     => next(t) = saved.coverage[t]
               /\ Ranges # <<>> => Ranges[1].from <= next(t)
    BY <2>1, NextQueriedBlockFacts
  <2> HIDE DEF next
  <2>3. /\ SeedCoverage(n, Ranges) =
             [t \in Tables |-> IF saved.coverage[t] > ceiling THEN ceiling ELSE next(t)]
        /\ SeedCoverage(n, <<>>) =
             [t \in Tables |-> IF saved.coverage[t] > n THEN n ELSE saved.coverage[t]]
    BY <1>2, <1>4 DEF next
  <2>4. SeedCoverage(n, Ranges) \in [Tables -> Nat] /\ SeedCoverage(n, <<>>) \in [Tables -> Nat]
    BY <1>1, <2>2, <2>3
  <2>5. ASSUME NEW t \in Tables
        PROVE  /\ \A b \in Queried : n <= b => SeedCoverage(n, Ranges)[t] <= b
               /\ Ranges # <<>> => Ranges[1].from <= SeedCoverage(n, Ranges)[t]
    <3>1. CASE saved.coverage[t] > ceiling
      BY <1>1, <2>3, <3>1
    <3>2. CASE ~(saved.coverage[t] > ceiling)
      <4>1. SeedCoverage(n, Ranges)[t] = next(t)
        BY <2>3, <3>2
      <4>2. ASSUME NEW b \in Queried, n <= b PROVE saved.coverage[t] <= b
        BY <1>1, <2>2, <3>2, <4>2, RangeOfBlock
      <4> QED
        BY <2>2, <4>1, <4>2
    <3> QED
      BY <3>1, <3>2
  <2>6. ASSUME NEW t \in Tables, n = C + 1
        PROVE  /\ IF saved.coverage[t] <= C
                    THEN Ranges[RangeOf(C)].from <= saved.coverage[t]
                           => SeedCoverage(n, Ranges)[t] = saved.coverage[t]
                    ELSE C < SeedCoverage(n, Ranges)[t]
               /\ C < saved.coverage[t] => C < SeedCoverage(n, <<>>)[t]
    <3>1. CASE saved.coverage[t] <= C
      <4>1. SeedCoverage(n, Ranges)[t] = next(t)
        BY <1>1, <2>1, <2>2, <2>3, <2>6, <3>1
      <4>2. Ranges[RangeOf(C)].from <= saved.coverage[t] => next(t) = saved.coverage[t]
        <5>1. RangeOf(C) \in DOMAIN Ranges /\ C <= Ranges[RangeOf(C)].to
          BY <2>1, RangeOfBlock
        <5>2. saved.coverage[t] <= Ranges[RangeOf(C)].to
          BY <2>1, <2>2, <3>1, <5>1, RangeFacts
        <5> QED
          BY <2>2, <5>1, <5>2
      <4> QED
        BY <2>1, <2>2, <3>1, <4>1, <4>2
    <3>2. CASE ~(saved.coverage[t] <= C)
      BY <1>1, <2>1, <2>2, <2>3, <2>6, <3>2
    <3> QED
      BY <3>1, <3>2
  <2> QED
    BY <1>4, <2>4, <2>5, <2>6
<1> QED
  BY <1>3, <1>4

-----------------------------------------------------------------------------
(* The rows, step by step *)

LEMMA RowsInit == Init => RowsInv
<1> SUFFICES ASSUME Init PROVE RowsInv
  OBVIOUS
<1>1. StateInv
  <2>1. Len(Ranges) \in Nat
    BY RangeFacts
  <2> QED
    BY <2>1, ParquetAssumption DEF Init, StateInv, Start, NoCheckpoint, ParquetAssumption
<1>2. IdleInv /\ DiskInv /\ ~Active
  BY DEF Init, IdleInv, DiskInv, Active, NoState
<1>3. Cursor = None
  BY DEF Init, Cursor, NoState
<1>4. CommittedRowsAreExact
  <2>1. ASSUME NEW t \in Tables
        PROVE  /\ Committed(t) = {} /\ files[t] = {}
               /\ {b \in Emits[t] \cap Queried : b <= Cursor} = {}
    <3>1. files[t] = {}
      BY DEF Init
    <3>2. \A b \in Queried : ~(b <= Cursor)
      BY <1>3, RangeOfBlock DEF None
    <3> QED
      BY <3>1, <3>2 DEF Committed
  <2> QED
    BY <2>1 DEF CommittedRowsAreExact
<1> QED
  BY <1>1, <1>2, <1>4 DEF RowsInv

\* What happened before the disk changes again does not matter to the rows.
LEMMA SameDiskSameRows ==
    ASSUME CommittedRowsAreExact, DiskInv, UNCHANGED disk
    PROVE  /\ CommittedRowsAreExact' /\ DiskInv' /\ Cursor' = Cursor
           /\ \A t \in Tables : Committed(t)' = Committed(t)
  BY DEF CommittedRowsAreExact, DiskInv, Committed, Cursor, disk

LEMMA LoseMemoryKeepsRows ==
    ASSUME RowsInv, LoseMemory, UNCHANGED <<disk, starts>>
    PROVE  RowsInv'
<1> USE DEF RowsInv
<1>1. CommittedRowsAreExact' /\ DiskInv'
  BY SameDiskSameRows DEF disk
<1>2. StateInv'
  <2>1. Len(Ranges) \in Nat
    BY RangeFacts
  <2> QED
    BY <2>1 DEF StateInv, LoseMemory, EmptyMemory, NoCheckpoint, Start, disk
<1>3. IdleInv' /\ ~Active'
  BY DEF IdleInv, Active, LoseMemory, EmptyMemory
<1> QED
  BY <1>1, <1>2, <1>3

LEMMA StartWithoutStateKeepsRows ==
    ASSUME RowsInv, StartWithoutState
    PROVE  RowsInv'
<1> USE DEF RowsInv
<1>1. CommittedRowsAreExact' /\ DiskInv' /\ Cursor' = Cursor
  BY SameDiskSameRows DEF StartWithoutState, disk
<1>2. /\ ~Active /\ saved = NoState /\ pc \in {"down", "refused"} /\ pc' = "reading"
      /\ UNCHANGED <<files, saved, ranges, coverageStart, segments, batch, lastBoundary, openRange,
                     lastCheckpoint, checkpoint, doomed>>
  <2>1. files = [t \in Tables |-> {}] /\ saved = NoState
    BY DEF DiskInv, StartWithoutState
  <2>2. ~(\E t \in Tables : files[t] # {})
    BY <2>1
  <2> QED
    BY <2>1, <2>2 DEF StartWithoutState, StartProcess, memory, disk, Active
<1>3. StateInv'
  <2>1. starts' \in 0..MaxStarts
    BY ParquetAssumption DEF StartWithoutState, StartProcess, StateInv, ParquetAssumption
  <2> QED
    BY <1>2, <2>1 DEF StateInv
<1>4. IdleInv'
  BY <1>2 DEF IdleInv, Active
<1>5. Cursor = None /\ lastBoundary = None /\ ranges = <<>>
  BY <1>2, SavedFacts DEF IdleInv, NoState
<1>6. WrittenInv'
  <2>1. ASSUME NEW t \in Tables
        PROVE  /\ files[t] = {} /\ segments[t] = {}
               /\ {b \in Emits[t] \cap Queried : b <= lastBoundary} = {}
    <3>1. \A b \in Queried : ~(b <= lastBoundary)
      BY <1>5, RangeOfBlock DEF None
    <3> QED
      BY <1>2, <3>1 DEF IdleInv, DiskInv
  <2> QED
    BY <1>2, <2>1 DEF WrittenInv, RowsOf
<1>7. ProgressInv'
  BY <1>1, <1>2, <1>5 DEF ProgressInv, IdleInv, Seeded, None
<1>8. SeededInv'
  BY <1>2, <1>5 DEF SeededInv, Seeded
<1> QED
  BY <1>1, <1>3, <1>4, <1>6, <1>7, <1>8

LEMMA StartRecoveryKeepsRows ==
    ASSUME RowsInv, StartRecovery
    PROVE  RowsInv'
<1> USE DEF RowsInv
<1>1. CommittedRowsAreExact' /\ DiskInv' /\ OverCursor' = OverCursor
  BY SameDiskSameRows DEF StartRecovery, disk, OverCursor
<1>2. /\ pc \in {"down", "refused"} /\ saved # NoState
      /\ \/ pc' = "refused" /\ doomed' = doomed
         \/ pc' = "recovery" /\ doomed' = OverCursor
      /\ UNCHANGED <<files, saved, ranges, coverageStart, segments, batch, lastBoundary, openRange,
                     lastCheckpoint, checkpoint>>
  BY DEF StartRecovery, StartProcess, memory, disk
<1>3. StateInv'
  <2>1. starts' \in 0..MaxStarts
    BY ParquetAssumption DEF StartRecovery, StartProcess, StateInv, ParquetAssumption
  <2> QED
    BY <1>2, <2>1 DEF StateInv
<1>4. IdleInv' /\ ~Active'
  BY <1>1, <1>2 DEF IdleInv, Active
<1> QED
  BY <1>1, <1>3, <1>4

\* The recovery deletes a remnant; the committed files are not touched.
LEMMA DeleteFacts ==
    ASSUME RowsInv, DeleteFileAboveCursor
    PROVE  /\ pc = "recovery" /\ ~Active /\ ~Active' /\ saved # NoState /\ Cursor' = Cursor
           /\ UNCHANGED <<saved, ranges, coverageStart, segments, batch, lastBoundary, openRange,
                          lastCheckpoint, checkpoint, pc, starts>>
           /\ files' \in [Tables -> SUBSET File] /\ doomed' = OverCursor'
           /\ \A u \in Tables : /\ files'[u] \subseteq files[u]
                                /\ Committed(u)' = Committed(u)
<1> USE DEF RowsInv
<1>1. PICK t \in Tables : \E f \in doomed[t] :
        /\ files' = [files EXCEPT ![t] = @ \ {f}]
        /\ doomed' = [doomed EXCEPT ![t] = @ \ {f}]
  BY DEF DeleteFileAboveCursor
<1>2. PICK f \in doomed[t] :
        /\ files' = [files EXCEPT ![t] = @ \ {f}]
        /\ doomed' = [doomed EXCEPT ![t] = @ \ {f}]
  BY <1>1
<1>3. /\ pc = "recovery" /\ ~Active /\ ~Active' /\ saved # NoState /\ doomed = OverCursor
      /\ files \in [Tables -> SUBSET File]
      /\ UNCHANGED <<saved, ranges, coverageStart, segments, batch, lastBoundary, openRange,
                     lastCheckpoint, checkpoint, pc, starts>>
  BY DEF DeleteFileAboveCursor, memory, Active, IdleInv, StateInv
<1>4. f \in files[t] /\ f.to > saved.number
  BY <1>2, <1>3 DEF OverCursor
<1>5. files' \in [Tables -> SUBSET File] /\ \A u \in Tables : files'[u] \subseteq files[u]
  BY <1>2, <1>3
<1>6. doomed' = OverCursor'
  <2>1. ASSUME NEW u \in Tables
        PROVE  doomed'[u] = OverCursor'[u]
    <3>1. doomed'[u] = IF u = t THEN OverCursor[u] \ {f} ELSE OverCursor[u]
      BY <1>2, <1>3 DEF OverCursor
    <3>2. files'[u] = IF u = t THEN files[u] \ {f} ELSE files[u]
      BY <1>2, <1>3
    <3> QED
      BY <1>3, <3>1, <3>2 DEF OverCursor
  <2>2. doomed' = [u \in Tables |-> doomed'[u]]
    BY <1>2, <1>3 DEF OverCursor
  <2> QED
    BY <2>1, <2>2 DEF OverCursor
<1>7. Cursor' = Cursor
  BY <1>3 DEF Cursor
<1>8. ASSUME NEW u \in Tables
      PROVE  Committed(u)' = Committed(u)
  <2>1. files'[u] = IF u = t THEN files[u] \ {f} ELSE files[u]
    BY <1>2, <1>3
  <2>2. f \notin Committed(t)
    <3>1. saved.kind # "cursor" \/ Cursor = saved.number
      BY SavedFacts
    <3>2. f.to \in Nat /\ Cursor \in Int
      BY <1>3, <1>4, SavedFacts DEF File
    <3>3. saved.kind # "cursor" => Cursor = None
      BY DEF Cursor
    <3> QED
      BY <1>4, <3>1, <3>2, <3>3 DEF Committed, None
  <2> QED
    BY <1>7, <2>1, <2>2 DEF Committed
<1> QED
  BY <1>3, <1>5, <1>6, <1>7, <1>8

LEMMA DeleteKeepsRows ==
    ASSUME RowsInv, DeleteFileAboveCursor
    PROVE  RowsInv'
<1> USE DeleteFacts DEF RowsInv
<1>1. StateInv'
  BY DEF StateInv
<1>2. IdleInv'
  BY DEF IdleInv
<1>3. DiskInv'
  BY DEF DiskInv
<1>4. CommittedRowsAreExact'
  <2>1. \A u \in Tables : files'[u] \ Committed(u)' \subseteq files[u] \ Committed(u)
    OBVIOUS
  <2> QED
    BY <2>1 DEF CommittedRowsAreExact
<1> QED
  BY <1>1, <1>2, <1>3, <1>4

LEMMA FinishRecoveryKeepsRows ==
    ASSUME RowsInv, FinishRecovery
    PROVE  RowsInv'
<1> USE DEF RowsInv
<1>1. CommittedRowsAreExact' /\ DiskInv' /\ Cursor' = Cursor /\ \A t \in Tables : Committed(t)' = Committed(t)
  BY SameDiskSameRows DEF FinishRecovery, disk
<1>2. /\ pc = "recovery" /\ pc' = "reading" /\ ~Active /\ Active' /\ saved # NoState
      /\ doomed = OverCursor /\ doomed = NothingDoomed
      /\ lastBoundary' = Cursor /\ lastCheckpoint' = Cursor
      /\ UNCHANGED <<files, saved, ranges, coverageStart, segments, batch, openRange, checkpoint,
                     doomed, starts>>
  BY DEF FinishRecovery, disk, Active, IdleInv
<1>3. StateInv'
  <2>1. lastBoundary' \in Queried \cup {None} /\ lastCheckpoint' \in Queried \cup {None}
    BY <1>2, SavedFacts
  <2> QED
    BY <1>2, <2>1 DEF StateInv
<1>4. IdleInv'
  BY <1>2 DEF IdleInv
<1>5. ranges = <<>> /\ segments = [t \in Tables |-> {}] /\ openRange = 0
  BY <1>2 DEF IdleInv
<1>6. WrittenInv'
  <2>1. ASSUME NEW t \in Tables
        PROVE  files[t] = Committed(t)
    <3>1. ASSUME NEW f \in files[t]
          PROVE  f.to <= Cursor
      <4>1. ~(f.to > saved.number)
        <5>1. OverCursor[t] = {}
          BY <1>2 DEF NothingDoomed
        <5> QED
          BY <5>1, <3>1 DEF OverCursor
      <4>2. f.from <= f.to /\ f.from \in Nat /\ f.to \in Nat
        BY <3>1 DEF StateInv, File
      <4>3. saved.kind = "start" => f.from > saved.number
        BY <3>1 DEF DiskInv
      <4>4. CASE saved.kind = "start"
        <5>1. Ranges[1].from \in Nat /\ saved.number = Ranges[1].from - 1
          <6>1. Ranges # <<>> => 1 \in DOMAIN Ranges
            BY ParquetAssumption DEF ParquetAssumption
          <6> QED
            BY <4>4, <6>1, SavedFacts, RangeFacts
        <5> QED
          BY <4>1, <4>2, <4>3, <4>4, <5>1
      <4>5. CASE saved.kind = "cursor"
        <5>1. saved.number \in Nat /\ Cursor = saved.number
          BY <4>5, SavedFacts, RangeOfBlock
        <5> QED
          BY <4>1, <4>2, <5>1
      <4> QED
        BY <1>2, <4>4, <4>5, SavedFacts
    <3> QED
      BY <3>1 DEF Committed
  <2>2. ASSUME NEW t \in Tables
        PROVE  /\ RowsOf(t) = {b \in Emits[t] \cap Queried : b <= Cursor}
               /\ \A f, g \in files[t] : f # g => f.rows \cap g.rows = {}
               /\ \A f \in files[t] : f.to <= Cursor
               /\ segments[t] = {}
    BY <1>5, <2>1 DEF CommittedRowsAreExact, RowsOf, Committed
  <2> QED
    BY <1>1, <1>2, <2>2 DEF WrittenInv, RowsOf
<1>7. ProgressInv'
  <2>1. Cursor <= Cursor
    BY SavedFacts
  <2> QED
    BY <1>1, <1>2, <1>5, <2>1 DEF ProgressInv, Seeded
<1>8. SeededInv'
  BY <1>2, <1>5 DEF SeededInv, Seeded
<1> QED
  BY <1>1, <1>2, <1>3, <1>4, <1>6, <1>7, <1>8

\* A batch ends at a block still to be read; what is read before it lies in
\* its range, and so does every block from the last one handled to one of
\* that block's range.
LEMMA BatchFacts ==
    ASSUME NEW b \in NextBatchEnds, StateInv
    PROVE  /\ b \in Pending /\ b \in Queried /\ b \in Nat /\ lastBoundary < b
           /\ \A c \in Pending : c <= b => RangeOf(c) = RangeOf(b)
           /\ lastBoundary \in Queried => RangeOf(lastBoundary) <= RangeOf(b)
           /\ lastBoundary \in Queried =>
                \A c \in Queried : lastBoundary < c /\ RangeOf(c) = RangeOf(lastBoundary)
                  => RangeOf(b) = RangeOf(lastBoundary)
<1>1. b \in Pending /\ b \in Queried /\ b \in Nat /\ lastBoundary < b /\ RangeOf(b) = RangeOf(Min(Pending))
  <2>1. b \in Pending /\ b \in Queried /\ RangeOf(b) = RangeOf(Min(Pending))
    BY DEF NextBatchEnds, Pending
  <2>2. b \in Nat /\ b > lastBoundary /\ lastBoundary \in Int
    <3>1. lastBoundary \in Int
      BY RangeOfBlock DEF StateInv, None
    <3> QED
      BY <2>1, <3>1, RangeOfBlock DEF Pending
  <2> QED
    BY <2>1, <2>2
<1> DEFINE first == Min(Pending)
<1>2. first \in Pending /\ \A c \in Pending : first <= c
  <2>1. Pending \in SUBSET Nat /\ Pending # {}
    BY <1>1, RangeOfBlock DEF Pending
  <2> QED
    BY <2>1, MinIsLeast
<1>3. first \in Queried /\ first \in Nat /\ first > lastBoundary
  BY <1>2, RangeOfBlock DEF Pending
<1> HIDE DEF first
<1>4. RangeOf(b) = RangeOf(first)
  BY <1>1 DEF first
<1>5. ASSUME NEW c \in Pending, c <= b
      PROVE  RangeOf(c) = RangeOf(b)
  <2>1. c \in Queried /\ first <= c /\ first <= b
    BY <1>1, <1>2 DEF Pending
  <2>2. RangeOf(c) = RangeOf(first)
    BY <1>1, <1>3, <1>4, <1>5, <2>1, RangesAscend
  <2> QED
    BY <1>4, <2>2
<1>6. ASSUME lastBoundary \in Queried
      PROVE  RangeOf(lastBoundary) <= RangeOf(b)
  BY <1>1, <1>6, RangesAscend, RangeOfBlock
<1>7. ASSUME lastBoundary \in Queried, NEW c \in Queried, lastBoundary < c,
             RangeOf(c) = RangeOf(lastBoundary)
      PROVE  RangeOf(b) = RangeOf(lastBoundary)
  <2>1. c \in Pending /\ c \in Nat /\ lastBoundary \in Nat
    BY <1>7, RangeOfBlock DEF Pending
  <2>2. first <= c /\ lastBoundary <= first /\ lastBoundary <= c
    BY <1>2, <1>3, <1>7, <2>1
  <2>3. RangeOf(first) = RangeOf(lastBoundary)
    BY <1>3, <1>7, <2>2, RangesAscend
  <2> QED
    BY <1>4, <2>3
<1> QED
  BY <1>1, <1>5, <1>6, <1>7

LEMMA TakeBatchKeepsRows ==
    ASSUME RowsInv, TakeBatch
    PROVE  RowsInv'
<1> USE DEF RowsInv
<1>1. CommittedRowsAreExact' /\ DiskInv' /\ Cursor' = Cursor
  BY SameDiskSameRows DEF TakeBatch
<1>2. /\ pc = "reading" /\ pc' \in {"saveStart", "batch"} /\ Active /\ Active'
      /\ batch' \in NextBatchEnds
      /\ UNCHANGED <<files, saved, segments, lastBoundary, openRange, lastCheckpoint, checkpoint,
                     doomed, starts>>
  BY DEF TakeBatch, disk, Active
<1>3. NextBatchEnds' = NextBatchEnds /\ Pending' = Pending
  BY <1>2 DEF NextBatchEnds, Pending
<1>4. batch' \in Queried /\ Ranges # <<>>
  BY <1>2, BatchFacts, RangeOfBlock
<1>5. Ranges[1].from \in Nat /\ \A b \in Queried : Ranges[1].from <= b
  <2>1. 1 \in DOMAIN Ranges /\ Ranges[1].from \in Nat
    BY <1>4, RangeFacts, ParquetAssumption DEF ParquetAssumption
  <2>2. ASSUME NEW b \in Queried
        PROVE  Ranges[1].from <= b
    <3>1. RangeOf(b) \in DOMAIN Ranges /\ Ranges[RangeOf(b)].from <= b /\ b \in Nat
      BY RangeOfBlock
    <3>2. Ranges[1].from <= Ranges[RangeOf(b)].from
      BY <2>1, <3>1, RangeFacts
    <3> QED
      BY <2>1, <3>1, <3>2, RangeFacts
  <2> QED
    BY <2>1, <2>2
<1>6. CASE ranges = <<>>
  <2> DEFINE n == IF lastBoundary = None THEN Ranges[1].from ELSE lastBoundary + 1
  <2>1. /\ ranges' = Ranges /\ coverageStart' = SeedCoverage(n, Ranges)
        /\ pc' = IF lastBoundary = None THEN "saveStart" ELSE "batch"
    BY <1>6 DEF TakeBatch
  <2>2. n \in Nat /\ \A b \in Pending : n <= b
    <3>1. CASE lastBoundary = None
      BY <1>5, <3>1 DEF Pending
    <3>2. CASE lastBoundary # None
      <4>1. lastBoundary \in Nat
        BY <3>2, RangeOfBlock DEF StateInv
      <4> QED
        BY <3>2, <4>1, RangeOfBlock DEF Pending
    <3> QED
      BY <3>1, <3>2
  <2> HIDE DEF n
  <2>3. /\ coverageStart' \in [Tables -> Nat]
        /\ \A t \in Tables : /\ \A b \in Queried : n <= b => coverageStart'[t] <= b
                             /\ Ranges[1].from <= coverageStart'[t]
    BY <1>4, <2>1, <2>2, SeedFacts
  <2>4. openRange = 0 /\ segments = [t \in Tables |-> {}] /\ lastBoundary = Cursor
    BY <1>2, <1>6 DEF ProgressInv, Seeded
  <2>5. StateInv'
    <3>1. coverageStart' \in [Tables -> Start]
      BY <2>3 DEF Start
    <3> QED
      BY <1>2, <1>4, <2>1, <3>1 DEF StateInv
  <2>6. IdleInv'
    BY <1>2 DEF IdleInv
  <2>7. WrittenInv'
    BY <1>1, <1>2 DEF WrittenInv, RowsOf
  <2>8. ProgressInv'
    <3>1. saved = NoState => lastBoundary = None
      BY <1>2 DEF ProgressInv
    <3> QED
      BY <1>1, <1>2, <1>3, <1>4, <2>1, <2>4, <3>1 DEF ProgressInv, Seeded
  <2>9. SeededInv'
    <3>1. \A t \in Tables : \A b \in Pending : coverageStart'[t] <= b
      BY <2>2, <2>3 DEF Pending
    <3>2. \A t \in Tables : segments'[t] = {} /\ coverageStart'[t] \in Nat
      BY <1>2, <2>3, <2>4
    <3> QED
      BY <1>2, <1>3, <1>4, <1>5, <2>1, <2>3, <2>4, <3>1, <3>2 DEF SeededInv, Seeded
  <2> QED
    BY <1>1, <2>5, <2>6, <2>7, <2>8, <2>9
<1>7. CASE ranges # <<>>
  <2>1. pc' = "batch" /\ UNCHANGED <<ranges, coverageStart>>
    BY <1>7 DEF TakeBatch
  <2>2. StateInv' /\ IdleInv'
    BY <1>2, <1>4, <2>1 DEF StateInv, IdleInv
  <2>3. WrittenInv'
    BY <1>1, <1>2, <2>1 DEF WrittenInv, RowsOf
  <2>4. ProgressInv'
    <3>1. saved # NoState
      BY <1>2, <1>7 DEF ProgressInv, Seeded
    <3> QED
      BY <1>1, <1>2, <1>3, <1>7, <2>1, <3>1 DEF ProgressInv, Seeded
  <2>5. SeededInv'
    BY <1>2, <1>3, <2>1 DEF SeededInv, Seeded
  <2> QED
    BY <1>1, <2>2, <2>3, <2>4, <2>5
<1> QED
  BY <1>6, <1>7

LEMMA SaveStartKeepsRows ==
    ASSUME RowsInv, SaveStartCursor
    PROVE  RowsInv'
<1> USE DEF RowsInv
<1>1. /\ pc = "saveStart" /\ pc' = "batch" /\ Active /\ Active'
      /\ saved' = StartState(Ranges[1].from - 1)
      /\ UNCHANGED <<files, ranges, coverageStart, segments, batch, lastBoundary, openRange,
                     lastCheckpoint, checkpoint, doomed, starts>>
  BY DEF SaveStartCursor, memory, Active
<1>2. /\ batch \in NextBatchEnds /\ lastBoundary = None /\ Seeded /\ Ranges # <<>>
      /\ saved' # NoState /\ saved'.kind = "start" /\ saved'.number = Ranges[1].from - 1
  <2>1. batch \in NextBatchEnds /\ lastBoundary = None /\ Seeded
    BY <1>1 DEF ProgressInv
  <2>2. Ranges # <<>>
    BY <2>1, BatchFacts, RangeOfBlock
  <2> QED
    BY <1>1, <2>1, <2>2 DEF StartState, NoState
<1>3. NextBatchEnds' = NextBatchEnds /\ Pending' = Pending
  BY <1>1 DEF NextBatchEnds, Pending
<1>4. Cursor = None /\ Cursor' = None
  <2>1. Cursor <= lastBoundary
    BY <1>1 DEF ProgressInv
  <2>2. Cursor = None
    BY <1>2, <2>1, SavedFacts, RangeOfBlock DEF None
  <2> QED
    BY <1>2, <2>2 DEF Cursor
<1>5. StateInv'
  BY <1>1, <1>2 DEF StateInv
<1>6. IdleInv'
  BY <1>1, <1>2 DEF IdleInv
<1>7. DiskInv'
  <2>1. CASE saved = NoState
    BY <1>1, <1>2, <2>1 DEF DiskInv
  <2>2. CASE saved # NoState
    <3>1. saved.kind = "start" /\ saved.number = Ranges[1].from - 1
      BY <1>4, <2>2, SavedFacts, RangeOfBlock DEF None
    <3> QED
      BY <1>1, <1>2, <3>1 DEF DiskInv
  <2> QED
    BY <2>1, <2>2
<1>8. CommittedRowsAreExact'
  <2>1. \A t \in Tables : Committed(t)' = Committed(t)
    BY <1>1, <1>4 DEF Committed
  <2> QED
    BY <1>1, <1>4, <2>1 DEF CommittedRowsAreExact
<1>9. WrittenInv'
  BY <1>1, <1>4 DEF WrittenInv, RowsOf
<1>10. ProgressInv'
  BY <1>1, <1>2, <1>3, <1>4 DEF ProgressInv, Seeded
<1>11. SeededInv'
  BY <1>1, <1>3 DEF SeededInv, Seeded
<1> QED
  BY <1>5, <1>6, <1>7, <1>8, <1>9, <1>10, <1>11

\* A checkpoint that begins at the last block handled keeps the rows, if it
\* takes every open segment and no table beyond that block.
LEMMA BeginCheckpointKeepsRows ==
    ASSUME RowsInv, Active, pc # "checkpoint", saved # NoState, lastBoundary \in Queried,
           NEW closeTails \in BOOLEAN, NEW todo \in SUBSET Tables,
           NEW next \in {"reading", "batch", "close"},
           BeginCheckpoint(lastBoundary, closeTails, todo, next),
           UNCHANGED <<disk, doomed, starts, ranges, segments, batch, lastBoundary, openRange,
                       lastCheckpoint>>,
           coverageStart' \in [Tables -> Nat],
           Seeded => coverageStart' = coverageStart,
           ~Seeded => next = "close",
           next = "batch" => batch \in NextBatchEnds,
           \A t \in todo : coverageStart'[t] <= lastBoundary,
           \A t \in Tables : segments[t] # {} => t \in todo
    PROVE  RowsInv'
<1> USE DEF RowsInv
<1>1. CommittedRowsAreExact' /\ DiskInv' /\ Cursor' = Cursor
  BY SameDiskSameRows
<1>2. /\ pc' = "checkpoint" /\ Active' /\ pc # "recovery"
      /\ checkpoint' = [to |-> lastBoundary, closeTails |-> closeTails, todo |-> todo,
                        published |-> FALSE, next |-> next]
      /\ UNCHANGED <<files, saved>>
  BY DEF BeginCheckpoint, Active, disk
<1>3. NextBatchEnds' = NextBatchEnds /\ Pending' = Pending
  BY DEF NextBatchEnds, Pending
<1>4. /\ checkpoint'.to = lastBoundary /\ checkpoint'.todo = todo /\ checkpoint'.next = next
  BY <1>2
<1>5. StateInv'
  <2>1. checkpoint' \in [to : Queried \cup {None}, closeTails : BOOLEAN, todo : SUBSET Tables,
                         published : BOOLEAN, next : {"down", "reading", "batch", "close"}]
    BY <1>2
  <2>2. coverageStart' \in [Tables -> Start]
    BY DEF Start
  <2> QED
    BY <1>2, <2>1, <2>2 DEF StateInv
<1>6. IdleInv'
  BY <1>2 DEF IdleInv
<1>7. WrittenInv'
  BY <1>1, <1>2 DEF WrittenInv, RowsOf
<1>8. ProgressInv'
  <2>1. /\ lastCheckpoint = Cursor /\ Cursor <= lastBoundary
        /\ openRange = 0 => lastBoundary = Cursor /\ segments = [t \in Tables |-> {}]
        /\ openRange # 0 => lastBoundary \in Queried /\ RangeOf(lastBoundary) = openRange
        /\ ~Seeded => openRange = 0
    BY DEF ProgressInv
  <2> QED
    BY <1>1, <1>2, <1>3, <1>4, <2>1 DEF ProgressInv, Seeded
<1>9. SeededInv'
  BY <1>3 DEF SeededInv, Seeded
<1> QED
  BY <1>1, <1>5, <1>6, <1>7, <1>8, <1>9

\* Every open segment belongs to a table that owes coverage.
LEMMA OpenSegmentsOwe ==
    ASSUME RowsInv, Active, Seeded, NEW t \in Tables, segments[t] # {}
    PROVE  t \in TablesOwingCoverage(coverageStart, lastBoundary)
<1>1. PICK b \in segments[t] : TRUE
  OBVIOUS
<1>2. coverageStart[t] <= b /\ coverageStart[t] \in Nat
  BY <1>1 DEF RowsInv, SeededInv
<1>3. b <= lastBoundary /\ b \in Nat
  <2>1. b \in {c \in Emits[t] \cap Queried : c <= lastBoundary}
    BY <1>1 DEF RowsInv, WrittenInv
  <2> QED
    BY <2>1, RangeOfBlock
<1>4. lastBoundary \in Int
  BY RangeOfBlock DEF RowsInv, StateInv, None
<1> QED
  BY <1>2, <1>3, <1>4 DEF TablesOwingCoverage

LEMMA CloseRangeKeepsRows ==
    ASSUME RowsInv, CloseRange
    PROVE  RowsInv'
<1> DEFINE todo == TablesOwingCoverage(coverageStart, lastBoundary)
<1>1. pc = "batch" /\ Active
  BY DEF CloseRange, Active
<1>2. OwedAtRangeEnd = todo /\ lastBoundary # None
  BY DEF CloseRange, OwedAtRangeEnd
<1>3. /\ BeginCheckpoint(lastBoundary, TRUE, todo, "batch") /\ pc # "checkpoint"
      /\ UNCHANGED <<disk, doomed, starts, ranges, coverageStart, segments, batch, lastBoundary,
                     openRange, lastCheckpoint>>
  BY <1>1, <1>2 DEF CloseRange
<1>4. Seeded /\ saved # NoState /\ batch \in NextBatchEnds /\ lastBoundary \in Queried
  BY <1>1, <1>2 DEF RowsInv, ProgressInv, StateInv
<1>5. coverageStart' \in [Tables -> Nat]
  BY <1>1, <1>3, <1>4 DEF RowsInv, SeededInv
<1>6. todo \in SUBSET Tables /\ \A t \in todo : coverageStart'[t] <= lastBoundary
  BY <1>3 DEF TablesOwingCoverage
<1>7. \A t \in Tables : segments[t] # {} => t \in todo
  BY <1>1, <1>4, OpenSegmentsOwe
<1> HIDE DEF todo
<1> QED
  BY <1>1, <1>3, <1>4, <1>5, <1>6, <1>7, BeginCheckpointKeepsRows

LEMMA RolloverKeepsRows ==
    ASSUME RowsInv, Rollover
    PROVE  RowsInv'
<1> DEFINE todo == {t \in TablesOwingCoverage(coverageStart, lastBoundary) : segments[t] # {}}
<1>1. pc = "rollover" /\ Active
  BY DEF Rollover, Active
<1>2. /\ BeginCheckpoint(lastBoundary, FALSE, todo, "reading") /\ pc # "checkpoint"
      /\ UNCHANGED <<disk, doomed, starts, ranges, coverageStart, segments, batch, lastBoundary,
                     openRange, lastCheckpoint>>
  BY <1>1 DEF Rollover
<1>3. Seeded /\ saved # NoState /\ Cursor < lastBoundary
  BY <1>1 DEF RowsInv, ProgressInv
<1>4. lastBoundary \in Queried
  <2>1. lastBoundary # None
    BY <1>3, SavedFacts DEF RowsInv, None
  <2> QED
    BY <2>1 DEF RowsInv, StateInv
<1>5. coverageStart' \in [Tables -> Nat]
  BY <1>1, <1>2, <1>3 DEF RowsInv, SeededInv
<1>6. todo \in SUBSET Tables /\ \A t \in todo : coverageStart'[t] <= lastBoundary
  BY <1>2 DEF TablesOwingCoverage
<1>7. \A t \in Tables : segments[t] # {} => t \in todo
  BY <1>1, <1>3, OpenSegmentsOwe
<1> HIDE DEF todo
<1> QED
  BY <1>1, <1>2, <1>3, <1>4, <1>5, <1>6, <1>7, BeginCheckpointKeepsRows

LEMMA EndStreamKeepsRows ==
    ASSUME RowsInv, EndStream
    PROVE  RowsInv'
<1> DEFINE start == IF ranges = <<>> /\ lastBoundary # None
                      THEN SeedCoverage(lastBoundary + 1, <<>>) ELSE coverageStart
           owing == TablesOwingCoverage(start, lastBoundary)
<1>1. /\ pc = "reading" /\ Active
      /\ UNCHANGED <<disk, doomed, starts, ranges, segments, batch, lastBoundary, openRange,
                     lastCheckpoint>>
  BY DEF EndStream, Active
<1>2. CASE lastBoundary # None /\ BeginCheckpoint(lastBoundary, TRUE, owing, "close") /\ coverageStart' = start
  <2>1. lastBoundary \in Queried /\ lastBoundary \in Nat /\ lastBoundary + 1 \in Nat
    <3>1. lastBoundary \in Queried
      BY <1>2 DEF RowsInv, StateInv
    <3> QED
      BY <3>1, RangeOfBlock
  <2>2. saved # NoState
    BY <1>1, <1>2 DEF RowsInv, ProgressInv
  <2>3. start \in [Tables -> Nat]
    <3>1. CASE ranges = <<>>
      BY <1>2, <2>1, <3>1, SeedFacts DEF RowsInv
    <3>2. CASE ranges # <<>>
      BY <1>1, <3>2 DEF RowsInv, SeededInv, Seeded
    <3> QED
      BY <3>1, <3>2
  <2>4. Seeded => start = coverageStart
    BY DEF Seeded
  <2>5. \A t \in Tables : segments[t] # {} => t \in owing
    <3>1. CASE Seeded
      BY <1>1, <2>4, <3>1, OpenSegmentsOwe
    <3>2. CASE ~Seeded
      BY <1>1, <3>2 DEF RowsInv, ProgressInv
    <3> QED
      BY <3>1, <3>2
  <2>6. owing \in SUBSET Tables /\ \A t \in owing : start[t] <= lastBoundary
    BY DEF TablesOwingCoverage
  <2> HIDE DEF start, owing
  <2> QED
    BY <1>1, <1>2, <2>1, <2>2, <2>3, <2>4, <2>5, <2>6, BeginCheckpointKeepsRows
<1>3. CASE pc' = "close" /\ UNCHANGED <<coverageStart, checkpoint>>
  <2>1. CommittedRowsAreExact' /\ DiskInv' /\ Cursor' = Cursor
    BY <1>1, SameDiskSameRows DEF RowsInv
  <2>2. UNCHANGED <<files, saved>> /\ Active'
    BY <1>1, <1>3 DEF disk, Active
  <2>3. NextBatchEnds' = NextBatchEnds /\ Pending' = Pending
    BY <1>1 DEF NextBatchEnds, Pending
  <2>4. StateInv' /\ IdleInv'
    BY <1>1, <1>3, <2>2 DEF RowsInv, StateInv, IdleInv
  <2>5. WrittenInv'
    BY <1>1, <1>3, <2>1, <2>2 DEF RowsInv, WrittenInv, RowsOf
  <2>6. ProgressInv'
    BY <1>1, <1>3, <2>1, <2>2, <2>3 DEF RowsInv, ProgressInv, Seeded
  <2>7. SeededInv'
    BY <1>1, <1>3, <2>2, <2>3 DEF RowsInv, SeededInv, Seeded
  <2> QED
    BY <2>1, <2>4, <2>5, <2>6, <2>7 DEF RowsInv
<1> QED
  BY <1>2, <1>3 DEF EndStream

\* What handling a batch does to the coverage: it moves up to the range the
\* batch lies in, and leaves behind no table that owes blocks.
LEMMA FlushFacts ==
    ASSUME RowsInv, FlushBatch
    PROVE  /\ pc = "batch" /\ Active /\ Seeded /\ ranges = Ranges /\ saved # NoState
           /\ batch \in NextBatchEnds /\ batch \in Queried /\ lastBoundary < batch
           /\ RangeOf(batch) \in DOMAIN Ranges /\ Ranges[RangeOf(batch)].from \in Nat
           /\ Ranges[RangeOf(batch)].from <= batch
           /\ \A t \in Tables :
                /\ coverageStart[t] \in Nat /\ coverageStart'[t] \in Nat
                /\ coverageStart'[t] \in {coverageStart[t], Ranges[RangeOf(batch)].from}
                /\ coverageStart[t] <= coverageStart'[t]
                /\ Ranges[RangeOf(batch)].from <= coverageStart'[t]
                /\ openRange = RangeOf(batch) => coverageStart'[t] = coverageStart[t]
                /\ openRange # 0 /\ openRange # RangeOf(batch) => lastBoundary < coverageStart[t]
<1> DEFINE k == RangeOf(batch)
           from == Ranges[k].from
<1>1. pc = "batch" /\ Active /\ OwedAtRangeEnd = {}
  BY DEF FlushBatch, Active
<1>2. Seeded /\ ranges = Ranges /\ saved # NoState /\ batch \in NextBatchEnds
  BY <1>1 DEF RowsInv, ProgressInv, StateInv, Seeded
<1>3. batch \in Queried /\ batch \in Nat /\ lastBoundary < batch
  BY <1>2, BatchFacts DEF RowsInv
<1>4. k \in DOMAIN Ranges /\ k \in Nat /\ k # 0 /\ from \in Nat /\ from <= batch /\ from <= Ranges[k].to
  BY <1>3, RangeOfBlock, RangeFacts
<1>5. coverageStart' = [t \in Tables |-> Max({coverageStart[t], NextQueriedBlock(from, Ranges)})]
  BY <1>2 DEF FlushBatch, AdvanceCoverageInto
<1>6. NextQueriedBlock(from, Ranges) = from
  BY <1>4, NextQueriedBlockFacts
<1>7. ASSUME NEW t \in Tables
      PROVE  /\ coverageStart[t] \in Nat
             /\ coverageStart'[t] = Max({coverageStart[t], from})
             /\ openRange # 0 => Ranges[openRange].from <= coverageStart[t]
  BY <1>1, <1>2, <1>5, <1>6 DEF RowsInv, SeededInv
<1> HIDE DEF k, from
<1>8. ASSUME NEW t \in Tables
      PROVE  /\ coverageStart'[t] \in {coverageStart[t], from} /\ coverageStart'[t] \in Nat
             /\ coverageStart[t] <= coverageStart'[t] /\ from <= coverageStart'[t]
  <2> DEFINE c == coverageStart[t]
             d == coverageStart'[t]
  <2>1. c \in Nat /\ from \in Nat /\ d = Max({c, from})
    BY <1>4, <1>7
  <2> HIDE DEF c, d
  <2>2. d \in {c, from} /\ d \in Nat /\ c <= d /\ from <= d
    <3>1. Max({c, from}) \in {c, from} /\ Max({c, from}) >= c /\ Max({c, from}) >= from
      BY ONLY <2>1, MaxOfTwo
    <3> QED
      BY ONLY <2>1, <3>1
  <2> QED
    BY <2>2 DEF c, d
<1>9. ASSUME NEW t \in Tables, openRange = k
      PROVE  coverageStart'[t] = coverageStart[t]
  <2>1. from <= coverageStart[t]
    BY <1>4, <1>7, <1>9 DEF from
  <2>2. coverageStart[t] \in Nat /\ coverageStart'[t] \in {coverageStart[t], from}
        /\ from <= coverageStart'[t] /\ coverageStart[t] <= coverageStart'[t]
    BY <1>7, <1>8
  <2> QED
    BY <1>4, <2>1, <2>2
<1>10. ASSUME NEW t \in Tables, openRange # 0, openRange # k
       PROVE  lastBoundary < coverageStart[t]
  <2>1. lastBoundary \in Queried /\ RangeOf(lastBoundary) = openRange
    BY <1>1, <1>10 DEF RowsInv, ProgressInv
  <2>2. lastBoundary \in Nat /\ lastBoundary <= Ranges[openRange].to /\ openRange \in Nat
    BY <2>1, RangeOfBlock
  <2>3. k > openRange
    BY <1>2, <1>4, <1>10, <2>1, <2>2, BatchFacts DEF RowsInv, k
  <2>4. TablesOwingCoverage(coverageStart, lastBoundary) = {}
    BY <1>1, <1>10, <2>2, <2>3 DEF OwedAtRangeEnd, k, None
  <2>5. ~(coverageStart[t] <= lastBoundary)
    BY <2>4 DEF TablesOwingCoverage
  <2>6. coverageStart[t] \in Nat
    BY <1>7
  <2> QED
    BY <2>2, <2>5, <2>6
<1> QED
  BY <1>1, <1>2, <1>3, <1>4, <1>7, <1>8, <1>9, <1>10 DEF k, from

LEMMA FlushBatchKeepsRows ==
    ASSUME RowsInv, FlushBatch
    PROVE  RowsInv'
<1> DEFINE new(t) == {b \in Emits[t] \cap Pending : b <= batch}
<1>1. /\ pc = "batch" /\ Active /\ Seeded /\ ranges = Ranges /\ saved # NoState
      /\ batch \in NextBatchEnds /\ batch \in Queried /\ batch \in Nat /\ lastBoundary < batch
  BY FlushFacts, RangeOfBlock
<1>2. /\ pc' \in {"reading", "rollover"} /\ Active'
      /\ openRange' = RangeOf(batch) /\ lastBoundary' = batch /\ batch' = None
      /\ segments' = [t \in Tables |-> segments[t] \cup new(t)]
      /\ coverageStart' = AdvanceCoverageInto(Ranges[RangeOf(batch)].from)
      /\ UNCHANGED <<files, saved, doomed, starts, ranges, lastCheckpoint, checkpoint>>
  BY DEF FlushBatch, disk, Active
<1>3. CommittedRowsAreExact' /\ DiskInv' /\ Cursor' = Cursor
  BY SameDiskSameRows DEF RowsInv, FlushBatch
<1>4. /\ lastBoundary \in Int /\ Cursor \in Int /\ Cursor <= lastBoundary
      /\ \A t \in Tables : segments[t] \subseteq Queried
  BY <1>1, SavedFacts, RangeOfBlock DEF RowsInv, StateInv, ProgressInv, None
<1>5. ASSUME NEW t \in Tables
      PROVE  /\ new(t) \subseteq Queried
             /\ \A b \in new(t) : b \in Nat /\ b > lastBoundary /\ b \in Pending /\ b <= batch
  BY RangeOfBlock DEF Pending
<1>6. StateInv'
  <2>1. coverageStart' \in [Tables -> Start]
    <3>1. \A t \in Tables : coverageStart'[t] \in Nat
      BY FlushFacts
    <3> QED
      BY <1>2, <3>1 DEF AdvanceCoverageInto, Start
  <2>2. openRange' \in 0..Len(Ranges)
    BY <1>2, FlushFacts, RangeFacts
  <2>3. segments' \in [Tables -> SUBSET Queried]
    BY <1>2, <1>4, <1>5
  <2> QED
    BY <1>1, <1>2, <2>1, <2>2, <2>3 DEF RowsInv, StateInv
<1>7. IdleInv'
  BY <1>1, <1>2 DEF RowsInv, IdleInv
<1>8. WrittenInv'
  <2>1. ASSUME NEW t \in Tables
        PROVE  /\ RowsOf(t) \cup segments'[t] = {b \in Emits[t] \cap Queried : b <= batch}
               /\ RowsOf(t) \cap segments'[t] = {}
               /\ \A f \in files[t] : f.to <= Cursor
               /\ \A f, g \in files[t] : f # g => f.rows \cap g.rows = {}
               /\ \A b \in segments'[t] : b > Cursor
    <3>1. /\ RowsOf(t) \cup segments[t] = {b \in Emits[t] \cap Queried : b <= lastBoundary}
          /\ RowsOf(t) \cap segments[t] = {}
          /\ \A f, g \in files[t] : f # g => f.rows \cap g.rows = {}
          /\ \A f \in files[t] : f.to <= Cursor
          /\ \A b \in segments[t] : b > Cursor
      BY <1>1 DEF RowsInv, WrittenInv
    <3>2. segments'[t] = segments[t] \cup new(t)
      BY <1>2
    <3>3. {b \in Emits[t] \cap Queried : b <= batch}
            = {b \in Emits[t] \cap Queried : b <= lastBoundary} \cup new(t)
      <4>1. ASSUME NEW b \in Queried
            PROVE  b <= batch <=> b <= lastBoundary \/ (b > lastBoundary /\ b <= batch)
        <5>1. b \in Nat
          BY RangeOfBlock
        <5> QED
          BY <1>1, <1>4, <5>1
      <4>2. new(t) = {b \in Emits[t] \cap Queried : b > lastBoundary /\ b <= batch}
        BY DEF Pending
      <4> HIDE DEF new
      <4> QED
        BY <4>1, <4>2
    <3>4. RowsOf(t) \cap new(t) = {}
      <4>1. \A b \in RowsOf(t) : b \in Nat /\ b <= lastBoundary
        BY <3>1, RangeOfBlock
      <4> QED
        BY <1>4, <1>5, <4>1
    <3>5. \A b \in new(t) : b > Cursor
      BY <1>4, <1>5
    <3> HIDE DEF new
    <3> QED
      BY <3>1, <3>2, <3>3, <3>4, <3>5
  <2> QED
    BY <1>2, <1>3, <2>1 DEF WrittenInv, RowsOf
<1>9. ProgressInv'
  <2>1. /\ lastCheckpoint' = Cursor' /\ Cursor' < lastBoundary' /\ Cursor' <= lastBoundary'
    BY <1>1, <1>2, <1>3, <1>4 DEF RowsInv, ProgressInv
  <2>2. openRange' # 0
    BY <1>1, <1>2, RangeOfBlock
  <2> QED
    BY <1>1, <1>2, <2>1, <2>2 DEF ProgressInv, Seeded
<1>10. SeededInv'
  <2>1. ASSUME NEW t \in Tables
        PROVE  /\ coverageStart'[t] >= Ranges[1].from
               /\ \A b \in Pending' \cup segments'[t] : coverageStart'[t] <= b
               /\ Ranges[openRange'].from <= coverageStart'[t]
    <3> DEFINE from == Ranges[RangeOf(batch)].from
    <3>1. /\ coverageStart[t] \in Nat /\ coverageStart'[t] \in Nat
          /\ coverageStart'[t] \in {coverageStart[t], from}
          /\ coverageStart[t] <= coverageStart'[t] /\ from <= coverageStart'[t]
          /\ openRange = RangeOf(batch) => coverageStart'[t] = coverageStart[t]
          /\ openRange # 0 /\ openRange # RangeOf(batch) => lastBoundary < coverageStart[t]
          /\ from \in Nat /\ from <= batch
      BY FlushFacts
    <3>2. /\ coverageStart[t] >= Ranges[1].from
          /\ \A b \in Pending \cup segments[t] : coverageStart[t] <= b
      BY <1>1 DEF RowsInv, SeededInv
    <3>3. Ranges[1].from \in Nat
      <4>1. 1 \in DOMAIN Ranges
        BY <1>1, ParquetAssumption DEF ParquetAssumption, Seeded
      <4> QED
        BY <4>1, RangeFacts
    <3>4. ASSUME NEW b \in Pending'
          PROVE  coverageStart'[t] <= b
      <4>1. b \in Pending /\ b \in Nat /\ batch < b
        BY <1>1, <1>2, <1>4, RangeOfBlock DEF Pending
      <4> QED
        BY <1>1, <3>1, <3>2, <4>1
    <3>5. ASSUME NEW b \in new(t)
          PROVE  coverageStart'[t] <= b
      <4>1. b \in Pending /\ b \in Queried /\ b \in Nat /\ b <= batch
        BY <1>5
      <4>2. RangeOf(b) = RangeOf(batch)
        BY <1>1, <4>1, BatchFacts DEF RowsInv
      <4>3. from <= b
        BY <4>1, <4>2, RangeOfBlock
      <4> QED
        BY <3>1, <3>2, <4>1, <4>3
    <3>6. ASSUME NEW b \in segments[t]
          PROVE  coverageStart'[t] <= b
      <4>1. coverageStart[t] <= b /\ b \in Nat
        BY <1>4, <3>2, RangeOfBlock
      <4>2. b <= lastBoundary
        <5>1. b \in {c \in Emits[t] \cap Queried : c <= lastBoundary}
          BY <1>1 DEF RowsInv, WrittenInv
        <5> QED
          BY <5>1
      <4>3. openRange # 0
        BY <1>1 DEF RowsInv, ProgressInv
      <4>4. openRange = RangeOf(batch)
        BY <1>4, <3>1, <4>1, <4>2, <4>3
      <4> QED
        BY <3>1, <4>1, <4>4
    <3>7. segments'[t] = segments[t] \cup new(t)
      BY <1>2
    <3>8. Ranges[openRange'].from <= coverageStart'[t] /\ coverageStart'[t] >= Ranges[1].from
      BY <1>2, <3>1, <3>2, <3>3
    <3> HIDE DEF new, from
    <3> QED
      BY <3>4, <3>5, <3>6, <3>7, <3>8
  <2>2. coverageStart' \in [Tables -> Nat]
    <3>1. \A t \in Tables : coverageStart'[t] \in Nat
      BY FlushFacts
    <3> QED
      BY <1>2, <3>1 DEF AdvanceCoverageInto
  <2> QED
    BY <1>1, <1>2, <2>1, <2>2 DEF SeededInv, Seeded
<1> QED
  BY <1>2, <1>3, <1>6, <1>7, <1>8, <1>9, <1>10 DEF RowsInv

\* What a checkpoint under way has to go by.
LEMMA CheckpointFacts ==
    ASSUME RowsInv, pc = "checkpoint"
    PROVE  /\ Active /\ saved # NoState /\ lastBoundary \in Queried /\ lastBoundary \in Nat
           /\ lastBoundary \in Blocks
           /\ checkpoint.to = lastBoundary /\ Cursor \in Int /\ Cursor <= lastBoundary
           /\ coverageStart \in [Tables -> Nat]
           /\ checkpoint.next \in {"reading", "batch", "close"}
           /\ checkpoint.todo \in SUBSET Tables
           /\ \A t \in Tables : segments[t] # {} => t \in checkpoint.todo
           /\ \A t \in Tables : t \in checkpoint.todo => coverageStart[t] <= lastBoundary
           /\ ranges \in {<<>>, Ranges} /\ Ranges # <<>>
           /\ ~Seeded => lastBoundary = Cursor /\ checkpoint.next = "close"
<1>1. Active /\ saved # NoState /\ lastBoundary \in Queried /\ checkpoint.to = lastBoundary /\ Cursor <= lastBoundary
  <2>1. Active
    BY DEF Active
  <2> QED
    BY <2>1 DEF RowsInv, ProgressInv
<1>2. lastBoundary \in Nat /\ lastBoundary \in Blocks /\ Ranges # <<>>
  BY <1>1, RangeOfBlock
<1>3. checkpoint.next \in {"reading", "batch", "close"} /\ checkpoint.todo \in SUBSET Tables /\ ranges \in {<<>>, Ranges}
  BY <1>1 DEF RowsInv, ProgressInv, StateInv
<1>4. Cursor \in Int
  BY SavedFacts DEF RowsInv
<1>5. ~Seeded => lastBoundary = Cursor /\ checkpoint.next = "close"
  BY <1>1 DEF RowsInv, ProgressInv
<1> QED
  BY <1>1, <1>2, <1>3, <1>4, <1>5 DEF RowsInv, ProgressInv

\* A table is published, or refused.
LEMMA PublishTableKeepsRows ==
    ASSUME RowsInv, NEW t \in Tables, PublishTable(t)
    PROVE  RowsInv'
<1> DEFINE file == [from |-> coverageStart[t], to |-> checkpoint.to, rows |-> segments[t]]
<1>1. /\ pc = "checkpoint" /\ t \in checkpoint.todo
      /\ UNCHANGED <<saved, doomed, starts>>
  BY DEF PublishTable
<1>2. /\ Active /\ saved # NoState /\ lastBoundary \in Queried /\ lastBoundary \in Nat
      /\ lastBoundary \in Blocks
      /\ checkpoint.to = lastBoundary /\ Cursor \in Int /\ Cursor <= lastBoundary
      /\ coverageStart[t] \in Nat /\ coverageStart[t] <= lastBoundary
      /\ ranges \in {<<>>, Ranges} /\ Ranges # <<>>
      /\ ~Seeded => lastBoundary = Cursor
  BY <1>1, CheckpointFacts
<1>3. CASE pc' = "refused" /\ EmptyMemory /\ UNCHANGED files
  <2>1. CommittedRowsAreExact' /\ DiskInv'
    BY <1>1, <1>3, SameDiskSameRows DEF RowsInv, disk
  <2>2. StateInv'
    <3>1. Len(Ranges) \in Nat
      BY RangeFacts
    <3> QED
      BY <1>1, <1>3, <3>1 DEF RowsInv, StateInv, EmptyMemory, NoCheckpoint, Start
  <2>3. IdleInv' /\ ~Active'
    BY <1>1, <1>3 DEF RowsInv, IdleInv, Active, EmptyMemory
  <2> QED
    BY <2>1, <2>2, <2>3 DEF RowsInv
<1>4. CASE /\ files' = [files EXCEPT ![t] = @ \cup {file}]
           /\ segments' = [segments EXCEPT ![t] = {}]
           /\ coverageStart' = [coverageStart EXCEPT ![t] = NextQueriedBlock(file.to + 1, ranges)]
           /\ checkpoint' = [checkpoint EXCEPT !.todo = @ \ {t}, !.published = TRUE]
           /\ UNCHANGED <<pc, ranges, batch, lastBoundary, openRange, lastCheckpoint>>
  <2>1. /\ file.from = coverageStart[t] /\ file.to = lastBoundary /\ file.rows = segments[t]
        /\ file \in File /\ file.from <= file.to
        /\ segments[t] \subseteq Queried
    <3>1. segments[t] \subseteq Queried /\ segments[t] \subseteq Blocks
      BY RangeOfBlock DEF RowsInv, StateInv
    <3> QED
      BY <1>2, <3>1 DEF File
  <2> DEFINE next == NextQueriedBlock(lastBoundary + 1, ranges)
  <2>2. /\ next \in Nat /\ lastBoundary < next
        /\ Seeded => \A b \in Pending : next <= b
        /\ Seeded => Ranges[1].from <= next
    <3>1. CASE ranges = Ranges
      <4>1. /\ next \in Nat /\ lastBoundary + 1 <= next
            /\ \A b \in Queried : lastBoundary + 1 <= b => next <= b
            /\ Ranges[1].from <= next
        <5>1. lastBoundary + 1 \in Nat /\ Ranges # <<>> /\ next = NextQueriedBlock(lastBoundary + 1, Ranges)
          BY <1>2, <3>1
        <5> HIDE DEF next
        <5> QED
          BY ONLY <5>1, NextQueriedBlockFacts
      <4>2. \A b \in Pending : b \in Queried /\ lastBoundary + 1 <= b
        BY <1>2, RangeOfBlock DEF Pending
      <4>3. \A b \in Pending : next <= b
        BY <4>1, <4>2
      <4>4. lastBoundary < next
        <5>1. lastBoundary \in Nat
          BY <1>2
        <5> HIDE DEF next
        <5> QED
          BY <4>1, <5>1
      <4> QED
        BY <4>1, <4>3, <4>4
    <3>2. CASE ranges = <<>>
      <4>1. next = lastBoundary + 1
        BY <3>2, NextBlockWithoutRanges
      <4> QED
        BY <1>2, <3>2, <4>1 DEF Seeded
    <3> QED
      BY <1>2, <3>1, <3>2
  <2>3. coverageStart' = [coverageStart EXCEPT ![t] = next]
    BY <1>4, <2>1
  <2> HIDE DEF file, next
  <2>4. /\ checkpoint' = [checkpoint EXCEPT !.todo = @ \ {t}, !.published = TRUE]
        /\ checkpoint'.to = lastBoundary /\ checkpoint'.next = checkpoint.next
        /\ checkpoint'.todo = checkpoint.todo \ {t}
        /\ checkpoint' \in [to : Queried \cup {None}, closeTails : BOOLEAN, todo : SUBSET Tables,
                            published : BOOLEAN, next : {"down", "reading", "batch", "close"}]
    BY <1>2, <1>4 DEF RowsInv, StateInv
  <2>5. /\ files \in [Tables -> SUBSET File] /\ segments \in [Tables -> SUBSET Queried]
        /\ coverageStart \in [Tables -> Nat]
    BY <1>1, CheckpointFacts DEF RowsInv, StateInv
  <2>6. ASSUME NEW u \in Tables
        PROVE  /\ files'[u] = IF u = t THEN files[t] \cup {file} ELSE files[u]
               /\ segments'[u] = IF u = t THEN {} ELSE segments[u]
               /\ coverageStart'[u] = IF u = t THEN next ELSE coverageStart[u]
    BY <1>4, <2>3, <2>5
  <2>7. StateInv'
    <3>1. files' \in [Tables -> SUBSET File] /\ segments' \in [Tables -> SUBSET Queried]
      BY <1>4, <2>1, <2>5
    <3>2. coverageStart' \in [Tables -> Start]
      BY <2>2, <2>3, <2>5 DEF Start
    <3>3. \A u \in Tables : \A f \in files'[u] : f.from <= f.to
      <4>1. \A u \in Tables : \A f \in files'[u] : f \in files[u] \/ f = file
        BY <2>6
      <4>2. \A u \in Tables : \A f \in files[u] : f.from <= f.to
        BY DEF RowsInv, StateInv
      <4> QED
        BY <2>1, <4>1, <4>2
    <3> QED
      BY <1>1, <1>4, <2>4, <3>1, <3>2, <3>3 DEF RowsInv, StateInv
  <2>8. IdleInv'
    BY <1>1, <1>4 DEF RowsInv, IdleInv, Active
  <2>9. saved.kind = "start" => file.from > saved.number
    <3> SUFFICES ASSUME saved.kind = "start" PROVE file.from > saved.number
      OBVIOUS
    <3>1. Cursor = None /\ saved.number = Ranges[1].from - 1
      BY SavedFacts DEF RowsInv
    <3>2. Seeded
      BY <1>2, <3>1 DEF None
    <3>3. Ranges[1].from <= coverageStart[t]
      BY <1>2, <3>2 DEF RowsInv, SeededInv
    <3>4. Ranges[1].from \in Nat
      <4>1. 1 \in DOMAIN Ranges
        BY <1>2, ParquetAssumption DEF ParquetAssumption
      <4> QED
        BY <4>1, RangeFacts
    <3> QED
      BY <1>2, <2>1, <3>1, <3>3, <3>4
  <2>10. DiskInv'
    BY <1>1, <1>2, <2>6, <2>9 DEF RowsInv, DiskInv
  <2>11. Cursor' = Cursor
    BY <1>1 DEF Cursor
  <2>12. /\ RowsOf(t) \cup segments[t] = {b \in Emits[t] \cap Queried : b <= lastBoundary}
         /\ RowsOf(t) \cap segments[t] = {}
         /\ \A f, g \in files[t] : f # g => f.rows \cap g.rows = {}
         /\ \A f \in files[t] : f.to <= Cursor \/ f.to = lastBoundary
         /\ \A b \in segments[t] : b > Cursor /\ b <= lastBoundary
    <3>1. \A b \in segments[t] : b \in RowsOf(t) \cup segments[t]
      OBVIOUS
    <3> QED
      BY <1>1, <1>2, <3>1 DEF RowsInv, WrittenInv
  <2>13. WrittenInv'
    <3>1. ASSUME NEW u \in Tables
          PROVE  /\ UNION {f.rows : f \in files'[u]} = RowsOf(u) \cup (IF u = t THEN segments[t] ELSE {})
                 /\ \A f, g \in files'[u] : f # g => f.rows \cap g.rows = {}
                 /\ \A f \in files'[u] : f.to <= Cursor \/ f.to = lastBoundary
      <4>1. CASE u # t
        BY <1>1, <1>2, <2>6, <4>1 DEF RowsInv, WrittenInv, RowsOf
      <4>2. CASE u = t
        <5>1. files'[t] = files[t] \cup {file}
          BY <2>6
        <5>2. UNION {f.rows : f \in files'[t]} = RowsOf(t) \cup segments[t]
          BY <2>1, <5>1 DEF RowsOf
        <5>3. \A f \in files[t] : f.rows \subseteq RowsOf(t)
          BY DEF RowsOf
        <5>4. \A f, g \in files'[t] : f # g => f.rows \cap g.rows = {}
          BY <2>1, <2>12, <5>1, <5>3
        <5>5. \A f \in files'[t] : f.to <= Cursor \/ f.to = lastBoundary
          BY <2>1, <2>12, <5>1
        <5> QED
          BY <4>2, <5>2, <5>4, <5>5
      <4> QED
        BY <4>1, <4>2
    <3>2. ASSUME NEW u \in Tables
          PROVE  /\ RowsOf(u)' \cup segments'[u] = {b \in Emits[u] \cap Queried : b <= lastBoundary}
                 /\ RowsOf(u)' \cap segments'[u] = {}
                 /\ \A b \in segments'[u] : b > Cursor
      <4>1. RowsOf(u)' = RowsOf(u) \cup (IF u = t THEN segments[t] ELSE {})
        BY <3>1 DEF RowsOf
      <4>2. CASE u # t
        BY <1>1, <1>2, <2>6, <4>1, <4>2 DEF RowsInv, WrittenInv
      <4>3. CASE u = t
        BY <2>6, <2>12, <4>1, <4>3
      <4> QED
        BY <4>2, <4>3
    <3> QED
      BY <1>1, <1>4, <2>4, <2>11, <3>1, <3>2 DEF WrittenInv
  <2>14. CommittedRowsAreExact'
    <3>1. ASSUME NEW u \in Tables, u # t
          PROVE  files'[u] = files[u] /\ Committed(u)' = Committed(u)
      BY <2>6, <2>11, <3>1 DEF Committed
    <3>2. CASE Cursor < lastBoundary
      <4>1. Committed(t)' = Committed(t)
        BY <1>2, <2>1, <2>6, <2>11, <3>2 DEF Committed
      <4>2. files'[t] = files[t] \cup {file}
        BY <2>6
      <4> QED
        BY <2>1, <2>11, <2>12, <3>1, <4>1, <4>2 DEF RowsInv, CommittedRowsAreExact
    <3>3. CASE Cursor = lastBoundary
      <4>1. segments[t] = {}
        BY <1>2, <2>1, <2>12, <3>3, RangeOfBlock
      <4>2. Committed(t)' = Committed(t) \cup {file} /\ files'[t] = files[t] \cup {file} /\ file.rows = {}
        BY <1>2, <2>1, <2>6, <2>11, <3>3, <4>1 DEF Committed
      <4>3. UNION {f.rows : f \in Committed(t) \cup {file}} = UNION {f.rows : f \in Committed(t)}
        BY <4>2
      <4>4. /\ UNION {f.rows : f \in Committed(t)} = {b \in Emits[t] \cap Queried : b <= Cursor}
            /\ \A f, g \in Committed(t) : f # g => f.rows \cap g.rows = {}
            /\ \A f \in files[t] \ Committed(t) : \A b \in f.rows : b > Cursor
        BY DEF RowsInv, CommittedRowsAreExact
      <4>5. /\ UNION {f.rows : f \in Committed(t)'} = {b \in Emits[t] \cap Queried : b <= Cursor'}
            /\ \A f, g \in Committed(t)' : f # g => f.rows \cap g.rows = {}
            /\ \A f \in files'[t] \ Committed(t)' : \A b \in f.rows : b > Cursor'
        BY <2>11, <4>2, <4>3, <4>4
      <4> QED
        BY <2>11, <3>1, <4>5 DEF RowsInv, CommittedRowsAreExact
    <3> QED
      BY <1>2, <3>2, <3>3
  <2>15. NextBatchEnds' = NextBatchEnds /\ Pending' = Pending
    BY <1>4 DEF NextBatchEnds, Pending
  <2>16. ProgressInv'
    <3>1. coverageStart' \in [Tables -> Nat]
      BY <2>2, <2>3, <2>5
    <3>2. \A u \in Tables : u \in checkpoint.todo \ {t} => coverageStart'[u] <= lastBoundary
      BY <1>1, <2>6, CheckpointFacts
    <3>3. \A u \in Tables : segments'[u] # {} => u \in checkpoint.todo \ {t}
      BY <1>1, <2>6, CheckpointFacts
    <3>4. segments = [u \in Tables |-> {}] => segments' = [u \in Tables |-> {}]
      BY <1>4
    <3> QED
      BY <1>1, <1>2, <1>4, <2>4, <2>11, <2>15, <3>1, <3>2, <3>3, <3>4
         DEF RowsInv, ProgressInv, Seeded
  <2>17. SeededInv'
    <3> SUFFICES ASSUME Seeded PROVE SeededInv'
      BY <1>4 DEF SeededInv, Seeded
    <3>1. coverageStart' \in [Tables -> Nat] /\ ranges' # <<>>
      BY <1>4, <2>2, <2>3, <2>5 DEF Seeded
    <3>2. ASSUME NEW u \in Tables
          PROVE  /\ coverageStart'[u] >= Ranges[1].from
                 /\ \A b \in Pending \cup segments'[u] : coverageStart'[u] <= b
                 /\ openRange # 0 => Ranges[openRange].from <= coverageStart'[u]
      <4>1. CASE u # t
        BY <1>2, <2>6, <4>1 DEF RowsInv, SeededInv
      <4>2. CASE u = t
        <5>1. openRange # 0 => Ranges[openRange].from <= lastBoundary /\ Ranges[openRange].from \in Nat
          <6>1. openRange # 0 => openRange = RangeOf(lastBoundary)
            BY <1>2 DEF RowsInv, ProgressInv
          <6> QED
            BY <1>2, <6>1, RangeOfBlock, RangeFacts
        <5>2. openRange # 0 => Ranges[openRange].from <= next
          BY <1>2, <2>2, <5>1
        <5>3. Ranges[1].from \in Nat
          <6>1. 1 \in DOMAIN Ranges
            BY <1>2, ParquetAssumption DEF ParquetAssumption
          <6> QED
            BY <6>1, RangeFacts
        <5>4. coverageStart'[t] = next /\ segments'[t] = {}
          BY <2>6
        <5>5. next >= Ranges[1].from
          BY <2>2, <5>3
        <5> QED
          BY <2>2, <4>2, <5>2, <5>4, <5>5
      <4> QED
        BY <4>1, <4>2
    <3> QED
      BY <1>4, <2>15, <3>1, <3>2 DEF SeededInv, Seeded
  <2> QED
    BY <2>7, <2>8, <2>10, <2>13, <2>14, <2>16, <2>17 DEF RowsInv
<1> QED
  BY <1>3, <1>4 DEF PublishTable

LEMMA SaveCursorKeepsRows ==
    ASSUME RowsInv, SaveCursor
    PROVE  RowsInv'
<1>1. /\ pc = "checkpoint" /\ checkpoint.todo = {} /\ pc' = checkpoint.next
      /\ checkpoint' = NoCheckpoint
      /\ UNCHANGED <<files, doomed, starts, ranges, coverageStart, segments, batch, lastBoundary,
                     openRange>>
  BY DEF SaveCursor
<1>2. /\ Active /\ saved # NoState /\ lastBoundary \in Queried /\ lastBoundary \in Nat
      /\ checkpoint.to = lastBoundary /\ Cursor \in Int /\ Cursor <= lastBoundary
      /\ coverageStart \in [Tables -> Nat]
      /\ checkpoint.next \in {"reading", "batch", "close"}
      /\ \A t \in Tables : segments[t] = {}
      /\ ~Seeded => checkpoint.next = "close"
  BY <1>1, CheckpointFacts
<1>3. pc' \in {"reading", "batch", "close"} /\ Active'
  BY <1>1, <1>2 DEF Active
<1>4. lastCheckpoint = Cursor
  BY <1>2 DEF RowsInv, ProgressInv
<1>5. /\ saved' # NoState /\ saved'.kind = "cursor" /\ Cursor' = lastBoundary /\ lastCheckpoint' = lastBoundary
      /\ saved' = CursorState(saved'.number, saved'.coverage)
      /\ saved'.number \in Queried /\ saved'.coverage \in [Tables -> Nat]
  <2>1. CASE saved' = CursorState(checkpoint.to, coverageStart) /\ lastCheckpoint' = checkpoint.to
    <3>1. /\ saved'.kind = "cursor" /\ saved'.number = lastBoundary /\ saved'.coverage = coverageStart
          /\ saved' # NoState
      BY <1>2, <2>1 DEF CursorState, NoState
    <3> QED
      BY <1>2, <2>1, <3>1 DEF Cursor
  <2>2. CASE checkpoint.to = lastCheckpoint /\ UNCHANGED <<saved, lastCheckpoint>>
    <3>1. Cursor = lastBoundary /\ saved.kind = "cursor"
      BY <1>2, <1>4, <2>2, SavedFacts DEF RowsInv, None
    <3>2. saved = CursorState(saved.number, saved.coverage)
      BY <3>1 DEF RowsInv, StateInv, NoState, StartState, CursorState
    <3>3. saved.number \in Queried /\ saved.coverage \in [Tables -> Nat]
      BY <3>1, SavedFacts DEF RowsInv
    <3> QED
      BY <1>2, <1>4, <2>2, <3>1, <3>2, <3>3 DEF Cursor
  <2> QED
    BY <2>1, <2>2 DEF SaveCursor
<1>6. StateInv'
  <2>1. NoCheckpoint \in [to : Queried \cup {None}, closeTails : BOOLEAN, todo : SUBSET Tables,
                          published : BOOLEAN, next : {"down", "reading", "batch", "close"}]
    BY DEF NoCheckpoint
  <2> QED
    BY <1>1, <1>2, <1>3, <1>5, <2>1 DEF RowsInv, StateInv
<1>7. IdleInv'
  BY <1>1, <1>3 DEF RowsInv, IdleInv
<1>8. DiskInv'
  BY <1>5 DEF DiskInv
<1>9. ASSUME NEW t \in Tables
      PROVE  /\ RowsOf(t) = {b \in Emits[t] \cap Queried : b <= lastBoundary}
             /\ \A f, g \in files[t] : f # g => f.rows \cap g.rows = {}
             /\ \A f \in files[t] : f.to <= lastBoundary
  <2>1. \A f \in files[t] : f.to <= Cursor \/ f.to = lastBoundary
    BY <1>2 DEF RowsInv, WrittenInv
  <2>2. \A f \in files[t] : f.to \in Nat
    BY DEF RowsInv, StateInv, File
  <2>3. \A f \in files[t] : f.to <= lastBoundary
    BY <1>2, <2>1, <2>2
  <2> QED
    BY <1>2, <2>3 DEF RowsInv, WrittenInv
<1>10. CommittedRowsAreExact'
  <2>1. ASSUME NEW t \in Tables
        PROVE  Committed(t)' = files[t] /\ files'[t] = files[t]
    BY <1>1, <1>5, <1>9 DEF Committed
  <2> QED
    BY <1>5, <1>9, <2>1 DEF CommittedRowsAreExact, RowsOf
<1>11. WrittenInv'
  BY <1>1, <1>2, <1>5, <1>9 DEF WrittenInv, RowsOf
<1>12. NextBatchEnds' = NextBatchEnds /\ Pending' = Pending
  BY <1>1 DEF NextBatchEnds, Pending
<1>13. ProgressInv'
  <2>1. segments' = [t \in Tables |-> {}]
    BY <1>1, <1>2 DEF RowsInv, StateInv
  <2>2. pc' = "batch" => batch \in NextBatchEnds
    BY <1>1, <1>2 DEF RowsInv, ProgressInv
  <2>3. /\ openRange # 0 => RangeOf(lastBoundary) = openRange
        /\ ~Seeded => openRange = 0
    BY <1>2 DEF RowsInv, ProgressInv
  <2> QED
    BY <1>1, <1>2, <1>3, <1>5, <1>12, <2>1, <2>2, <2>3 DEF ProgressInv, Seeded
<1>14. SeededInv'
  BY <1>1, <1>2, <1>12 DEF RowsInv, SeededInv, Seeded
<1> QED
  BY <1>6, <1>7, <1>8, <1>10, <1>11, <1>13, <1>14 DEF RowsInv

\* A step that changes nothing.
LEMMA StutterKeepsRows ==
    ASSUME RowsInv, UNCHANGED vars
    PROVE  RowsInv'
<1>1. /\ UNCHANGED <<files, saved, pc, doomed, ranges, coverageStart, segments, batch, lastBoundary,
                     openRange, lastCheckpoint, checkpoint, starts>>
      /\ UNCHANGED disk
  BY DEF vars, disk, memory
<1>2. CommittedRowsAreExact' /\ DiskInv' /\ Cursor' = Cursor /\ OverCursor' = OverCursor
  BY <1>1, SameDiskSameRows DEF RowsInv, OverCursor
<1>3. NextBatchEnds' = NextBatchEnds /\ Pending' = Pending
  BY <1>1 DEF NextBatchEnds, Pending
<1>4. StateInv' /\ IdleInv' /\ (Active' <=> Active)
  BY <1>1, <1>2 DEF RowsInv, StateInv, IdleInv, Active
<1>5. WrittenInv => WrittenInv'
  BY <1>1, <1>2 DEF WrittenInv, RowsOf
<1>6. ProgressInv => ProgressInv'
  BY <1>1, <1>2, <1>3 DEF ProgressInv, Seeded
<1>7. SeededInv => SeededInv'
  BY <1>1, <1>3 DEF SeededInv, Seeded
<1> QED
  BY <1>2, <1>4, <1>5, <1>6, <1>7 DEF RowsInv

LEMMA RowsNext == RowsInv /\ [Next]_vars => RowsInv'
<1> SUFFICES ASSUME RowsInv, [Next]_vars PROVE RowsInv'
  OBVIOUS
<1>1. CASE StartWithoutState
  BY <1>1, StartWithoutStateKeepsRows
<1>2. CASE StartRecovery
  BY <1>2, StartRecoveryKeepsRows
<1>3. CASE DeleteFileAboveCursor
  BY <1>3, DeleteKeepsRows
<1>4. CASE FinishRecovery
  BY <1>4, FinishRecoveryKeepsRows
<1>5. CASE TakeBatch
  BY <1>5, TakeBatchKeepsRows
<1>6. CASE SaveStartCursor
  BY <1>6, SaveStartKeepsRows
<1>7. CASE CloseRange
  BY <1>7, CloseRangeKeepsRows
<1>8. CASE FlushBatch
  BY <1>8, FlushBatchKeepsRows
<1>9. CASE Rollover
  BY <1>9, RolloverKeepsRows
<1>10. CASE FinishQuery \/ Stop
  BY <1>10, EndStreamKeepsRows DEF FinishQuery, Stop
<1>11. CASE SaveCursor
  BY <1>11, SaveCursorKeepsRows
<1>12. CASE Close \/ Crash
  BY <1>12, LoseMemoryKeepsRows DEF Close, Crash
<1>13. ASSUME NEW t \in Tables, PublishTable(t)
       PROVE  RowsInv'
  BY <1>13, PublishTableKeepsRows
<1>14. CASE UNCHANGED vars
  BY <1>14, StutterKeepsRows
<1> QED
  BY <1>1, <1>2, <1>3, <1>4, <1>5, <1>6, <1>7, <1>8, <1>9, <1>10, <1>11, <1>12, <1>13, <1>14
     DEF Next, ProcessStep

\* The rows on disk and in memory are those read so far, whatever the limits
\* and whenever the process crashes.
THEOREM AlwaysRowsInv == Spec => []RowsInv
  BY RowsInit, RowsNext, PTL DEF Spec

\* The variables keep their types.
THEOREM TypesHold == Spec => []TypeOK
<1>1. RowsInv => TypeOK
  <2> SUFFICES ASSUME RowsInv PROVE TypeOK
    OBVIOUS
  <2>1. Queried \subseteq Blocks
    BY DEF Queried
  <2>2. \A t \in Tables : \A f \in files[t] : f \in File /\ f.from <= f.to
    BY DEF RowsInv, StateInv
  <2>3. \/ saved = NoState
        \/ saved.kind = "start" /\ saved.number \in Start
        \/ saved.kind = "cursor" /\ saved.number \in Blocks /\ saved.coverage \in [Tables -> Nat]
    <3>1. Ranges # <<>> => Ranges[1].from - 1 \in Start
      <4>1. Ranges # <<>> => Ranges[1].from \in Nat
        <5>1. Ranges # <<>> => 1 \in DOMAIN Ranges
          BY ParquetAssumption DEF ParquetAssumption
        <5> QED
          BY <5>1, RangeFacts
      <4> QED
        BY <4>1 DEF Start, None
    <3> QED
      BY <2>1, <3>1, SavedFacts DEF RowsInv
  <2>4. /\ ranges \in {<<>>, Ranges} /\ coverageStart \in [Tables -> Start]
        /\ segments \in [Tables -> SUBSET Blocks]
        /\ batch \in Blocks \cup {None}
        /\ lastBoundary \in Blocks \cup {None} /\ lastCheckpoint \in Blocks \cup {None}
        /\ openRange \in 0..Len(Ranges) /\ checkpoint.todo \subseteq Tables /\ starts \in 0..MaxStarts
        /\ pc \in {"down", "refused", "recovery", "reading", "saveStart", "batch", "rollover",
                   "checkpoint", "close"}
    BY <2>1 DEF RowsInv, StateInv
  <2>5. pc \in {"saveStart", "batch"} => batch \in Queried
    BY BatchFacts DEF RowsInv, ProgressInv, Active
  <2>6. checkpoint.todo # {} => pc = "checkpoint"
    BY DEF RowsInv, IdleInv, NoCheckpoint
  <2>7. \A t \in Tables : doomed[t] \subseteq files[t]
    BY DEF RowsInv, IdleInv, NothingDoomed, OverCursor
  <2> QED
    BY <2>2, <2>3, <2>4, <2>5, <2>6, <2>7 DEF TypeOK
<1> QED
  BY <1>1, AlwaysRowsInv, PTL

\* Up to the cursor the published files hold each row once, and above it only
\* rows that are read again, whatever the limits, the stops and the crashes.
THEOREM RowsAreAlwaysExact == Spec => []CommittedRowsAreExact
<1>1. RowsInv => CommittedRowsAreExact
  BY DEF RowsInv
<1> QED
  BY <1>1, AlwaysRowsInv, PTL

-----------------------------------------------------------------------------
(* The windows, step by step *)

LEMMA SameDiskSameWindows ==
    ASSUME ClaimsInv, SavedInv, UNCHANGED disk
    PROVE  ClaimsInv' /\ SavedInv' /\ Cursor' = Cursor
  BY DEF ClaimsInv, SavedInv, Committed, Claims, Cursor, disk

LEMMA WindowsInit == Init => WindowsInv
<1> SUFFICES ASSUME Init PROVE WindowsInv
  OBVIOUS
<1>1. ClaimsInv /\ SavedInv
  BY DEF Init, ClaimsInv, SavedInv, NoState
<1>2. CoverageInv /\ CheckpointInv /\ OwnFilesAreNeverRefused
  BY DEF Init, CoverageInv, Active, CheckpointInv, OwnFilesAreNeverRefused
<1> QED
  BY <1>1, <1>2 DEF WindowsInv

\* A process that has not seeded its coverage, or does not read, has nothing
\* to say about windows beyond what the disk says.
LEMMA QuietStepKeepsWindows ==
    ASSUME RowsInv, WindowsInv, UNCHANGED disk, ~(Active' /\ Seeded'),
           pc' \notin {"rollover", "checkpoint", "refused"}
    PROVE  WindowsInv'
  BY SameDiskSameWindows DEF WindowsInv, CoverageInv, CheckpointInv, OwnFilesAreNeverRefused

LEMMA StartKeepsWindows ==
    ASSUME RowsInv, WindowsInv, StartWithoutState \/ StartRecovery \/ FinishRecovery
    PROVE  WindowsInv'
<1>1. UNCHANGED disk /\ ~Active /\ UNCHANGED ranges
  BY DEF StartWithoutState, StartRecovery, FinishRecovery, StartProcess, memory, Active
<1>2. ~Seeded'
  BY <1>1 DEF RowsInv, IdleInv, Seeded
<1>3. CASE StartWithoutState
  <2>1. files = [t \in Tables |-> {}]
    BY <1>3 DEF RowsInv, DiskInv, StartWithoutState
  <2>2. pc' = "reading"
    BY <1>3, <2>1 DEF StartWithoutState
  <2> QED
    BY <1>1, <1>2, <2>2, QuietStepKeepsWindows
<1>4. CASE StartRecovery
  <2>1. ASSUME NEW t \in Tables, NEW f \in OverCursor[t]
        PROVE  ~Straddles(t, f)
    <3>1. f \in files[t] /\ f.to > saved.number
      BY <2>1 DEF OverCursor
    <3>2. CASE saved.kind = "cursor"
      BY <3>1, <3>2 DEF WindowsInv, SavedInv, Straddles
    <3>3. CASE saved.kind = "start"
      <4>1. f.from > saved.number
        BY <3>1, <3>3 DEF RowsInv, DiskInv
      <4>2. f.from \in Nat /\ saved.number \in Int
        <5>1. Ranges # <<>> /\ saved.number = Ranges[1].from - 1
          BY <3>3, SavedFacts DEF RowsInv
        <5>2. 1 \in DOMAIN Ranges
          BY <5>1, ParquetAssumption DEF ParquetAssumption
        <5>3. f \in File
          BY <3>1 DEF RowsInv, StateInv
        <5> QED
          BY <5>1, <5>2, <5>3, RangeFacts DEF File
      <4> QED
        BY <4>1, <4>2 DEF Straddles
    <3> QED
      BY <1>4, <3>2, <3>3, SavedFacts DEF RowsInv, StartRecovery
  <2>2. pc' = "recovery"
    BY <1>4, <2>1 DEF StartRecovery
  <2> QED
    BY <1>1, <1>2, <2>2, QuietStepKeepsWindows
<1>5. CASE FinishRecovery
  BY <1>1, <1>2, <1>5, QuietStepKeepsWindows DEF FinishRecovery
<1> QED
  BY <1>3, <1>4, <1>5

LEMMA LoseMemoryKeepsWindows ==
    ASSUME RowsInv, WindowsInv, LoseMemory, UNCHANGED <<disk, starts>>
    PROVE  WindowsInv'
  BY QuietStepKeepsWindows DEF LoseMemory, Active

LEMMA DeleteKeepsWindows ==
    ASSUME RowsInv, WindowsInv, DeleteFileAboveCursor
    PROVE  WindowsInv'
<1> USE DeleteFacts
<1>1. ClaimsInv'
  BY DEF WindowsInv, ClaimsInv, Claims
<1>2. SavedInv'
  BY DEF WindowsInv, SavedInv, Claims
<1>3. CoverageInv' /\ CheckpointInv' /\ OwnFilesAreNeverRefused'
  BY DEF WindowsInv, CoverageInv, CheckpointInv, OwnFilesAreNeverRefused
<1> QED
  BY <1>1, <1>2, <1>3 DEF WindowsInv

\* If a table owes blocks when nothing was read since the last commit, that
\* commit was a rollover's, so a block of the cursor's range is still to come.
LEMMA OwedAtCursorIsInside ==
    ASSUME LimitsAreInside, RowsInv, WindowsInv, NEW t \in Tables,
           saved.kind = "cursor", saved.coverage[t] <= saved.number
    PROVE  /\ Cursor = saved.number /\ Cursor \in Queried /\ Cursor \notin Stops
           /\ \E c \in Queried : Cursor < c /\ RangeOf(c) = RangeOf(Cursor)
  BY SavedFacts DEF LimitsAreInside, RowsInv, WindowsInv, SavedInv

\* The same, of what the process remembers.
LEMMA OwedIsInside ==
    ASSUME LimitsAreInside, RowsInv, WindowsInv, Active, Seeded, NEW t \in Tables,
           lastBoundary = Cursor, coverageStart[t] <= lastBoundary
    PROVE  /\ lastBoundary \in Queried /\ lastBoundary \notin Stops
           /\ \E c \in Queried : lastBoundary < c /\ RangeOf(c) = RangeOf(lastBoundary)
<1>1. coverageStart[t] \in Nat /\ coverageStart[t] = saved.coverage[t]
  BY DEF RowsInv, WindowsInv, SeededInv, CoverageInv
<1>2. saved.kind = "cursor" /\ saved.coverage[t] <= saved.number
  BY <1>1, SavedFacts DEF RowsInv, None
<1> QED
  BY <1>2, OwedAtCursorIsInside

LEMMA TakeBatchKeepsWindows ==
    ASSUME RowsInv, WindowsInv, TakeBatch
    PROVE  WindowsInv'
<1>1. /\ pc = "reading" /\ pc' \in {"saveStart", "batch"} /\ Active
      /\ batch' \in NextBatchEnds
      /\ UNCHANGED <<files, saved, lastBoundary>>
  BY DEF TakeBatch, disk, Active
<1>2. ClaimsInv' /\ SavedInv' /\ Cursor' = Cursor
  BY SameDiskSameWindows DEF WindowsInv, TakeBatch
<1>3. CheckpointInv' /\ OwnFilesAreNeverRefused'
  BY <1>1 DEF CheckpointInv, OwnFilesAreNeverRefused
<1>4. CoverageInv'
  <2>1. CASE ranges # <<>>
    <3>1. UNCHANGED <<ranges, coverageStart>>
      BY <2>1 DEF TakeBatch
    <3> QED
      BY <1>1, <1>2, <2>1, <3>1 DEF WindowsInv, CoverageInv, Seeded, Claims
  <2>2. CASE ranges = <<>>
    <3> DEFINE n == IF lastBoundary = None THEN Ranges[1].from ELSE lastBoundary + 1
    <3>1. coverageStart' = SeedCoverage(n, Ranges)
      BY <2>2 DEF TakeBatch
    <3>2. lastBoundary = Cursor
      BY <1>1, <2>2 DEF RowsInv, ProgressInv, Seeded
    <3>3. CASE saved.kind # "cursor"
      <4>1. Cursor = None
        BY <3>3, SavedFacts DEF RowsInv
      <4>2. \A b \in Queried : ~(b <= lastBoundary)
        BY <3>2, <4>1, RangeOfBlock DEF None
      <4>3. \A t \in Tables : coverageStart'[t] \in Nat
        <5>1. n \in Nat
          <6>1. Ranges # <<>> /\ 1 \in DOMAIN Ranges
            BY <1>1, BatchFacts, RangeOfBlock, ParquetAssumption DEF RowsInv, ParquetAssumption
          <6> QED
            BY <3>2, <4>1, <6>1, RangeFacts
        <5> HIDE DEF n
        <5> QED
          BY <3>1, <5>1, SeedFacts DEF RowsInv
      <4> QED
        BY <1>1, <1>2, <4>1, <4>2, <4>3 DEF CoverageInv, None
    <3>4. CASE saved.kind = "cursor"
      <4> DEFINE C == saved.number
      <4>1. /\ lastBoundary = C /\ Cursor = C /\ C \in Nat /\ C \in Queried
            /\ saved.coverage \in [Tables -> Nat]
        BY <3>2, <3>4, SavedFacts, RangeOfBlock DEF RowsInv
      <4>2. n = C + 1 /\ n \in Nat
        BY <4>1 DEF None
      <4> HIDE DEF n
      <4>3. ASSUME NEW t \in Tables
            PROVE  /\ coverageStart'[t] \in Nat /\ saved.coverage[t] \in Nat
                   /\ IF saved.coverage[t] <= C THEN coverageStart'[t] = saved.coverage[t]
                                                ELSE C < coverageStart'[t]
        <5>1. /\ coverageStart'[t] \in Nat /\ saved.coverage[t] \in Nat
              /\ IF saved.coverage[t] <= C
                   THEN Ranges[RangeOf(C)].from <= saved.coverage[t]
                          => coverageStart'[t] = saved.coverage[t]
                   ELSE C < coverageStart'[t]
          BY <3>1, <3>4, <4>1, <4>2, SeedFacts DEF RowsInv
        <5>2. saved.coverage[t] <= C => Ranges[RangeOf(C)].from <= saved.coverage[t]
          BY <3>4 DEF WindowsInv, SavedInv
        <5> QED
          BY <5>1, <5>2
      <4>4. ASSUME NEW t \in Tables, NEW b \in Queried, b <= C
            PROVE  (\E f \in files[t] : Claims(f, b)) <=> b < coverageStart'[t]
        <5>1. Committed(t) = files[t]
          BY <1>1, <4>1 DEF RowsInv, WrittenInv, Committed
        <5>2. (\E f \in files[t] : Claims(f, b)) <=> b < saved.coverage[t]
          BY <3>4, <4>4, <5>1 DEF WindowsInv, SavedInv
        <5>3. b \in Nat
          BY RangeOfBlock
        <5>4. b < saved.coverage[t] <=> b < coverageStart'[t]
          BY <4>1, <4>3, <4>4, <5>3
        <5> QED
          BY <5>2, <5>4
      <4>5. ASSUME NEW t \in Tables, coverageStart'[t] <= C
            PROVE  coverageStart'[t] = saved.coverage[t]
        BY <4>1, <4>3, <4>5
      <4> QED
        BY <1>1, <1>2, <4>1, <4>4, <4>5 DEF CoverageInv, Claims
    <3> QED
      BY <3>3, <3>4
  <2> QED
    BY <2>1, <2>2
<1> QED
  BY <1>2, <1>3, <1>4 DEF WindowsInv

LEMMA SaveStartKeepsWindows ==
    ASSUME RowsInv, WindowsInv, SaveStartCursor
    PROVE  WindowsInv'
<1>1. /\ pc = "saveStart" /\ pc' = "batch" /\ Active
      /\ saved' = StartState(Ranges[1].from - 1)
      /\ UNCHANGED <<files, ranges, coverageStart, lastBoundary>>
  BY DEF SaveStartCursor, memory, Active
<1>2. ClaimsInv' /\ SavedInv' /\ Cursor' = None
  BY <1>1 DEF WindowsInv, ClaimsInv, SavedInv, StartState, Claims, Cursor
<1>3. Seeded /\ \A t \in Tables : coverageStart[t] \in Nat
  BY <1>1 DEF RowsInv, ProgressInv, SeededInv
<1>4. CoverageInv'
  BY <1>1, <1>2, <1>3 DEF WindowsInv, CoverageInv, Seeded, Claims, None
<1>5. CheckpointInv' /\ OwnFilesAreNeverRefused'
  BY <1>1 DEF CheckpointInv, OwnFilesAreNeverRefused
<1> QED
  BY <1>2, <1>4, <1>5 DEF WindowsInv

\* A checkpoint that has something to commit keeps the windows.
LEMMA BeginCheckpointKeepsWindows ==
    ASSUME RowsInv, WindowsInv, Active, Cursor < lastBoundary, pc' = "checkpoint",
           UNCHANGED disk, UNCHANGED <<ranges, lastBoundary>>,
           Seeded => coverageStart' = coverageStart,
           Seeded,
           checkpoint'.next = "reading" => lastBoundary \in Rollovers,
           checkpoint'.next # "reading" =>
             \A t \in Tables \ checkpoint'.todo : lastBoundary < coverageStart[t]
    PROVE  WindowsInv'
<1>1. ClaimsInv' /\ SavedInv' /\ Cursor' = Cursor
  BY SameDiskSameWindows DEF WindowsInv
<1>2. CoverageInv'
  BY <1>1 DEF WindowsInv, CoverageInv, Seeded, Claims, disk
<1>3. CheckpointInv' /\ OwnFilesAreNeverRefused'
  BY <1>1 DEF CheckpointInv, OwnFilesAreNeverRefused
<1> QED
  BY <1>1, <1>2, <1>3 DEF WindowsInv

\* Tables that owe no coverage are covered beyond the last block handled.
LEMMA OthersAreCovered ==
    ASSUME RowsInv, Active, Seeded, lastBoundary \in Queried,
           NEW t \in Tables \ TablesOwingCoverage(coverageStart, lastBoundary)
    PROVE  lastBoundary < coverageStart[t]
<1>1. ~(coverageStart[t] <= lastBoundary)
  BY DEF TablesOwingCoverage
<1>2. coverageStart[t] \in Nat
  BY DEF RowsInv, SeededInv
<1>3. lastBoundary \in Nat
  BY RangeOfBlock
<1> QED
  BY <1>1, <1>2, <1>3

LEMMA CloseRangeKeepsWindows ==
    ASSUME LimitsAreInside, RowsInv, WindowsInv, CloseRange
    PROVE  WindowsInv'
<1> DEFINE todo == TablesOwingCoverage(coverageStart, lastBoundary)
<1>1. /\ pc = "batch" /\ Active /\ pc' = "checkpoint" /\ UNCHANGED <<disk, ranges, lastBoundary, coverageStart>>
      /\ openRange # 0 /\ RangeOf(batch) > openRange
      /\ OwedAtRangeEnd = todo /\ todo # {} /\ lastBoundary # None
      /\ checkpoint'.next = "batch" /\ checkpoint'.todo = todo
  BY DEF CloseRange, OwedAtRangeEnd, BeginCheckpoint, Active
<1>2. /\ Seeded /\ saved # NoState /\ batch \in NextBatchEnds /\ lastBoundary \in Queried
      /\ RangeOf(lastBoundary) = openRange /\ Cursor <= lastBoundary
  BY <1>1 DEF RowsInv, ProgressInv, StateInv
<1>3. Cursor < lastBoundary
  <2> SUFFICES ASSUME lastBoundary = Cursor PROVE FALSE
    BY <1>2, SavedFacts, RangeOfBlock DEF RowsInv
  <2>1. PICK t \in Tables : coverageStart[t] <= lastBoundary
    BY <1>1 DEF TablesOwingCoverage
  <2>2. \E c \in Queried : lastBoundary < c /\ RangeOf(c) = RangeOf(lastBoundary)
    BY <1>1, <1>2, <2>1, OwedIsInside
  <2>3. RangeOf(batch) = openRange
    BY <1>2, <2>2, BatchFacts DEF RowsInv
  <2> QED
    BY <1>1, <1>2, <2>3, RangeOfBlock
<1>4. \A t \in Tables \ todo : lastBoundary < coverageStart[t]
  BY <1>1, <1>2, OthersAreCovered
<1> HIDE DEF todo
<1> QED
  BY <1>1, <1>2, <1>3, <1>4, BeginCheckpointKeepsWindows

LEMMA RolloverKeepsWindows ==
    ASSUME RowsInv, WindowsInv, Rollover
    PROVE  WindowsInv'
<1>1. /\ pc = "rollover" /\ Active /\ pc' = "checkpoint" /\ UNCHANGED <<disk, ranges, lastBoundary, coverageStart>>
      /\ checkpoint'.next = "reading"
  BY DEF Rollover, BeginCheckpoint, Active
<1>2. Seeded /\ Cursor < lastBoundary /\ lastBoundary \in Rollovers
  BY <1>1 DEF RowsInv, ProgressInv, WindowsInv, CheckpointInv
<1> QED
  BY <1>1, <1>2, BeginCheckpointKeepsWindows

\* When the stream ends, a checkpoint is called only if blocks were read since
\* the last one.
LEMMA EndStreamKeepsWindows ==
    ASSUME LimitsAreInside, RowsInv, WindowsInv, EndStream,
           Pending = {} \/ lastBoundary \in Stops
    PROVE  WindowsInv'
<1> DEFINE start == IF ranges = <<>> /\ lastBoundary # None
                      THEN SeedCoverage(lastBoundary + 1, <<>>) ELSE coverageStart
           owing == TablesOwingCoverage(start, lastBoundary)
<1>1. /\ pc = "reading" /\ Active /\ UNCHANGED <<disk, ranges, lastBoundary>>
  BY DEF EndStream, Active
<1>2. CASE pc' = "close" /\ UNCHANGED coverageStart
  <2>1. ClaimsInv' /\ SavedInv' /\ Cursor' = Cursor
    BY <1>1, SameDiskSameWindows DEF WindowsInv
  <2>2. CoverageInv'
    BY <1>1, <1>2, <2>1 DEF WindowsInv, CoverageInv, Seeded, Claims, disk
  <2>3. CheckpointInv' /\ OwnFilesAreNeverRefused'
    BY <1>2 DEF CheckpointInv, OwnFilesAreNeverRefused
  <2> QED
    BY <2>1, <2>2, <2>3 DEF WindowsInv
<1>3. CASE /\ lastBoundary # None
           /\ owing # {} \/ (\E t \in Tables : segments[t] # {}) \/ lastBoundary > lastCheckpoint
           /\ coverageStart' = start
           /\ BeginCheckpoint(lastBoundary, TRUE, owing, "close")
  <2>1. /\ lastBoundary \in Queried /\ lastBoundary \in Nat
        /\ lastCheckpoint = Cursor /\ Cursor <= lastBoundary /\ Cursor \in Int
    BY <1>1, <1>3, RangeOfBlock, SavedFacts DEF RowsInv, StateInv, ProgressInv
  <2>2. ASSUME NEW c \in Queried, lastBoundary < c, lastBoundary \notin Stops
        PROVE  FALSE
    BY <2>2 DEF Pending
  <2>3. CASE Seeded
    <3>1. start = coverageStart
      BY <2>3 DEF Seeded
    <3>2. Cursor < lastBoundary
      <4> SUFFICES ASSUME lastBoundary = Cursor PROVE FALSE
        BY <2>1
      <4>1. PICK t \in Tables : t \in owing
        <5>1. ~(lastBoundary > lastCheckpoint)
          BY <2>1
        <5>2. \A t \in Tables : segments[t] # {} => t \in owing
          BY <1>1, <2>3, <3>1, OpenSegmentsOwe
        <5>3. owing \subseteq Tables
          BY DEF TablesOwingCoverage
        <5> HIDE DEF owing
        <5> QED
          BY <1>3, <5>1, <5>2, <5>3
      <4>2. coverageStart[t] <= lastBoundary
        BY <3>1, <4>1 DEF TablesOwingCoverage
      <4>3. /\ lastBoundary \notin Stops
            /\ \E c \in Queried : lastBoundary < c /\ RangeOf(c) = RangeOf(lastBoundary)
        BY <1>1, <2>3, <4>2, OwedIsInside
      <4> QED
        BY <2>2, <4>3
    <3>3. checkpoint'.next = "close" /\ checkpoint'.todo = owing /\ pc' = "checkpoint"
      BY <1>3 DEF BeginCheckpoint
    <3>4. \A t \in Tables \ owing : lastBoundary < coverageStart[t]
      BY <1>1, <2>1, <2>3, <3>1, OthersAreCovered
    <3>5. coverageStart' = coverageStart
      BY <1>3, <3>1
    <3> HIDE DEF owing, start
    <3> QED
      BY <1>1, <2>3, <3>2, <3>3, <3>4, <3>5, BeginCheckpointKeepsWindows
  <2>4. CASE ~Seeded
    <3>1. lastBoundary = Cursor /\ \A t \in Tables : segments[t] = {}
      BY <1>1, <2>4 DEF RowsInv, ProgressInv
    <3>2. PICK t \in Tables : t \in owing
      <4>1. ~(lastBoundary > lastCheckpoint)
        BY <2>1, <3>1
      <4>2. owing \subseteq Tables
        BY DEF TablesOwingCoverage
      <4> HIDE DEF owing
      <4> QED
        BY <1>3, <3>1, <4>1, <4>2
    <3>3. start = SeedCoverage(lastBoundary + 1, <<>>) /\ start[t] <= lastBoundary
      BY <1>3, <2>4, <3>2 DEF Seeded, TablesOwingCoverage
    <3>4. saved.kind = "cursor" /\ saved.number = lastBoundary /\ saved.coverage \in [Tables -> Nat]
      BY <1>3, <3>1, SavedFacts DEF RowsInv
    <3> DEFINE n == lastBoundary + 1
    <3>5. n \in Nat /\ n = saved.number + 1
      BY <2>1, <3>4
    <3> HIDE DEF n
    <3>6. /\ SeedCoverage(n, <<>>) \in [Tables -> Nat]
          /\ saved.number < saved.coverage[t] => saved.number < SeedCoverage(n, <<>>)[t]
      BY <3>4, <3>5, SeedFacts DEF RowsInv
    <3>7. ~(saved.number < SeedCoverage(n, <<>>)[t])
      BY <2>1, <3>3, <3>4, <3>6 DEF n
    <3>8. saved.coverage[t] <= saved.number
      BY <2>1, <3>4, <3>6, <3>7
    <3>9. /\ lastBoundary \notin Stops
          /\ \E c \in Queried : lastBoundary < c /\ RangeOf(c) = RangeOf(lastBoundary)
      BY <3>1, <3>4, <3>8, OwedAtCursorIsInside
    <3> QED
      BY <2>2, <3>9
  <2> QED
    BY <2>3, <2>4
<1> QED
  BY <1>2, <1>3 DEF EndStream

LEMMA FlushBatchKeepsWindows ==
    ASSUME LimitsAreInside, RowsInv, WindowsInv, FlushBatch
    PROVE  WindowsInv'
<1>1. /\ pc = "batch" /\ Active /\ Seeded /\ ranges = Ranges /\ saved # NoState
      /\ batch \in NextBatchEnds /\ batch \in Queried /\ batch \in Nat /\ lastBoundary < batch
  BY FlushFacts, RangeOfBlock
<1>2. /\ pc' \in {"reading"} \cup (IF batch \in Rollovers THEN {"rollover"} ELSE {})
      /\ lastBoundary' = batch
      /\ UNCHANGED <<files, saved, ranges, disk>>
  BY DEF FlushBatch, disk
<1>3. ClaimsInv' /\ SavedInv' /\ Cursor' = Cursor
  BY <1>2, SameDiskSameWindows DEF WindowsInv
<1>4. CheckpointInv' /\ OwnFilesAreNeverRefused'
  BY <1>2 DEF CheckpointInv, OwnFilesAreNeverRefused
<1>5. /\ lastBoundary \in Int /\ Cursor \in Int /\ Cursor <= lastBoundary
      /\ openRange = 0 => lastBoundary = Cursor
  BY <1>1, SavedFacts, RangeOfBlock DEF RowsInv, StateInv, ProgressInv, None
<1>6. ASSUME NEW t \in Tables
      PROVE  /\ \A b \in Queried : b <= batch =>
                  ((\E f \in files[t] : Claims(f, b)) <=> b < coverageStart'[t])
             /\ coverageStart'[t] <= Cursor => coverageStart'[t] = saved.coverage[t]
  <2> DEFINE k == RangeOf(batch)
             from == Ranges[k].from
             c == coverageStart[t]
             d == coverageStart'[t]
  <2>1. /\ c \in Nat /\ d \in Nat /\ d \in {c, from} /\ c <= d /\ from <= d
        /\ openRange = k => d = c
        /\ openRange # 0 /\ openRange # k => lastBoundary < c
        /\ from \in Nat /\ from <= batch
    BY FlushFacts
  <2>2. /\ \A b \in Queried : b <= lastBoundary =>
             ((\E f \in files[t] : Claims(f, b)) <=> b < c)
        /\ c <= Cursor => c = saved.coverage[t]
    BY <1>1 DEF WindowsInv, CoverageInv
  <2>3. d = c \/ lastBoundary < c
    <3>1. CASE openRange # 0
      BY <2>1, <3>1
    <3>2. CASE openRange = 0 /\ c <= lastBoundary
      <4>1. c <= Cursor /\ lastBoundary = Cursor
        BY <1>5, <3>2
      <4>2. saved.kind = "cursor" /\ Cursor = saved.number /\ c = saved.coverage[t] /\ saved.coverage[t] <= saved.number
        BY <2>1, <2>2, <4>1, SavedFacts DEF RowsInv, None
      <4>3. Ranges[RangeOf(Cursor)].from <= c /\ Cursor \in Queried
        BY <4>2, SavedFacts DEF WindowsInv, SavedInv, RowsInv
      <4>4. \E e \in Queried : Cursor < e /\ RangeOf(e) = RangeOf(Cursor)
        BY <4>2, OwedAtCursorIsInside
      <4>5. RangeOf(batch) = RangeOf(Cursor)
        BY <1>1, <4>1, <4>3, <4>4, BatchFacts DEF RowsInv
      <4>6. from <= c
        BY <4>3, <4>5
      <4> QED
        BY <2>1, <4>6
    <3>3. CASE ~(c <= lastBoundary)
      BY <1>5, <2>1, <3>3
    <3> QED
      BY <3>1, <3>2, <3>3
  <2>4. ASSUME NEW b \in Queried, b <= batch
        PROVE  (\E f \in files[t] : Claims(f, b)) <=> b < d
    <3>1. b \in Nat
      BY RangeOfBlock
    <3>2. CASE b <= lastBoundary
      <4>1. b < c <=> b < d
        BY <1>5, <2>1, <2>3, <3>1, <3>2
      <4> QED
        BY <2>2, <3>2, <4>1
    <3>3. CASE lastBoundary < b
      <4>1. ~(\E f \in files[t] : Claims(f, b))
        <5>1. \A f \in files[t] : f.to \in Nat /\ f.to <= Cursor
          BY <1>1 DEF RowsInv, StateInv, File, WrittenInv
        <5> QED
          BY <1>5, <3>1, <3>3, <5>1 DEF Claims
      <4>2. b \in Pending
        BY <1>5, <3>1, <3>3 DEF Pending
      <4>3. c <= b
        BY <1>1, <4>2 DEF RowsInv, SeededInv
      <4>4. from <= b
        <5>1. RangeOf(b) = k
          BY <1>1, <2>4, <4>2, BatchFacts DEF RowsInv
        <5> QED
          BY <5>1, RangeOfBlock
      <4>5. ~(b < d)
        <5> HIDE DEF c, d, from
        <5> QED
          BY <2>1, <3>1, <4>3, <4>4
      <4> QED
        BY <4>1, <4>5
    <3> QED
      BY <1>5, <3>1, <3>2, <3>3
  <2>5. d <= Cursor => d = saved.coverage[t]
    <3> HIDE DEF c, d, from
    <3> QED
      BY <1>5, <2>1, <2>2, <2>3
  <2> QED
    BY <2>4, <2>5
<1>7. CoverageInv'
  BY <1>2, <1>3, <1>6 DEF CoverageInv, Claims
<1> QED
  BY <1>3, <1>4, <1>7 DEF WindowsInv

\* What publishing a table changes about the windows: one file, from where
\* the table was to go on to the last block handled.
LEMMA PublishFacts ==
    ASSUME RowsInv, NEW t \in Tables, PublishTable(t),
           ~(\E f \in files[t] : f.from = coverageStart[t] /\ f.to = lastBoundary)
    PROVE  /\ pc = "checkpoint" /\ pc' = "checkpoint" /\ t \in checkpoint.todo
           /\ UNCHANGED <<saved, ranges, lastBoundary>>
           /\ checkpoint'.next = checkpoint.next /\ checkpoint'.todo = checkpoint.todo \ {t}
           /\ \E f : /\ f.from = coverageStart[t] /\ f.to = lastBoundary
                     /\ \A u \in Tables : files'[u] = IF u = t THEN files[t] \cup {f} ELSE files[u]
           /\ lastBoundary < coverageStart'[t] /\ coverageStart'[t] \in Nat
           /\ \A u \in Tables \ {t} : coverageStart'[u] = coverageStart[u]
<1> DEFINE file == [from |-> coverageStart[t], to |-> checkpoint.to, rows |-> segments[t]]
           next == NextQueriedBlock(lastBoundary + 1, ranges)
<1>1. pc = "checkpoint" /\ t \in checkpoint.todo /\ UNCHANGED saved /\ checkpoint.to = lastBoundary
  BY CheckpointFacts DEF PublishTable
<1>2. ~(\E f \in files[t] : f.from = file.from /\ f.to = file.to)
  BY <1>1
<1>3. /\ files' = [files EXCEPT ![t] = @ \cup {file}]
      /\ coverageStart' = [coverageStart EXCEPT ![t] = NextQueriedBlock(file.to + 1, ranges)]
      /\ checkpoint' = [checkpoint EXCEPT !.todo = @ \ {t}, !.published = TRUE]
      /\ UNCHANGED <<pc, ranges, lastBoundary>>
  BY <1>2 DEF PublishTable
<1>4. coverageStart' = [coverageStart EXCEPT ![t] = next]
  BY <1>1, <1>3
<1>5. files \in [Tables -> SUBSET File] /\ coverageStart \in [Tables -> Nat]
  BY <1>1, CheckpointFacts DEF RowsInv, StateInv
<1>6. next \in Nat /\ lastBoundary < next
  <2>1. lastBoundary \in Nat /\ ranges \in {<<>>, Ranges}
    BY <1>1, CheckpointFacts
  <2>2. next \in Nat /\ lastBoundary + 1 <= next
    <3>1. CASE ranges = Ranges
      BY <2>1, <3>1, NextQueriedBlockFacts
    <3>2. CASE ranges = <<>>
      BY <2>1, <3>2, NextBlockWithoutRanges
    <3> QED
      BY <2>1, <3>1, <3>2
  <2> HIDE DEF next
  <2> QED
    BY <2>1, <2>2
<1>7. /\ file.from = coverageStart[t] /\ file.to = lastBoundary
      /\ \A u \in Tables : files'[u] = IF u = t THEN files[t] \cup {file} ELSE files[u]
  <2>1. \A u \in Tables : files'[u] = IF u = t THEN files[t] \cup {file} ELSE files[u]
    <3> HIDE DEF file
    <3> QED
      BY <1>3, <1>5
  <2> QED
    BY <1>1, <2>1
<1>8. checkpoint'.next = checkpoint.next /\ checkpoint'.todo = checkpoint.todo \ {t}
  BY <1>3 DEF RowsInv, StateInv
<1>9. coverageStart'[t] = next /\ \A u \in Tables \ {t} : coverageStart'[u] = coverageStart[u]
  <2> HIDE DEF next
  <2> QED
    BY <1>4, <1>5
<1> HIDE DEF file, next
<1> QED
  BY <1>1, <1>3, <1>6, <1>7, <1>8, <1>9

LEMMA PublishTableKeepsWindows ==
    ASSUME RowsInv, WindowsInv, NEW t \in Tables, PublishTable(t)
    PROVE  WindowsInv'
<1> DEFINE L == lastBoundary
           c == coverageStart[t]
<1>1. pc = "checkpoint" /\ t \in checkpoint.todo
  BY DEF PublishTable
<1>2. /\ Active /\ L \in Queried /\ L \in Nat /\ Cursor \in Int /\ Cursor < L
      /\ c \in Nat /\ c <= L /\ Seeded /\ openRange # 0 /\ RangeOf(L) = openRange
      /\ Ranges[openRange].from <= c
  <2>1. Active /\ L \in Queried /\ L \in Nat /\ Cursor \in Int /\ Cursor < L /\ c \in Nat /\ c <= L
    BY <1>1, CheckpointFacts DEF WindowsInv, CheckpointInv
  <2>2. L # Cursor
    BY <2>1
  <2>3. Seeded /\ openRange # 0 /\ RangeOf(L) = openRange
    BY <1>1, <2>1, <2>2, CheckpointFacts DEF RowsInv, ProgressInv
  <2> QED
    BY <2>1, <2>3 DEF RowsInv, SeededInv
<1>3. ASSUME NEW u \in Tables
      PROVE  /\ \A b \in Queried : b <= L =>
                  ((\E f \in files[u] : Claims(f, b)) <=> b < coverageStart[u])
             /\ coverageStart[u] <= Cursor => coverageStart[u] = saved.coverage[u]
             /\ \A f \in files[u] : f.from \in Nat /\ f.to \in Nat /\ f.from <= f.to
             /\ \A f \in files[u] : f.to <= L
             /\ coverageStart[u] \in Nat
  <2>1. /\ \A b \in Queried : b <= L => ((\E f \in files[u] : Claims(f, b)) <=> b < coverageStart[u])
        /\ coverageStart[u] <= Cursor => coverageStart[u] = saved.coverage[u]
    BY <1>2 DEF WindowsInv, CoverageInv
  <2>2. \A f \in files[u] : f.from \in Nat /\ f.to \in Nat /\ f.from <= f.to
    BY DEF RowsInv, StateInv, File
  <2>3. \A f \in files[u] : f.to <= Cursor \/ f.to = L
    BY <1>1, <1>2, CheckpointFacts DEF RowsInv, WrittenInv
  <2>4. \A f \in files[u] : f.to <= L
    BY <1>2, <2>2, <2>3
  <2>5. coverageStart[u] \in Nat
    BY <1>2 DEF RowsInv, SeededInv
  <2> QED
    BY <2>1, <2>2, <2>4, <2>5
<1>4. ~(\E f \in files[t] : f.from = c /\ f.to = L)
  <2> SUFFICES ASSUME NEW f \in files[t], f.from = c, f.to = L PROVE FALSE
    OBVIOUS
  <2>1. Claims(f, L) /\ L <= L
    BY <1>2 DEF Claims
  <2>2. L < c
    BY <1>2, <1>3, <2>1
  <2> QED
    BY <1>2, <2>2
<1>5. /\ pc' = "checkpoint" /\ UNCHANGED <<saved, ranges, lastBoundary>>
      /\ checkpoint'.next = checkpoint.next /\ checkpoint'.todo = checkpoint.todo \ {t}
      /\ L < coverageStart'[t] /\ coverageStart'[t] \in Nat
      /\ \A u \in Tables \ {t} : coverageStart'[u] = coverageStart[u]
  BY <1>4, PublishFacts
<1>6. PICK file : /\ file.from = c /\ file.to = L
                  /\ \A u \in Tables : files'[u] = IF u = t THEN files[t] \cup {file} ELSE files[u]
  BY <1>4, PublishFacts
<1> HIDE DEF L, c
<1>7. Cursor' = Cursor
  BY <1>5 DEF Cursor
<1>8. ASSUME NEW b \in Blocks
      PROVE  Claims(file, b) => b \in Queried /\ c <= b /\ b <= L
  <2> SUFFICES ASSUME Claims(file, b) PROVE b \in Queried /\ c <= b /\ b <= L
    OBVIOUS
  <2>1. c <= b /\ b <= L /\ b \in Nat
    BY <1>6, ParquetAssumption DEF Claims, ParquetAssumption
  <2>2. openRange \in DOMAIN Ranges /\ L <= Ranges[openRange].to
    BY <1>2, RangeOfBlock
  <2>3. Ranges[openRange].from <= b /\ b <= Ranges[openRange].to
    BY <1>2, <2>1, <2>2, RangeFacts
  <2> QED
    BY <2>1, <2>2, <2>3 DEF Queried
<1>9. ClaimsInv'
  <2>1. ASSUME NEW u \in Tables, NEW f \in files'[u], NEW b \in Blocks, Claims(f, b)
        PROVE  b \in Queried
    <3>1. f \in files[u] \/ f = file
      BY <1>6
    <3> QED
      BY <1>8, <2>1, <3>1 DEF WindowsInv, ClaimsInv
  <2>2. ASSUME NEW f \in files[t], NEW b \in Queried, Claims(f, b)
        PROVE  ~Claims(file, b)
    <3>1. b \in Nat /\ b <= L
      BY <1>2, <1>3, <2>2, RangeOfBlock DEF Claims
    <3>2. b < c
      BY <1>3, <2>2, <3>1 DEF L, c
    <3> QED
      BY <1>2, <1>6, <3>1, <3>2 DEF Claims
  <2>3. ASSUME NEW u \in Tables, NEW f \in files'[u], NEW g \in files'[u], NEW b \in Queried,
               Claims(f, b), Claims(g, b)
        PROVE  f = g
    <3>1. CASE f \in files[u] /\ g \in files[u]
      BY <2>3, <3>1 DEF WindowsInv, ClaimsInv
    <3>2. CASE ~(f \in files[u] /\ g \in files[u])
      <4>1. u = t /\ (f \in files[t] \/ f = file) /\ (g \in files[t] \/ g = file)
        BY <1>6, <2>3, <3>2
      <4> QED
        BY <2>2, <2>3, <3>2, <4>1
    <3> QED
      BY <3>1, <3>2
  <2>4. /\ \A u \in Tables : \A f \in files'[u] : \A b \in Blocks : Claims(f, b) => b \in Queried
        /\ \A u \in Tables : \A f, g \in files'[u] : \A b \in Queried :
             Claims(f, b) /\ Claims(g, b) => f = g
    BY <2>1, <2>3
  <2> QED
    BY <2>4 DEF ClaimsInv, Claims
<1>10. SavedInv'
  <2> SUFFICES ASSUME saved.kind = "cursor" PROVE SavedInv'
    BY <1>5 DEF SavedInv
  <2>1. Cursor = saved.number
    BY DEF Cursor
  <2>2. ASSUME NEW u \in Tables
        PROVE  Committed(u)' = Committed(u)
    BY <1>2, <1>6, <1>7 DEF Committed
  <2>3. ASSUME NEW u \in Tables, NEW f \in files'[u], f.to > saved.number, f.from <= saved.number
        PROVE  f.from = saved.coverage[u]
    <3>1. CASE f \in files[u]
      BY <2>3, <3>1 DEF WindowsInv, SavedInv
    <3>2. CASE f \notin files[u]
      <4>1. u = t /\ f = file
        BY <1>6, <2>3, <3>2
      <4> QED
        BY <1>3, <1>6, <2>1, <2>3, <4>1 DEF c
    <3> QED
      BY <3>1, <3>2
  <2> QED
    BY <1>5, <2>2, <2>3 DEF WindowsInv, SavedInv, Claims
<1>11. CoverageInv'
  <2>1. ASSUME NEW u \in Tables
        PROVE  /\ \A b \in Queried : b <= L =>
                    ((\E f \in files'[u] : Claims(f, b)) <=> b < coverageStart'[u])
               /\ coverageStart'[u] <= Cursor => coverageStart'[u] = saved.coverage[u]
    <3>1. CASE u # t
      BY <1>3, <1>5, <1>6, <3>1 DEF L
    <3>2. CASE u = t
      <4>1. files'[t] = files[t] \cup {file}
        BY <1>6
      <4>2. ASSUME NEW b \in Queried, b <= L
            PROVE  (\E f \in files'[t] : Claims(f, b)) /\ b < coverageStart'[t]
        <5>1. b \in Nat
          BY RangeOfBlock
        <5>2. CASE b < c
          <6>1. \E f \in files[t] : Claims(f, b)
            BY <1>3, <4>2, <5>2 DEF L, c
          <6> QED
            BY <1>2, <1>5, <4>1, <4>2, <5>1, <6>1
        <5>3. CASE ~(b < c)
          <6>1. Claims(file, b)
            BY <1>2, <1>6, <4>2, <5>1, <5>3 DEF Claims
          <6> QED
            BY <1>2, <1>5, <4>1, <4>2, <5>1, <6>1
        <5> QED
          BY <5>2, <5>3
      <4>3. ~(coverageStart'[t] <= Cursor)
        BY <1>2, <1>5
      <4> QED
        BY <3>2, <4>2, <4>3
    <3> QED
      BY <3>1, <3>2
  <2> QED
    BY <1>5, <1>7, <2>1 DEF CoverageInv, Claims, L
<1>12. CheckpointInv'
  <2>1. \A u \in Tables \ (checkpoint.todo \ {t}) :
           checkpoint.next # "reading" => L < coverageStart'[u]
    <3>1. \A u \in Tables \ checkpoint.todo : checkpoint.next # "reading" => L < coverageStart[u]
      BY <1>1 DEF WindowsInv, CheckpointInv, L
    <3> QED
      BY <1>1, <1>5, <3>1
  <2> QED
    BY <1>1, <1>2, <1>5, <1>7, <2>1 DEF WindowsInv, CheckpointInv, L
<1> QED
  BY <1>5, <1>9, <1>10, <1>11, <1>12 DEF WindowsInv, OwnFilesAreNeverRefused

LEMMA SaveCursorKeepsWindows ==
    ASSUME RowsInv, WindowsInv, SaveCursor
    PROVE  WindowsInv'
<1>1. /\ pc = "checkpoint" /\ checkpoint.todo = {} /\ pc' = checkpoint.next
      /\ UNCHANGED <<files, ranges, coverageStart, lastBoundary>>
  BY DEF SaveCursor
<1>2. /\ Active /\ lastBoundary \in Queried /\ lastBoundary \in Nat /\ checkpoint.to = lastBoundary
      /\ Cursor \in Int /\ Cursor < lastBoundary
      /\ coverageStart \in [Tables -> Nat]
      /\ checkpoint.next \in {"reading", "batch", "close"}
      /\ ~Seeded => lastBoundary = Cursor
  BY <1>1, CheckpointFacts DEF WindowsInv, CheckpointInv
<1>3. Seeded /\ openRange # 0 /\ RangeOf(lastBoundary) = openRange
  BY <1>2 DEF RowsInv, ProgressInv
<1>4. saved' = CursorState(lastBoundary, coverageStart)
  BY <1>2 DEF SaveCursor, RowsInv, ProgressInv
<1>5. /\ saved'.kind = "cursor" /\ saved'.number = lastBoundary /\ saved'.coverage = coverageStart
      /\ Cursor' = lastBoundary
  BY <1>4 DEF CursorState, Cursor
<1>6. ClaimsInv'
  BY <1>1 DEF WindowsInv, ClaimsInv, Claims
<1>7. ASSUME NEW t \in Tables
      PROVE  /\ Committed(t)' = files[t]
             /\ \A f \in files[t] : ~(f.to > lastBoundary)
  <2>1. \A f \in files[t] : f.to <= Cursor \/ f.to = lastBoundary
    BY <1>2 DEF RowsInv, WrittenInv
  <2>2. \A f \in files[t] : f.to \in Nat
    BY DEF RowsInv, StateInv, File
  <2> QED
    BY <1>1, <1>2, <1>5, <2>1, <2>2 DEF Committed
<1>8. SavedInv'
  <2>1. ASSUME NEW t \in Tables
        PROVE  /\ \A b \in Queried : b <= lastBoundary =>
                    ((\E f \in files[t] : Claims(f, b)) <=> b < coverageStart[t])
               /\ Ranges[RangeOf(lastBoundary)].from <= coverageStart[t]
    BY <1>2, <1>3 DEF WindowsInv, CoverageInv, RowsInv, SeededInv
  <2>2. ASSUME NEW t \in Tables, coverageStart[t] <= lastBoundary
        PROVE  lastBoundary \in Rollovers
    <3>1. checkpoint.next = "reading"
      BY <1>1, <1>2, <2>2 DEF WindowsInv, CheckpointInv
    <3> QED
      BY <1>1, <3>1 DEF WindowsInv, CheckpointInv
  <2> QED
    BY <1>1, <1>5, <1>7, <2>1, <2>2 DEF SavedInv, Claims
<1>9. CoverageInv'
  BY <1>1, <1>2, <1>3, <1>5 DEF WindowsInv, CoverageInv, Claims, Seeded
<1>10. CheckpointInv' /\ OwnFilesAreNeverRefused'
  BY <1>1, <1>2 DEF CheckpointInv, OwnFilesAreNeverRefused
<1> QED
  BY <1>6, <1>8, <1>9, <1>10 DEF WindowsInv

LEMMA WindowsNext == LimitsAreInside /\ RowsInv /\ WindowsInv /\ [Next]_vars => WindowsInv'
<1> SUFFICES ASSUME LimitsAreInside, RowsInv, WindowsInv, [Next]_vars PROVE WindowsInv'
  OBVIOUS
<1>1. CASE StartWithoutState \/ StartRecovery \/ FinishRecovery
  BY <1>1, StartKeepsWindows
<1>2. CASE DeleteFileAboveCursor
  BY <1>2, DeleteKeepsWindows
<1>3. CASE TakeBatch
  BY <1>3, TakeBatchKeepsWindows
<1>4. CASE SaveStartCursor
  BY <1>4, SaveStartKeepsWindows
<1>5. CASE CloseRange
  BY <1>5, CloseRangeKeepsWindows
<1>6. CASE FlushBatch
  BY <1>6, FlushBatchKeepsWindows
<1>7. CASE Rollover
  BY <1>7, RolloverKeepsWindows
<1>8. CASE FinishQuery \/ Stop
  BY <1>8, EndStreamKeepsWindows DEF FinishQuery, Stop
<1>9. CASE SaveCursor
  BY <1>9, SaveCursorKeepsWindows
<1>10. CASE Close \/ Crash
  BY <1>10, LoseMemoryKeepsWindows DEF Close, Crash
<1>11. ASSUME NEW t \in Tables, PublishTable(t)
       PROVE  WindowsInv'
  BY <1>11, PublishTableKeepsWindows
<1>12. CASE UNCHANGED vars
  <2>1. UNCHANGED <<disk, files, saved, pc, ranges, coverageStart, lastBoundary, checkpoint>>
    BY <1>12 DEF vars, disk, memory
  <2>2. ClaimsInv' /\ SavedInv' /\ Cursor' = Cursor
    BY <2>1, SameDiskSameWindows DEF WindowsInv
  <2>3. CoverageInv' /\ CheckpointInv' /\ OwnFilesAreNeverRefused'
    BY <2>1, <2>2 DEF WindowsInv, CoverageInv, CheckpointInv, OwnFilesAreNeverRefused, Claims,
                      Active, Seeded
  <2> QED
    BY <2>2, <2>3 DEF WindowsInv
<1> QED
  BY <1>1, <1>2, <1>3, <1>4, <1>5, <1>6, <1>7, <1>8, <1>9, <1>10, <1>11, <1>12
     DEF Next, ProcessStep

\* What the file names, the state file and the memory claim always agree.
THEOREM AlwaysWindowsInv ==
    ASSUME LimitsAreInside
    PROVE  Spec => []WindowsInv
<1>1. RowsInv /\ WindowsInv /\ [Next]_vars => WindowsInv'
  BY LimitsAreInside, WindowsNext
<1> QED
  BY <1>1, WindowsInit, AlwaysRowsInv, PTL DEF Spec

\* The file names tell what was indexed: the windows agree with the state file.
LEMMA WindowsTile ==
    ASSUME RowsInv, WindowsInv
    PROVE  CoverageIsTiled
<1>1. ASSUME NEW t \in Tables, NEW b \in {c \in Queried : c <= Cursor}
      PROVE  LET claims == {f \in Committed(t) : f.from <= b /\ b <= f.to}
             IN  Cardinality(claims) <= 1 /\ (b < saved.coverage[t] => claims # {})
  <2> DEFINE claims == {f \in Committed(t) : f.from <= b /\ b <= f.to}
  <2>1. \A f, g \in claims : f = g
    BY DEF WindowsInv, ClaimsInv, Claims, Committed
  <2>2. Cardinality(claims) <= 1
    <3> HIDE DEF claims
    <3>1. CASE claims = {}
      BY <3>1, FS_EmptySet
    <3>2. CASE claims # {}
      <4>1. PICK f \in claims : claims = {f}
        BY <2>1, <3>2
      <4>2. Cardinality({f}) = 1
        BY FS_Singleton
      <4> QED
        BY <4>1, <4>2
    <3> QED
      BY <3>1, <3>2
  <2>3. ASSUME b < saved.coverage[t] PROVE claims # {}
    <3>1. b \in Nat
      BY RangeOfBlock
    <3>2. saved.kind = "cursor" /\ b <= saved.number
      BY <3>1, SavedFacts DEF RowsInv, None
    <3>3. \E f \in Committed(t) : Claims(f, b)
      BY <2>3, <3>2 DEF WindowsInv, SavedInv
    <3> QED
      BY <3>3 DEF Claims
  <2> QED
    BY <2>2, <2>3
<1>2. ASSUME NEW t \in Tables, NEW f \in files[t]
      PROVE  (f.from)..(f.to) \cap Blocks \subseteq Queried
  BY DEF WindowsInv, ClaimsInv, Claims
<1> QED
  BY <1>1, <1>2 DEF CoverageIsTiled

\* What a reader of the directory relies on: exact rows under exact names.
THEOREM DirectoryIsAlwaysExact ==
    ASSUME LimitsAreInside
    PROVE  Spec => []DirectoryIsExact
<1>1. RowsInv /\ WindowsInv => DirectoryIsExact
  BY WindowsTile DEF DirectoryIsExact, RowsInv
<1> QED
  BY <1>1, AlwaysRowsInv, AlwaysWindowsInv, LimitsAreInside, PTL

\* The pipe never refuses what it has left behind itself.
THEOREM OwnFilesNeverRefused ==
    ASSUME LimitsAreInside
    PROVE  Spec => []OwnFilesAreNeverRefused
<1>1. WindowsInv => OwnFilesAreNeverRefused
  BY DEF WindowsInv
<1> QED
  BY <1>1, AlwaysWindowsInv, LimitsAreInside, PTL
=============================================================================
