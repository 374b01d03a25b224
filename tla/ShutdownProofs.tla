--------------------------- MODULE ShutdownProofs ---------------------------
(***************************************************************************)
(* The stop protocol of core/shutdown.ts under the runner, for any number  *)
(* of pipes, retries and signals.                                          *)
(***************************************************************************)
EXTENDS Shutdown, FiniteSetTheorems, TLAPS

-----------------------------------------------------------------------------
(* The inductive invariant.                                                *)

Types ==
    /\ alive \in BOOLEAN /\ signals \in 0..MaxSignals
    /\ listening \in BOOLEAN /\ aborted \in BOOLEAN
    /\ activeRuns \in Nat
    /\ run \in [Pipe -> Pending \cup
                  {"none", "completed", "failed", "stopped", "timedOut", "gaveUp"}]
    /\ failed \in [Pipe -> BOOLEAN] /\ deadline \in [Pipe -> BOOLEAN]
    /\ left \in [Pipe -> [Pending -> Nat]]
    /\ attempts \in [Pipe -> Nat]
    /\ told \in [Pipe -> BOOLEAN]
    /\ stops \in [Pipe -> Nat] /\ calls \in [Pipe -> Nat]

\* How many runs a pipe has begun.
Begun(p) == IF run[p] \in {"none", "gaveUp"} THEN attempts[p] ELSE attempts[p] + 1

\* The run a pipe is in was told to stop.
Stopping(p) == run[p] \in Pending /\ told[p]

\* A run that is under way was told exactly if the controller is aborted, and only one that
\* was told calls its onShutdown.
ToldIsAborted ==
    /\ \A p \in Active : told[p] <=> aborted
    /\ \A p \in Pipe : run[p] = "closing" => told[p]

\* A run is told once at the most, and only one that was told is left behind.
StopsAreBounded ==
    \A p \in Pipe :
        /\ attempts[p] <= IF run[p] = "gaveUp" THEN Retry ELSE Retry - 1
        /\ stops[p] <= IF run[p] \in Pending /\ ~told[p] THEN Begun(p) - 1 ELSE Begun(p)
        /\ left[p]["draining"] + left[p]["closing"]
             <= IF Stopping(p) THEN stops[p] - 1 ELSE stops[p]

IInv == Types /\ EveryRunIsTold /\ ToldIsAborted /\ EachStopCallsBackOnce /\ StopsAreBounded

-----------------------------------------------------------------------------
(* Counting the runs that hold the signal.                                 *)

LEMMA ActiveIsFinite ==
    IsFiniteSet(Active) /\ Cardinality(Active) \in Nat
BY ShutdownAssumption, FS_Subset, FS_CardinalityType DEF Active

\* A run that begins adds itself to those that hold the signal.
LEMMA BeginCounts ==
    ASSUME NEW p \in Pipe, Types, run[p] \notin Pending,
           run' = [run EXCEPT ![p] = "draining"]
    PROVE  /\ Active' = Active \cup {p}
           /\ Cardinality(Active') = Cardinality(Active) + 1
<1>1. Active' = Active \cup {p} /\ p \notin Active
    BY DEF Active, Types, Pending
<1> QED
    BY <1>1, ActiveIsFinite, FS_AddElement

\* A run that settles takes itself out.
LEMMA SettleCounts ==
    ASSUME NEW p \in Pipe, NEW outcome, Types, run[p] \in Pending, outcome \notin Pending,
           run' = [run EXCEPT ![p] = outcome]
    PROVE  /\ Active' = Active \ {p}
           /\ Cardinality(Active') = Cardinality(Active) - 1
<1>1. Active' = Active \ {p} /\ p \in Active
    BY DEF Active, Types
<1> QED
    BY <1>1, ActiveIsFinite, FS_RemoveElement

\* Nobody holds the signal exactly if the count is 0.
LEMMA NobodyIsZero ==
    /\ Cardinality(Active) = 0 <=> Active = {}
    /\ \A p \in Active : Cardinality(Active) > 0
BY ActiveIsFinite, FS_EmptySet

-----------------------------------------------------------------------------
(* Each action keeps the invariant.                                        *)

LEMMA InitKeeps == Init => IInv
<1> SUFFICES ASSUME Init PROVE IInv
    OBVIOUS
<1>1. Types
    <2> USE DEF Init
    <2>1. 0 \in 0..MaxSignals
        BY ShutdownAssumption
    <2>2. left \in [Pipe -> [Pending -> Nat]]
        OBVIOUS
    <2> QED
        BY <2>1, <2>2 DEF Types
<1>2. Active = {}
    BY DEF Init, Active, Pending
<1>3. EveryRunIsTold /\ ToldIsAborted
    BY <1>2, NobodyIsZero DEF Init, EveryRunIsTold, ToldIsAborted
<1>4. EachStopCallsBackOnce /\ StopsAreBounded
    BY ShutdownAssumption
       DEF Init, EachStopCallsBackOnce, StopsAreBounded, Begun, Stopping, Pending
<1> QED
    BY <1>1, <1>3, <1>4 DEF IInv
\* The first run of a pipe, or another one after a failure: it is told at once if the
\* controller of the others is aborted.
LEMMA BeginKeeps ==
    ASSUME IInv, NEW p \in Pipe, Begin(p),
           \/ run[p] = "none" /\ UNCHANGED attempts
           \/ /\ run[p] \in {"failed", "stopped", "timedOut"}
              /\ attempts[p] + 1 < Retry
              /\ attempts' = [attempts EXCEPT ![p] = @ + 1]
    PROVE  IInv'
<1> USE DEF IInv
<1>1. Types'
    BY DEF Types, Begin, AcquireSignal, Pending
<1>2. Active' = Active \cup {p} /\ Cardinality(Active') = Cardinality(Active) + 1
    BY BeginCounts DEF Begin, Pending
<1>3. EveryRunIsTold'
    <2>1. activeRuns' = Cardinality(Active')
        BY <1>2 DEF EveryRunIsTold, Begin, AcquireSignal
    <2>2. activeRuns' > 0 /\ listening'
        BY DEF Types, Begin, AcquireSignal
    <2>3. \A q \in Active' : deadline'[q] <=> aborted'
        BY <1>2 DEF EveryRunIsTold, Types, Begin, AcquireSignal, Active
    <2> QED
        BY <2>1, <2>2, <2>3 DEF EveryRunIsTold
<1>4. ToldIsAborted'
    BY <1>2 DEF ToldIsAborted, Types, Begin, AcquireSignal, Active
<1>5. EachStopCallsBackOnce'
    BY DEF EachStopCallsBackOnce, Types, Begin, AcquireSignal, Pending
<1>6. StopsAreBounded'
    <2> SUFFICES ASSUME NEW q \in Pipe
                 PROVE  StopsAreBounded!(q)'
        BY DEF StopsAreBounded
    <2>1. CASE q # p
        BY <2>1 DEF StopsAreBounded, Types, Begin, Begun, Stopping
    <2>2. CASE q = p
        BY <2>2, ShutdownAssumption
           DEF StopsAreBounded, Types, Begin, AcquireSignal, Begun, Stopping, Pending
    <2> QED
        BY <2>1, <2>2
<1> QED
    BY <1>1, <1>3, <1>4, <1>5, <1>6
LEMMA SettleTypes ==
    ASSUME IInv, NEW p \in Pipe, NEW outcome \in {"completed", "failed", "stopped", "timedOut"},
           Settle(p, outcome), run[p] \in Pending
    PROVE  /\ activeRuns' \in Nat /\ listening' \in BOOLEAN /\ aborted' \in BOOLEAN
           /\ run' = [run EXCEPT ![p] = outcome]
           /\ run' \in [Pipe -> Pending \cup
                  {"none", "completed", "failed", "stopped", "timedOut", "gaveUp"}]
           /\ deadline' \in [Pipe -> BOOLEAN]
<1> USE DEF IInv, Settle, ReleaseSignal
<1>1. activeRuns' \in Nat
    <2>1. p \in Active
        BY DEF Active
    <2>2. activeRuns \in Nat /\ activeRuns > 0
        BY <2>1, NobodyIsZero DEF Types, EveryRunIsTold
    <2> QED
        BY <2>2
<1>2. listening' \in BOOLEAN /\ aborted' \in BOOLEAN
    OBVIOUS
<1> QED
    BY <1>1, <1>2 DEF Types

\* The part of the invariant about the signal, when a run settles.
LEMMA SettleKeepsTold ==
    ASSUME IInv, NEW p \in Pipe, NEW outcome \in {"completed", "failed", "stopped", "timedOut"},
           Settle(p, outcome), run[p] \in Pending, told' = told
    PROVE  EveryRunIsTold' /\ ToldIsAborted'
<1> USE DEF IInv, Settle, ReleaseSignal
<1>1. Active' = Active \ {p} /\ Cardinality(Active') = Cardinality(Active) - 1
    BY SettleCounts DEF Pending
<1>2. p \in Active /\ activeRuns = Cardinality(Active)
    BY DEF Active, EveryRunIsTold
<1>3. activeRuns' = Cardinality(Active')
    BY <1>1, <1>2
<1>a. /\ listening' <=> (listening /\ activeRuns > 1)
      /\ aborted' => activeRuns > 1
    BY Zenon
<1>b. activeRuns \in Nat /\ activeRuns' = activeRuns - 1
    BY DEF Types
<1>4. listening' <=> activeRuns' > 0
    BY <1>a, <1>b DEF EveryRunIsTold
<1>5. aborted' => activeRuns' > 0
    BY <1>a, <1>b
<1>6. \A q \in Active' : aborted' <=> aborted
    <2>1. ASSUME NEW q \in Active'
          PROVE  activeRuns > 1
        <3>1. Cardinality(Active') > 0
            <4>1. IsFiniteSet(Active')
                BY <1>1, ActiveIsFinite, FS_RemoveElement
            <4> QED
                BY <4>1, FS_EmptySet, FS_CardinalityType
        <3> QED
            BY <3>1, <1>1, <1>2, ActiveIsFinite
    <2> QED
        BY <2>1
<1>7. \A q \in Active' : q # p /\ q \in Active /\ q \in Pipe
    BY <1>1 DEF Active
<1>8. \A q \in Active' : deadline'[q] <=> aborted'
    BY <1>6, <1>7 DEF EveryRunIsTold, Types
<1>9. ToldIsAborted'
    BY <1>6, <1>7 DEF ToldIsAborted, Types
<1> QED
    BY <1>3, <1>4, <1>5, <1>8, <1>9 DEF EveryRunIsTold

LEMMA CallbackSettlesKeeps ==
    ASSUME IInv, NEW p \in Pipe, CallbackSettles(p)
    PROVE  IInv'
<1> USE DEF IInv
<1>1. PICK fails \in BOOLEAN :
        Settle(p, IF failed[p] \/ fails THEN "failed" ELSE "stopped")
    BY DEF CallbackSettles
<1>2. PICK outcome \in {"failed", "stopped"} : Settle(p, outcome)
    BY <1>1
<1>3. run[p] = "closing" /\ UNCHANGED <<alive, signals, failed, left, attempts, historyVars>>
    BY DEF CallbackSettles
<1>4. Types'
    BY <1>2, <1>3, SettleTypes DEF Types, Pending, historyVars
<1>5. EveryRunIsTold' /\ ToldIsAborted'
    BY <1>2, <1>3, <1>4, SettleKeepsTold DEF Pending, historyVars
<1>6. EachStopCallsBackOnce'
    BY <1>2, <1>3 DEF EachStopCallsBackOnce, Types, Settle, historyVars
<1>7. StopsAreBounded'
    BY <1>2, <1>3 DEF StopsAreBounded, Types, Settle, Begun, Stopping, historyVars, Pending
<1> QED
    BY <1>4, <1>5, <1>6, <1>7

LEMMA DeadlineKeeps ==
    ASSUME IInv, NEW p \in Pipe, Deadline(p)
    PROVE  IInv'
<1> USE DEF IInv, Deadline
<1>1. Types'
    <2>1. left' \in [Pipe -> [Pending -> Nat]]
        BY DEF Types, Pending
    <2> QED
        BY <2>1, SettleTypes DEF Types, historyVars
<1>2. EveryRunIsTold' /\ ToldIsAborted'
    BY <1>1, SettleKeepsTold DEF Pending, historyVars
<1>3. told[p]
    BY DEF EveryRunIsTold, ToldIsAborted, Active
<1>4. EachStopCallsBackOnce'
    BY <1>3 DEF EachStopCallsBackOnce, Types, Settle, historyVars, Pending
<1>5. StopsAreBounded'
    BY <1>3 DEF StopsAreBounded, Types, Settle, Begun, Stopping, historyVars, Pending
<1> QED
    BY <1>1, <1>2, <1>4, <1>5

LEMMA DrainSettlesKeeps ==
    ASSUME IInv, NEW p \in Pipe, DrainSettles(p)
    PROVE  IInv'
<1> USE DEF IInv
<1>1. PICK fails \in BOOLEAN : DrainSettles(p)!(fails)
    BY DEF DrainSettles
<1>2. CASE aborted
    <2>1. Active' = Active
        BY <1>1, <1>2 DEF Active, Types, Pending
    <2>2. told[p] /\ p \in Active
        BY <1>1, <1>2 DEF ToldIsAborted, Active, Pending
    <2>3. Types'
        <3>1. failed' = [failed EXCEPT ![p] = fails]
            BY <1>1
        <3>2. /\ run' = [run EXCEPT ![p] = "closing"]
              /\ calls' = [calls EXCEPT ![p] = @ + 1]
              /\ UNCHANGED <<signalVars, deadline>>
            BY <1>1, <1>2
        <3>3. UNCHANGED <<alive, signals, left, attempts, told, stops>>
            BY <1>1
        <3> QED
            BY <3>1, <3>2, <3>3 DEF Types, signalVars, Pending
    <2>4. EveryRunIsTold' /\ ToldIsAborted'
        BY <1>1, <1>2, <2>1, <2>2 DEF EveryRunIsTold, ToldIsAborted, Types, signalVars
    <2>5. EachStopCallsBackOnce'
        BY <1>1, <1>2, <2>2 DEF EachStopCallsBackOnce, Types, Pending
    <2>6. StopsAreBounded'
        BY <1>1, <1>2, <2>2 DEF StopsAreBounded, Types, Begun, Stopping, Pending
    <2> QED
        BY <2>3, <2>4, <2>5, <2>6
<1>3. CASE ~aborted
    <2>1. PICK outcome \in {"failed", "completed"} : Settle(p, outcome)
        BY <1>1, <1>3
    <2>2. ~told[p]
        BY <1>1, <1>3 DEF ToldIsAborted, Active, Pending
    <2>3. Types'
        BY <1>1, <1>3, <2>1, SettleTypes DEF Types, Pending
    <2>4. EveryRunIsTold' /\ ToldIsAborted'
        BY <1>1, <2>1, <2>3, SettleKeepsTold DEF Pending
    <2>5. EachStopCallsBackOnce'
        BY <1>1, <1>3, <2>1, <2>2 DEF EachStopCallsBackOnce, Types, Settle
    <2>6. StopsAreBounded'
        BY <1>1, <1>3, <2>1, <2>2
           DEF StopsAreBounded, Types, Settle, Begun, Stopping, Pending
    <2> QED
        BY <2>3, <2>4, <2>5, <2>6
<1> QED
    BY <1>2, <1>3
\* A signal reaches every run there is, once.
LEMMA SignalKeeps ==
    ASSUME IInv, Signal
    PROVE  IInv'
<1> USE DEF IInv
<1>1. Active' = Active
    BY DEF Signal, Active
<1>2. /\ UNCHANGED <<listening, activeRuns, run, failed, left, attempts, calls>>
      /\ alive' \in BOOLEAN /\ signals' \in 0..MaxSignals
    BY ShutdownAssumption DEF Signal, Types
<1>3. CASE listening /\ ~aborted
    <2>1. /\ aborted' = TRUE
          /\ deadline' = [p \in Pipe |-> p \in Active]
          /\ told' = [p \in Pipe |-> told[p] \/ p \in Active]
          /\ stops' = [p \in Pipe |-> IF p \in Active THEN stops[p] + 1 ELSE stops[p]]
        BY <1>3 DEF Signal
    <2>2. \A p \in Pipe : p \in Active <=> run[p] \in Pending
        BY DEF Active
    <2>3. \A p \in Active : p \in Pipe /\ ~told[p]
        BY <1>3 DEF ToldIsAborted, Active
    <2>4. Types'
        BY <1>2, <2>1 DEF Types
    <2>5. EveryRunIsTold'
        BY <1>1, <1>2, <1>3, <2>1, <2>3 DEF EveryRunIsTold
    <2>6. ToldIsAborted'
        BY <1>1, <1>2, <2>1, <2>3, <2>2 DEF ToldIsAborted, Types
    <2>7. ASSUME NEW p \in Pipe
          PROVE  told'[p] <=> told[p] \/ run[p] \in Pending
        BY <2>1, <2>2
    <2>8. EachStopCallsBackOnce'
        <3> SUFFICES ASSUME NEW p \in Pipe
                     PROVE  EachStopCallsBackOnce!(p)'
            BY DEF EachStopCallsBackOnce
        <3>1. run'[p] = "completed" => ~told'[p]
            BY <1>2, <2>7 DEF EachStopCallsBackOnce, Pending
        <3>2. CASE p \in Active
            <4>1. run[p] = "draining" /\ ~told[p] /\ told'[p]
                BY <2>2, <2>3, <2>7, <3>2 DEF ToldIsAborted, Pending
            <4>2. stops'[p] = stops[p] + 1 /\ stops[p] = calls[p] + left[p]["draining"]
                BY <2>1, <3>2, <4>1 DEF EachStopCallsBackOnce, Types, Pending
            <4> QED
                BY <1>2, <3>1, <4>1, <4>2 DEF Types, Pending
        <3>3. CASE p \notin Active
            BY <1>2, <2>1, <2>2, <2>7, <3>1, <3>3 DEF EachStopCallsBackOnce, Types, Pending
        <3> QED
            BY <3>2, <3>3
    <2>9. StopsAreBounded'
        BY <1>2, <2>1, <2>2, <2>3, <2>7
           DEF StopsAreBounded, Types, Begun, Stopping, Pending
    <2> QED
        BY <2>4, <2>5, <2>6, <2>8, <2>9
<1>4. CASE ~(listening /\ ~aborted)
    <2>1. UNCHANGED <<aborted, deadline, told, stops>>
        BY <1>4 DEF Signal
    <2> QED
        BY <1>1, <1>2, <2>1
           DEF Types, EveryRunIsTold, ToldIsAborted, EachStopCallsBackOnce, StopsAreBounded,
               Begun, Stopping
<1> QED
    BY <1>3, <1>4

LEMMA LeftDrainSettlesKeeps ==
    ASSUME IInv, NEW p \in Pipe, LeftDrainSettles(p)
    PROVE  IInv'
<1> USE DEF IInv, LeftDrainSettles, signalVars
<1>1. Types'
    BY DEF Types, Pending
<1>2. Active' = Active
    BY DEF Active
<1>3. EveryRunIsTold' /\ ToldIsAborted'
    BY <1>2 DEF EveryRunIsTold, ToldIsAborted, Types
<1>4. EachStopCallsBackOnce'
    BY DEF EachStopCallsBackOnce, Types, Pending
<1>5. StopsAreBounded'
    BY DEF StopsAreBounded, Types, Begun, Stopping, Pending
<1> QED
    BY <1>1, <1>3, <1>4, <1>5

LEMMA LeftCallbackSettlesKeeps ==
    ASSUME IInv, NEW p \in Pipe, LeftCallbackSettles(p)
    PROVE  IInv'
<1> USE DEF IInv, LeftCallbackSettles, signalVars, historyVars
<1>1. Types'
    BY DEF Types, Pending
<1>2. Active' = Active
    BY DEF Active
<1>3. EveryRunIsTold' /\ ToldIsAborted'
    BY <1>2 DEF EveryRunIsTold, ToldIsAborted, Types
<1>4. EachStopCallsBackOnce'
    BY DEF EachStopCallsBackOnce, Types, Pending
<1>5. StopsAreBounded'
    BY DEF StopsAreBounded, Types, Begun, Stopping, Pending
<1> QED
    BY <1>1, <1>3, <1>4, <1>5

LEMMA GiveUpKeeps ==
    ASSUME IInv, NEW p \in Pipe, GiveUp(p)
    PROVE  IInv'
<1> USE DEF IInv, GiveUp, Threw, signalVars, historyVars
<1>1. Types'
    BY DEF Types
<1>2. Active' = Active
    BY DEF Active, Types, Pending
<1>3. EveryRunIsTold' /\ ToldIsAborted'
    BY <1>2 DEF EveryRunIsTold, ToldIsAborted, Types
<1>4. EachStopCallsBackOnce'
    BY DEF EachStopCallsBackOnce, Types, Pending
<1>5. StopsAreBounded'
    BY ShutdownAssumption DEF StopsAreBounded, Types, Begun, Stopping, Pending
<1> QED
    BY <1>1, <1>3, <1>4, <1>5

-----------------------------------------------------------------------------
(* The theorems.                                                           *)

\* The inductive invariant holds in every state.
THEOREM AlwaysIInv == Spec => []IInv
<1>1. Init => IInv
    BY InitKeeps
<1>2. IInv /\ [Next]_vars => IInv'
    <2> SUFFICES ASSUME IInv, [Next]_vars PROVE IInv'
        OBVIOUS
    <2>1. CASE Signal
        BY <2>1, SignalKeeps
    <2>2. ASSUME NEW p \in Pipe, RunStep(p) PROVE IInv'
        <3>1. CASE FirstRun(p)
            BY <3>1, BeginKeeps DEF FirstRun
        <3>2. CASE RestartRun(p)
            BY <3>2, BeginKeeps DEF RestartRun, Threw
        <3>3. CASE GiveUp(p)
            BY <3>3, GiveUpKeeps
        <3>4. CASE DrainSettles(p)
            BY <3>4, DrainSettlesKeeps
        <3>5. CASE CallbackSettles(p)
            BY <3>5, CallbackSettlesKeeps
        <3>6. CASE Deadline(p)
            BY <3>6, DeadlineKeeps
        <3>7. CASE LeftDrainSettles(p)
            BY <3>7, LeftDrainSettlesKeeps
        <3>8. CASE LeftCallbackSettles(p)
            BY <3>8, LeftCallbackSettlesKeeps
        <3> QED
            BY <2>2, <3>1, <3>2, <3>3, <3>4, <3>5, <3>6, <3>7, <3>8 DEF RunStep
    <2>3. CASE UNCHANGED vars
        BY <2>3
           DEF vars, signalVars, runVars, historyVars, IInv, Types, EveryRunIsTold,
               ToldIsAborted, EachStopCallsBackOnce, StopsAreBounded, Begun, Stopping, Active
    <2> QED
        BY <2>1, <2>2, <2>3 DEF Next
<1> QED
    BY <1>1, <1>2, PTL DEF Spec

\* The listeners are installed exactly while a run can be told to stop, and every such run has
\* its deadline, for any number of pipes, retries and signals (shutdown.ts:84-136).
THEOREM EveryRunIsAlwaysTold == Spec => []EveryRunIsTold
<1>1. IInv => EveryRunIsTold
    BY DEF IInv
<1> QED
    BY <1>1, AlwaysIInv, PTL

\* A stop calls onShutdown once, after the drain, and no stopped run reports completion.
THEOREM CallbacksMatchStops == Spec => []EachStopCallsBackOnce
<1>1. IInv => EachStopCallsBackOnce
    BY DEF IInv
<1> QED
    BY <1>1, AlwaysIInv, PTL

\* Nothing counts past the retries: at most `retry` runs of a pipe are told to stop, are left
\* behind, or call back, however many signals come.
THEOREM TypesHold == Spec => []TypeOK
<1>1. IInv => TypeOK
    <2> SUFFICES ASSUME IInv PROVE TypeOK
        OBVIOUS
    <2> USE DEF IInv
    <2>1. activeRuns \in 0..Cardinality(Pipe)
        BY ShutdownAssumption, ActiveIsFinite, FS_Subset, FS_CardinalityType
           DEF EveryRunIsTold, Active
    <2>2. ASSUME NEW p \in Pipe
          PROVE  /\ attempts[p] \in 0..Retry /\ stops[p] \in 0..Retry
                 /\ calls[p] \in 0..Retry
                 /\ left[p]["draining"] \in 0..Retry /\ left[p]["closing"] \in 0..Retry
        <3>1. Begun(p) <= Retry
            BY ShutdownAssumption DEF StopsAreBounded, Types, Begun
        <3>2. stops[p] <= Begun(p)
            BY DEF StopsAreBounded, Types, Begun
        <3>3. attempts[p] <= Retry
            BY ShutdownAssumption DEF StopsAreBounded, Types
        <3>4. left[p]["draining"] + left[p]["closing"] <= stops[p]
            BY DEF StopsAreBounded, Types, Pending
        <3>5. calls[p] <= stops[p]
            BY DEF EachStopCallsBackOnce, Types, Pending
        <3>6. /\ Begun(p) \in Nat /\ attempts[p] \in Nat /\ stops[p] \in Nat
              /\ calls[p] \in Nat
              /\ left[p]["draining"] \in Nat /\ left[p]["closing"] \in Nat
            BY DEF Types, Begun, Pending
        <3> QED
            BY <3>1, <3>2, <3>3, <3>4, <3>5, <3>6, ShutdownAssumption
    <2>3. left \in [Pipe -> [Pending -> 0..Retry]]
        BY <2>2 DEF Types, Pending
    <2> QED
        BY <2>1, <2>2, <2>3 DEF Types, TypeOK
<1> QED
    BY <1>1, AlwaysIInv, PTL
=============================================================================
