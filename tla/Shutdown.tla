------------------------------ MODULE Shutdown ------------------------------
(***************************************************************************)
(* core/shutdown.ts and runtime/node/runner.ts: the pipes of one process,  *)
(* each a handler that awaits pipeTo and that the runner calls again when  *)
(* it throws; the signal listeners they share; and for each run a deadline *)
(* that races the drain and onShutdown.                                    *)
(*                                                                         *)
(* A run that missed its deadline is left behind: pipeTo has thrown, while *)
(* its drain and then its onShutdown go on.                                *)
(*                                                                         *)
(* Left out: shutdown: false, invalid options, what a drain does (a run    *)
(* may settle at any time, or never), the one error the runner never       *)
(* retries, and what start() does once a pipe has given up.                *)
(*                                                                         *)
(* Definitions commented "Fault" are read as in PortalSource.              *)
(***************************************************************************)
EXTENDS Naturals, FiniteSets

CONSTANTS
    Pipe,       \* the pipes of the runner
    Retry,      \* config.retry
    MaxSignals  \* bound on signals

ASSUME ShutdownAssumption ==
    /\ IsFiniteSet(Pipe)
    /\ Retry \in Nat \ {0} /\ MaxSignals \in Nat

VARIABLES
    alive,       \* the process is
    signals,     \* signals sent so far
    listening,   \* the listeners are installed
    aborted,     \* controller.signal.aborted
    activeRuns,  \* how many runs have acquired the signal
    run,         \* where a pipe's run is, or how its promise settled
    failed,      \* the errors of the run are not empty
    deadline,    \* its timer is set
    left,        \* runs left behind, by what they are still at
    attempts,    \* failures the runner has counted
    told,        \* the run was to stop: history
    stops,       \* how many runs were: history
    calls        \* how many onShutdown calls there were: history

signalVars == <<listening, aborted, activeRuns>>
runVars == <<run, failed, deadline, left>>
historyVars == <<told, stops, calls>>
vars == <<alive, signals, signalVars, runVars, attempts, historyVars>>

Pending == {"draining", "closing"}
Active == {p \in Pipe : run[p] \in Pending}

TypeOK ==
    /\ alive \in BOOLEAN /\ signals \in 0..MaxSignals
    /\ listening \in BOOLEAN /\ aborted \in BOOLEAN
    /\ activeRuns \in 0..Cardinality(Pipe)
    /\ run \in [Pipe -> Pending \cup
                  {"none", "completed", "failed", "stopped", "timedOut", "gaveUp"}]
    /\ failed \in [Pipe -> BOOLEAN] /\ deadline \in [Pipe -> BOOLEAN]
    /\ left \in [Pipe -> [Pending -> 0..Retry]]
    /\ attempts \in [Pipe -> 0..Retry]
    /\ told \in [Pipe -> BOOLEAN]
    /\ stops \in [Pipe -> 0..Retry] /\ calls \in [Pipe -> 0..Retry]

Init ==
    /\ alive = TRUE /\ signals = 0
    /\ listening = FALSE /\ aborted = FALSE /\ activeRuns = 0
    /\ run = [p \in Pipe |-> "none"]
    /\ failed = [p \in Pipe |-> FALSE] /\ deadline = [p \in Pipe |-> FALSE]
    /\ left = [p \in Pipe |-> [s \in Pending |-> 0]]
    /\ attempts = [p \in Pipe |-> 0]
    /\ told = [p \in Pipe |-> FALSE]
    /\ stops = [p \in Pipe |-> 0] /\ calls = [p \in Pipe |-> 0]

-----------------------------------------------------------------------------
(* The listeners and the controller.                                       *)

\* onSignal; without a listener the signal ends the process.
Signal ==
    /\ alive /\ signals < MaxSignals
    /\ signals' = signals + 1
    /\ alive' = listening
    /\ IF listening /\ ~aborted
       THEN /\ aborted' = TRUE
            /\ deadline' = [p \in Pipe |-> p \in Active]
            /\ told' = [p \in Pipe |-> told[p] \/ p \in Active]
            /\ stops' = [p \in Pipe |-> IF p \in Active THEN stops[p] + 1 ELSE stops[p]]
       ELSE UNCHANGED <<aborted, deadline, told, stops>>
    /\ UNCHANGED <<listening, activeRuns, run, failed, left, attempts, calls>>

AcquireSignal ==
    /\ activeRuns' = activeRuns + 1
    /\ listening' = TRUE
    /\ UNCHANGED aborted

\* Fault: the controller outlives the last run.
ReleaseKeepsController ==
    /\ activeRuns' = activeRuns - 1
    /\ listening' = (listening /\ activeRuns > 1)
    /\ UNCHANGED aborted

\* The last run removes the listeners and leaves a new controller.
ReleaseSignal ==
    /\ activeRuns' = activeRuns - 1
    /\ listening' = (listening /\ activeRuns > 1)
    /\ aborted' = (aborted /\ activeRuns > 1)

-----------------------------------------------------------------------------
(* withShutdown.                                                           *)

\* A run that starts while others stop is to stop as well.
Begin(p) ==
    /\ AcquireSignal
    /\ run' = [run EXCEPT ![p] = "draining"]
    /\ failed' = [failed EXCEPT ![p] = FALSE]
    /\ deadline' = [deadline EXCEPT ![p] = aborted]
    /\ told' = [told EXCEPT ![p] = aborted]
    /\ stops' = [stops EXCEPT ![p] = @ + (IF aborted THEN 1 ELSE 0)]
    /\ UNCHANGED <<alive, signals, left, calls>>

\* The promise of pipeTo settles: the finally block.
Settle(p, outcome) ==
    /\ ReleaseSignal
    /\ run' = [run EXCEPT ![p] = outcome]
    /\ deadline' = [deadline EXCEPT ![p] = FALSE]

\* Fault: a run that fails does not get to its onShutdown.
DrainFailsForGood(p) ==
    \E fails \in BOOLEAN :
        /\ alive /\ run[p] = "draining"
        /\ failed' = [failed EXCEPT ![p] = fails]
        /\ IF aborted /\ ~fails
           THEN /\ run' = [run EXCEPT ![p] = "closing"]
                /\ calls' = [calls EXCEPT ![p] = @ + 1]
                /\ UNCHANGED <<signalVars, deadline>>
           ELSE Settle(p, IF fails THEN "failed" ELSE "completed") /\ UNCHANGED calls
        /\ UNCHANGED <<alive, signals, left, attempts, told, stops>>

\* run(signal) returns or throws; onShutdown is called if there was a signal by then.
DrainSettles(p) ==
    \E fails \in BOOLEAN :
        /\ alive /\ run[p] = "draining"
        /\ failed' = [failed EXCEPT ![p] = fails]
        /\ IF aborted
           THEN /\ run' = [run EXCEPT ![p] = "closing"]
                /\ calls' = [calls EXCEPT ![p] = @ + 1]
                /\ UNCHANGED <<signalVars, deadline>>
           ELSE Settle(p, IF fails THEN "failed" ELSE "completed") /\ UNCHANGED calls
        /\ UNCHANGED <<alive, signals, left, attempts, told, stops>>

\* onShutdown returns or throws.
CallbackSettles(p) ==
    \E fails \in BOOLEAN :
        /\ alive /\ run[p] = "closing"
        /\ Settle(p, IF failed[p] \/ fails THEN "failed" ELSE "stopped")
        /\ UNCHANGED <<alive, signals, failed, left, attempts, historyVars>>

\* The deadline wins the race.
Deadline(p) ==
    /\ alive /\ deadline[p] /\ run[p] \in Pending
    /\ Settle(p, "timedOut")
    /\ left' = [left EXCEPT ![p][run[p]] = @ + 1]
    /\ UNCHANGED <<alive, signals, failed, attempts, historyVars>>

\* A run left behind drains after all, and calls its onShutdown.
LeftDrainSettles(p) ==
    /\ alive /\ left[p]["draining"] > 0
    /\ left' = [left EXCEPT ![p]["draining"] = @ - 1, ![p]["closing"] = @ + 1]
    /\ calls' = [calls EXCEPT ![p] = @ + 1]
    /\ UNCHANGED <<alive, signals, signalVars, run, failed, deadline, attempts, told, stops>>

LeftCallbackSettles(p) ==
    /\ alive /\ left[p]["closing"] > 0
    /\ left' = [left EXCEPT ![p]["closing"] = @ - 1]
    /\ UNCHANGED <<alive, signals, signalVars, run, failed, deadline, attempts, historyVars>>

-----------------------------------------------------------------------------
(* Runner.start.                                                           *)

FirstRun(p) ==
    /\ alive /\ run[p] = "none"
    /\ Begin(p)
    /\ UNCHANGED attempts

\* Whatever pipeTo threw, PipelineStoppedError included.
Threw(p) == alive /\ run[p] \in {"failed", "stopped", "timedOut"}

RestartRun(p) ==
    /\ Threw(p)
    /\ attempts[p] + 1 < Retry
    /\ attempts' = [attempts EXCEPT ![p] = @ + 1]
    /\ Begin(p)

GiveUp(p) ==
    /\ Threw(p)
    /\ attempts[p] + 1 >= Retry
    /\ attempts' = [attempts EXCEPT ![p] = @ + 1]
    /\ run' = [run EXCEPT ![p] = "gaveUp"]
    /\ UNCHANGED <<alive, signals, signalVars, failed, deadline, left, historyVars>>

-----------------------------------------------------------------------------
RunStep(p) ==
    \/ FirstRun(p) \/ RestartRun(p) \/ GiveUp(p)
    \/ DrainSettles(p) \/ CallbackSettles(p) \/ Deadline(p)
    \/ LeftDrainSettles(p) \/ LeftCallbackSettles(p)

Next == Signal \/ \E p \in Pipe : RunStep(p)

\* Nothing is assumed of a drain or a callback, not even that it ever settles.
Spec == Init /\ [][Next]_vars

-----------------------------------------------------------------------------
\* However runs overlap, time out and start again, the listeners are there exactly while a run
\* can be told to stop, each run that is to stop has its deadline, whether it was running when
\* the signal came or started later, and a signal of the past stops nobody
\* (shutdown.ts:84-106, 118-136).
EveryRunIsTold ==
    /\ activeRuns = Cardinality(Active)
    /\ listening <=> activeRuns > 0
    /\ aborted => activeRuns > 0
    /\ \A p \in Active : deadline[p] <=> aborted

\* A run that was told to stop never reports completion, and its onShutdown is called once,
\* after its drain, also when that failed or outlasted the deadline; nobody else's is (WP-33).
EachStopCallsBackOnce ==
    \A p \in Pipe :
        /\ run[p] = "completed" => ~told[p]
        /\ stops[p] = calls[p] + left[p]["draining"]
                        + IF run[p] = "draining" /\ told[p] THEN 1 ELSE 0

\* A pipe is written by one run at a time. The code does not ensure this: a run left behind
\* goes on while the runner starts the pipe again (runner.ts:69-90).
OneRunPerPipe ==
    \A p \in Pipe : run[p] = "draining" => left[p]["draining"] = 0
=============================================================================
