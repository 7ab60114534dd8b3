------------------------------ MODULE LocalRun ------------------------------
(* One local run (cmd/loadtest/main.go, internal/runner/runner.go): the      *)
(* preflight request, the open or closed scheduler with the goroutines it    *)
(* starts (internal/loadgen), the collector's channel, and the verdict.      *)
(* Request goroutines are told apart only by how far they are.               *)
EXTENDS Integers

CONSTANTS
  VirtualUsers, MaxInFlight,   \* the configured load, one for each model
  BufferSize,                  \* capacity of the collector's channel
  MaxArrivals                  \* bound: arrivals, or requests of all users

ASSUME LocalRunAssumption ==
  /\ VirtualUsers \in Nat \ {0} /\ MaxInFlight \in Nat \ {0} /\ BufferSize \in Nat \ {0}
  /\ MaxArrivals \in Nat

VARIABLES
  model,       \* open or closed
  pc,          \* preflight, scheduling, waiting, closing, judging or exited
  signalled,   \* the process's context is done (an interrupt)
  expired,     \* the configured duration has passed
  users,       \* closed: virtual users started
  arrivals,    \* history: open arrivals met, or closed requests sent
  looping, executing, answered, aborted, leaving,   \* goroutines, by stage
  queued,      \* samples on the channel: results and unmet demand
  dropped,     \* samples that found it full
  counted,     \* samples aggregated: results and unmet demand
  excluded,    \* history: requests cut by the end of the run
  exit         \* the exit code

stages == <<looping, executing, answered, aborted, leaving>>
samples == <<queued, dropped, counted>>
context == <<signalled, expired>>
vars == <<model, pc, context, users, arrivals, stages, samples, excluded, exit>>

None == [result |-> 0, unmet |-> 0]
Running == -1

Init ==
  /\ model \in {"open", "closed"}
  /\ pc = "preflight" /\ signalled = FALSE /\ expired = FALSE
  /\ users = 0 /\ arrivals = 0
  /\ looping = 0 /\ executing = 0 /\ answered = 0 /\ aborted = 0 /\ leaving = 0
  /\ queued = None /\ dropped = 0 /\ counted = None /\ excluded = 0
  /\ exit = Running

(* runCtx.Err() # nil *)
Done == signalled \/ expired
Goroutines == looping + executing + answered + aborted + leaving

(* Offer and OfferUnmetDemand never block; a closed collector takes nothing. *)
Offer(kind) ==
  IF pc \notin {"scheduling", "waiting"} THEN UNCHANGED samples
  ELSE /\ UNCHANGED counted
       /\ IF queued.result + queued.unmet < BufferSize
            THEN queued' = [queued EXCEPT ![kind] = @ + 1] /\ UNCHANGED dropped
            ELSE dropped' = dropped + 1 /\ UNCHANGED queued

----------------------------------------------------------------------------
Interrupt ==
  /\ pc # "exited" /\ ~signalled /\ signalled' = TRUE
  /\ UNCHANGED <<model, pc, expired, users, arrivals, stages, samples, excluded, exit>>

Expire ==
  /\ pc \in {"scheduling", "waiting"} /\ ~expired /\ expired' = TRUE
  /\ UNCHANGED <<model, pc, signalled, users, arrivals, stages, samples, excluded, exit>>

(* The summary says so, if it can be written. *)
ExitInterrupted == exit' \in {130, 2}

(* The preflight request is answered, or fails: then the run is a setup      *)
(* failure, unless it was interrupted.                                       *)
Preflight ==
  /\ pc = "preflight"
  /\ \/ pc' = "scheduling" /\ UNCHANGED exit
     \/ pc' = "exited" /\ (IF signalled THEN ExitInterrupted ELSE exit' = 2)
  /\ UNCHANGED <<model, context, users, arrivals, stages, samples, excluded>>

----------------------------------------------------------------------------
(* RunOpen: an arrival is due and gets a slot or is unmet demand.            *)
SlotFree == Goroutines < MaxInFlight

Arrive ==
  /\ pc = "scheduling" /\ model = "open" /\ ~Done /\ arrivals < MaxArrivals
  /\ arrivals' = arrivals + 1
  /\ IF SlotFree THEN executing' = executing + 1 /\ UNCHANGED samples
                 ELSE Offer("unmet") /\ UNCHANGED executing
  /\ UNCHANGED <<model, pc, context, users, looping, answered, aborted, leaving, excluded, exit>>

(* RunClosed: the ramp's timer can win against a context already done.       *)
StartUser ==
  /\ pc = "scheduling" /\ model = "closed" /\ users < VirtualUsers
  /\ users' = users + 1 /\ looping' = looping + 1
  /\ UNCHANGED <<model, pc, context, arrivals, executing, answered, aborted, leaving, samples,
                 excluded, exit>>

(* The scheduler waits for every goroutine it started. *)
StopScheduling ==
  /\ pc = "scheduling"
  /\ Done \/ (model = "closed" /\ users = VirtualUsers)
  /\ pc' = "waiting"
  /\ UNCHANGED <<model, context, users, arrivals, stages, samples, excluded, exit>>

Abandoned == pc = "waiting"                                         \* mutant
Waited == pc = "waiting" /\ Goroutines = 0

(* The scheduler returns, and Close marks the collector closed. *)
Return ==
  /\ Waited
  /\ pc' = "closing"
  /\ UNCHANGED <<model, context, users, arrivals, stages, samples, excluded, exit>>

----------------------------------------------------------------------------
(* A request goroutine or virtual user. *)

Forever == TRUE                                                     \* mutant
Continue == ~Done

NextRequest ==
  /\ looping > 0 /\ Continue /\ arrivals < MaxArrivals
  /\ looping' = looping - 1 /\ executing' = executing + 1 /\ arrivals' = arrivals + 1
  /\ UNCHANGED <<model, pc, context, users, answered, aborted, leaving, samples, excluded, exit>>

UserStops ==
  /\ looping > 0 /\ ~Continue
  /\ looping' = looping - 1
  /\ UNCHANGED <<model, pc, context, users, arrivals, executing, answered, aborted, leaving, samples,
                 excluded, exit>>

(* The target answers or fails, or the context's end cuts the request. *)
Answer ==
  /\ executing > 0 /\ executing' = executing - 1
  /\ answered' = answered + 1
  /\ UNCHANGED <<model, pc, context, users, arrivals, looping, aborted, leaving, samples, excluded, exit>>

Cut ==
  /\ executing > 0 /\ Done /\ executing' = executing - 1
  /\ aborted' = aborted + 1
  /\ UNCHANGED <<model, pc, context, users, arrivals, looping, answered, leaving, samples, excluded, exit>>

(* interruptedByRun: a result that is the context's own error is not offered. *)
OfferResult ==
  /\ answered > 0 /\ answered' = answered - 1
  /\ Offer("result")
  /\ IF model = "open" THEN leaving' = leaving + 1 /\ UNCHANGED looping
                       ELSE looping' = looping + 1 /\ UNCHANGED leaving
  /\ UNCHANGED <<model, pc, context, users, arrivals, executing, aborted, excluded, exit>>

Exclude ==
  /\ aborted > 0 /\ aborted' = aborted - 1
  /\ excluded' = excluded + 1
  /\ leaving' = leaving + 1
  /\ UNCHANGED <<model, pc, context, users, arrivals, looping, executing, answered, samples, exit>>

(* The deferred release of the slot, and the wait group's Done. *)
Leave ==
  /\ leaving > 0 /\ leaving' = leaving - 1
  /\ UNCHANGED <<model, pc, context, users, arrivals, looping, executing, answered, aborted, samples,
                 excluded, exit>>

----------------------------------------------------------------------------
(* The collector's goroutine; Close's command is behind all samples. *)
Aggregate ==
  /\ \E kind \in {"result", "unmet"} :
       /\ queued[kind] > 0
       /\ queued' = [queued EXCEPT ![kind] = @ - 1]
       /\ counted' = [counted EXCEPT ![kind] = @ + 1]
  /\ UNCHANGED <<model, pc, context, users, arrivals, stages, dropped, excluded, exit>>

(* The final snapshot, and the test whether the run was interrupted. *)
Collected ==
  /\ pc = "closing" /\ queued = None
  /\ IF signalled THEN pc' = "exited" /\ ExitInterrupted
                  ELSE pc' = "judging" /\ UNCHANGED exit
  /\ UNCHANGED <<model, context, users, arrivals, stages, samples, excluded>>

IgnoringDrops == counted.unmet = 0 /\ counted.result > 0            \* mutant
Reliable == counted.unmet = 0 /\ dropped = 0 /\ counted.result > 0

(* Evaluate and the exit code; a threshold may be exceeded, and the summary  *)
(* may not be written.                                                       *)
Judge ==
  /\ pc = "judging" /\ pc' = "exited"
  /\ \E exceeded, written \in BOOLEAN :
       exit' = IF ~written THEN 2 ELSE IF exceeded \/ ~Reliable THEN 1 ELSE 0
  /\ UNCHANGED <<model, context, users, arrivals, stages, samples, excluded>>

Goroutine == NextRequest \/ UserStops \/ Answer \/ Cut \/ OfferResult \/ Exclude \/ Leave
Runner == Preflight \/ Arrive \/ StartUser \/ StopScheduling \/ Return \/ Collected \/ Judge
Next == Interrupt \/ Expire \/ Runner \/ Goroutine \/ Aggregate

(* The process runs, the clock reaches the end of the run, and a request     *)
(* returns at the latest when its context is done.                           *)
Fairness == WF_vars(Expire) /\ WF_vars(Runner) /\ WF_vars(Goroutine) /\ WF_vars(Aggregate)
Spec == Init /\ [][Next]_vars /\ Fairness

----------------------------------------------------------------------------
(* When a run is over, every arrival it met and every request it sent is in  *)
(* the snapshot once, as a result, as unmet demand or as a dropped sample,   *)
(* or was cut by the end of the run: none is missing however requests end    *)
(* while the schedulers, the collector and the run do.                       *)
NothingUnaccounted ==
  pc \in {"judging", "exited"} =>
    arrivals = counted.result + counted.unmet + dropped + excluded

(* A pass is about the whole load: every arrival up to the end of the run    *)
(* was sent, and measured unless the end cut it.                             *)
PassIsReliable == exit = 0 => arrivals = counted.result + excluded /\ counted.result > 0

(* What makes these two inductive: a sample not yet accounted for is on the  *)
(* channel or in the hands of a goroutine, and there are none of these where *)
(* the run has waited for them.                                              *)
TypeOK ==
  /\ pc \in {"preflight", "scheduling", "waiting", "closing", "judging", "exited"}
  /\ model \in {"open", "closed"} /\ signalled \in BOOLEAN /\ expired \in BOOLEAN
  /\ users \in Nat /\ arrivals \in Nat
  /\ looping \in Nat /\ executing \in Nat /\ answered \in Nat /\ aborted \in Nat /\ leaving \in Nat
  /\ queued \in [result : Nat, unmet : Nat] /\ counted \in [result : Nat, unmet : Nat]
  /\ dropped \in Nat /\ excluded \in Nat
  /\ exit \in {Running, 0, 1, 2, 130}
Conserved ==
  arrivals = executing + answered + aborted + queued.result + queued.unmet
             + counted.result + counted.unmet + dropped + excluded
Quiet ==
  /\ pc \notin {"scheduling", "waiting"} => Goroutines = 0
  /\ pc \in {"preflight", "judging", "exited"} => queued = None
PassJudged == exit = 0 => pc = "exited" /\ Reliable
IInv == TypeOK /\ Conserved /\ Quiet /\ PassJudged

(* Every run ends, interrupted or not, however slow the target is.           *)
RunEnds == <>(pc = "exited")
=============================================================================
