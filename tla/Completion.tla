----------------------------- MODULE Completion -----------------------------
(* How a distributed run ends (internal/orchestrator/completion.go and      *)
(* cmd/orchestrator/main.go): WaitForResult waits for the run window, the   *)
(* owed final deltas or a grace period, and reads the aggregator three      *)
(* times to judge the run; the orchestrator process waits for that result,  *)
(* its gRPC server and a signal, and picks an exit code.  Composed with the *)
(* aggregator, whose steps interleave with all of this.                     *)
EXTENDS Aggregator

CONSTANT Fleets   \* bound: per revision, the memberships the coordinator may see

ASSUME FleetsAssumption == Fleets \in [1..MaxRevisions -> SUBSET (SUBSET Workers \ {{}})]

VARIABLES
  planned,    \* the coordinator planned a revision it has not recorded yet
  window,     \* the started channel: none, sent, taken
  overdue,    \* the run deadline has passed
  waiter,     \* where WaitForResult stands
  graceOver,  \* the grace timer fired
  summary,    \* the report it returns
  serve,      \* the gRPC server: serving, stopped, failed
  cancelled,  \* runCtx is done
  signalled,  \* history: by SIGINT or SIGTERM
  main,       \* awaitRunCompletion: awaiting, stopping, joining, exited
  exit,       \* the exit code
  lateRecord  \* history: a revision was recorded after the deadline

aggregatorVars == vars
coordinatorVars == <<planned, window, lateRecord>>
waiterVars == <<waiter, graceOver, summary>>
mainVars == <<serve, cancelled, signalled, main, exit>>
allVars == <<aggregatorVars, coordinatorVars, overdue, waiterVars, mainVars>>

NoSummary == [status |-> "NONE", requests |-> 0, counted |-> [w \in Workers |-> 0],
              missing |-> {}, owed |-> {}]

CompletionInit ==
  /\ Init
  /\ planned = FALSE /\ window = "none" /\ lateRecord = FALSE
  /\ overdue = FALSE
  /\ waiter = "starting" /\ graceOver = FALSE /\ summary = NoSummary
  /\ serve = "serving" /\ cancelled = FALSE /\ signalled = FALSE
  /\ main = "awaiting" /\ exit = 0

----------------------------------------------------------------------------
(* reconcile: the first plan fixes the window and hands it to the waiter;    *)
(* later ones are only made before the deadline.  Plans, reports and time    *)
(* after the result cannot change it and are left out.                       *)
Plan ==
  /\ waiter # "returned"
  /\ ~planned /\ latest < MaxRevisions /\ ~overdue
  /\ planned' = TRUE
  /\ window' = IF latest = 0 THEN "sent" ELSE window
  /\ UNCHANGED <<aggregatorVars, lateRecord, overdue, waiterVars, mainVars>>

Record ==
  /\ waiter # "returned" /\ planned /\ planned' = FALSE
  /\ \E members \in Fleets[latest + 1] : \E plan \in [members -> BOOLEAN] :
       (\E w \in members : plan[w]) /\ RecordAssignments(plan)
  /\ lateRecord' = (lateRecord \/ overdue)
  /\ UNCHANGED <<window, overdue, waiterVars, mainVars>>

(* Well-formed reports that may be stale, early, repeated or out of order.   *)
Reports == {d \in Deltas : /\ d.sound /\ d.requests = 1 /\ d.sequence > 0 /\ d.revision > 0
                           /\ StartsAt <= d.start /\ d.start < d.end /\ d.end <= Deadline}
Deliver ==
  /\ waiter # "returned"
  /\ \E w \in Workers, d \in Reports : Accept(w, d)
  /\ UNCHANGED <<coordinatorVars, overdue, waiterVars, mainVars>>

DeadlinePasses ==
  /\ waiter # "returned" /\ window # "none" /\ ~overdue /\ overdue' = TRUE
  /\ UNCHANGED <<aggregatorVars, coordinatorVars, waiterVars, mainVars>>

----------------------------------------------------------------------------
(* WaitForResult and finalSummary. *)

ReceiveWindow ==
  /\ waiter = "starting" /\ window = "sent"
  /\ waiter' = "untilDeadline" /\ window' = "taken"
  /\ UNCHANGED <<aggregatorVars, planned, lateRecord, overdue, graceOver, summary, mainVars>>

(* waitUntil: the deadline passed, and the grace timer starts. *)
ReachDeadline ==
  /\ waiter = "untilDeadline" /\ overdue
  /\ waiter' = "checking"
  /\ UNCHANGED <<aggregatorVars, coordinatorVars, overdue, graceOver, summary, mainVars>>

AnyReport == \E w \in Workers : merged[w] # <<>>                    \* mutant
Satisfied == Complete

CheckComplete ==
  /\ waiter = "checking"
  /\ waiter' = IF Satisfied THEN "reading" ELSE "waiting"
  /\ UNCHANGED <<aggregatorVars, coordinatorVars, overdue, graceOver, summary, mainVars>>

SeeChange ==
  /\ waiter = "waiting" /\ TakeChange
  /\ waiter' = "checking"
  /\ UNCHANGED <<coordinatorVars, overdue, graceOver, summary, mainVars>>

GraceExpires ==
  /\ waiter \in {"checking", "waiting"} /\ ~graceOver /\ graceOver' = TRUE
  /\ UNCHANGED <<aggregatorVars, coordinatorVars, overdue, waiter, summary, mainVars>>

NoTimer == FALSE                                                    \* mutant
GraceFired == graceOver

StopWaiting ==
  /\ waiter = "waiting" /\ GraceFired
  /\ waiter' = "reading"
  /\ UNCHANGED <<aggregatorVars, coordinatorVars, overdue, graceOver, summary, mainVars>>

WindowOnly == waiter \in {"starting", "untilDeadline"}              \* mutant
Selecting == waiter \in {"starting", "untilDeadline", "waiting"}

Interrupted == summary' = [NoSummary EXCEPT !.status = "INTERRUPTED", !.requests = snapshot]

(* ctx.Done in any of the three selects. *)
ReturnInterrupted ==
  /\ cancelled /\ Selecting
  /\ waiter' = "returned"
  /\ Interrupted
  /\ UNCHANGED <<aggregatorVars, coordinatorVars, overdue, graceOver, mainVars>>

(* The verdict on a snapshot: without requests it fails, otherwise its        *)
(* latencies, errors, drops and unmet demand decide.                         *)
Evaluate(satisfied) == IF snapshot > 0 /\ satisfied THEN "PASS" ELSE "FAIL"

(* finalSummary evaluates one snapshot ... *)
ReadSnapshot ==
  /\ waiter = "reading" /\ waiter' = "judging"
  /\ \E satisfied \in BOOLEAN :
       summary' = [NoSummary EXCEPT
                     !.status = Evaluate(satisfied),
                     !.requests = snapshot,
                     !.counted = [w \in Workers |-> Len(merged[w])]]
  /\ UNCHANGED <<aggregatorVars, coordinatorVars, overdue, graceOver, mainVars>>

(* ... then asks for violations ... *)
ReadViolations ==
  /\ waiter = "judging" /\ waiter' = "listing"
  /\ summary' = IF violations # {} THEN [summary EXCEPT !.status = "FAIL"] ELSE summary
  /\ UNCHANGED <<aggregatorVars, coordinatorVars, overdue, graceOver, mainVars>>

NoneListed == {}                                                    \* mutant
Listed == MissingFinal

(* ... and then for the final deltas still missing. *)
ReadMissing ==
  /\ waiter = "listing" /\ waiter' = "returned"
  /\ summary' = [summary EXCEPT !.missing = Listed,
                                !.owed = {w \in Workers : Loaded(w, latest)},
                                !.status = IF Listed # {} THEN "FAIL" ELSE @]
  /\ UNCHANGED <<aggregatorVars, coordinatorVars, overdue, graceOver, mainVars>>

----------------------------------------------------------------------------
(* run and awaitRunCompletion of the orchestrator process. *)

Signal ==
  /\ main # "exited" /\ ~cancelled /\ cancelled' = TRUE /\ signalled' = TRUE
  /\ UNCHANGED <<aggregatorVars, coordinatorVars, overdue, waiterVars, serve, main, exit>>

(* A cancelled runCtx stops the server; it may also fail by itself. *)
ServerStops ==
  /\ main # "exited" /\ serve = "serving" /\ cancelled /\ serve' = "stopped"
  /\ UNCHANGED <<aggregatorVars, coordinatorVars, overdue, waiterVars, cancelled, signalled, main, exit>>
ServerFails ==
  /\ main # "exited" /\ serve = "serving" /\ serve' = "failed"
  /\ UNCHANGED <<aggregatorVars, coordinatorVars, overdue, waiterVars, cancelled, signalled, main, exit>>

exitCodeForSummary ==
  CASE summary.status = "PASS" -> 0
    [] summary.status = "FAIL" -> 1
    [] summary.status = "INTERRUPTED" -> 130
    [] OTHER -> 2

Exit(code) == main' = "exited" /\ exit' = code

TakeResult ==
  /\ main = "awaiting" /\ waiter = "returned"
  /\ main' = "stopping" /\ cancelled' = TRUE
  /\ UNCHANGED <<aggregatorVars, coordinatorVars, overdue, waiterVars, serve, signalled, exit>>

FinishResult ==
  /\ main = "stopping" /\ serve # "serving"
  /\ Exit(IF serve = "failed" /\ summary.status # "INTERRUPTED" THEN 2 ELSE exitCodeForSummary)
  /\ UNCHANGED <<aggregatorVars, coordinatorVars, overdue, waiterVars, serve, cancelled, signalled>>

StopBeforeAsking == TRUE                                            \* mutant
WasCancelled == cancelled

(* The server ended first: on a signal the result is still awaited. *)
TakeServeError ==
  /\ main = "awaiting" /\ serve # "serving"
  /\ IF WasCancelled THEN main' = "joining" /\ UNCHANGED exit ELSE Exit(2)
  /\ cancelled' = TRUE
  /\ UNCHANGED <<aggregatorVars, coordinatorVars, overdue, waiterVars, serve, signalled>>

JoinResult ==
  /\ main = "joining" /\ waiter = "returned"
  /\ Exit(exitCodeForSummary)
  /\ UNCHANGED <<aggregatorVars, coordinatorVars, overdue, waiterVars, serve, cancelled, signalled>>

----------------------------------------------------------------------------
Waiter == \/ ReceiveWindow \/ ReachDeadline \/ CheckComplete \/ SeeChange \/ StopWaiting
          \/ ReturnInterrupted \/ ReadSnapshot \/ ReadViolations \/ ReadMissing
Main == TakeResult \/ FinishResult \/ TakeServeError \/ JoinResult

CompletionNext ==
  \/ Plan \/ Record \/ Deliver \/ DeadlinePasses
  \/ Waiter \/ GraceExpires
  \/ Main \/ Signal \/ ServerStops \/ ServerFails

(* The goroutines of the process run, and select takes a random ready case,  *)
(* so none that stays ready is passed over for ever, however many reports    *)
(* arrive.  Neither workers nor the network nor the operator owe anything.   *)
Scheduled == /\ WF_allVars(Waiter) /\ WF_allVars(Main) /\ WF_allVars(ServerStops)
             /\ SF_allVars(ReturnInterrupted) /\ SF_allVars(StopWaiting)
(* Timers fire: assumed only by StartedRunEnds. *)
Timed == WF_allVars(DeadlinePasses) /\ WF_allVars(GraceExpires)

CompletionSpec == CompletionInit /\ [][CompletionNext]_allVars
PromptSpec == CompletionSpec /\ Scheduled

----------------------------------------------------------------------------
Judged == waiter = "returned" /\ summary.status \in {"PASS", "FAIL"}

(* A run passes only when every worker the latest revision loads has         *)
(* reported up to the deadline under that revision, whatever arrived between *)
(* finalSummary's three reads.                                               *)
PassIsComplete ==
  Judged /\ summary.status = "PASS" =>
    \A w \in summary.owed : /\ merged[w] # <<>>
                            /\ Last(merged[w]).final /\ Last(merged[w]).end = Deadline
                            /\ Last(merged[w]).revision = latest

(* The measurements a passing report prints include everything those workers *)
(* reported: an incomplete result is never presented as a passing one.  The  *)
(* code breaks this when a final delta arrives at the end of the grace       *)
(* period, after finalSummary's first read and before its last.  (A revision *)
(* recorded after the deadline, lateRecord, would break it too.)             *)
PassCountsFinals ==
  ~lateRecord /\ Judged /\ summary.status = "PASS" =>
    \A w \in summary.owed : summary.counted[w] = Len(merged[w])

(* When WaitForResult saw the run complete within the grace period, it does. *)
PromptPassCountsFinals == ~graceOver => PassCountsFinals

(* The exit code tells what happened: 0 and 1 give the verdict of a judged   *)
(* run, 130 is a signal, never the process's own cancellation, and 2 a       *)
(* server that failed.                                                       *)
ExitCodeHonest ==
  main = "exited" =>
    /\ exit = 0 => summary.status = "PASS"
    /\ exit = 1 => summary.status = "FAIL"
    /\ exit = 130 => summary.status = "INTERRUPTED" /\ signalled
    /\ exit = 2 => serve = "failed"

(* What makes PassIsComplete and ExitCodeHonest inductive, beside IInv: the  *)
(* verdict that goes with each of the waiter's positions, and why the        *)
(* process's context can be done.                                            *)
CompletionTypes ==
  /\ planned => latest < MaxRevisions
  /\ waiter \in {"starting", "untilDeadline", "checking", "waiting", "reading", "judging",
                 "listing", "returned"}
  /\ summary \in [status : {"NONE", "PASS", "FAIL", "INTERRUPTED"}, requests : Nat,
                  counted : [Workers -> Nat], missing : SUBSET Workers, owed : SUBSET Workers]
  /\ serve \in {"serving", "stopped", "failed"} /\ cancelled \in BOOLEAN /\ signalled \in BOOLEAN
  /\ main \in {"awaiting", "stopping", "joining", "exited"} /\ exit \in {0, 1, 2, 130}
Undecided == main # "exited" \/ exit # 2
VerdictReady ==
  /\ waiter \in {"judging", "listing"} => summary.status \in {"PASS", "FAIL"}
  /\ waiter = "returned" => summary.status \in {"PASS", "FAIL", "INTERRUPTED"}
  /\ main = "stopping" \/ (main = "exited" /\ exit # 2) => waiter = "returned"
CancelledForCause ==
  /\ serve = "stopped" => cancelled
  /\ cancelled /\ Undecided => signalled \/ waiter = "returned"
  /\ waiter = "returned" /\ summary.status = "INTERRUPTED" /\ Undecided => signalled
CompletionInv == /\ IInv /\ CompletionTypes /\ VerdictReady /\ CancelledForCause
                 /\ PassIsComplete /\ ExitCodeHonest

(* What makes PromptPassCountsFinals inductive: within the grace period the  *)
(* waiter reads only once the run is complete, it stays so unless a revision *)
(* follows, and then no worker that owes load can add to what was counted.   *)
Reading == waiter \in {"reading", "judging", "listing"}
PromptInv ==
  /\ Reading \/ waiter \in {"checking", "waiting"} => overdue
  /\ ~graceOver /\ ~lateRecord /\ Reading =>
       /\ Complete
       /\ waiter # "reading" =>
            \A w \in Workers : Loaded(w, latest) => summary.counted[w] = Len(merged[w])
  /\ PromptPassCountsFinals

(* A complete run is judged without waiting for the grace period: no change  *)
(* is lost between Complete and the wait on Changes.                         *)
CompleteIsNoticed ==
  waiter \in {"checking", "waiting"} /\ Complete ~> waiter = "returned" \/ ~Complete

(* A signal always ends the process, wherever the run stands. *)
SignalEnds == signalled ~> main = "exited"

(* Once a run has started the process ends, though no worker ever reports, *)
(* provided timers fire.                                                   *)
StartedRunEnds == Timed => (window # "none" ~> main = "exited")
=============================================================================
