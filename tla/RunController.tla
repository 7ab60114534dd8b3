--------------------------- MODULE RunController ---------------------------
(* The run controller of one worker session (internal/worker/run.go): one   *)
(* goroutine that serialises assignment commands, reporting-boundary timers *)
(* and the scheduler's end, while the scheduler feeds the collector.  The   *)
(* orchestrator is an environment that issues revisions before the deadline *)
(* and a stream that delivers them any time later.                          *)
EXTENDS Naturals, Sequences

CONSTANTS
  Interval,             \* options.ReportingInterval, in clock ticks
  StartsAt, Deadline,   \* the run window all revisions carry
  QueueSize,            \* outboundBufferSize
  MaxRevision,          \* bound: revisions issued
  MaxClock              \* bound: clock ticks

ASSUME RunControllerAssumption ==
  /\ Interval \in Nat \ {0} /\ QueueSize \in Nat \ {0}
  /\ StartsAt \in Nat \ {0} /\ Deadline \in Nat /\ StartsAt < Deadline
  /\ MaxRevision \in Nat /\ MaxClock \in Nat

VARIABLES
  clock,
  loaded,         \* revisions issued, in order: does the slice carry load?
  inbox,          \* revisions on the stream, not yet taken by the controller
  pc,             \* select, draining, deciding, flushing or stopped
  task,           \* what a drain or a flush is for: command, boundary, deadline
  current,        \* the applied revision, 0 before the first
  collecting,     \* a collector exists
  pending,        \* requests it holds that no delta has carried
  taken,          \* requests in the snapshot a flush is sending
  scheduler,      \* none, running, or done: ended and not yet reaped
  intervalStart, armed, timerAt,   \* the open interval and the timer
  now,            \* the clock as the command in hand last read it, else 0
  backlog,        \* messages in the outbound queue
  emitted,        \* the deltas put on it, oldest first
  status,         \* what heartbeats report: revision and whether it has load
  cancelled,      \* the session's context is done
  failed,         \* the controller reported an error
  late            \* history: a revision was applied at or after the deadline

timerVars == <<intervalStart, armed, timerAt>>
schedVars == <<collecting, pending, taken, scheduler>>
outVars == <<backlog, emitted>>
envVars == <<clock, loaded, cancelled>>
vars == <<envVars, inbox, pc, task, current, schedVars, timerVars, now, outVars, status, failed, late>>

Idle == [revision |-> 0, active |-> FALSE]

Init ==
  /\ clock = 0 /\ loaded = <<>> /\ inbox = <<>>
  /\ pc = "select" /\ task = "none" /\ current = 0
  /\ collecting = FALSE /\ pending = 0 /\ taken = 0 /\ scheduler = "none"
  /\ intervalStart = 0 /\ armed = FALSE /\ timerAt = 0
  /\ now = 0
  /\ backlog = 0 /\ emitted = <<>>
  /\ status = Idle
  /\ cancelled = FALSE /\ failed = FALSE /\ late = FALSE

Lesser(x, y) == IF x < y THEN x ELSE y
Greater(x, y) == IF x > y THEN x ELSE y
isActiveLoad(r) == r # 0 /\ loaded[r]

BoundaryFromNow(at) == Lesser(at + Interval, Deadline)              \* mutant
Uncapped(at) ==                                                     \* mutant
  IF at < StartsAt THEN StartsAt + Interval
  ELSE StartsAt + ((at - StartsAt) \div Interval + 1) * Interval
(* Boundaries are counted from StartsAt, never from the last one reached. *)
nextMetricBoundary(at) ==
  IF at < StartsAt THEN Lesser(StartsAt + Interval, Deadline)
  ELSE Lesser(StartsAt + ((at - StartsAt) \div Interval + 1) * Interval, Deadline)

ForgetTimer(at) == timerAt' = at /\ UNCHANGED armed                  \* mutant
resetTimer(at) == timerAt' = at /\ armed' = TRUE

----------------------------------------------------------------------------
(* flush: the snapshot empties the collector, then the delta waits for room *)
(* in the outbound queue.                                                    *)
Delta(end, final) ==
  [revision |-> current, sequence |-> Len(emitted) + 1,
   start |-> intervalStart, end |-> end, final |-> final, requests |-> taken]

KeepCounts == pc' = "flushing" /\ taken' = pending /\ pending' = pending \* mutant
BeginFlush == pc' = "flushing" /\ taken' = pending /\ pending' = 0

Enqueue(end, final) ==
  /\ pc = "flushing" /\ backlog < QueueSize
  /\ backlog' = backlog + 1
  /\ emitted' = Append(emitted, Delta(end, final))
  /\ taken' = 0

----------------------------------------------------------------------------
(* The command case of run. *)

transitionEnd == Lesser(now, Deadline)
Overdue == transitionEnd > intervalStart + Interval
MustReport == isActiveLoad(current) /\ collecting /\ transitionEnd > intervalStart

(* startScheduler and the timer for the new revision, or idle until the      *)
(* deadline.                                                                 *)
Apply(r) ==
  /\ current' = r
  /\ status' = [revision |-> r, active |-> isActiveLoad(r) /\ now < Deadline]
  /\ IF status'.active
       THEN /\ collecting' = TRUE /\ scheduler' = "running"
            /\ intervalStart' = Greater(now, StartsAt)
            /\ resetTimer(nextMetricBoundary(now))
       ELSE /\ UNCHANGED <<collecting, scheduler>>
            /\ intervalStart' = StartsAt
            /\ resetTimer(Deadline)
  /\ late' = (late \/ now >= Deadline)
  /\ now' = 0

DrainIfLoaded == isActiveLoad(Head(inbox))                          \* mutant
MustDrain == current # 0

(* Take a command; the stream only delivers newer revisions of one run.  A   *)
(* scheduler still referenced is cancelled and waited for.                   *)
TakeCommand ==
  /\ pc = "select" /\ inbox # <<>>
  /\ now' = clock
  /\ pc' = IF MustDrain THEN "draining" ELSE "deciding"
  /\ task' = "command"
  /\ UNCHANGED <<envVars, inbox, current, schedVars, timerVars, outVars, status, failed, late>>

Drained == pc = "draining" /\ scheduler # "running"

(* The transition is timestamped after the old scheduler drained. *)
CommandDrained ==
  /\ Drained /\ task = "command"
  /\ scheduler' = "none"
  /\ now' = clock
  /\ pc' = "deciding"
  /\ UNCHANGED <<envVars, inbox, task, current, collecting, pending, taken, timerVars, outVars, status,
                 failed, late>>

(* A transition later than one interval after the last report is an error,   *)
(* returned to the stream and reported.                                      *)
RejectOverdue ==
  /\ pc = "deciding"
  /\ isActiveLoad(current) /\ collecting /\ Overdue
  /\ pc' = "stopped" /\ failed' = TRUE /\ now' = 0
  /\ UNCHANGED <<envVars, inbox, task, current, schedVars, timerVars, outVars, status, late>>

BeginRevisionFlush ==
  /\ pc = "deciding" /\ MustReport /\ ~Overdue
  /\ BeginFlush
  /\ UNCHANGED <<envVars, inbox, task, current, collecting, scheduler, timerVars, now, outVars,
                 status, failed, late>>

FlushRevision ==
  /\ task = "command" /\ Enqueue(transitionEnd, TRUE)
  /\ Apply(Head(inbox)) /\ inbox' = Tail(inbox)
  /\ pc' = "select" /\ task' = "none"
  /\ UNCHANGED <<envVars, pending, failed>>

ApplyWithoutFlush ==
  /\ pc = "deciding" /\ ~MustReport
  /\ Apply(Head(inbox)) /\ inbox' = Tail(inbox)
  /\ pc' = "select" /\ task' = "none"
  /\ UNCHANGED <<envVars, pending, taken, outVars, failed>>

----------------------------------------------------------------------------
(* The timer case of run. *)

TimerFires == pc = "select" /\ armed /\ clock >= timerAt

BoundaryTimer ==
  /\ TimerFires /\ timerAt < Deadline
  /\ IF isActiveLoad(current) /\ collecting /\ timerAt > intervalStart
       THEN BeginFlush /\ task' = "boundary" /\ UNCHANGED <<timerAt, armed>>
       ELSE resetTimer(nextMetricBoundary(timerAt)) /\ UNCHANGED <<pc, task, pending, taken>>
  /\ UNCHANGED <<envVars, inbox, current, collecting, scheduler, intervalStart, now, outVars,
                 status, failed, late>>

FlushBoundary ==
  /\ task = "boundary" /\ Enqueue(timerAt, FALSE)
  /\ intervalStart' = timerAt
  /\ resetTimer(nextMetricBoundary(timerAt))
  /\ pc' = "select" /\ task' = "none"
  /\ UNCHANGED <<envVars, inbox, current, collecting, pending, scheduler, now, status, failed, late>>

DeadlineTimer ==
  /\ TimerFires /\ timerAt >= Deadline
  /\ pc' = "draining" /\ task' = "deadline"
  /\ UNCHANGED <<envVars, inbox, current, schedVars, timerVars, now, outVars, status, failed, late>>

SkipEmpty == isActiveLoad(current) /\ collecting /\ pending > 0      \* mutant
OwesFinal == isActiveLoad(current) /\ collecting /\ Deadline > intervalStart

DeadlineDrained ==
  /\ Drained /\ task = "deadline"
  /\ scheduler' = "none"
  /\ IF OwesFinal
       THEN BeginFlush /\ UNCHANGED <<task, armed, status>>
       ELSE /\ pc' = "select" /\ task' = "none" /\ armed' = FALSE
            /\ status' = [status EXCEPT !.active = FALSE] /\ UNCHANGED <<pending, taken>>
  /\ UNCHANGED <<envVars, inbox, current, collecting, intervalStart, timerAt, now, outVars, failed, late>>

FlushDeadline ==
  /\ task = "deadline" /\ Enqueue(Deadline, TRUE)
  /\ pc' = "select" /\ task' = "none" /\ armed' = FALSE
  /\ status' = [status EXCEPT !.active = FALSE]
  /\ UNCHANGED <<envVars, inbox, current, collecting, pending, scheduler, intervalStart,
                 timerAt, now, failed, late>>

----------------------------------------------------------------------------
(* The scheduler runs from StartsAt until it is cancelled or its deadline    *)
(* passes.  A request started in the open interval ends after its start.     *)
(* Bound: the collector holds at most one request.                           *)
Request ==
  /\ scheduler = "running" /\ clock > intervalStart /\ pending = 0
  /\ pending' = 1
  /\ UNCHANGED <<envVars, inbox, pc, task, current, collecting, taken, scheduler, timerVars, now, outVars,
                 status, failed, late>>

SchedulerEnds ==
  /\ scheduler = "running"
  /\ pc \in {"draining", "stopped"} \/ cancelled \/ clock >= Deadline
  /\ scheduler' = "done"
  /\ UNCHANGED <<envVars, inbox, pc, task, current, collecting, pending, taken, timerVars, now, outVars,
                 status, failed, late>>

ReapScheduler ==
  /\ pc = "select" /\ scheduler = "done"
  /\ scheduler' = "none"
  /\ UNCHANGED <<envVars, inbox, pc, task, current, collecting, pending, taken, timerVars, now, outVars,
                 status, failed, late>>

OnlySelect == pc = "select"                                         \* mutant
Interruptible == pc \in {"select", "flushing"}

(* ctx.Done in run's select or in flush's; a drain is not interrupted.  The  *)
(* deferred cleanup then waits for the scheduler.                            *)
Return ==
  /\ cancelled /\ Interruptible
  /\ pc' = "stopped" /\ armed' = FALSE /\ now' = 0
  /\ failed' = (failed \/ pc = "flushing")
  /\ UNCHANGED <<envVars, inbox, task, current, schedVars, intervalStart, timerAt, outVars,
                 status, late>>

(* writeMessages and produceHeartbeats at the other ends of the queue. *)
WriteMessage ==
  /\ backlog > 0 /\ ~cancelled
  /\ backlog' = backlog - 1
  /\ UNCHANGED <<envVars, inbox, pc, task, current, schedVars, timerVars, now, emitted, status,
                 failed, late>>
Heartbeat ==
  /\ backlog < QueueSize /\ ~cancelled
  /\ backlog' = backlog + 1
  /\ UNCHANGED <<envVars, inbox, pc, task, current, schedVars, timerVars, now, emitted, status,
                 failed, late>>

----------------------------------------------------------------------------
(* The environment: the coordinator plans a revision before the deadline.    *)
Issue(active) ==
  /\ Len(loaded) < MaxRevision /\ clock < Deadline
  /\ loaded' = Append(loaded, active)
  /\ inbox' = Append(inbox, Len(loaded) + 1)
  /\ UNCHANGED <<clock, cancelled, pc, task, current, schedVars, timerVars, now, outVars, status,
                 failed, late>>

Cancel ==
  /\ ~cancelled /\ cancelled' = TRUE
  /\ UNCHANGED <<clock, loaded, inbox, pc, task, current, schedVars, timerVars, now, outVars, status,
                 failed, late>>

Tick ==
  /\ clock < MaxClock /\ clock' = clock + 1
  /\ UNCHANGED <<loaded, cancelled, inbox, pc, task, current, schedVars, timerVars, now, outVars,
                 status, failed, late>>

Controller == \/ TakeCommand \/ CommandDrained \/ RejectOverdue \/ BeginRevisionFlush
              \/ FlushRevision \/ ApplyWithoutFlush \/ BoundaryTimer \/ FlushBoundary
              \/ DeadlineTimer \/ DeadlineDrained \/ FlushDeadline \/ ReapScheduler \/ Return

Next == \/ Controller \/ Request \/ SchedulerEnds \/ WriteMessage \/ Heartbeat
        \/ \E active \in BOOLEAN : Issue(active)
        \/ Cancel \/ Tick

Spec == Init /\ [][Next]_vars

----------------------------------------------------------------------------
TypeOK ==
  /\ clock \in 0..MaxClock /\ loaded \in Seq(BOOLEAN) /\ inbox \in Seq(1..Len(loaded))
  /\ pc \in {"select", "draining", "deciding", "flushing", "stopped"}
  /\ task \in {"none", "command", "boundary", "deadline"}
  /\ pc = "select" => task = "none"
  /\ task = "command" => inbox # <<>>
  /\ current \in 0..Len(loaded)
  /\ collecting \in BOOLEAN /\ pending \in 0..1 /\ taken \in 0..1
  /\ scheduler \in {"none", "running", "done"}
  /\ intervalStart \in 0..Deadline /\ armed \in BOOLEAN /\ timerAt \in 0..Deadline
  /\ now \in 0..MaxClock /\ backlog \in 0..QueueSize
  /\ emitted \in Seq([revision : 1..Len(loaded), sequence : Nat, start : Nat, end : Nat,
                      final : BOOLEAN, requests : 0..1])
  /\ status \in [revision : 0..Len(loaded), active : BOOLEAN]
  /\ cancelled \in BOOLEAN /\ failed \in BOOLEAN /\ late \in BOOLEAN

(* When the controller has handled the deadline, a worker that has load has  *)
(* sent the final delta of its revision as its last, up to the deadline, and *)
(* the collector holds nothing that no delta carried.                        *)
DeadlineReported ==
  pc = "select" /\ current # 0 /\ ~armed /\ ~late /\ isActiveLoad(current) =>
    /\ pending = 0
    /\ emitted # <<>>
    /\ LET d == emitted[Len(emitted)]
       IN  d.revision = current /\ d.final /\ d.end = Deadline

(* Between two steps of the controller, load is generated for the applied    *)
(* revision and for no other, and heartbeats say so.                         *)
LoadMatchesRevision ==
  pc = "select" =>
    /\ scheduler = "running" => status.active /\ loaded[current]
    /\ status.active /\ clock < Deadline /\ ~cancelled => scheduler = "running"
    /\ status.revision = current

(* A revision is closed at most once: "an explicit final-revision marker     *)
(* closes the old revision".  The code breaks this when a revision planned   *)
(* before the deadline is applied after the deadline flush.                  *)
RevisionClosedOnce ==
  \A i, j \in 1..Len(emitted) :
    i < j /\ emitted[i].final => emitted[j].revision # emitted[i].revision

(* Every run ends: the worker stops load and reports idle, or the session or *)
(* the controller stopped.                                                   *)
RunEnds == status.active ~> (~status.active \/ pc = "stopped")
=============================================================================
