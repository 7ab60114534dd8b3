------------------------- MODULE RunControllerProofs -------------------------
(* What a worker's run controller keeps true, for every window, interval,    *)
(* queue and number of revisions: alone, and for the modules that put it     *)
(* behind a stream, the steps of a session it was made for.                  *)
EXTENDS RunController, SequenceTheorems, TLAPS

----------------------------------------------------------------------------
(* The inductive invariant. *)

(* Load runs only for the applied revision, and not while the controller     *)
(* handles a command or the deadline.                                        *)
Scheduling ==
  /\ status.revision = current
  /\ scheduler = "running" => isActiveLoad(current) /\ status.active
  /\ pc \in {"deciding", "flushing"} /\ task # "boundary" => scheduler # "running"
  /\ pc = "select" \/ (pc = "flushing" /\ task = "boundary") =>
       (status.active /\ clock < Deadline /\ ~cancelled => scheduler = "running")
  /\ task = "deadline" => clock >= Deadline

(* A flush is of load that is collected, and a loaded revision applied in    *)
(* time leaves an interval open before the deadline.                         *)
Reporting ==
  /\ pc \in {"draining", "deciding", "flushing"} => task # "none"
  /\ pc = "deciding" => task = "command"
  /\ pc = "flushing" => isActiveLoad(current) /\ collecting
  /\ task = "boundary" => timerAt < Deadline
  /\ isActiveLoad(current) /\ ~late => collecting /\ intervalStart < Deadline
  /\ pc = "flushing" /\ task = "deadline" => pending = 0
  /\ pc = "select" /\ current # 0 /\ ~armed => scheduler # "running"

ControllerInv == TypeOK /\ Scheduling /\ Reporting /\ DeadlineReported

----------------------------------------------------------------------------

(* Boundaries are never beyond the deadline.                                 *)
LEMMA BoundaryInWindow == ASSUME NEW at \in Nat PROVE nextMetricBoundary(at) \in 0..Deadline
<1> USE RunControllerAssumption
<1>1. CASE at < StartsAt
  BY <1>1 DEF nextMetricBoundary, Lesser
<1>2. CASE ~(at < StartsAt)
  <2> DEFINE q == (at - StartsAt) \div Interval
  <2>1. q \in Nat
    BY <1>2
  <2> HIDE DEF q
  <2>2. (q + 1) * Interval \in Nat
    BY <2>1
  <2>3. StartsAt + (q + 1) * Interval \in Nat
    BY <2>2
  <2> QED BY <1>2, <2>3 DEF nextMetricBoundary, Lesser, q
<1> QED BY <1>1, <1>2

LEMMA TakenFacts ==
  ASSUME TypeOK, inbox # <<>>
  PROVE  /\ Head(inbox) \in 1..Len(loaded) /\ loaded[Head(inbox)] \in BOOLEAN
         /\ Tail(inbox) \in Seq(1..Len(loaded))
<1> DEFINE Issued == 1..Len(loaded)
<1>1. inbox \in Seq(Issued)
  BY DEF TypeOK
<1> HIDE DEF Issued
<1>2. Head(inbox) \in Issued /\ Tail(inbox) \in Seq(Issued)
  BY <1>1, HeadTailProperties
<1>3. \A r \in 1..Len(loaded) : loaded[r] \in BOOLEAN
  BY DEF TypeOK
<1> QED BY <1>2, <1>3 DEF Issued

(* Delta is one of this controller's revision.                               *)
LEMMA EnqueueFacts ==
  ASSUME TypeOK, isActiveLoad(current), NEW end \in Nat, NEW final \in BOOLEAN, Enqueue(end, final)
  PROVE  /\ emitted' \in Seq([revision : 1..Len(loaded), sequence : Nat, start : Nat, end : Nat,
                              final : BOOLEAN, requests : 0..1])
         /\ Len(emitted) \in Nat /\ Len(emitted') = Len(emitted) + 1 /\ emitted' # <<>>
         /\ emitted'[Len(emitted')] = Delta(end, final)
         /\ \A i \in 1..Len(emitted) : emitted'[i] = emitted[i]
         /\ backlog' \in 0..QueueSize /\ taken' = 0 /\ pc = "flushing"
<1> DEFINE Sent == [revision : 1..Len(loaded), sequence : Nat, start : Nat, end : Nat,
                    final : BOOLEAN, requests : 0..1]
<1>1. emitted \in Seq(Sent) /\ Len(emitted) \in Nat
  BY LenProperties DEF TypeOK
<1>2. Delta(end, final) \in Sent
  BY <1>1 DEF Delta, TypeOK, isActiveLoad
<1>3. emitted' = Append(emitted, Delta(end, final))
  BY DEF Enqueue
<1>4. backlog' \in 0..QueueSize /\ taken' = 0 /\ pc = "flushing"
  BY RunControllerAssumption DEF Enqueue, TypeOK
<1> HIDE DEF Sent
<1>5. /\ emitted' \in Seq(Sent) /\ Len(emitted') = Len(emitted) + 1
      /\ emitted'[Len(emitted) + 1] = Delta(end, final)
      /\ \A i \in 1..Len(emitted) : emitted'[i] = emitted[i]
  BY <1>1, <1>2, <1>3
<1>6. emitted' # <<>>
  BY <1>1, <1>5, EmptySeq
<1> QED BY <1>1, <1>4, <1>5, <1>6 DEF Sent

(* The state of a session's controller that has just applied r.              *)
LEMMA ApplyFacts ==
  ASSUME TypeOK, NEW r \in 1..Len(loaded), Apply(r), UNCHANGED <<clock, loaded>>
  PROVE  /\ current' = r /\ status' = [revision |-> r, active |-> isActiveLoad(r) /\ now < Deadline]
         /\ status'.revision = r /\ status'.active \in BOOLEAN
         /\ (status'.active <=> isActiveLoad(r) /\ now < Deadline)
         /\ isActiveLoad(r) = loaded[r] /\ isActiveLoad(r) \in BOOLEAN
         /\ status' \in [revision : 0..Len(loaded), active : BOOLEAN]
         /\ IF status'.active THEN collecting' = TRUE /\ scheduler' = "running" /\ intervalStart' < Deadline
                              ELSE UNCHANGED <<collecting, scheduler>>
         /\ intervalStart' \in 0..Deadline /\ timerAt' \in 0..Deadline /\ armed' = TRUE
         /\ late' \in BOOLEAN /\ (late' <=> late \/ now >= Deadline) /\ now' = 0
<1> USE RunControllerAssumption DEF Apply
<1>1. isActiveLoad(r) = loaded[r] /\ isActiveLoad(r) \in BOOLEAN
  BY DEF isActiveLoad, TypeOK
<1>2. /\ current' = r /\ status' = [revision |-> r, active |-> isActiveLoad(r) /\ now < Deadline]
      /\ late' = (late \/ now >= Deadline) /\ now' = 0
  OBVIOUS
<1>3. status'.active = (isActiveLoad(r) /\ now < Deadline) /\ status'.revision = r
  BY <1>2
<1>4. status' \in [revision : 0..Len(loaded), active : BOOLEAN] /\ status'.active \in BOOLEAN
  BY <1>2, <1>3
<1>5. late' \in BOOLEAN /\ (late' <=> late \/ now >= Deadline) /\ now' = 0
  BY <1>2
<1>6. status'.active <=> isActiveLoad(r) /\ now < Deadline
  BY <1>3
<1>7. CASE status'.active
  <2>1. collecting' = TRUE /\ scheduler' = "running" /\ intervalStart' = Greater(now, StartsAt)
    BY <1>7
  <2>2. timerAt' = nextMetricBoundary(now) /\ armed' = TRUE
    BY <1>7 DEF resetTimer
  <2>3. now < Deadline /\ now \in Nat
    <3>1. now < Deadline
      BY <1>3, <1>7
    <3>2. now \in Nat
      BY DEF TypeOK
    <3> QED BY <3>1, <3>2
  <2>4. intervalStart' \in 0..Deadline /\ intervalStart' < Deadline
    BY <2>1, <2>3 DEF Greater
  <2> QED BY <1>1, <1>2, <1>4, <1>7, <1>5, <1>6, <2>1, <2>2, <2>3, <2>4, BoundaryInWindow
<1>8. CASE ~status'.active
  <2>1. UNCHANGED <<collecting, scheduler>> /\ intervalStart' = StartsAt /\ timerAt' = Deadline /\ armed' = TRUE
    BY <1>8 DEF resetTimer
  <2>2. intervalStart' \in 0..Deadline /\ timerAt' \in 0..Deadline
    BY <2>1
  <2> QED BY <1>1, <1>2, <1>4, <1>8, <1>5, <1>6, <2>1, <2>2
<1> QED BY <1>7, <1>8

(* What a command, and the deadline, leave behind.                           *)
LEMMA CommandFacts ==
  ASSUME ControllerInv, FlushRevision \/ ApplyWithoutFlush
  PROVE  /\ task = "command" /\ pc \in {"deciding", "flushing"} /\ inbox # <<>>
         /\ Head(inbox) \in 1..Len(loaded) /\ Apply(Head(inbox))
         /\ inbox' = Tail(inbox) /\ inbox' \in Seq(1..Len(loaded))
         /\ pc' = "select" /\ task' = "none" /\ UNCHANGED <<clock, loaded, cancelled, pending, failed>>
<1>1. task = "command" /\ pc \in {"deciding", "flushing"}
  BY DEF FlushRevision, ApplyWithoutFlush, Enqueue, ControllerInv, Reporting
<1>2. inbox # <<>>
  BY <1>1 DEF ControllerInv, TypeOK
<1> QED BY <1>1, <1>2, TakenFacts DEF FlushRevision, ApplyWithoutFlush, envVars, ControllerInv

LEMMA DeadlineFacts ==
  ASSUME TypeOK, status' = [status EXCEPT !.active = FALSE]
  PROVE  /\ status'.revision = status.revision /\ status'.active = FALSE
         /\ status' \in [revision : 0..Len(loaded), active : BOOLEAN]
BY DEF TypeOK

(* The applied revision and its timer have their types.                      *)
LEMMA AppliedTypes ==
  ASSUME TypeOK, NEW r \in 1..Len(loaded), Apply(r), UNCHANGED <<clock, loaded>>
  PROVE  /\ current' \in 0..Len(loaded) /\ status' \in [revision : 0..Len(loaded), active : BOOLEAN]
         /\ collecting' \in BOOLEAN /\ scheduler' \in {"none", "running", "done"}
         /\ intervalStart' \in 0..Deadline /\ timerAt' \in 0..Deadline /\ armed' \in BOOLEAN
         /\ late' \in BOOLEAN /\ now' \in 0..MaxClock
<1>1. current' \in 0..Len(loaded)
  BY ApplyFacts
<1>2. now' \in 0..MaxClock
  <2>1. now' = 0
    BY ApplyFacts
  <2> QED BY <2>1, RunControllerAssumption
<1>3. collecting' \in BOOLEAN
  BY ApplyFacts DEF TypeOK
<1>4. scheduler' \in {"none", "running", "done"}
  BY ApplyFacts DEF TypeOK
<1>5. armed' \in BOOLEAN
  BY ApplyFacts
<1> QED BY <1>1, <1>2, <1>3, <1>4, <1>5, ApplyFacts

(* A revision is planned, and put on the stream or not.                      *)
Planned(active) ==
  /\ loaded' = Append(loaded, active)
  /\ inbox' \in {inbox, Append(inbox, Len(loaded) + 1)}
  /\ UNCHANGED <<clock, cancelled, pc, task, current, schedVars, timerVars, now, outVars, status,
                 failed, late>>

LEMMA PlannedFacts ==
  ASSUME TypeOK, NEW active \in BOOLEAN, Planned(active)
  PROVE  /\ TypeOK' /\ Len(loaded) \in Nat /\ Len(loaded') = Len(loaded) + 1
         /\ \A r \in 1..Len(loaded) : loaded'[r] = loaded[r]
         /\ isActiveLoad(current)' = isActiveLoad(current)
<1> DEFINE n == Len(loaded)
<1>1. /\ loaded' \in Seq(BOOLEAN) /\ n \in Nat /\ Len(loaded') = n + 1
      /\ \A r \in 1..n : loaded'[r] = loaded[r]
  BY LenProperties DEF Planned, TypeOK
<1>2. inbox' \in Seq(1..(n + 1)) /\ (inbox # <<>> => inbox' # <<>>)
  <2>1. inbox \in Seq(1..n) /\ inbox' \in {inbox, Append(inbox, n + 1)}
    BY DEF Planned, TypeOK
  <2>2. 1..n \in SUBSET (1..(n + 1)) /\ n + 1 \in 1..(n + 1)
    BY <1>1
  <2> HIDE DEF n
  <2> DEFINE S == 1..n T == 1..(n + 1)
  <2>3. inbox \in Seq(S) /\ S \in SUBSET T /\ n + 1 \in T
    BY <2>1, <2>2
  <2> HIDE DEF S, T
  <2>4. inbox \in Seq(T)
    BY <2>3
  <2>5. inbox' \in Seq(T) /\ (inbox # <<>> => inbox' # <<>>)
    BY <2>1, <2>3, <2>4
  <2> QED BY <2>5 DEF T
<1>3. emitted \in Seq([revision : 1..(n + 1), sequence : Nat, start : Nat, end : Nat,
                        final : BOOLEAN, requests : 0..1])
  <2> DEFINE S == [revision : 1..n, sequence : Nat, start : Nat, end : Nat,
                   final : BOOLEAN, requests : 0..1]
             T == [revision : 1..(n + 1), sequence : Nat, start : Nat, end : Nat,
                   final : BOOLEAN, requests : 0..1]
  <2>1. emitted \in Seq(S)
    BY DEF TypeOK
  <2>2. S \in SUBSET T
    BY <1>1
  <2> HIDE DEF S, T
  <2>3. emitted \in Seq(T)
    BY <2>1, <2>2
  <2> QED BY <2>3 DEF T
<1>4. /\ current \in 0..(n + 1) /\ status \in [revision : 0..(n + 1), active : BOOLEAN]
      /\ UNCHANGED <<clock, cancelled, pc, task, current, collecting, pending, taken, scheduler,
                     intervalStart, armed, timerAt, now, backlog, emitted, status, failed, late>>
  BY <1>1 DEF Planned, schedVars, timerVars, outVars, TypeOK
<1>5. isActiveLoad(current)' = isActiveLoad(current)
  BY <1>1, <1>4 DEF isActiveLoad, TypeOK
<1> HIDE DEF n
<1>6. TypeOK'
  BY <1>1, <1>2, <1>3, <1>4 DEF TypeOK
<1> QED BY <1>1, <1>5, <1>6 DEF n

LEMMA TypesKept == ASSUME ControllerInv, [Next]_vars PROVE TypeOK'
<1> USE RunControllerAssumption DEF ControllerInv
<1>0. nextMetricBoundary(timerAt) \in 0..Deadline
  <2>1. timerAt \in Nat
    BY DEF TypeOK
  <2> QED BY <2>1, BoundaryInWindow
<1>1. CASE FlushRevision
  <2>1. /\ inbox' \in Seq(1..Len(loaded)) /\ pc' = "select" /\ task' = "none" /\ Apply(Head(inbox))
        /\ UNCHANGED <<clock, loaded, cancelled, pending, failed>> /\ Head(inbox) \in 1..Len(loaded)
    BY <1>1, CommandFacts
  <2>2. isActiveLoad(current) /\ Enqueue(transitionEnd, TRUE)
    BY <1>1 DEF FlushRevision, Enqueue, Reporting
  <2>3. transitionEnd \in Nat
    BY DEF transitionEnd, Lesser, TypeOK
  <2>4. /\ emitted' \in Seq([revision : 1..Len(loaded), sequence : Nat, start : Nat, end : Nat,
                             final : BOOLEAN, requests : 0..1])
        /\ backlog' \in 0..QueueSize /\ taken' = 0
    BY <2>2, <2>3, EnqueueFacts
  <2>5. /\ current' \in 0..Len(loaded) /\ status' \in [revision : 0..Len(loaded), active : BOOLEAN]
        /\ collecting' \in BOOLEAN /\ scheduler' \in {"none", "running", "done"}
        /\ intervalStart' \in 0..Deadline /\ timerAt' \in 0..Deadline /\ armed' \in BOOLEAN
        /\ late' \in BOOLEAN /\ now' \in 0..MaxClock
    BY <2>1, AppliedTypes
  <2> QED BY <2>1, <2>4, <2>5 DEF TypeOK
<1>2. CASE ApplyWithoutFlush
  <2>1. /\ inbox' \in Seq(1..Len(loaded)) /\ pc' = "select" /\ task' = "none" /\ Apply(Head(inbox))
        /\ UNCHANGED <<clock, loaded, cancelled, pending, failed>> /\ Head(inbox) \in 1..Len(loaded)
        /\ UNCHANGED <<taken, backlog, emitted>>
    BY <1>2, CommandFacts DEF ApplyWithoutFlush, outVars
  <2>2. /\ current' \in 0..Len(loaded) /\ status' \in [revision : 0..Len(loaded), active : BOOLEAN]
        /\ collecting' \in BOOLEAN /\ scheduler' \in {"none", "running", "done"}
        /\ intervalStart' \in 0..Deadline /\ timerAt' \in 0..Deadline /\ armed' \in BOOLEAN
        /\ late' \in BOOLEAN /\ now' \in 0..MaxClock
    BY <2>1, AppliedTypes
  <2> QED BY <2>1, <2>2 DEF TypeOK
<1>3. CASE BoundaryTimer
  <2>1. UNCHANGED <<clock, loaded, cancelled, inbox, current, collecting, scheduler, intervalStart,
                    now, backlog, emitted, status, failed, late>>
    BY <1>3 DEF BoundaryTimer, envVars, outVars
  <2>2. CASE BeginFlush /\ task' = "boundary" /\ UNCHANGED <<timerAt, armed>>
    BY <2>1, <2>2 DEF BeginFlush, TypeOK
  <2>3. CASE resetTimer(nextMetricBoundary(timerAt)) /\ UNCHANGED <<pc, task, pending, taken>>
    BY <1>0, <2>1, <2>3 DEF resetTimer, TypeOK
  <2> QED BY <1>3, <2>2, <2>3 DEF BoundaryTimer
<1>4. CASE FlushBoundary
  <2>1. isActiveLoad(current) /\ Enqueue(timerAt, FALSE) /\ timerAt \in Nat
    <3>1. Enqueue(timerAt, FALSE)
      BY <1>4 DEF FlushBoundary
    <3>2. timerAt \in Nat
      BY DEF TypeOK
    <3> QED BY <3>1, <3>2 DEF Enqueue, Reporting
  <2>2. /\ emitted' \in Seq([revision : 1..Len(loaded), sequence : Nat, start : Nat, end : Nat,
                             final : BOOLEAN, requests : 0..1])
        /\ backlog' \in 0..QueueSize /\ taken' = 0
    BY <2>1, EnqueueFacts
  <2>3. /\ intervalStart' = timerAt /\ timerAt' \in 0..Deadline /\ armed' = TRUE
        /\ pc' = "select" /\ task' = "none"
        /\ UNCHANGED <<clock, loaded, cancelled, inbox, current, collecting, pending, scheduler, now,
                       status, failed, late>>
    BY <1>0, <1>4 DEF FlushBoundary, resetTimer, envVars
  <2> QED BY <2>2, <2>3 DEF TypeOK
<1>5. CASE DeadlineDrained
  <2>1. \/ status' = status
        \/ status' = [status EXCEPT !.active = FALSE]
    BY <1>5 DEF DeadlineDrained
  <2>2. status' \in [revision : 0..Len(loaded), active : BOOLEAN]
    <3>1. CASE status' = status
      BY <1>5, <3>1 DEF TypeOK
    <3>2. CASE status' = [status EXCEPT !.active = FALSE]
      BY <3>2, DeadlineFacts
    <3> QED BY <2>1, <3>1, <3>2
  <2>3. /\ UNCHANGED <<clock, loaded, cancelled, inbox, current, collecting, intervalStart, timerAt,
                       now, backlog, emitted, failed, late>>
        /\ scheduler' = "none" /\ task = "deadline"
    BY <1>5 DEF DeadlineDrained, envVars, outVars
  <2>4. CASE BeginFlush /\ UNCHANGED <<task, armed, status>>
    BY <2>3, <2>4 DEF BeginFlush, TypeOK
  <2>5. CASE pc' = "select" /\ task' = "none" /\ armed' = FALSE /\ UNCHANGED <<pending, taken>>
    BY <2>2, <2>3, <2>5 DEF TypeOK
  <2> QED BY <1>5, <2>4, <2>5 DEF DeadlineDrained
<1>6. CASE FlushDeadline
  <2>1. isActiveLoad(current) /\ Enqueue(Deadline, TRUE) /\ Deadline \in Nat
    BY <1>6 DEF FlushDeadline, Enqueue, Reporting
  <2>2. /\ emitted' \in Seq([revision : 1..Len(loaded), sequence : Nat, start : Nat, end : Nat,
                             final : BOOLEAN, requests : 0..1])
        /\ backlog' \in 0..QueueSize /\ taken' = 0
    BY <2>1, EnqueueFacts
  <2>3. status' \in [revision : 0..Len(loaded), active : BOOLEAN]
    BY <1>6, DeadlineFacts DEF FlushDeadline
  <2>4. /\ pc' = "select" /\ task' = "none" /\ armed' = FALSE
        /\ UNCHANGED <<clock, loaded, cancelled, inbox, current, collecting, pending, scheduler,
                       intervalStart, timerAt, now, failed, late>>
    BY <1>6 DEF FlushDeadline, envVars
  <2>5. /\ emitted' \in Seq([revision : 1..Len(loaded'), sequence : Nat, start : Nat, end : Nat,
                             final : BOOLEAN, requests : 0..1])
        /\ status' \in [revision : 0..Len(loaded'), active : BOOLEAN]
    BY <2>2, <2>3, <2>4
  <2>6. armed' \in BOOLEAN
    BY <2>4
  <2> QED BY <2>2, <2>4, <2>5, <2>6 DEF TypeOK
<1>7. CASE Return
  <2>1. failed' \in BOOLEAN
    BY <1>7 DEF Return
  <2>2. /\ pc' = "stopped" /\ armed' = FALSE /\ now' = 0
        /\ UNCHANGED <<clock, loaded, cancelled, inbox, task, current, collecting, pending, taken,
                       scheduler, intervalStart, timerAt, backlog, emitted, status, late>>
    BY <1>7 DEF Return, envVars, schedVars, outVars
  <2>3. armed' \in BOOLEAN
    BY <2>2
  <2> QED BY <2>1, <2>2, <2>3 DEF TypeOK
<1>8. ASSUME NEW active \in BOOLEAN, Issue(active) PROVE TypeOK'
  BY <1>8, PlannedFacts DEF Issue, Planned
<1>9. ASSUME \/ TakeCommand \/ CommandDrained \/ RejectOverdue \/ BeginRevisionFlush \/ DeadlineTimer
             \/ ReapScheduler \/ Request \/ SchedulerEnds \/ WriteMessage \/ Heartbeat \/ Cancel \/ Tick
             \/ UNCHANGED vars
      PROVE  TypeOK'
  <2> USE DEF envVars, schedVars, timerVars, outVars, TypeOK
  <2>1. CASE TakeCommand
    BY <2>1 DEF TakeCommand
  <2>2. CASE CommandDrained
    BY <2>2 DEF CommandDrained, Drained
  <2>3. CASE RejectOverdue
    BY <2>3 DEF RejectOverdue
  <2>4. CASE BeginRevisionFlush
    BY <2>4 DEF BeginRevisionFlush, BeginFlush
  <2>5. CASE DeadlineTimer
    BY <2>5 DEF DeadlineTimer, TimerFires
  <2>6. CASE ReapScheduler
    BY <2>6 DEF ReapScheduler
  <2>7. CASE Request
    BY <2>7 DEF Request
  <2>8. CASE SchedulerEnds
    BY <2>8 DEF SchedulerEnds
  <2>9. CASE WriteMessage
    BY <2>9 DEF WriteMessage
  <2>10. CASE Heartbeat
    BY <2>10 DEF Heartbeat
  <2>11. CASE Cancel
    BY <2>11 DEF Cancel
  <2>12. CASE Tick
    BY <2>12 DEF Tick
  <2>13. CASE UNCHANGED vars
    BY <2>13 DEF vars
  <2> QED BY <1>9, <2>1, <2>2, <2>3, <2>4, <2>5, <2>6, <2>7, <2>8, <2>9, <2>10, <2>11, <2>12, <2>13
<1> QED BY <1>1, <1>2, <1>3, <1>4, <1>5, <1>6, <1>7, <1>8, <1>9 DEF Next, Controller

(* What follows from applying the command in hand.                           *)
LEMMA AppliedFacts ==
  ASSUME ControllerInv, FlushRevision \/ ApplyWithoutFlush
  PROVE  /\ pc' = "select" /\ task' = "none" /\ armed' = TRUE
         /\ status'.revision = current' /\ isActiveLoad(current)' = isActiveLoad(current')
         /\ (scheduler' = "running" <=> status'.active)
         /\ (status'.active <=> isActiveLoad(current') /\ now < Deadline)
         /\ (isActiveLoad(current') /\ ~late' => collecting' /\ intervalStart' < Deadline)
<1> DEFINE r == Head(inbox)
<1>1. /\ r \in 1..Len(loaded) /\ Apply(r) /\ UNCHANGED <<clock, loaded>>
      /\ pc \in {"deciding", "flushing"} /\ task = "command"
      /\ pc' = "select" /\ task' = "none" /\ TypeOK
  BY CommandFacts DEF ControllerInv
<1>2. scheduler # "running"
  BY <1>1 DEF ControllerInv, Scheduling
<1>3. isActiveLoad(current)' = isActiveLoad(current')
  BY <1>1 DEF isActiveLoad
<1> HIDE DEF r
<1>4. /\ current' = r /\ status'.revision = r /\ armed' = TRUE
      /\ (status'.active <=> isActiveLoad(r) /\ now < Deadline)
      /\ (status'.active => collecting' = TRUE /\ scheduler' = "running" /\ intervalStart' < Deadline)
      /\ (~status'.active => scheduler' = scheduler)
      /\ (late' <=> late \/ now >= Deadline)
  BY <1>1, ApplyFacts
<1>5. now < Deadline \/ now >= Deadline
  BY <1>1, RunControllerAssumption DEF TypeOK
<1> QED BY <1>1, <1>2, <1>3, <1>4, <1>5

LEMMA PlannedKeeps ==
  ASSUME ControllerInv, NEW active \in BOOLEAN, Planned(active)
  PROVE  Scheduling' /\ Reporting' /\ DeadlineReported'
<1> USE DEF ControllerInv
<1>1. isActiveLoad(current)' = isActiveLoad(current)
  BY PlannedFacts
<1>2. Scheduling'
  BY <1>1 DEF Planned, schedVars, timerVars, outVars, Scheduling
<1>3. Reporting'
  BY <1>1 DEF Planned, schedVars, timerVars, outVars, Reporting
<1>4. DeadlineReported'
  BY <1>1 DEF Planned, schedVars, timerVars, outVars, DeadlineReported
<1> QED BY <1>2, <1>3, <1>4

LEMMA SchedulingKept == ASSUME ControllerInv, TypeOK', [Next]_vars PROVE Scheduling'
<1> USE RunControllerAssumption DEF ControllerInv
<1>1. CASE FlushRevision \/ ApplyWithoutFlush
  BY <1>1, AppliedFacts DEF Scheduling
<1>2. CASE FlushDeadline
  <2>1. /\ task = "deadline" /\ pc = "flushing" /\ pc' = "select" /\ task' = "none"
        /\ UNCHANGED <<clock, loaded, current, scheduler>>
    BY <1>2 DEF FlushDeadline, Enqueue, envVars
  <2>2. status'.revision = status.revision /\ status'.active = FALSE
    BY <1>2, DeadlineFacts DEF FlushDeadline
  <2> QED BY <2>1, <2>2 DEF Scheduling
<1>3. ASSUME NEW active \in BOOLEAN, Issue(active) PROVE Scheduling'
  BY <1>3, PlannedKeeps DEF Issue, Planned
<1>4. ASSUME \/ TakeCommand \/ CommandDrained \/ RejectOverdue \/ BeginRevisionFlush \/ BoundaryTimer
             \/ FlushBoundary \/ DeadlineTimer \/ DeadlineDrained \/ ReapScheduler \/ Return \/ Request
             \/ SchedulerEnds \/ WriteMessage \/ Heartbeat \/ Cancel \/ Tick \/ UNCHANGED vars
      PROVE  Scheduling'
  <2> USE DEF Scheduling, Reporting, envVars, schedVars, timerVars, outVars, isActiveLoad, TypeOK
  <2>1. CASE TakeCommand
    BY <2>1 DEF TakeCommand, MustDrain
  <2>2. CASE CommandDrained
    BY <2>2 DEF CommandDrained, Drained
  <2>3. CASE RejectOverdue
    BY <2>3 DEF RejectOverdue
  <2>4. CASE BeginRevisionFlush
    BY <2>4 DEF BeginRevisionFlush, BeginFlush, MustReport
  <2>5. CASE BoundaryTimer
    BY <2>5 DEF BoundaryTimer, TimerFires, BeginFlush, resetTimer
  <2>6. CASE FlushBoundary
    BY <2>6 DEF FlushBoundary, Enqueue, resetTimer
  <2>7. CASE DeadlineTimer
    BY <2>7 DEF DeadlineTimer, TimerFires
  <2>8. CASE DeadlineDrained
    BY <2>8 DEF DeadlineDrained, Drained, OwesFinal, BeginFlush
  <2>9. CASE ReapScheduler
    BY <2>9 DEF ReapScheduler
  <2>10. CASE Return
    BY <2>10 DEF Return, Interruptible
  <2>11. CASE Request
    BY <2>11 DEF Request
  <2>12. CASE SchedulerEnds
    BY <2>12 DEF SchedulerEnds
  <2>13. CASE WriteMessage
    BY <2>13 DEF WriteMessage
  <2>14. CASE Heartbeat
    BY <2>14 DEF Heartbeat
  <2>15. CASE Cancel
    BY <2>15 DEF Cancel
  <2>16. CASE Tick
    BY <2>16 DEF Tick
  <2>17. CASE UNCHANGED vars
    BY <2>17 DEF vars
  <2> QED BY <1>4, <2>1, <2>2, <2>3, <2>4, <2>5, <2>6, <2>7, <2>8, <2>9, <2>10, <2>11, <2>12, <2>13, <2>14, <2>15, <2>16, <2>17
<1> QED BY <1>1, <1>2, <1>3, <1>4 DEF Next, Controller

LEMMA ReportingKept == ASSUME ControllerInv, TypeOK', [Next]_vars PROVE Reporting'
<1> USE RunControllerAssumption DEF ControllerInv
<1>1. CASE FlushRevision \/ ApplyWithoutFlush
  BY <1>1, AppliedFacts DEF Reporting
<1>2. CASE FlushDeadline
  <2>1. /\ task = "deadline" /\ pc = "flushing" /\ pc' = "select" /\ task' = "none"
        /\ UNCHANGED <<loaded, current, scheduler, collecting, intervalStart, late>>
    BY <1>2 DEF FlushDeadline, Enqueue, envVars
  <2>2. isActiveLoad(current)' = isActiveLoad(current) /\ scheduler # "running"
    BY <2>1 DEF isActiveLoad, Scheduling
  <2> QED BY <2>1, <2>2 DEF Reporting
<1>3. ASSUME NEW active \in BOOLEAN, Issue(active) PROVE Reporting'
  BY <1>3, PlannedKeeps DEF Issue, Planned
<1>4. ASSUME \/ TakeCommand \/ CommandDrained \/ RejectOverdue \/ BeginRevisionFlush \/ BoundaryTimer
             \/ FlushBoundary \/ DeadlineTimer \/ DeadlineDrained \/ ReapScheduler \/ Return \/ Request
             \/ SchedulerEnds \/ WriteMessage \/ Heartbeat \/ Cancel \/ Tick \/ UNCHANGED vars
      PROVE  Reporting'
  <2> USE DEF Scheduling, Reporting, envVars, schedVars, timerVars, outVars, isActiveLoad, TypeOK
  <2>1. CASE TakeCommand
    BY <2>1 DEF TakeCommand, MustDrain
  <2>2. CASE CommandDrained
    BY <2>2 DEF CommandDrained, Drained
  <2>3. CASE RejectOverdue
    BY <2>3 DEF RejectOverdue
  <2>4. CASE BeginRevisionFlush
    BY <2>4 DEF BeginRevisionFlush, BeginFlush, MustReport
  <2>5. CASE BoundaryTimer
    BY <2>5 DEF BoundaryTimer, TimerFires, BeginFlush, resetTimer
  <2>6. CASE FlushBoundary
    BY <2>6 DEF FlushBoundary, Enqueue, resetTimer
  <2>7. CASE DeadlineTimer
    BY <2>7 DEF DeadlineTimer, TimerFires
  <2>8. CASE DeadlineDrained
    BY <2>8 DEF DeadlineDrained, Drained, OwesFinal, BeginFlush
  <2>9. CASE ReapScheduler
    BY <2>9 DEF ReapScheduler
  <2>10. CASE Return
    BY <2>10 DEF Return, Interruptible
  <2>11. CASE Request
    BY <2>11 DEF Request
  <2>12. CASE SchedulerEnds
    BY <2>12 DEF SchedulerEnds
  <2>13. CASE WriteMessage
    BY <2>13 DEF WriteMessage
  <2>14. CASE Heartbeat
    BY <2>14 DEF Heartbeat
  <2>15. CASE Cancel
    BY <2>15 DEF Cancel
  <2>16. CASE Tick
    BY <2>16 DEF Tick
  <2>17. CASE UNCHANGED vars
    BY <2>17 DEF vars
  <2> QED BY <1>4, <2>1, <2>2, <2>3, <2>4, <2>5, <2>6, <2>7, <2>8, <2>9, <2>10, <2>11, <2>12, <2>13, <2>14, <2>15, <2>16, <2>17
<1> QED BY <1>1, <1>2, <1>3, <1>4 DEF Next, Controller

LEMMA DeadlineReportedKept == ASSUME ControllerInv, TypeOK', Scheduling', [Next]_vars PROVE DeadlineReported'
<1> USE RunControllerAssumption DEF ControllerInv
<1>1. CASE FlushRevision \/ ApplyWithoutFlush
  BY <1>1, AppliedFacts DEF DeadlineReported
<1>2. CASE FlushDeadline
  <2>1. isActiveLoad(current) /\ Enqueue(Deadline, TRUE) /\ Deadline \in Nat /\ pending = 0
    BY <1>2 DEF FlushDeadline, Enqueue, Reporting
  <2>2. emitted'[Len(emitted')] = Delta(Deadline, TRUE) /\ emitted' # <<>>
    BY <2>1, EnqueueFacts
  <2>3. UNCHANGED <<current, pending>>
    BY <1>2 DEF FlushDeadline
  <2>4. /\ Delta(Deadline, TRUE).revision = current /\ Delta(Deadline, TRUE).end = Deadline
        /\ Delta(Deadline, TRUE).final = TRUE
    BY DEF Delta
  <2> QED BY <2>1, <2>2, <2>3, <2>4 DEF DeadlineReported
<1>3. ASSUME NEW active \in BOOLEAN, Issue(active) PROVE DeadlineReported'
  BY <1>3, PlannedKeeps DEF Issue, Planned
<1>4. ASSUME \/ TakeCommand \/ CommandDrained \/ RejectOverdue \/ BeginRevisionFlush \/ BoundaryTimer
             \/ FlushBoundary \/ DeadlineTimer \/ DeadlineDrained \/ ReapScheduler \/ Return \/ Request
             \/ SchedulerEnds \/ WriteMessage \/ Heartbeat \/ Cancel \/ Tick \/ UNCHANGED vars
      PROVE  DeadlineReported'
  <2> USE DEF Scheduling, Reporting, DeadlineReported, envVars, schedVars, timerVars, outVars,
              isActiveLoad, TypeOK
  <2>1. CASE TakeCommand
    BY <2>1 DEF TakeCommand, MustDrain
  <2>2. CASE CommandDrained
    BY <2>2 DEF CommandDrained, Drained
  <2>3. CASE RejectOverdue
    BY <2>3 DEF RejectOverdue
  <2>4. CASE BeginRevisionFlush
    BY <2>4 DEF BeginRevisionFlush, BeginFlush, MustReport
  <2>5. CASE BoundaryTimer
    BY <2>5 DEF BoundaryTimer, TimerFires, BeginFlush, resetTimer
  <2>6. CASE FlushBoundary
    BY <2>6 DEF FlushBoundary, Enqueue, resetTimer
  <2>7. CASE DeadlineTimer
    BY <2>7 DEF DeadlineTimer, TimerFires
  <2>8. CASE DeadlineDrained
    BY <2>8 DEF DeadlineDrained, Drained, OwesFinal, BeginFlush
  <2>9. CASE ReapScheduler
    BY <2>9 DEF ReapScheduler
  <2>10. CASE Return
    BY <2>10 DEF Return, Interruptible
  <2>11. CASE Request
    BY <2>11 DEF Request
  <2>12. CASE SchedulerEnds
    BY <2>12 DEF SchedulerEnds
  <2>13. CASE WriteMessage
    BY <2>13 DEF WriteMessage
  <2>14. CASE Heartbeat
    BY <2>14 DEF Heartbeat
  <2>15. CASE Cancel
    BY <2>15 DEF Cancel
  <2>16. CASE Tick
    BY <2>16 DEF Tick
  <2>17. CASE UNCHANGED vars
    BY <2>17 DEF vars
  <2> QED BY <1>4, <2>1, <2>2, <2>3, <2>4, <2>5, <2>6, <2>7, <2>8, <2>9, <2>10, <2>11, <2>12, <2>13, <2>14, <2>15, <2>16, <2>17
<1> QED BY <1>1, <1>2, <1>3, <1>4 DEF Next, Controller

LEMMA InitControllerInv == Init => ControllerInv
<1> SUFFICES ASSUME Init PROVE ControllerInv
  OBVIOUS
<1> USE RunControllerAssumption DEF Init, Idle
<1>1. TypeOK
  <2>1. \A S : <<>> \in Seq(S)
    OBVIOUS
  <2>2. Len(loaded) = 0
    OBVIOUS
  <2>3. status \in [revision : 0..Len(loaded), active : BOOLEAN]
    BY <2>2
  <2>4. /\ loaded \in Seq(BOOLEAN) /\ inbox \in Seq(1..Len(loaded))
        /\ emitted \in Seq([revision : 1..Len(loaded), sequence : Nat, start : Nat, end : Nat,
                             final : BOOLEAN, requests : 0..1])
    BY <2>1
  <2>5. /\ clock \in 0..MaxClock /\ now \in 0..MaxClock /\ backlog \in 0..QueueSize
        /\ intervalStart \in 0..Deadline /\ timerAt \in 0..Deadline /\ current \in 0..Len(loaded)
        /\ pending \in 0..1 /\ taken \in 0..1
    BY <2>2
  <2>6. /\ collecting \in BOOLEAN /\ armed \in BOOLEAN /\ cancelled \in BOOLEAN
        /\ failed \in BOOLEAN /\ late \in BOOLEAN
    OBVIOUS
  <2>7. /\ pc = "select" /\ task = "none" /\ scheduler = "none"
    OBVIOUS
  <2> HIDE DEF Init
  <2> QED BY <2>3, <2>4, <2>5, <2>6, <2>7 DEF TypeOK
<1>2. Scheduling /\ Reporting /\ DeadlineReported
  BY DEF Scheduling, Reporting, DeadlineReported, isActiveLoad
<1> QED BY <1>1, <1>2 DEF ControllerInv

(* The four are kept together.                                               *)
LEMMA ControllerInvKept == ASSUME ControllerInv, [Next]_vars PROVE ControllerInv'
BY TypesKept, SchedulingKept, ReportingKept, DeadlineReportedKept DEF ControllerInv

(* A revision that does not reach this worker, and a new session after the   *)
(* old one is closed, keep them too.                                         *)
LEMMA PlannedElsewhereKept ==
  ASSUME ControllerInv, loaded' = Append(loaded, FALSE), UNCHANGED inbox,
         UNCHANGED <<clock, cancelled, pc, task, current, schedVars, timerVars, now, outVars, status,
                     failed, late>>
  PROVE  ControllerInv'
<1>1. Planned(FALSE)
  BY DEF Planned
<1> QED BY <1>1, PlannedFacts, PlannedKeeps DEF ControllerInv

Restarted ==
  /\ inbox' = <<>> /\ pc' = "select" /\ task' = "none" /\ current' = 0
  /\ collecting' = FALSE /\ pending' = 0 /\ taken' = 0 /\ scheduler' = "none"
  /\ intervalStart' = 0 /\ armed' = FALSE /\ timerAt' = 0 /\ now' = 0
  /\ backlog' = 0 /\ emitted' = <<>> /\ status' = Idle
  /\ cancelled' = FALSE /\ failed' = FALSE
  /\ UNCHANGED <<late, clock, loaded>>

LEMMA RestartKept == ASSUME ControllerInv, Restarted PROVE ControllerInv'
<1> USE RunControllerAssumption DEF Restarted, Idle, ControllerInv
<1>1. TypeOK'
  <2>1. \A S : <<>> \in Seq(S)
    OBVIOUS
  <2>2. Len(loaded) \in Nat /\ Len(loaded') = Len(loaded) /\ loaded' \in Seq(BOOLEAN)
    BY LenProperties DEF TypeOK
  <2>3. status' \in [revision : 0..Len(loaded'), active : BOOLEAN]
    BY <2>2
  <2>4. /\ inbox' \in Seq(1..Len(loaded'))
        /\ emitted' \in Seq([revision : 1..Len(loaded'), sequence : Nat, start : Nat, end : Nat,
                              final : BOOLEAN, requests : 0..1])
    BY <2>1
  <2>5. /\ clock' \in 0..MaxClock /\ now' \in 0..MaxClock /\ backlog' \in 0..QueueSize
        /\ intervalStart' \in 0..Deadline /\ timerAt' \in 0..Deadline /\ current' \in 0..Len(loaded')
        /\ pending' \in 0..1 /\ taken' \in 0..1
    BY <2>2 DEF TypeOK
  <2>6. collecting' \in BOOLEAN /\ armed' \in BOOLEAN /\ cancelled' \in BOOLEAN /\ failed' \in BOOLEAN
    OBVIOUS
  <2>7. late' \in BOOLEAN /\ pc' = "select" /\ task' = "none" /\ scheduler' = "none"
    BY DEF TypeOK
  <2> HIDE DEF Restarted
  <2> QED BY <2>2, <2>3, <2>4, <2>5, <2>6, <2>7 DEF TypeOK
<1>2. isActiveLoad(current)' = FALSE
  BY DEF isActiveLoad
<1>3. Scheduling' /\ Reporting' /\ DeadlineReported'
  BY <1>2 DEF Scheduling, Reporting, DeadlineReported
<1> QED BY <1>1, <1>3

THEOREM Invariance == Spec => []ControllerInv
<1>1. ControllerInv /\ [Next]_vars => ControllerInv'
  BY ControllerInvKept
<1> QED BY InitControllerInv, <1>1, PTL DEF Spec

(* Every variable of the controller keeps its type: the timer and the open   *)
(* interval never leave the run window, and no delta is of an unknown        *)
(* revision.                                                                 *)
THEOREM TypeCorrectness == Spec => []TypeOK
<1>1. ControllerInv => TypeOK
  BY DEF ControllerInv
<1> QED BY Invariance, <1>1, PTL

(* A worker with load that handled the deadline has sent its final delta as  *)
(* its last, up to the deadline, and holds no sample that it did not send.   *)
THEOREM FinalsAreSent == Spec => []DeadlineReported
<1>1. ControllerInv => DeadlineReported
  BY DEF ControllerInv
<1> QED BY Invariance, <1>1, PTL

(* Load is generated for the applied revision and for no other.              *)
THEOREM LoadFollowsRevisions == Spec => []LoadMatchesRevision
<1>1. ControllerInv => LoadMatchesRevision
  BY DEF ControllerInv, Scheduling, LoadMatchesRevision, isActiveLoad
<1> QED BY Invariance, <1>1, PTL
=============================================================================
