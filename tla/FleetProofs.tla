------------------------------ MODULE FleetProofs ------------------------------
(* What holds between a worker and the aggregator, for every window,         *)
(* interval, queue, number of revisions and number of sessions.              *)
EXTENDS Fleet, RunControllerProofs

----------------------------------------------------------------------------
(* The inductive invariant, on top of the controller's. *)

account == workers[Worker]
LastSent == emitted[Len(emitted)]
InHand == task = "command" /\ pc # "stopped"

FleetTypes ==
  /\ session \in 1..MaxSessions /\ from \in 0..session /\ delivered \in 0..Len(emitted)
  /\ DOMAIN workers = {Worker} /\ DOMAIN merged = {Worker} /\ snapshot \in Nat
  /\ account.lastSequence \in Nat /\ account.lastInterval \in 0..Deadline
  /\ account.lastRevision \in 0..Len(loaded) /\ account.closedRevision \in 0..Len(loaded)
  /\ account.finalRevision \in 0..Len(loaded) /\ account.snapshot = snapshot
  /\ Len(loaded) <= MaxRevision /\ violations \subseteq {Worker}
  /\ measured \in [1..MaxSessions -> Nat]

(* The stream delivers revisions in order, and none again.                   *)
InOrder ==
  /\ \A i \in 1..Len(inbox) : inbox[i] > current
  /\ \A i, j \in 1..Len(inbox) : i < j => inbox[i] < inbox[j]

(* Deltas are numbered, of revisions applied, and of time that has passed    *)
(* when they are sent and when the command in hand was timestamped.          *)
Timing ==
  /\ \A i \in 1..Len(emitted) :
       emitted[i].sequence = i /\ emitted[i].revision <= current /\ emitted[i].end <= clock
  /\ InHand => now <= clock /\ \A i \in 1..Len(emitted) : emitted[i].end <= now
  /\ task = "boundary" => timerAt <= clock

(* A flush is of an interval that is neither empty nor, for a command,       *)
(* longer than the cadence.                                                  *)
Flushing ==
  /\ pc = "flushing" /\ task = "command" => transitionEnd > intervalStart /\ ~Overdue
  /\ task = "boundary" => timerAt > intervalStart
  /\ task = "deadline" => timerAt = Deadline /\ (pc = "flushing" => Deadline > intervalStart)

(* The aggregator's state of the worker is that of the last delta merged.    *)
Account ==
  /\ from = 0 => account = Agg!ZeroState /\ snapshot = 0 /\ (~cancelled => delivered = 0)
  /\ from # 0 =>
       /\ account.lastDelta.end = account.lastInterval
       /\ account.lastDelta.sequence = account.lastSequence /\ account.lastSequence >= 1
       /\ account.lastDelta.revision = account.lastRevision /\ account.lastRevision >= 1
       /\ StartsAt < account.lastInterval /\ account.lastInterval <= clock
       /\ snapshot <= account.lastInterval
       /\ account.closedRevision <= account.lastRevision
       /\ account.closedRevision = account.lastRevision => account.lastDelta.final
  /\ from = session =>
       /\ account.lastSequence <= delivered
       /\ account.lastDelta = Message(emitted[account.lastSequence])
       /\ ~cancelled => delivered = account.lastSequence

(* A session that follows one that was merged has no first delta that the    *)
(* aggregator would take for a redelivery: its time is later, or it is sent  *)
(* for a revision applied after the deadline.                                *)
Belated == timerAt = Deadline /\ clock >= Deadline /\ (InHand => now >= Deadline)
Superseded ==
  from \notin {0, session} =>
    /\ ~cancelled => delivered = 0
    /\ emitted # <<>> => emitted[1].end > account.lastInterval
    /\ collecting => account.lastInterval < Deadline
    /\ InHand => now >= account.lastInterval
    /\ emitted = <<>> /\ isActiveLoad(current) /\ collecting =>
         intervalStart >= account.lastInterval \/ Belated

(* While no revision was applied late: the open interval reaches to the next *)
(* boundary, and deltas are well-formed and follow each other, the next one  *)
(* included.                                                                 *)
OnGrid(at) == at > StartsAt /\ (at - StartsAt) % Interval = 0
Contiguous(r, s) == \A q \in r..s : loaded[q]
WellFormed(d) ==
  /\ StartsAt <= d.start /\ d.start < d.end /\ d.end <= d.start + Interval /\ d.end <= Deadline
  /\ IF d.final THEN d.end = Deadline \/ d.revision < Len(loaded) ELSE d.end < Deadline /\ OnGrid(d.end)
Follows(d, e) ==
  /\ d.revision <= e.revision /\ (d.final => d.revision < e.revision)
  /\ d.end <= e.start /\ (Contiguous(d.revision, e.revision) => d.end = e.start)
OpenInterval ==
  ~late /\ isActiveLoad(current) =>
    /\ StartsAt <= intervalStart /\ intervalStart < timerAt /\ timerAt <= intervalStart + Interval
    /\ timerAt = Deadline \/ OnGrid(timerAt)
Chained ==
  ~late => /\ \A i \in 1..Len(emitted) : WellFormed(emitted[i])
           /\ \A i \in 1..Len(emitted) - 1 : Follows(emitted[i], emitted[i + 1])
Frontier ==
  ~late /\ emitted # <<>> =>
    /\ LastSent.end = Deadline => ~armed /\ task \in {"none", "command"}
    /\ LastSent.final => LastSent.revision < current \/ LastSent.end = Deadline
    /\ LastSent.end < Deadline /\ isActiveLoad(current) =>
         /\ LastSent.end <= intervalStart
         /\ Contiguous(LastSent.revision, current) => LastSent.end = intervalStart

(* What a session measured is what its deltas carry, with what it still      *)
(* holds; the total is what the delivered ones carry.  sums are the deltas'  *)
(* partial sums.                                                             *)
PartialSums(sums) ==
  /\ sums \in [0..Len(emitted) -> Nat] /\ sums[0] = 0
  /\ \A i \in 1..Len(emitted) : sums[i] = sums[i - 1] + emitted[i].requests
Accounted(sums) ==
  /\ measured[session] = sums[Len(emitted)] + taken + pending
  /\ from \in {0, session} /\ ~cancelled => snapshot = sums[delivered]
Conserved ==
  /\ pc \notin {"flushing", "stopped"} => taken = 0
  /\ \A s \in 1..MaxSessions : s > session => measured[s] = 0
  /\ \E sums \in [0..Len(emitted) -> Nat] : PartialSums(sums) /\ Accounted(sums)

(* A delta up to the deadline under the latest revision is a session's last, *)
(* and nothing is measured after it; once it is merged, the total is that of *)
(* its session.                                                              *)
LastWord ==
  \A i \in 1..Len(emitted) : emitted[i].end = Deadline /\ emitted[i].revision = Len(loaded) =>
    /\ i = Len(emitted) /\ current = Len(loaded)
    /\ pending = 0 /\ taken = 0 /\ scheduler # "running" /\ task = "none" /\ ~armed
FinalTotal ==
  account.finalRevision # 0 =>
    /\ from # 0 /\ account.finalRevision = Len(loaded) /\ clock >= Deadline
    /\ snapshot = measured[from]
    /\ from = session => /\ emitted # <<>> /\ delivered = Len(emitted)
                         /\ LastSent.end = Deadline /\ LastSent.revision = Len(loaded)

FleetInv ==
  /\ ControllerInv /\ FleetTypes /\ InOrder /\ Timing /\ Flushing /\ Account /\ Superseded
  /\ OpenInterval /\ Chained /\ Frontier /\ HonestNeverRejected
  /\ Conserved /\ LastWord /\ FinalTotal

----------------------------------------------------------------------------
(* The controller's part: a delivery is no step of it, or the session's end. *)
LEMMA ControllerKept == ASSUME ControllerInv, [FleetNext]_allVars PROVE ControllerInv'
<1>1. CASE Work
  BY <1>1, ControllerInvKept DEF Work, Next
<1>2. CASE MeasuredRequest
  BY <1>2, ControllerInvKept DEF MeasuredRequest, Next
<1>3. CASE Deliver
  <2>1. Cancel \/ UNCHANGED vars
    <3>1. /\ ~cancelled /\ (UNCHANGED cancelled \/ cancelled' = TRUE)
          /\ UNCHANGED <<clock, loaded, inbox, pc, task, current, schedVars, timerVars, now, outVars,
                         status, failed, late>>
      BY <1>3 DEF Deliver
    <3> QED BY <3>1 DEF Cancel, vars, envVars
  <2> QED BY <2>1, ControllerInvKept DEF Next
<1>4. CASE Disconnect
  BY <1>4, ControllerInvKept DEF Disconnect, Next
<1>5. CASE Reconnect
  <2>1. Restarted
    BY <1>5 DEF Reconnect, Restarted
  <2> QED BY <2>1, RestartKept
<1>6. ASSUME NEW active \in BOOLEAN, Plan(active) PROVE ControllerInv'
  <2>1. CASE cancelled
    <3>1. /\ ~active /\ loaded' = Append(loaded, active)
          /\ UNCHANGED <<clock, cancelled, inbox, pc, task, current, schedVars, timerVars, now,
                         outVars, status, failed, late>>
      BY <1>6, <2>1 DEF Plan
    <3>2. active = FALSE
      BY <3>1
    <3> QED BY <3>1, <3>2, PlannedElsewhereKept
  <2>2. CASE ~cancelled
    BY <1>6, <2>2, ControllerInvKept DEF Plan, Next
  <2> QED BY <2>1, <2>2
<1>7. CASE UNCHANGED allVars
  BY <1>7, ControllerInvKept DEF allVars
<1> QED BY <1>1, <1>2, <1>3, <1>4, <1>5, <1>6, <1>7 DEF FleetNext

----------------------------------------------------------------------------
(* A delta in transit. *)

Sent == [revision : 1..Len(loaded), sequence : Nat, start : Nat, end : Nat, final : BOOLEAN,
         requests : 0..1]

LEMMA SentFacts ==
  ASSUME TypeOK, NEW i \in 1..Len(emitted)
  PROVE  /\ emitted[i] \in Sent /\ emitted[i].revision \in 1..Len(loaded)
         /\ emitted[i].sequence \in Nat /\ emitted[i].start \in Nat /\ emitted[i].end \in Nat
         /\ emitted[i].final \in BOOLEAN /\ emitted[i].requests \in 0..1
<1>1. emitted[i] \in Sent
  <2> DEFINE S == Sent
  <2>1. emitted \in Seq(S)
    BY DEF TypeOK, Sent
  <2> HIDE DEF S
  <2>2. emitted[i] \in S
    BY <2>1
  <2> QED BY <2>2 DEF S
<1> QED BY <1>1 DEF Sent

LEMMA MessageFacts ==
  ASSUME NEW d
  PROVE  /\ Message(d).revision = d.revision /\ Message(d).sequence = d.sequence
         /\ Message(d).start = d.start /\ Message(d).end = d.end /\ Message(d).final = d.final
         /\ Message(d).requests = d.requests /\ Message(d).sound = TRUE
BY DEF Message

LEMMA AdvanceFacts ==
  ASSUME NEW d
  PROVE  LET a == Agg!Advance(Worker, Message(d))
         IN  /\ a.lastSequence = d.sequence /\ a.lastDelta = Message(d) /\ a.lastInterval = d.end
             /\ a.lastRevision = d.revision
             /\ a.closedRevision = IF d.final THEN d.revision ELSE account.closedRevision
             /\ a.finalRevision = IF Agg!ClosesRun(Worker, Message(d)) THEN Len(loaded)
                                                                      ELSE account.finalRevision
             /\ a.snapshot = account.snapshot + d.requests
BY MessageFacts DEF Agg!Advance, Agg!workerMerged, account

LEMMA AssignedFacts ==
  ASSUME TypeOK, NEW r
  PROVE  /\ Agg!Assigned(Worker, r) <=> r \in 1..Len(loaded)
         /\ r \in 1..Len(loaded) => (Agg!Loaded(Worker, r) <=> loaded[r])
         /\ Agg!Loaded(Worker, r) => r \in 1..Len(loaded)
BY DEF Agg!Assigned, Agg!Loaded, TypeOK

(* Accept's checks, for a delta of this worker.                              *)
Acceptable(d) ==
  /\ d.sequence = account.lastSequence + 1
  /\ d.revision >= account.lastRevision /\ d.revision # account.closedRevision
  /\ d.end > d.start /\ d.end - d.start <= Interval /\ d.start >= StartsAt /\ d.end <= Deadline
  /\ IF d.final THEN d.end = Deadline \/ d.revision < Len(loaded) ELSE d.end # Deadline /\ OnGrid(d.end)
  /\ account.lastInterval # 0 => d.start >= account.lastInterval
  /\ account.lastInterval # 0 /\ account.lastRevision # 0 /\ Contiguous(account.lastRevision, d.revision)
       => d.start = account.lastInterval
  /\ snapshot + d.requests <= MaxClock

LEMMA ContiguousFacts ==
  ASSUME TypeOK, FleetTypes, NEW r \in 1..Len(loaded)
  PROVE  Agg!requiresContiguousInterval(Worker, account.lastRevision, r)
         <=> account.lastRevision # 0 /\ Contiguous(account.lastRevision, r)
<1>1. CASE account.lastRevision = 0
  BY <1>1 DEF Agg!requiresContiguousInterval
<1>2. CASE account.lastRevision # 0
  <2>1. account.lastRevision..r \subseteq 1..Len(loaded)
    BY <1>2 DEF FleetTypes
  <2>2. \A q \in account.lastRevision..r : (Agg!Loaded(Worker, q) <=> loaded[q]) /\ q \in 1..Len(loaded)
    BY <2>1, AssignedFacts
  <2>3. (\A q \in account.lastRevision..r : Agg!Loaded(Worker, q))
        <=> (\A q \in account.lastRevision..r : loaded[q])
    BY <2>2
  <2> QED BY <1>2, <2>2, <2>3 DEF Agg!requiresContiguousInterval, Contiguous
<1> QED BY <1>1, <1>2

LEMMA ValidFacts ==
  ASSUME TypeOK, FleetTypes, NEW d \in Sent
  PROVE  Agg!Valid(Worker, Message(d)) <=> Acceptable(d)
<1> DEFINE m == Message(d)
<1>1. /\ m.revision = d.revision /\ m.sequence = d.sequence /\ m.start = d.start /\ m.end = d.end
      /\ m.final = d.final /\ m.requests = d.requests /\ m.sound = TRUE
  BY MessageFacts
<1>2. /\ d.revision \in 1..Len(loaded) /\ d.sequence \in Nat /\ d.start \in Nat /\ d.end \in Nat
      /\ d.final \in BOOLEAN /\ d.requests \in 0..1 /\ Len(loaded) \in Nat
  BY LenProperties DEF Sent, TypeOK
<1> HIDE DEF m
<1>3. Agg!Assigned(Worker, m.revision) /\ Agg!Sound(m)
  BY <1>1, <1>2, AssignedFacts DEF Agg!Sound
<1>4. Agg!InSequence(Worker, m) <=> d.sequence = account.lastSequence + 1
  BY <1>1 DEF Agg!InSequence, account
<1>5. Agg!RevisionOpen(Worker, m)
      <=> d.revision >= account.lastRevision /\ d.revision # account.closedRevision
  BY <1>1 DEF Agg!RevisionOpen, account
<1>6. Agg!EndsProperly(Worker, m)
      <=> IF d.final THEN d.end = Deadline \/ d.revision < Len(loaded) ELSE d.end # Deadline /\ OnGrid(d.end)
  <2>1. Agg!Assigned(Worker, Len(loaded)) /\ (Len(loaded) > d.revision <=> d.revision < Len(loaded))
    BY <1>2, AssignedFacts
  <2> QED BY <1>1, <1>2, <2>1 DEF Agg!EndsProperly, OnGrid
<1>7. Agg!FollowsLast(Worker, m)
      <=> (account.lastInterval # 0 =>
             /\ d.start >= account.lastInterval
             /\ account.lastRevision # 0 /\ Contiguous(account.lastRevision, d.revision)
                  => d.start = account.lastInterval)
  BY <1>1, <1>2, ContiguousFacts DEF Agg!FollowsLast, account
<1>8. Agg!Mergeable(Worker, m) <=> snapshot + d.requests <= MaxClock
  <2>1. workers[Worker].snapshot = snapshot
    BY DEF FleetTypes, account
  <2> QED BY <1>1, <2>1 DEF Agg!Mergeable, Agg!workerMerged
<1>9. Agg!validateMetricInterval(Worker, m)
      <=> /\ d.end > d.start /\ d.end - d.start <= Interval /\ d.start >= StartsAt /\ d.end <= Deadline
          /\ Agg!EndsProperly(Worker, m) /\ Agg!FollowsLast(Worker, m)
  BY <1>1 DEF Agg!validateMetricInterval
<1>10. Agg!Valid(Worker, m)
       <=> /\ Agg!InSequence(Worker, m) /\ Agg!RevisionOpen(Worker, m)
           /\ Agg!validateMetricInterval(Worker, m) /\ Agg!Mergeable(Worker, m)
  BY <1>3 DEF Agg!Valid
<1>11. Agg!Valid(Worker, m) <=> Acceptable(d)
  BY <1>4, <1>5, <1>6, <1>7, <1>8, <1>9, <1>10 DEF Acceptable
<1> QED BY <1>11 DEF m

(* What a delivery does.                                                     *)
Merged(d) ==
  /\ account.lastDelta # Message(d) /\ Acceptable(d)
  /\ account' = Agg!Advance(Worker, Message(d)) /\ snapshot' = snapshot + d.requests
  /\ from' = session /\ UNCHANGED <<violations, cancelled>>
Rejected(d) ==
  /\ account.lastDelta # Message(d) /\ ~Acceptable(d)
  /\ violations' = {Worker} /\ cancelled' = TRUE
  /\ UNCHANGED <<account, snapshot, from>>
Ignored(d) ==
  account.lastDelta = Message(d) /\ UNCHANGED <<account, snapshot, from, violations, cancelled>>

LEMMA DeliverFacts ==
  ASSUME TypeOK, FleetTypes, Deliver
  PROVE  /\ ~cancelled /\ delivered + 1 \in 1..Len(emitted) /\ delivered' = delivered + 1
         /\ emitted[delivered + 1] \in Sent
         /\ UNCHANGED <<clock, loaded, inbox, pc, task, current, collecting, pending, taken, scheduler,
                        intervalStart, armed, timerAt, now, backlog, emitted, status, failed, late,
                        session, measured>>
         /\ DOMAIN workers' = {Worker} /\ DOMAIN merged' = {Worker}
         /\ \/ Merged(emitted[delivered + 1]) \/ Rejected(emitted[delivered + 1])
            \/ Ignored(emitted[delivered + 1])
<1> DEFINE d == emitted[delivered + 1]
<1>1. ~cancelled /\ delivered + 1 \in 1..Len(emitted) /\ delivered' = delivered + 1
  <2>1. Len(emitted) \in Nat
    BY LenProperties DEF TypeOK
  <2> QED BY <2>1 DEF Deliver, FleetTypes
<1>2. d \in Sent
  BY <1>1, SentFacts
<1>3. UNCHANGED <<clock, loaded, inbox, pc, task, current, collecting, pending, taken, scheduler,
                  intervalStart, armed, timerAt, now, backlog, emitted, status, failed, late,
                  session, measured>>
  BY DEF Deliver, schedVars, timerVars, outVars
<1>4. \/ Agg!Merge(Worker, Message(d)) /\ from' = session /\ UNCHANGED cancelled
      \/ Agg!Ignore(Worker, Message(d)) /\ UNCHANGED <<from, cancelled>>
      \/ Agg!reject(Worker, Message(d)) /\ cancelled' = TRUE /\ UNCHANGED from
  BY DEF Deliver
<1> HIDE DEF d
<1>5. Agg!Redelivered(Worker, Message(d)) <=> account.lastDelta = Message(d)
  BY DEF Agg!Redelivered, account
<1>6. Agg!Valid(Worker, Message(d)) <=> Acceptable(d)
  BY <1>2, ValidFacts
<1>7. CASE Agg!Merge(Worker, Message(d)) /\ from' = session /\ UNCHANGED cancelled
  <2>1. /\ workers' = [workers EXCEPT ![Worker] = Agg!Advance(Worker, Message(d))]
        /\ merged' = [merged EXCEPT ![Worker] = Append(@, Message(d))]
        /\ snapshot' = snapshot + d.requests /\ UNCHANGED violations
    BY <1>7, MessageFacts DEF Agg!Merge
  <2>2. account' = Agg!Advance(Worker, Message(d)) /\ DOMAIN workers' = {Worker} /\ DOMAIN merged' = {Worker}
    BY <2>1 DEF FleetTypes, account
  <2> QED BY <1>1, <1>2, <1>3, <1>5, <1>6, <1>7, <2>1, <2>2 DEF Agg!Merge, Merged, d
<1>8. CASE Agg!Ignore(Worker, Message(d)) /\ UNCHANGED <<from, cancelled>>
  BY <1>1, <1>2, <1>3, <1>5, <1>8 DEF Agg!Ignore, Agg!vars, Ignored, FleetTypes, account, d
<1>9. CASE Agg!reject(Worker, Message(d)) /\ cancelled' = TRUE /\ UNCHANGED from
  <2>1. violations' = {Worker} /\ UNCHANGED <<workers, snapshot, merged>>
    BY <1>9 DEF Agg!reject, FleetTypes
  <2> QED BY <1>1, <1>2, <1>3, <1>5, <1>6, <1>9, <2>1 DEF Agg!reject, Rejected, FleetTypes, account, d
<1> QED BY <1>4, <1>7, <1>8, <1>9

----------------------------------------------------------------------------
(* What the steps do to the deltas of the session. *)

Emits(end, final) ==
  /\ Len(emitted) \in Nat /\ Len(emitted') = Len(emitted) + 1 /\ emitted' # <<>>
  /\ emitted'[Len(emitted) + 1] = Delta(end, final)
  /\ \A i \in 1..Len(emitted) : emitted'[i] = emitted[i]
  /\ pc = "flushing" /\ taken' = 0

LEMMA DeltaFacts ==
  ASSUME NEW end, NEW final
  PROVE  /\ Delta(end, final).revision = current /\ Delta(end, final).sequence = Len(emitted) + 1
         /\ Delta(end, final).start = intervalStart /\ Delta(end, final).end = end
         /\ Delta(end, final).final = final /\ Delta(end, final).requests = taken
BY DEF Delta

LEMMA EmissionFacts ==
  ASSUME ControllerInv
  PROVE  /\ FlushRevision => Emits(transitionEnd, TRUE)
         /\ FlushBoundary => Emits(timerAt, FALSE)
         /\ FlushDeadline => Emits(Deadline, TRUE)
<1> USE RunControllerAssumption DEF ControllerInv
<1>1. ASSUME NEW end \in Nat, NEW final \in BOOLEAN, Enqueue(end, final) PROVE Emits(end, final)
  <2>1. isActiveLoad(current)
    BY <1>1 DEF Enqueue, Reporting
  <2> QED BY <1>1, <2>1, EnqueueFacts DEF Emits
<1>2. transitionEnd \in Nat /\ timerAt \in Nat /\ Deadline \in Nat
  BY DEF transitionEnd, Lesser, TypeOK
<1> QED BY <1>1, <1>2 DEF FlushRevision, FlushBoundary, FlushDeadline

LEMMA WorkFacts ==
  ASSUME ControllerInv, Work
  PROVE  /\ UNCHANGED <<loaded, cancelled, session, delivered, workers, snapshot, violations, changed,
                        merged, measured, from, account>>
         /\ Len(emitted) \in Nat /\ Len(emitted') \in Nat /\ Len(emitted) <= Len(emitted')
         /\ \A i \in 1..Len(emitted) : emitted'[i] = emitted[i]
         /\ clock' \in {clock, clock + 1}
<1>1. UNCHANGED <<session, delivered, workers, snapshot, violations, changed, merged, measured, from, account>>
  BY DEF Work, fleetVars, aggVars, account
<1>2. Len(emitted) \in Nat
  BY LenProperties DEF ControllerInv, TypeOK
<1>3. UNCHANGED <<loaded, cancelled>>
  BY DEF Work, Controller, TakeCommand, CommandDrained, RejectOverdue, BeginRevisionFlush, FlushRevision,
         ApplyWithoutFlush, BoundaryTimer, FlushBoundary, DeadlineTimer, DeadlineDrained, FlushDeadline,
         ReapScheduler, Return, SchedulerEnds, WriteMessage, Heartbeat, Tick, envVars
<1>4. clock' \in {clock, clock + 1}
  BY DEF Work, Controller, TakeCommand, CommandDrained, RejectOverdue, BeginRevisionFlush, FlushRevision,
         ApplyWithoutFlush, BoundaryTimer, FlushBoundary, DeadlineTimer, DeadlineDrained, FlushDeadline,
         ReapScheduler, Return, SchedulerEnds, WriteMessage, Heartbeat, Tick, envVars
<1>5. CASE FlushRevision \/ FlushBoundary \/ FlushDeadline
  <2>1. \E end, final : Emits(end, final)
    BY <1>5, EmissionFacts
  <2>2. Len(emitted') = Len(emitted) + 1 /\ \A i \in 1..Len(emitted) : emitted'[i] = emitted[i]
    BY <2>1 DEF Emits
  <2> QED BY <1>1, <1>2, <1>3, <1>4, <2>2
<1>6. CASE ~(FlushRevision \/ FlushBoundary \/ FlushDeadline)
  <2>1. UNCHANGED emitted
    BY <1>6 DEF Work, Controller, TakeCommand, CommandDrained, RejectOverdue, BeginRevisionFlush,
                ApplyWithoutFlush, BoundaryTimer, DeadlineTimer, DeadlineDrained, ReapScheduler, Return,
                SchedulerEnds, WriteMessage, Heartbeat, Tick, outVars
  <2> QED BY <1>1, <1>2, <1>3, <1>4, <2>1
<1> QED BY <1>5, <1>6

(* A revision planned, whether or not it is put on this worker's stream.     *)
LEMMA PlanFacts ==
  ASSUME ControllerInv, NEW active \in BOOLEAN, Plan(active)
  PROVE  /\ Planned(active) /\ clock < Deadline /\ Len(loaded) < MaxRevision
         /\ UNCHANGED <<session, delivered, workers, snapshot, violations, merged, measured, from, account,
                        cancelled, clock, pc, task, current, collecting, pending, taken, scheduler,
                        intervalStart, armed, timerAt, now, emitted, late>>
         /\ Len(loaded) \in Nat /\ Len(loaded') = Len(loaded) + 1
         /\ \A r \in 1..Len(loaded) : loaded'[r] = loaded[r]
         /\ isActiveLoad(current)' = isActiveLoad(current)
<1>1. Planned(active) /\ clock < Deadline /\ Len(loaded) < MaxRevision
  <2>1. CASE cancelled
    BY <2>1 DEF Plan, Planned
  <2>2. CASE ~cancelled
    BY <2>2 DEF Plan, Issue, Planned
  <2> QED BY <2>1, <2>2
<1>2. UNCHANGED <<session, delivered, workers, snapshot, violations, merged, measured, from, account>>
  BY DEF Plan, Agg!RecordAssignments, account
<1>3. UNCHANGED <<cancelled, clock, pc, task, current, collecting, pending, taken, scheduler,
                  intervalStart, armed, timerAt, now, emitted, late>>
  BY <1>1 DEF Planned, schedVars, timerVars, outVars
<1> QED BY <1>1, <1>2, <1>3, PlannedFacts DEF ControllerInv

LEMMA ReconnectFacts ==
  ASSUME Reconnect
  PROVE  /\ Restarted /\ cancelled /\ session < MaxSessions /\ session' = session + 1 /\ delivered' = 0
         /\ Len(emitted') = 0 /\ Len(inbox') = 0
         /\ UNCHANGED <<workers, snapshot, violations, merged, measured, from, account, clock, loaded, late>>
BY DEF Reconnect, Restarted, Closed, aggVars, account

LEMMA DisconnectFacts ==
  ASSUME Disconnect \/ UNCHANGED allVars
  PROVE  /\ cancelled => cancelled'
         /\ UNCHANGED <<session, delivered, workers, snapshot, violations, merged, measured, from, account,
                        loaded, inbox, clock, pc, task, current, collecting, pending, taken, scheduler,
                        intervalStart, armed, timerAt, now, emitted, late>>
BY DEF Disconnect, Cancel, allVars, vars, envVars, fleetVars, aggVars, schedVars, timerVars, outVars, account

LEMMA MeasuredFacts ==
  ASSUME MeasuredRequest
  PROVE  /\ scheduler = "running" /\ pending = 0 /\ pending' = 1 /\ clock > intervalStart
         /\ measured' = [measured EXCEPT ![session] = @ + 1]
         /\ UNCHANGED <<session, delivered, workers, snapshot, violations, merged, from, account,
                        cancelled, loaded, inbox, clock, pc, task, current, collecting, taken, scheduler,
                        intervalStart, armed, timerAt, now, emitted, late>>
BY DEF MeasuredRequest, Request, envVars, aggVars, timerVars, outVars, account

LEMMA FleetTypesKept == ASSUME FleetInv, [FleetNext]_allVars PROVE FleetTypes'
<1> USE DEF FleetInv
<1> USE FleetAssumption
<1>1. CASE Work
  BY <1>1, WorkFacts DEF FleetTypes, account
<1>2. CASE MeasuredRequest
  BY <1>2, MeasuredFacts DEF FleetTypes, account
<1>3. CASE Disconnect \/ UNCHANGED allVars
  BY <1>3, DisconnectFacts DEF FleetTypes, account
<1>4. CASE Reconnect
  BY <1>4, ReconnectFacts DEF FleetTypes, account, Restarted
<1>5. ASSUME NEW active \in BOOLEAN, Plan(active) PROVE FleetTypes'
  <2>1. /\ UNCHANGED <<session, delivered, workers, snapshot, violations, merged, measured, from,
                       account, emitted>>
        /\ Len(loaded) \in Nat /\ Len(loaded') = Len(loaded) + 1 /\ Len(loaded) < MaxRevision
    BY <1>5, PlanFacts
  <2>2. Len(loaded') <= MaxRevision
    BY <2>1, RunControllerAssumption
  <2>3. /\ account'.lastRevision \in 0..Len(loaded') /\ account'.closedRevision \in 0..Len(loaded')
        /\ account'.finalRevision \in 0..Len(loaded')
    BY <2>1 DEF FleetTypes
  <2> QED BY <2>1, <2>2, <2>3 DEF FleetTypes
<1>6. CASE Deliver
  <2> DEFINE d == emitted[delivered + 1]
  <2>1. /\ delivered' \in 0..Len(emitted') /\ session' = session /\ loaded' = loaded
        /\ DOMAIN workers' = {Worker} /\ DOMAIN merged' = {Worker} /\ measured' = measured
        /\ d \in Sent /\ (Merged(d) \/ Rejected(d) \/ Ignored(d))
    BY <1>6, DeliverFacts DEF ControllerInv, FleetTypes
  <2> HIDE DEF d
  <2>2. CASE Merged(d)
    <3>1. /\ account'.lastSequence = d.sequence /\ account'.lastInterval = d.end
          /\ account'.lastRevision = d.revision
          /\ account'.closedRevision \in {d.revision, account.closedRevision}
          /\ account'.finalRevision \in {Len(loaded), account.finalRevision}
          /\ account'.snapshot = account.snapshot + d.requests
      BY <2>2, AdvanceFacts DEF Merged
    <3>2. /\ snapshot' = snapshot + d.requests /\ from' = session /\ UNCHANGED violations
          /\ d.end <= Deadline
      BY <2>2 DEF Merged, Acceptable
    <3>3. /\ d.revision \in 1..Len(loaded) /\ d.sequence \in Nat /\ d.end \in Nat /\ d.requests \in 0..1
          /\ Len(loaded) \in Nat
      BY <2>1, LenProperties DEF Sent, ControllerInv, TypeOK
    <3>4. account'.lastSequence \in Nat /\ account'.lastInterval \in 0..Deadline
      BY <3>1, <3>2, <3>3
    <3>6. /\ account'.lastRevision \in 0..Len(loaded') /\ account'.closedRevision \in 0..Len(loaded')
          /\ account'.finalRevision \in 0..Len(loaded')
      <4>1. account.closedRevision \in 0..Len(loaded) /\ account.finalRevision \in 0..Len(loaded)
        BY DEF FleetTypes
      <4>2. Len(loaded) \in 0..Len(loaded) /\ d.revision \in 0..Len(loaded) /\ Len(loaded') = Len(loaded)
        BY <2>1, <3>3
      <4> QED BY <3>1, <4>1, <4>2
    <3>7. account'.snapshot = snapshot' /\ snapshot' \in Nat
      <4>1. snapshot \in Nat /\ account.snapshot = snapshot
        BY DEF FleetTypes
      <4> QED BY <3>1, <3>2, <3>3, <4>1
    <3>5. from' \in 0..session' /\ session' \in 1..MaxSessions
      BY <2>1, <3>2 DEF FleetTypes
    <3> QED BY <2>1, <3>2, <3>4, <3>5, <3>6, <3>7 DEF FleetTypes
  <2>3. CASE Rejected(d)
    BY <2>1, <2>3 DEF Rejected, FleetTypes
  <2>4. CASE Ignored(d)
    BY <2>1, <2>4 DEF Ignored, FleetTypes
  <2> QED BY <2>1, <2>2, <2>3, <2>4
<1> QED BY <1>1, <1>2, <1>3, <1>4, <1>5, <1>6 DEF FleetNext

----------------------------------------------------------------------------
(* Revisions are taken in order. *)

LEMMA TailFacts ==
  ASSUME ControllerInv, FlushRevision \/ ApplyWithoutFlush
  PROVE  /\ Len(inbox) \in Nat /\ Len(inbox) >= 1 /\ Head(inbox) = inbox[1] /\ current' = inbox[1]
         /\ Len(inbox') = Len(inbox) - 1 /\ \A i \in 1..Len(inbox') : inbox'[i] = inbox[i + 1]
<1> DEFINE Issued == 1..Len(loaded)
<1>1. inbox \in Seq(Issued) /\ inbox # <<>> /\ inbox' = Tail(inbox) /\ Apply(Head(inbox))
  BY CommandFacts DEF ControllerInv, TypeOK
<1> HIDE DEF Issued
<1>2. /\ Len(inbox) \in Nat /\ Len(inbox) >= 1 /\ Head(inbox) = inbox[1]
      /\ Len(inbox') = Len(inbox) - 1
  BY <1>1, HeadTailProperties, LenProperties, EmptySeq
<1>3. \A i \in 1..Len(inbox') : inbox'[i] = inbox[i + 1]
  BY <1>1, <1>2
<1> QED BY <1>1, <1>2, <1>3 DEF Apply

LEMMA InOrderKept == ASSUME FleetInv, ControllerInv', [FleetNext]_allVars PROVE InOrder'
<1> USE DEF FleetInv
<1>1. CASE Work
  <2>1. CASE FlushRevision \/ ApplyWithoutFlush
    <3>1. /\ Len(inbox) \in Nat /\ Len(inbox) >= 1 /\ Head(inbox) = inbox[1] /\ current' = inbox[1]
          /\ Len(inbox') = Len(inbox) - 1 /\ \A i \in 1..Len(inbox') : inbox'[i] = inbox[i + 1]
      BY <2>1, TailFacts
    <3>2. ASSUME NEW i \in 1..Len(inbox') PROVE inbox'[i] > current'
      <4> DEFINE k == i + 1
      <4>1. k \in 1..Len(inbox) /\ 1 \in 1..Len(inbox) /\ 1 < k /\ inbox'[i] = inbox[k]
        BY <3>1
      <4> HIDE DEF k
      <4>2. inbox[1] < inbox[k] /\ inbox[1] \in Nat /\ inbox[k] \in Nat
        <5>1. inbox[1] < inbox[k]
          BY <4>1 DEF InOrder
        <5>2. \A q \in 1..Len(inbox) : inbox[q] \in 1..Len(loaded)
          <6> DEFINE Issued == 1..Len(loaded)
          <6>1. inbox \in Seq(Issued)
            BY DEF ControllerInv, TypeOK
          <6> HIDE DEF Issued
          <6>2. \A q \in 1..Len(inbox) : inbox[q] \in Issued
            BY <6>1
          <6> QED BY <6>2 DEF Issued
        <5> QED BY <4>1, <5>1, <5>2
      <4> QED BY <3>1, <4>1, <4>2
    <3>3. ASSUME NEW i \in 1..Len(inbox'), NEW j \in 1..Len(inbox'), i < j PROVE inbox'[i] < inbox'[j]
      <4> DEFINE k == i + 1 m == j + 1
      <4>1. /\ k \in 1..Len(inbox) /\ m \in 1..Len(inbox) /\ k < m
            /\ inbox'[i] = inbox[k] /\ inbox'[j] = inbox[m]
        BY <3>1, <3>3
      <4> HIDE DEF k, m
      <4> QED BY <4>1 DEF InOrder
    <3> QED BY <3>2, <3>3 DEF InOrder
  <2>2. CASE ~(FlushRevision \/ ApplyWithoutFlush)
    <3>1. UNCHANGED <<inbox, current>>
      BY <1>1, <2>2 DEF Work, Controller, TakeCommand, CommandDrained, RejectOverdue, BeginRevisionFlush,
         BoundaryTimer, FlushBoundary, DeadlineTimer, DeadlineDrained, FlushDeadline, ReapScheduler, Return,
         SchedulerEnds, WriteMessage, Heartbeat, Tick
    <3> QED BY <3>1 DEF InOrder
  <2> QED BY <2>1, <2>2
<1>2. ASSUME NEW active \in BOOLEAN, Plan(active) PROVE InOrder'
  <2>1. /\ current' = current /\ Len(loaded) \in Nat
        /\ inbox' \in {inbox, Append(inbox, Len(loaded) + 1)}
    BY <1>2, PlanFacts DEF Planned
  <2>2. /\ Len(inbox) \in Nat /\ current \in 0..Len(loaded)
        /\ \A i \in 1..Len(inbox) : inbox[i] \in 1..Len(loaded)
    BY LenProperties DEF ControllerInv, TypeOK
  <2>3. CASE inbox' = Append(inbox, Len(loaded) + 1)
    <3>1. /\ Len(inbox') = Len(inbox) + 1 /\ inbox'[Len(inbox) + 1] = Len(loaded) + 1
          /\ \A i \in 1..Len(inbox) : inbox'[i] = inbox[i]
      <4> DEFINE Issued == 1..Len(loaded)
      <4>1. inbox \in Seq(Issued)
        BY DEF ControllerInv, TypeOK
      <4> HIDE DEF Issued
      <4> QED BY <2>3, <4>1
    <3>2. ASSUME NEW i \in 1..Len(inbox') PROVE inbox'[i] > current'
      BY <2>1, <2>2, <3>1 DEF InOrder
    <3>3. ASSUME NEW i \in 1..Len(inbox'), NEW j \in 1..Len(inbox'), i < j PROVE inbox'[i] < inbox'[j]
      <4>1. i \in 1..Len(inbox) /\ inbox'[i] = inbox[i] /\ inbox[i] \in 1..Len(loaded)
        BY <2>2, <3>1, <3>3
      <4>2. CASE j \in 1..Len(inbox)
        BY <3>1, <3>3, <4>1, <4>2 DEF InOrder
      <4>3. CASE j = Len(inbox) + 1
        BY <2>1, <3>1, <4>1, <4>3
      <4> QED BY <2>2, <3>1, <4>2, <4>3
    <3> QED BY <3>2, <3>3 DEF InOrder
  <2>4. CASE inbox' = inbox
    BY <2>1, <2>4 DEF InOrder
  <2> QED BY <2>1, <2>3, <2>4
<1>3. CASE MeasuredRequest
  BY <1>3, MeasuredFacts DEF InOrder
<1>4. CASE Disconnect \/ UNCHANGED allVars
  BY <1>4, DisconnectFacts DEF InOrder
<1>5. CASE Reconnect
  BY <1>5, ReconnectFacts DEF InOrder
<1>6. CASE Deliver
  BY <1>6, DeliverFacts DEF InOrder, ControllerInv
<1> QED BY <1>1, <1>2, <1>3, <1>4, <1>5, <1>6 DEF FleetNext

----------------------------------------------------------------------------
(* Time. *)

LEMMA NumberFacts ==
  ASSUME ControllerInv
  PROVE  /\ clock \in Nat /\ now \in Nat /\ current \in 0..Len(loaded) /\ Len(loaded) \in Nat
         /\ timerAt \in 0..Deadline /\ intervalStart \in 0..Deadline /\ Deadline \in Nat
         /\ StartsAt \in Nat \ {0} /\ StartsAt < Deadline /\ Interval \in Nat \ {0}
         /\ Len(emitted) \in Nat /\ (emitted # <<>> <=> Len(emitted) >= 1)
         /\ \A i \in 1..Len(emitted) : /\ emitted[i].end \in Nat /\ emitted[i].start \in Nat
                                       /\ emitted[i].revision \in 1..Len(loaded)
                                       /\ emitted[i].requests \in 0..1 /\ emitted[i].final \in BOOLEAN
<1> USE RunControllerAssumption DEF ControllerInv
<1>1. /\ clock \in Nat /\ now \in Nat /\ current \in 0..Len(loaded)
      /\ timerAt \in 0..Deadline /\ intervalStart \in 0..Deadline
  BY DEF TypeOK
<1>2. Len(emitted) \in Nat /\ Len(loaded) \in Nat
  BY LenProperties DEF TypeOK
<1>3. emitted # <<>> <=> Len(emitted) >= 1
  <2> DEFINE S == Sent
  <2>1. emitted \in Seq(S)
    BY DEF TypeOK, Sent
  <2> HIDE DEF S
  <2> QED BY <1>2, <2>1, EmptySeq
<1>4. \A i \in 1..Len(emitted) : /\ emitted[i].end \in Nat /\ emitted[i].start \in Nat
                                 /\ emitted[i].revision \in 1..Len(loaded)
                                 /\ emitted[i].requests \in 0..1 /\ emitted[i].final \in BOOLEAN
  BY SentFacts
<1> QED BY <1>1, <1>2, <1>3, <1>4

LEMMA EmitTimed ==
  ASSUME ControllerInv, Timing, NEW end \in Nat, NEW final, Emits(end, final),
         end <= clock, clock' = clock, current' >= current, current' \in Nat, task' = "none"
  PROVE  Timing'
<1> USE NumberFacts
<1>1. ASSUME NEW i \in 1..Len(emitted')
      PROVE  emitted'[i].sequence = i /\ emitted'[i].revision <= current' /\ emitted'[i].end <= clock'
  <2>1. CASE i \in 1..Len(emitted)
    <3>1. emitted'[i] = emitted[i] /\ emitted[i].revision \in Nat
      BY <2>1 DEF Emits
    <3> QED BY <2>1, <3>1 DEF Timing
  <2>2. CASE i = Len(emitted) + 1
    <3>1. emitted'[i] = Delta(end, final)
      BY <2>2 DEF Emits
    <3> QED BY <2>2, <3>1, DeltaFacts
  <2> QED BY <2>1, <2>2 DEF Emits
<1> QED BY <1>1 DEF Timing, InHand

LEMMA TimingKept == ASSUME FleetInv, ControllerInv', [FleetNext]_allVars PROVE Timing'
<1> USE NumberFacts DEF FleetInv
<1>1. CASE Work
  <2>1. CASE FlushRevision
    <3>1. Emits(transitionEnd, TRUE) /\ task' = "none" /\ clock' = clock /\ transitionEnd \in Nat
      BY <2>1, EmissionFacts DEF FlushRevision, envVars, transitionEnd, Lesser
    <3>2. transitionEnd <= clock
      BY <2>1 DEF FlushRevision, Enqueue, Timing, InHand, transitionEnd, Lesser
    <3>3. current' > current /\ current' \in Nat
      <4>1. current' = inbox[1] /\ current' > current
        BY <2>1, TailFacts DEF InOrder
      <4>2. current' \in Nat
        BY DEF ControllerInv, TypeOK
      <4> QED BY <4>1, <4>2
    <3>4. current' >= current
      BY <3>3
    <3> QED BY <3>1, <3>2, <3>3, <3>4, EmitTimed
  <2>2. CASE ApplyWithoutFlush
    <3>1. UNCHANGED <<emitted, clock>> /\ task' = "none"
      BY <2>2 DEF ApplyWithoutFlush, envVars, outVars
    <3>2. current' > current
      BY <2>2, TailFacts DEF InOrder
    <3>3. current' \in Nat
      BY DEF ControllerInv, TypeOK
    <3> QED BY <3>1, <3>2, <3>3 DEF Timing, InHand
  <2>3. CASE FlushBoundary
    <3>1. /\ Emits(timerAt, FALSE) /\ task' = "none" /\ UNCHANGED <<clock, current>> /\ timerAt <= clock
      BY <2>3, EmissionFacts DEF FlushBoundary, envVars, Timing
    <3>2. current' >= current /\ current' \in Nat /\ timerAt \in Nat
      BY <3>1
    <3> QED BY <3>1, <3>2, EmitTimed
  <2>4. CASE FlushDeadline
    <3>1. /\ Emits(Deadline, TRUE) /\ task' = "none" /\ UNCHANGED <<clock, current>> /\ Deadline <= clock
      BY <2>4, EmissionFacts DEF FlushDeadline, envVars, ControllerInv, Scheduling
    <3>2. current' >= current /\ current' \in Nat
      BY <3>1
    <3> QED BY <3>1, <3>2, EmitTimed
  <2>5. CASE TakeCommand \/ CommandDrained
    <3>1. now' = clock /\ UNCHANGED <<emitted, clock, current>> /\ task' = "command"
      BY <2>5 DEF TakeCommand, CommandDrained, envVars, outVars
    <3> QED BY <3>1 DEF Timing
  <2>6. CASE BoundaryTimer
    <3>1. /\ UNCHANGED <<emitted, clock, current, now>> /\ (task' = "boundary" => timerAt' = timerAt) /\ clock >= timerAt
          /\ task' # "command" /\ task = "none"
      BY <2>6 DEF BoundaryTimer, TimerFires, envVars, outVars, ControllerInv, TypeOK
    <3> QED BY <3>1 DEF Timing, InHand
  <2>7. CASE Tick
    <3>1. UNCHANGED <<emitted, current, now, task, pc, timerAt>> /\ clock' = clock + 1
      BY <2>7 DEF Tick, outVars, timerVars
    <3> QED BY <3>1 DEF Timing, InHand
  <2>8. CASE RejectOverdue \/ BeginRevisionFlush \/ DeadlineTimer \/ DeadlineDrained \/ ReapScheduler
             \/ Return \/ SchedulerEnds \/ WriteMessage \/ Heartbeat
    <3>1. /\ UNCHANGED <<emitted, clock, current>> /\ (InHand' => InHand /\ now' = now)
          /\ (task' = "boundary" => task = "boundary" /\ timerAt' = timerAt)
      BY <2>8 DEF RejectOverdue, BeginRevisionFlush, BeginFlush, DeadlineTimer, DeadlineDrained, Drained,
                  ReapScheduler, Return, Interruptible, SchedulerEnds, WriteMessage, Heartbeat, envVars,
                  outVars, timerVars, InHand, TimerFires
    <3> QED BY <3>1 DEF Timing
  <2> QED BY <1>1, <2>1, <2>2, <2>3, <2>4, <2>5, <2>6, <2>7, <2>8 DEF Work, Controller
<1>2. ASSUME NEW active \in BOOLEAN, Plan(active) PROVE Timing'
  BY <1>2, PlanFacts DEF Timing, InHand
<1>3. CASE MeasuredRequest
  BY <1>3, MeasuredFacts DEF Timing, InHand
<1>4. CASE Disconnect \/ UNCHANGED allVars
  BY <1>4, DisconnectFacts DEF Timing, InHand
<1>5. CASE Reconnect
  BY <1>5, ReconnectFacts DEF Timing, InHand, Restarted
<1>6. CASE Deliver
  BY <1>6, DeliverFacts DEF Timing, InHand, ControllerInv
<1> QED BY <1>1, <1>2, <1>3, <1>4, <1>5, <1>6 DEF FleetNext

LEMMA FlushingKept == ASSUME FleetInv, ControllerInv', [FleetNext]_allVars PROVE Flushing'
<1> USE RunControllerAssumption DEF FleetInv, ControllerInv
<1>1. CASE Work
  <2> USE DEF Flushing, Overdue, transitionEnd, Lesser, TypeOK, Reporting, envVars, schedVars, timerVars, outVars
  <2>1. CASE TakeCommand
    BY <2>1 DEF TakeCommand, MustDrain
  <2>2. CASE CommandDrained
    BY <2>2 DEF CommandDrained, Drained
  <2>3. CASE RejectOverdue
    BY <2>3 DEF RejectOverdue
  <2>4. CASE BeginRevisionFlush
    BY <2>4 DEF BeginRevisionFlush, BeginFlush, MustReport
  <2>5. CASE FlushRevision
    BY <2>5 DEF FlushRevision
  <2>6. CASE ApplyWithoutFlush
    BY <2>6 DEF ApplyWithoutFlush
  <2>7. CASE BoundaryTimer
    BY <2>7 DEF BoundaryTimer, TimerFires, BeginFlush, resetTimer
  <2>8. CASE FlushBoundary
    BY <2>8 DEF FlushBoundary, resetTimer
  <2>9. CASE DeadlineTimer
    BY <2>9 DEF DeadlineTimer, TimerFires
  <2>10. CASE DeadlineDrained
    BY <2>10 DEF DeadlineDrained, Drained, OwesFinal, BeginFlush
  <2>11. CASE FlushDeadline
    BY <2>11 DEF FlushDeadline
  <2>12. CASE ReapScheduler
    BY <2>12 DEF ReapScheduler
  <2>13. CASE Return
    BY <2>13 DEF Return, Interruptible
  <2>14. CASE SchedulerEnds
    BY <2>14 DEF SchedulerEnds
  <2>15. CASE WriteMessage
    BY <2>15 DEF WriteMessage
  <2>16. CASE Heartbeat
    BY <2>16 DEF Heartbeat
  <2>17. CASE Tick
    BY <2>17 DEF Tick
  <2> QED BY <1>1, <2>1, <2>2, <2>3, <2>4, <2>5, <2>6, <2>7, <2>8, <2>9, <2>10, <2>11, <2>12, <2>13, <2>14, <2>15, <2>16, <2>17 DEF Work, Controller
<1>2. ASSUME NEW active \in BOOLEAN, Plan(active) PROVE Flushing'
  BY <1>2, PlanFacts DEF Flushing, Overdue, transitionEnd
<1>3. CASE MeasuredRequest
  BY <1>3, MeasuredFacts DEF Flushing, Overdue, transitionEnd
<1>4. CASE Disconnect \/ UNCHANGED allVars
  BY <1>4, DisconnectFacts DEF Flushing, Overdue, transitionEnd
<1>5. CASE Reconnect
  BY <1>5, ReconnectFacts DEF Flushing, Overdue, transitionEnd, Restarted
<1>6. CASE Deliver
  BY <1>6, DeliverFacts DEF Flushing, Overdue, transitionEnd, ControllerInv
<1> QED BY <1>1, <1>2, <1>3, <1>4, <1>5, <1>6 DEF FleetNext

----------------------------------------------------------------------------
(* Boundaries. *)

(* The boundary after a time in the window is later, on the grid or at the   *)
(* deadline, and at most one interval later than the start of the window or  *)
(* the time itself.                                                          *)
LEMMA BoundaryFacts ==
  ASSUME NEW at \in Nat, at < Deadline
  PROVE  LET next == nextMetricBoundary(at)
         IN  /\ next \in 0..Deadline /\ Greater(at, StartsAt) < next
             /\ next <= Greater(at, StartsAt) + Interval
             /\ next = Deadline \/ OnGrid(next)
<1> USE RunControllerAssumption
<1> DEFINE from0 == Greater(at, StartsAt)
           q == (from0 - StartsAt) \div Interval
           past == (q + 1) * Interval
<1>1. from0 \in Nat /\ StartsAt <= from0 /\ from0 < Deadline
  BY DEF Greater
<1>2. q \in Nat
  BY <1>1
<1>3. past \in Nat /\ from0 - StartsAt < past /\ past <= (from0 - StartsAt) + Interval
  <2>1. \A x \in Nat, i \in Nat \ {0} : x < (x \div i + 1) * i /\ (x \div i + 1) * i <= x + i
    BY SMT
  <2> DEFINE elapsed == from0 - StartsAt
  <2>2. elapsed \in Nat
    BY <1>1
  <2> HIDE DEF elapsed
  <2>3. elapsed < (elapsed \div Interval + 1) * Interval /\ (elapsed \div Interval + 1) * Interval <= elapsed + Interval
    BY <2>1, <2>2
  <2>4. past \in Nat
    BY <1>2
  <2> QED BY <2>3, <2>4 DEF elapsed
<1>4. past % Interval = 0
  <2>1. \A k \in Nat, i \in Nat \ {0} : (k * i) % i = 0
    BY SMT
  <2>2. q + 1 \in Nat
    BY <1>2
  <2> QED BY <2>1, <2>2
<1>5. nextMetricBoundary(at) = Lesser(StartsAt + past, Deadline)
  <2>1. CASE at < StartsAt
    <3>1. from0 = StartsAt
      BY <2>1 DEF Greater
    <3>2. q = 0
      BY <3>1
    <3>3. past = Interval
      BY <3>2
    <3> QED BY <2>1, <3>3 DEF nextMetricBoundary
  <2>2. CASE ~(at < StartsAt)
    <3>1. from0 = at
      BY <2>2 DEF Greater
    <3> QED BY <2>2, <3>1 DEF nextMetricBoundary
  <2> QED BY <2>1, <2>2
<1> HIDE DEF from0, past
<1>6. StartsAt + past > StartsAt /\ (StartsAt + past) - StartsAt = past
  BY <1>1, <1>3
<1>7. OnGrid(StartsAt + past)
  BY <1>4, <1>6 DEF OnGrid
<1>8. /\ Lesser(StartsAt + past, Deadline) \in 0..Deadline
      /\ from0 < Lesser(StartsAt + past, Deadline)
      /\ Lesser(StartsAt + past, Deadline) <= from0 + Interval
      /\ Lesser(StartsAt + past, Deadline) \in {StartsAt + past, Deadline}
  BY <1>1, <1>3 DEF Lesser
<1> QED BY <1>5, <1>7, <1>8 DEF from0

LEMMA AppliedInTime ==
  ASSUME ControllerInv, FlushRevision \/ ApplyWithoutFlush, ~late', isActiveLoad(current)'
  PROVE  /\ ~late /\ now < Deadline /\ collecting'
         /\ intervalStart' = Greater(now, StartsAt) /\ timerAt' = nextMetricBoundary(now)
<1> DEFINE r == Head(inbox)
<1>1. TypeOK /\ r \in 1..Len(loaded) /\ Apply(r) /\ UNCHANGED <<clock, loaded>>
  BY CommandFacts DEF ControllerInv
<1>2. isActiveLoad(current)' = isActiveLoad(current')
  BY <1>1 DEF isActiveLoad
<1> HIDE DEF r
<1>3. current' = r /\ (status'.active <=> isActiveLoad(r) /\ now < Deadline) /\ (late' <=> late \/ now >= Deadline)
  BY <1>1, ApplyFacts
<1>4. now < Deadline /\ ~late
  BY <1>3, NumberFacts
<1>5. status'.active
  BY <1>2, <1>3, <1>4
<1> QED BY <1>1, <1>4, <1>5 DEF Apply, resetTimer

LEMMA OpenIntervalKept == ASSUME FleetInv, ControllerInv', [FleetNext]_allVars PROVE OpenInterval'
<1> USE RunControllerAssumption DEF FleetInv
<1>1. CASE Work
  <2>1. CASE FlushRevision \/ ApplyWithoutFlush
    <3> SUFFICES ASSUME ~late', isActiveLoad(current)' PROVE OpenInterval'
      BY DEF OpenInterval
    <3>1. intervalStart' = Greater(now, StartsAt) /\ timerAt' = nextMetricBoundary(now) /\ now < Deadline
      BY <2>1, AppliedInTime
    <3>2. now \in Nat
      BY NumberFacts
    <3>3. /\ StartsAt <= Greater(now, StartsAt) /\ Greater(now, StartsAt) < nextMetricBoundary(now)
          /\ nextMetricBoundary(now) <= Greater(now, StartsAt) + Interval
          /\ nextMetricBoundary(now) = Deadline \/ OnGrid(nextMetricBoundary(now))
      BY <3>1, <3>2, BoundaryFacts DEF Greater
    <3> QED BY <3>1, <3>3 DEF OpenInterval, OnGrid
  <2>2. CASE FlushBoundary
    <3> SUFFICES ASSUME ~late', isActiveLoad(current)' PROVE OpenInterval'
      BY DEF OpenInterval
    <3>1. /\ timerAt' = nextMetricBoundary(timerAt) /\ intervalStart' = timerAt /\ timerAt < Deadline
          /\ UNCHANGED <<late, loaded, current>>
      BY <2>2 DEF FlushBoundary, resetTimer, envVars, ControllerInv, Reporting
    <3>2. ~late /\ isActiveLoad(current)
      BY <3>1 DEF isActiveLoad
    <3>3. StartsAt < timerAt /\ timerAt \in Nat
      BY <3>2, NumberFacts DEF OpenInterval
    <3>4. Greater(timerAt, StartsAt) = timerAt
      BY <3>3 DEF Greater
    <3>5. /\ timerAt < nextMetricBoundary(timerAt) /\ nextMetricBoundary(timerAt) <= timerAt + Interval
          /\ nextMetricBoundary(timerAt) = Deadline \/ OnGrid(nextMetricBoundary(timerAt))
      BY <3>1, <3>3, <3>4, BoundaryFacts
    <3> QED BY <3>1, <3>3, <3>5 DEF OpenInterval, OnGrid
  <2>3. CASE BoundaryTimer
    <3>1. UNCHANGED <<late, loaded, current, intervalStart>>
      BY <2>3 DEF BoundaryTimer, envVars
    <3>2. ASSUME ~late, isActiveLoad(current) PROVE UNCHANGED timerAt
      BY <2>3, <3>2 DEF BoundaryTimer, OpenInterval, ControllerInv, Reporting
    <3> QED BY <3>1, <3>2 DEF OpenInterval, isActiveLoad, OnGrid
  <2>4. CASE ~(FlushRevision \/ ApplyWithoutFlush \/ FlushBoundary \/ BoundaryTimer)
    <3>1. UNCHANGED <<late, loaded, current, intervalStart, timerAt>>
      BY <1>1, <2>4 DEF Work, Controller, TakeCommand, CommandDrained, RejectOverdue, BeginRevisionFlush,
         DeadlineTimer, DeadlineDrained, FlushDeadline, ReapScheduler, Return, SchedulerEnds, WriteMessage,
         Heartbeat, Tick, envVars, timerVars
    <3> QED BY <3>1 DEF OpenInterval, isActiveLoad, OnGrid
  <2> QED BY <2>1, <2>2, <2>3, <2>4
<1>2. ASSUME NEW active \in BOOLEAN, Plan(active) PROVE OpenInterval'
  BY <1>2, PlanFacts DEF OpenInterval, OnGrid
<1>3. CASE MeasuredRequest
  BY <1>3, MeasuredFacts DEF OpenInterval, isActiveLoad, OnGrid
<1>4. CASE Disconnect \/ UNCHANGED allVars
  BY <1>4, DisconnectFacts DEF OpenInterval, isActiveLoad, OnGrid
<1>5. CASE Reconnect
  BY <1>5, ReconnectFacts DEF OpenInterval, isActiveLoad, OnGrid, Restarted
<1>6. CASE Deliver
  BY <1>6, DeliverFacts DEF OpenInterval, isActiveLoad, OnGrid, ControllerInv
<1> QED BY <1>1, <1>2, <1>3, <1>4, <1>5, <1>6 DEF FleetNext

----------------------------------------------------------------------------
(* Deltas follow each other. *)

LEMMA EmitChained ==
  ASSUME ControllerInv, Chained, ~late, loaded' = loaded, NEW end \in Nat, NEW final \in BOOLEAN,
         Emits(end, final), WellFormed(Delta(end, final)),
         emitted # <<>> => Follows(LastSent, Delta(end, final))
  PROVE  Chained'
<1> DEFINE D == Delta(end, final)
<1>1. /\ Len(emitted) \in Nat /\ Len(emitted') = Len(emitted) + 1 /\ emitted'[Len(emitted) + 1] = D
      /\ \A i \in 1..Len(emitted) : emitted'[i] = emitted[i]
      /\ (emitted # <<>> <=> Len(emitted) >= 1)
  BY NumberFacts DEF Emits
<1>2. WellFormed(D) /\ (Len(emitted) >= 1 => Follows(emitted[Len(emitted)], D))
  BY <1>1 DEF LastSent
<1> HIDE DEF D
<1>3. ASSUME NEW i \in 1..Len(emitted') PROVE WellFormed(emitted'[i])
  <2>1. CASE i \in 1..Len(emitted)
    BY <1>1, <2>1 DEF Chained
  <2>2. CASE i = Len(emitted) + 1
    BY <1>1, <1>2, <2>2
  <2> QED BY <1>1, <2>1, <2>2
<1>4. ASSUME NEW i \in 1..(Len(emitted') - 1) PROVE Follows(emitted'[i], emitted'[i + 1])
  <2>1. CASE i \in 1..(Len(emitted) - 1)
    <3>1. emitted'[i] = emitted[i] /\ emitted'[i + 1] = emitted[i + 1]
      BY <1>1, <2>1
    <3> QED BY <2>1, <3>1 DEF Chained
  <2>2. CASE i = Len(emitted)
    <3>1. emitted'[i] = emitted[i] /\ emitted'[i + 1] = D /\ Len(emitted) >= 1
      BY <1>1, <2>2
    <3> QED BY <1>2, <2>2, <3>1
  <2> QED BY <1>1, <2>1, <2>2
<1>5. \A i \in 1..Len(emitted') : WellFormed(emitted[i])'
  BY <1>3 DEF WellFormed, OnGrid
<1>6. \A i \in 1..(Len(emitted') - 1) : Follows(emitted[i], emitted[i + 1])'
  BY <1>4 DEF Follows, Contiguous
<1> QED BY <1>5, <1>6 DEF Chained

LEMMA DeltaWellFormed ==
  ASSUME NEW end, NEW final, StartsAt <= intervalStart, intervalStart < end,
         end <= intervalStart + Interval, end <= Deadline,
         final => end = Deadline \/ current < Len(loaded), ~final => end < Deadline /\ OnGrid(end)
  PROVE  WellFormed(Delta(end, final))
<1> DEFINE D == Delta(end, final)
<1>1. D.revision = current /\ D.start = intervalStart /\ D.end = end /\ D.final = final
  BY DeltaFacts
<1> HIDE DEF D
<1>2. WellFormed(D)
  BY <1>1 DEF WellFormed
<1> QED BY <1>2 DEF D

(* The next delta of this revision follows the last one.                     *)
LEMMA NextFollows ==
  ASSUME FleetInv, ~late, isActiveLoad(current), emitted # <<>>, LastSent.end < Deadline,
         NEW end, NEW final
  PROVE  Follows(LastSent, Delta(end, final))
<1>1. Len(emitted) \in 1..Len(emitted)
  BY NumberFacts DEF FleetInv
<1>2. LastSent.revision <= current
  BY <1>1 DEF FleetInv, Timing, LastSent
<1>3. LastSent.final => LastSent.revision < current
  BY NumberFacts DEF FleetInv, Frontier
<1>4. LastSent.end <= intervalStart /\ (Contiguous(LastSent.revision, current) => LastSent.end = intervalStart)
  BY DEF FleetInv, Frontier
<1> QED BY <1>2, <1>3, <1>4, DeltaFacts DEF Follows

LEMMA LastSentFacts ==
  ASSUME FleetInv, emitted # <<>>
  PROVE  /\ Len(emitted) \in 1..Len(emitted) /\ LastSent.revision \in 1..Len(loaded)
         /\ LastSent.end \in Nat /\ LastSent.revision <= current /\ LastSent.end <= clock
         /\ (~late => LastSent.end <= Deadline) /\ (InHand => LastSent.end <= now)
<1>1. Len(emitted) \in 1..Len(emitted)
  BY NumberFacts DEF FleetInv
<1> QED BY <1>1, NumberFacts DEF FleetInv, LastSent, Timing, Chained, WellFormed

(* The delta of a flush, while nothing was applied late.                     *)
LEMMA FlushChained ==
  ASSUME FleetInv, ~late'
  PROVE  /\ FlushRevision => Chained' /\ transitionEnd = now /\ now < Deadline /\ ~late /\ isActiveLoad(current)
         /\ FlushBoundary => Chained'
         /\ FlushDeadline => Chained'
<1> USE NumberFacts DEF FleetInv
<1>1. ASSUME FlushRevision
      PROVE  Chained' /\ transitionEnd = now /\ now < Deadline /\ ~late /\ isActiveLoad(current)
  <2>1. now < Deadline /\ ~late
    <3> DEFINE r == Head(inbox)
    <3>1. TypeOK /\ r \in 1..Len(loaded) /\ Apply(r) /\ UNCHANGED <<clock, loaded>>
      BY <1>1, CommandFacts DEF ControllerInv
    <3> HIDE DEF r
    <3>2. late' <=> late \/ now >= Deadline
      BY <3>1, ApplyFacts
    <3> QED BY <3>2
  <2>2. transitionEnd = now
    BY <2>1 DEF transitionEnd, Lesser
  <2>3. /\ pc = "flushing" /\ task = "command" /\ isActiveLoad(current) /\ InHand
        /\ transitionEnd > intervalStart /\ ~Overdue /\ loaded' = loaded
    BY <1>1 DEF FlushRevision, Enqueue, Flushing, ControllerInv, Reporting, InHand, envVars
  <2>4. StartsAt <= intervalStart /\ now <= intervalStart + Interval
    BY <2>1, <2>2, <2>3 DEF OpenInterval, Overdue
  <2>5. current < Len(loaded)
    <3>1. current < inbox[1] /\ inbox[1] = Head(inbox)
      <4>1. Len(inbox) \in Nat /\ Len(inbox) >= 1 /\ Head(inbox) = inbox[1]
        BY <1>1, TailFacts
      <4>2. inbox[1] > current
        BY <4>1 DEF InOrder
      <4>3. Head(inbox) \in 1..Len(loaded)
        BY <1>1, CommandFacts
      <4> QED BY <4>1, <4>2, <4>3
    <3>2. Head(inbox) \in 1..Len(loaded)
      BY <1>1, CommandFacts
    <3> QED BY <3>1, <3>2
  <2>6. WellFormed(Delta(transitionEnd, TRUE))
    <3>1. /\ intervalStart < transitionEnd /\ transitionEnd <= intervalStart + Interval
          /\ transitionEnd <= Deadline
      BY <2>1, <2>2, <2>3, <2>4
    <3> QED BY <2>4, <2>5, <3>1, DeltaWellFormed
  <2>7. emitted # <<>> => Follows(LastSent, Delta(transitionEnd, TRUE))
    <3> SUFFICES ASSUME emitted # <<>> PROVE Follows(LastSent, Delta(transitionEnd, TRUE))
      OBVIOUS
    <3>1. LastSent.end < Deadline
      BY <2>1, <2>3, LastSentFacts
    <3> QED BY <2>1, <2>3, <3>1, NextFollows
  <2>8. Emits(transitionEnd, TRUE) /\ transitionEnd \in Nat
    BY <1>1, <2>2, EmissionFacts
  <2>9. Chained'
    BY <2>1, <2>3, <2>6, <2>7, <2>8, EmitChained
  <2> QED BY <2>1, <2>2, <2>3, <2>9
<1>2. ASSUME FlushBoundary PROVE Chained'
  <2>1. /\ task = "boundary" /\ isActiveLoad(current) /\ timerAt < Deadline /\ timerAt > intervalStart
        /\ loaded' = loaded /\ late' = late
    BY <1>2 DEF FlushBoundary, Enqueue, Flushing, ControllerInv, Reporting, envVars
  <2>2. ~late /\ StartsAt <= intervalStart /\ timerAt <= intervalStart + Interval /\ OnGrid(timerAt)
    BY <2>1 DEF OpenInterval
  <2>3. WellFormed(Delta(timerAt, FALSE))
    <3>1. intervalStart < timerAt /\ timerAt <= Deadline
      BY <2>1
    <3> QED BY <2>1, <2>2, <3>1, DeltaWellFormed
  <2>4. emitted # <<>> => Follows(LastSent, Delta(timerAt, FALSE))
    <3> SUFFICES ASSUME emitted # <<>> PROVE Follows(LastSent, Delta(timerAt, FALSE))
      OBVIOUS
    <3>1. LastSent.end # Deadline
      BY <2>1, <2>2 DEF Frontier
    <3>2. LastSent.end < Deadline
      BY <2>2, <3>1, LastSentFacts
    <3> QED BY <2>1, <2>2, <3>2, NextFollows
  <2>5. Emits(timerAt, FALSE)
    BY <1>2, EmissionFacts
  <2>6. timerAt \in Nat
    OBVIOUS
  <2> QED BY <2>1, <2>2, <2>3, <2>4, <2>5, <2>6, EmitChained
<1>3. ASSUME FlushDeadline PROVE Chained'
  <2>1. /\ task = "deadline" /\ isActiveLoad(current) /\ timerAt = Deadline /\ Deadline > intervalStart
        /\ loaded' = loaded /\ late' = late
    BY <1>3 DEF FlushDeadline, Enqueue, Flushing, ControllerInv, Reporting, envVars
  <2>2. ~late /\ StartsAt <= intervalStart /\ timerAt <= intervalStart + Interval
    BY <2>1 DEF OpenInterval
  <2>3. WellFormed(Delta(Deadline, TRUE))
    <3>1. intervalStart < Deadline /\ Deadline <= Deadline /\ Deadline <= intervalStart + Interval
      BY <2>1, <2>2
    <3> QED BY <2>2, <3>1, DeltaWellFormed
  <2>4. emitted # <<>> => Follows(LastSent, Delta(Deadline, TRUE))
    <3> SUFFICES ASSUME emitted # <<>> PROVE Follows(LastSent, Delta(Deadline, TRUE))
      OBVIOUS
    <3>1. LastSent.end # Deadline
      BY <2>1, <2>2 DEF Frontier
    <3>2. LastSent.end < Deadline
      BY <2>2, <3>1, LastSentFacts
    <3> QED BY <2>1, <2>2, <3>2, NextFollows
  <2>5. Emits(Deadline, TRUE) /\ Deadline \in Nat
    BY <1>3, EmissionFacts
  <2> QED BY <2>1, <2>2, <2>3, <2>4, <2>5, EmitChained
<1> QED BY <1>1, <1>2, <1>3

(* More revisions change nothing about the deltas of earlier ones.           *)
LEMMA ContiguousGrows ==
  ASSUME NEW active \in BOOLEAN, ControllerInv, Plan(active), NEW r \in 1..Len(loaded), NEW s \in 0..Len(loaded)
  PROVE  (\A q \in r..s : loaded'[q]) <=> Contiguous(r, s)
<1>1. \A q \in r..s : loaded'[q] = loaded[q]
  BY PlanFacts
<1> QED BY <1>1 DEF Contiguous

LEMMA ChainedKept == ASSUME FleetInv, ControllerInv', [FleetNext]_allVars PROVE Chained'
<1> SUFFICES ASSUME ~late' PROVE Chained'
  BY DEF Chained
<1> USE DEF FleetInv
<1>1. CASE Work
  <2>1. CASE FlushRevision \/ FlushBoundary \/ FlushDeadline
    BY <2>1, FlushChained
  <2>2. CASE ~(FlushRevision \/ FlushBoundary \/ FlushDeadline)
    <3>1. UNCHANGED <<emitted, loaded>>
      BY <1>1, <2>2 DEF Work, Controller, TakeCommand, CommandDrained, RejectOverdue, BeginRevisionFlush,
         ApplyWithoutFlush, BoundaryTimer, DeadlineTimer, DeadlineDrained, ReapScheduler, Return,
         SchedulerEnds, WriteMessage, Heartbeat, Tick, envVars, outVars
    <3>2. late' = late \/ late' = (late \/ now >= Deadline)
      BY <1>1, <2>2 DEF Work, Controller, TakeCommand, CommandDrained, RejectOverdue, BeginRevisionFlush,
         ApplyWithoutFlush, Apply, BoundaryTimer, DeadlineTimer, DeadlineDrained, ReapScheduler, Return,
         SchedulerEnds, WriteMessage, Heartbeat, Tick
    <3>3. ~late
      BY <3>2
    <3> QED BY <3>1, <3>3 DEF Chained, WellFormed, Follows, Contiguous, OnGrid
  <2> QED BY <2>1, <2>2
<1>2. ASSUME NEW active \in BOOLEAN, Plan(active) PROVE Chained'
  <2>1. /\ UNCHANGED <<emitted, late>> /\ Len(loaded') = Len(loaded) + 1
    BY <1>2, PlanFacts
  <2>2. ASSUME NEW i \in 1..Len(emitted) PROVE WellFormed(emitted[i])'
    <3>1. WellFormed(emitted[i]) /\ emitted[i].revision \in 1..Len(loaded)
      BY <2>1, NumberFacts DEF Chained
    <3>2. emitted[i].revision < Len(loaded) => emitted[i].revision < Len(loaded')
      BY <2>1, <3>1, NumberFacts
    <3> QED BY <2>1, <3>1, <3>2 DEF WellFormed, OnGrid
  <2>3. ASSUME NEW i \in 1..(Len(emitted) - 1) PROVE Follows(emitted[i], emitted[i + 1])'
    <3>1. Follows(emitted[i], emitted[i + 1])
      BY <2>1 DEF Chained
    <3>2. i \in 1..Len(emitted) /\ i + 1 \in 1..Len(emitted)
      BY NumberFacts
    <3>3. emitted[i].revision \in 1..Len(loaded) /\ emitted[i + 1].revision \in 0..Len(loaded)
      BY <3>2, NumberFacts
    <3>4. (\A q \in emitted[i].revision..emitted[i + 1].revision : loaded'[q])
            <=> Contiguous(emitted[i].revision, emitted[i + 1].revision)
      BY <1>2, <3>3, ContiguousGrows
    <3> QED BY <2>1, <3>1, <3>4 DEF Follows, Contiguous
  <2> QED BY <2>1, <2>2, <2>3 DEF Chained
<1>3. CASE MeasuredRequest
  BY <1>3, MeasuredFacts DEF Chained, WellFormed, Follows, Contiguous, OnGrid
<1>4. CASE Disconnect \/ UNCHANGED allVars
  BY <1>4, DisconnectFacts DEF Chained, WellFormed, Follows, Contiguous, OnGrid
<1>5. CASE Reconnect
  BY <1>5, ReconnectFacts DEF Chained, WellFormed, Follows, Contiguous, OnGrid, Restarted
<1>6. CASE Deliver
  BY <1>6, DeliverFacts DEF Chained, WellFormed, Follows, Contiguous, OnGrid, ControllerInv
<1> QED BY <1>1, <1>2, <1>3, <1>4, <1>5, <1>6 DEF FleetNext

LEMMA FrontierKept == ASSUME FleetInv, ControllerInv', [FleetNext]_allVars PROVE Frontier'
<1> SUFFICES ASSUME ~late' PROVE Frontier'
  BY DEF Frontier
<1> USE NumberFacts DEF FleetInv
<1>1. CASE Work
  <2>1. CASE FlushRevision
    <3>1. transitionEnd = now /\ now < Deadline /\ ~late /\ isActiveLoad(current)
      BY <2>1, FlushChained
    <3>2. Emits(transitionEnd, TRUE) /\ transitionEnd > intervalStart
      BY <2>1, EmissionFacts DEF FlushRevision, Enqueue, Flushing
    <3>3. LastSent' = Delta(transitionEnd, TRUE)
      BY <3>2 DEF Emits, LastSent
    <3>4. LastSent'.end = now /\ LastSent'.revision = current /\ LastSent'.end < Deadline
      <4>1. /\ Delta(transitionEnd, TRUE).end = transitionEnd
            /\ Delta(transitionEnd, TRUE).revision = current
        BY DeltaFacts
      <4> QED BY <3>1, <3>3, <4>1
    <3>5. current' > current
      BY <2>1, TailFacts DEF InOrder
    <3>6. isActiveLoad(current)' => intervalStart' = now
      <4> SUFFICES ASSUME isActiveLoad(current)' PROVE intervalStart' = now
        OBVIOUS
      <4>1. intervalStart' = Greater(now, StartsAt)
        BY <2>1, AppliedInTime
      <4>2. now > StartsAt
        BY <3>1, <3>2 DEF OpenInterval
      <4> QED BY <4>1, <4>2 DEF Greater
    <3>7. LastSent.revision' < current'
      BY <3>4, <3>5
    <3> QED BY <3>4, <3>6, <3>7 DEF Frontier
  <2>2. CASE ApplyWithoutFlush
    <3> SUFFICES ASSUME emitted' # <<>> PROVE Frontier'
      BY DEF Frontier
    <3>1. UNCHANGED <<emitted, loaded>> /\ task = "command" /\ pc = "deciding" /\ ~MustReport
      BY <2>2 DEF ApplyWithoutFlush, outVars, envVars, ControllerInv, Reporting
    <3>2. now < Deadline /\ ~late
      <4> DEFINE r == Head(inbox)
      <4>1. TypeOK /\ r \in 1..Len(loaded) /\ Apply(r) /\ UNCHANGED <<clock, loaded>>
        BY <2>2, CommandFacts DEF ControllerInv
      <4> HIDE DEF r
      <4>2. late' <=> late \/ now >= Deadline
        BY <4>1, ApplyFacts
      <4> QED BY <4>2
    <3>3. /\ LastSent' = LastSent /\ LastSent.revision \in 1..Len(loaded) /\ LastSent.revision <= current
          /\ LastSent.end \in Nat /\ LastSent.end <= now /\ LastSent.end < Deadline
      BY <3>1, <3>2, LastSentFacts DEF LastSent, InHand
    <3>4. current' > current
      BY <2>2, TailFacts DEF InOrder
    <3>5. current' \in Nat
      BY DEF ControllerInv, TypeOK
    <3>6. LastSent.revision < current'
      BY <3>3, <3>4, <3>5
    <3>7. ASSUME isActiveLoad(current)' PROVE intervalStart' = Greater(now, StartsAt)
      BY <2>2, <3>7, AppliedInTime
    <3>8. Greater(now, StartsAt) \in Nat /\ now <= Greater(now, StartsAt)
      BY DEF Greater
    <3>9. ASSUME Contiguous(LastSent.revision, current') PROVE LastSent.end = Greater(now, StartsAt)
      <4>1. current \in LastSent.revision..current'
        BY <3>3, <3>4, <3>5
      <4>2. isActiveLoad(current)
        BY <3>3, <3>9, <4>1 DEF Contiguous, isActiveLoad
      <4>3. Contiguous(LastSent.revision, current)
        <5>1. LastSent.revision..current \subseteq LastSent.revision..current'
          BY <3>3, <3>4, <3>5
        <5> QED BY <3>9, <5>1 DEF Contiguous
      <4>4. LastSent.end = intervalStart
        BY <3>1, <3>2, <3>3, <4>2, <4>3 DEF Frontier
      <4>5. collecting /\ transitionEnd = now
        BY <3>2, <4>2 DEF ControllerInv, Reporting, transitionEnd, Lesser
      <4>6. now <= intervalStart /\ StartsAt <= intervalStart
        BY <3>1, <3>2, <4>2, <4>5 DEF MustReport, OpenInterval
      <4>7. now = intervalStart
        BY <3>3, <4>4, <4>6
      <4> QED BY <4>4, <4>6, <4>7 DEF Greater
    <3>10. Contiguous(LastSent.revision, current)' <=> Contiguous(LastSent.revision, current')
      BY <3>1, <3>3 DEF Contiguous
    <3> QED BY <3>1, <3>3, <3>6, <3>7, <3>8, <3>9, <3>10 DEF Frontier
  <2>3. CASE FlushBoundary
    <3>1. Emits(timerAt, FALSE) /\ timerAt < Deadline /\ intervalStart' = timerAt
      BY <2>3, EmissionFacts DEF FlushBoundary, Enqueue, ControllerInv, Reporting
    <3>2. LastSent' = Delta(timerAt, FALSE)
      BY <3>1 DEF Emits, LastSent
    <3>3. LastSent'.end = timerAt /\ LastSent'.final = FALSE
      <4>1. Delta(timerAt, FALSE).end = timerAt /\ Delta(timerAt, FALSE).final = FALSE
        BY DEF Delta
      <4> QED BY <3>2, <4>1
    <3> QED BY <3>1, <3>3 DEF Frontier
  <2>4. CASE FlushDeadline
    <3>1. Emits(Deadline, TRUE) /\ armed' = FALSE /\ task' = "none"
      BY <2>4, EmissionFacts DEF FlushDeadline
    <3>2. LastSent' = Delta(Deadline, TRUE)
      BY <3>1 DEF Emits, LastSent
    <3>3. LastSent'.end = Deadline
      BY <3>2, DeltaFacts
    <3> QED BY <3>1, <3>3 DEF Frontier
  <2>5. CASE ~(FlushRevision \/ ApplyWithoutFlush \/ FlushBoundary \/ FlushDeadline)
    <3>1. /\ UNCHANGED <<emitted, loaded, late, current, intervalStart>>
          /\ ~armed => ~armed'
          /\ ~armed /\ task \in {"none", "command"} => task' \in {"none", "command"}
      <4>1. UNCHANGED <<emitted, loaded, late, current, intervalStart>>
        BY <1>1, <2>5 DEF Work, Controller, TakeCommand, CommandDrained, RejectOverdue, BeginRevisionFlush,
           BoundaryTimer, DeadlineTimer, DeadlineDrained, ReapScheduler, Return, SchedulerEnds, WriteMessage,
           Heartbeat, Tick, envVars, outVars, timerVars
      <4>2. ~armed => ~armed'
        BY <1>1, <2>5 DEF Work, Controller, TakeCommand, CommandDrained, RejectOverdue, BeginRevisionFlush,
           BoundaryTimer, TimerFires, DeadlineTimer, DeadlineDrained, ReapScheduler, Return, SchedulerEnds,
           WriteMessage, Heartbeat, Tick, timerVars
      <4>3. ~armed /\ task \in {"none", "command"} => task' \in {"none", "command"}
        BY <1>1, <2>5 DEF Work, Controller, TakeCommand, CommandDrained, RejectOverdue, BeginRevisionFlush,
           BoundaryTimer, TimerFires, DeadlineTimer, DeadlineDrained, ReapScheduler, Return, SchedulerEnds,
           WriteMessage, Heartbeat, Tick
      <4> QED BY <4>1, <4>2, <4>3
    <3> QED BY <3>1 DEF Frontier, LastSent, Contiguous, isActiveLoad
  <2> QED BY <2>1, <2>2, <2>3, <2>4, <2>5
<1>2. ASSUME NEW active \in BOOLEAN, Plan(active) PROVE Frontier'
  <2> SUFFICES ASSUME emitted # <<>> PROVE Frontier'
    BY <1>2, PlanFacts DEF Frontier
  <2>1. /\ UNCHANGED <<emitted, late, armed, task, current, intervalStart>>
        /\ isActiveLoad(current)' = isActiveLoad(current)
    BY <1>2, PlanFacts
  <2>2. LastSent.revision \in 1..Len(loaded) /\ current \in 0..Len(loaded)
    BY LastSentFacts
  <2>3. (\A q \in LastSent.revision..current : loaded'[q]) <=> Contiguous(LastSent.revision, current)
    BY <1>2, <2>2, ContiguousGrows
  <2> QED BY <2>1, <2>3 DEF Frontier, LastSent, Contiguous
<1>3. CASE MeasuredRequest
  BY <1>3, MeasuredFacts DEF Frontier, LastSent, Contiguous, isActiveLoad
<1>4. CASE Disconnect \/ UNCHANGED allVars
  BY <1>4, DisconnectFacts DEF Frontier, LastSent, Contiguous, isActiveLoad
<1>5. CASE Reconnect
  BY <1>5, ReconnectFacts DEF Frontier, LastSent, Contiguous, isActiveLoad, Restarted
<1>6. CASE Deliver
  BY <1>6, DeliverFacts DEF Frontier, LastSent, Contiguous, isActiveLoad, ControllerInv
<1> QED BY <1>1, <1>2, <1>3, <1>4, <1>5, <1>6 DEF FleetNext

----------------------------------------------------------------------------
(* The aggregator's state of the worker. *)

LEMMA ClockFacts ==
  ASSUME FleetInv, [FleetNext]_allVars
  PROVE  clock' \in Nat /\ clock <= clock'
<1>1. clock \in Nat
  BY NumberFacts DEF FleetInv
<1>2. clock' \in {clock, clock + 1}
  <2>1. CASE Work
    BY <2>1, WorkFacts DEF FleetInv
  <2>2. ASSUME NEW active \in BOOLEAN, Plan(active) PROVE clock' = clock
    BY <2>2, PlanFacts DEF FleetInv
  <2>3. CASE MeasuredRequest
    BY <2>3, MeasuredFacts
  <2>4. CASE Disconnect \/ UNCHANGED allVars
    BY <2>4, DisconnectFacts
  <2>5. CASE Reconnect
    BY <2>5, ReconnectFacts
  <2>6. CASE Deliver
    BY <2>6, DeliverFacts DEF FleetInv, ControllerInv
  <2> QED BY <2>1, <2>2, <2>3, <2>4, <2>5, <2>6 DEF FleetNext
<1> QED BY <1>1, <1>2

(* Nothing of the aggregator's moves: Account is kept as long as the deltas  *)
(* it knows are.                                                             *)
LEMMA AccountStays ==
  ASSUME FleetInv, [FleetNext]_allVars, UNCHANGED <<account, snapshot, from, session>>,
         cancelled => cancelled', delivered' = delivered \/ (cancelled' /\ delivered' = delivered + 1),
         \A i \in 1..delivered : emitted'[i] = emitted[i]
  PROVE  Account'
<1>1. /\ from = 0 => account = Agg!ZeroState /\ snapshot = 0 /\ (~cancelled => delivered = 0)
      /\ from = session => /\ account.lastSequence <= delivered /\ account.lastSequence >= 1
                           /\ account.lastDelta = Message(emitted[account.lastSequence])
                           /\ ~cancelled => delivered = account.lastSequence
  BY DEF FleetInv, FleetTypes, Account
<1>2. /\ account.lastSequence \in Nat /\ account.lastInterval \in Nat /\ clock \in Nat /\ clock' \in Nat
      /\ clock <= clock' /\ delivered \in Nat
  BY ClockFacts, NumberFacts DEF FleetInv, FleetTypes
<1>3. from # 0 => account.lastInterval <= clock'
  BY <1>2 DEF FleetInv, Account
<1>4. from = session => emitted'[account.lastSequence] = emitted[account.lastSequence]
  BY <1>1, <1>2
<1>5. from' = 0 => account' = Agg!ZeroState /\ snapshot' = 0 /\ (~cancelled' => delivered' = 0)
  BY <1>1
<1>6. from' = session' => /\ account'.lastSequence <= delivered'
                          /\ account'.lastDelta = Message(emitted'[account'.lastSequence])
                          /\ ~cancelled' => delivered' = account'.lastSequence
  BY <1>1, <1>2, <1>4
<1>7. from' # 0 =>
       /\ account'.lastDelta.end = account'.lastInterval
       /\ account'.lastDelta.sequence = account'.lastSequence /\ account'.lastSequence >= 1
       /\ account'.lastDelta.revision = account'.lastRevision /\ account'.lastRevision >= 1
       /\ StartsAt < account'.lastInterval /\ account'.lastInterval <= clock'
       /\ snapshot' <= account'.lastInterval
       /\ account'.closedRevision <= account'.lastRevision
       /\ account'.closedRevision = account'.lastRevision => account'.lastDelta.final
  BY <1>3 DEF FleetInv, Account
<1> QED BY <1>5, <1>6, <1>7 DEF Account, Agg!ZeroState, Message

(* The first delta of a session that follows one that was merged is refused: *)
(* it is numbered 1, and is no redelivery.                                   *)
LEMMA RefusedAfterMerge ==
  ASSUME FleetInv, Deliver, from \notin {0, session}
  PROVE  Rejected(emitted[delivered + 1])
<1> USE DEF FleetInv
<1> DEFINE d == emitted[delivered + 1]
<1>1. /\ ~cancelled /\ delivered + 1 \in 1..Len(emitted) /\ (Merged(d) \/ Rejected(d) \/ Ignored(d))
  BY DeliverFacts DEF ControllerInv
<1>2. delivered = 0
  BY <1>1 DEF Superseded
<1>3. d.sequence = 1 /\ d.end > account.lastInterval
  BY <1>1, <1>2, NumberFacts DEF Superseded, Timing
<1> HIDE DEF d
<1>4. account.lastSequence \in Nat /\ account.lastInterval \in Nat
  BY NumberFacts DEF FleetTypes
<1>5. ~Acceptable(d)
  BY <1>3, <1>4 DEF Account, Acceptable
<1>6. account.lastDelta # Message(d)
  <2>1. account.lastDelta.end = account.lastInterval
    BY DEF Account
  <2>2. Message(d).end = d.end
    BY MessageFacts
  <2> QED BY <1>3, <1>4, <2>1, <2>2
<1>7. Rejected(d)
  BY <1>1, <1>5, <1>6 DEF Merged, Ignored
<1> QED BY <1>7 DEF d

(* No delta is a redelivery, and only the session that was merged, or the    *)
(* first, is.                                                                *)
LEMMA DeliveryFacts ==
  ASSUME FleetInv, Deliver
  PROVE  \/ Merged(emitted[delivered + 1]) /\ from \in {0, session}
         \/ Rejected(emitted[delivered + 1])
<1> USE DEF FleetInv
<1> DEFINE d == emitted[delivered + 1]
<1>1. CASE from \notin {0, session}
  BY <1>1, RefusedAfterMerge
<1>2. CASE from \in {0, session}
  <2>1. ~cancelled /\ delivered + 1 \in 1..Len(emitted) /\ (Merged(d) \/ Rejected(d) \/ Ignored(d))
    BY DeliverFacts DEF ControllerInv
  <2>2. d.sequence = delivered + 1 /\ delivered \in Nat
    BY <2>1, NumberFacts DEF Timing, FleetTypes
  <2> HIDE DEF d
  <2>3. account.lastDelta # Message(d)
    <3>1. CASE from = 0
      <4>1. account.lastDelta = <<>>
        BY <3>1 DEF Account, Agg!ZeroState, Agg!NoDelta
      <4>2. Message(d) # <<>>
        BY DEF Message
      <4> QED BY <4>1, <4>2
    <3>2. CASE from # 0
      <4>1. account.lastDelta.sequence = delivered
        BY <1>2, <2>1, <3>2 DEF Account
      <4>2. Message(d).sequence = delivered + 1
        BY <2>2, MessageFacts
      <4> QED BY <2>2, <4>1, <4>2
    <3> QED BY <3>1, <3>2
  <2>4. Merged(d) \/ Rejected(d)
    BY <2>1, <2>3 DEF Ignored
  <2> QED BY <1>2, <2>4 DEF d
<1> QED BY <1>1, <1>2

LEMMA AccountKept == ASSUME FleetInv, ControllerInv', FleetTypes', [FleetNext]_allVars PROVE Account'
<1> USE DEF FleetInv
<1>1. CASE Work
  <2>1. \A i \in 1..delivered : i \in 1..Len(emitted)
    BY NumberFacts DEF FleetTypes
  <2> QED BY <1>1, <2>1, WorkFacts, AccountStays
<1>2. ASSUME NEW active \in BOOLEAN, Plan(active) PROVE Account'
  BY <1>2, PlanFacts, AccountStays
<1>3. CASE MeasuredRequest
  BY <1>3, MeasuredFacts, AccountStays
<1>4. CASE Disconnect \/ UNCHANGED allVars
  BY <1>4, DisconnectFacts, AccountStays
<1>5. CASE Reconnect
  <2>1. /\ UNCHANGED <<account, snapshot, from, clock>> /\ session' = session + 1 /\ delivered' = 0
        /\ from \in 0..session /\ session \in Nat
    BY <1>5, ReconnectFacts DEF FleetTypes
  <2>2. from' # session'
    BY <2>1
  <2> QED BY <2>1, <2>2 DEF Account, Agg!ZeroState
<1>6. CASE Deliver
  <2> DEFINE d == emitted[delivered + 1]
  <2>1. /\ ~cancelled /\ delivered + 1 \in 1..Len(emitted) /\ delivered' = delivered + 1
        /\ UNCHANGED <<clock, emitted, session>> /\ (Merged(d) \/ Rejected(d))
    BY <1>6, DeliverFacts, DeliveryFacts DEF ControllerInv
  <2>2. d.sequence = delivered + 1 /\ d.end <= clock
    BY <2>1 DEF Timing
  <2>3. /\ d.end \in Nat /\ d.start \in Nat /\ d.revision \in 1..Len(loaded) /\ d.requests \in 0..1
        /\ StartsAt \in Nat /\ clock \in Nat /\ delivered \in Nat
    BY <2>1, NumberFacts DEF FleetTypes
  <2>4. emitted'[delivered + 1] = d
    BY <2>1
  <2> HIDE DEF d
  <2>5. CASE Merged(d)
    <3>1. /\ account'.lastSequence = delivered + 1 /\ account'.lastDelta = Message(d)
          /\ account'.lastInterval = d.end /\ account'.lastRevision = d.revision
          /\ account'.closedRevision = IF d.final THEN d.revision ELSE account.closedRevision
      BY <2>2, <2>5, AdvanceFacts DEF Merged
    <3>2. Message(d).end = d.end /\ Message(d).sequence = d.sequence /\ Message(d).revision = d.revision
          /\ Message(d).final = d.final
      BY MessageFacts
    <3>3. /\ from' = session /\ snapshot' = snapshot + d.requests /\ d.end > d.start /\ d.start >= StartsAt
          /\ d.revision >= account.lastRevision /\ d.revision # account.closedRevision
          /\ account.lastInterval # 0 => d.start >= account.lastInterval
      BY <2>5 DEF Merged, Acceptable
    <3>4. /\ from = 0 => account.closedRevision = 0 /\ account.lastRevision = 0 /\ snapshot = 0
          /\ from # 0 => account.closedRevision <= account.lastRevision /\ snapshot <= account.lastInterval
                         /\ account.lastInterval # 0
          /\ snapshot \in Nat /\ account.closedRevision \in Nat /\ account.lastRevision \in Nat
          /\ account.lastInterval \in Nat /\ session >= 1
      <4>1. from = 0 => account.closedRevision = 0 /\ account.lastRevision = 0 /\ snapshot = 0
        BY DEF Account, Agg!ZeroState
      <4>2. /\ snapshot \in Nat /\ account.closedRevision \in Nat /\ account.lastRevision \in Nat
            /\ account.lastInterval \in Nat /\ session >= 1
        <5>1. Len(loaded) \in Nat /\ Deadline \in Nat
          BY NumberFacts
        <5>2. /\ snapshot \in Nat /\ account.closedRevision \in 0..Len(loaded)
              /\ account.lastRevision \in 0..Len(loaded) /\ account.lastInterval \in 0..Deadline
          BY DEF FleetTypes
        <5>3. session \in 1..MaxSessions
          BY DEF FleetTypes
        <5>4. session >= 1
          BY <5>3, FleetAssumption
        <5> HIDE DEF FleetInv
        <5> QED BY <5>1, <5>2, <5>4
      <4>3. from # 0 => /\ account.closedRevision <= account.lastRevision /\ snapshot <= account.lastInterval
                        /\ account.lastInterval # 0
        BY <2>3, <4>2 DEF Account
      <4> QED BY <4>1, <4>2, <4>3
    <3>5. snapshot' <= d.end /\ StartsAt < d.end
      BY <2>3, <3>3, <3>4
    <3>6. ~d.final => account.closedRevision < d.revision
      BY <2>3, <3>3, <3>4
    <3>7. from' # 0 /\ session' = session
      BY <2>1, <2>3, <3>3, <3>4
    <3>8. /\ account'.closedRevision <= account'.lastRevision
          /\ account'.closedRevision = account'.lastRevision => account'.lastDelta.final
      BY <2>3, <3>1, <3>2, <3>4, <3>6
    <3>9. account'.lastDelta = Message(emitted'[account'.lastSequence])
      BY <2>4, <3>1
    <3> QED BY <2>1, <2>2, <2>3, <3>1, <3>2, <3>3, <3>5, <3>7, <3>8, <3>9 DEF Account
  <2>6. CASE Rejected(d)
    BY <2>1, <2>6, AccountStays DEF Rejected
  <2> QED BY <2>1, <2>5, <2>6
<1> QED BY <1>1, <1>2, <1>3, <1>4, <1>5, <1>6 DEF FleetNext

----------------------------------------------------------------------------
(* A session that follows one that was merged. *)

LEMMA FirstOfSession ==
  ASSUME FleetInv, from \notin {0, session}, UNCHANGED <<from, session, account>>,
         NEW end \in Nat, NEW final, Emits(end, final), end > account.lastInterval
  PROVE  emitted' # <<>> /\ emitted'[1].end > account'.lastInterval
<1>1. Len(emitted) \in Nat /\ (emitted # <<>> <=> Len(emitted) >= 1)
  BY NumberFacts DEF FleetInv
<1>2. CASE emitted = <<>>
  <2>1. emitted'[1] = Delta(end, final)
    BY <1>1, <1>2 DEF Emits
  <2> QED BY <2>1, DeltaFacts DEF Emits
<1>3. CASE emitted # <<>>
  <2>1. emitted'[1] = emitted[1]
    BY <1>1, <1>3 DEF Emits
  <2> QED BY <1>3, <2>1 DEF Emits, FleetInv, Superseded
<1> QED BY <1>2, <1>3

LEMMA SupersededKept == ASSUME FleetInv, ControllerInv', FleetTypes', [FleetNext]_allVars PROVE Superseded'
<1> USE NumberFacts DEF FleetInv
<1>1. CASE Work
  <2> SUFFICES ASSUME from' \notin {0, session'} PROVE Superseded'
    BY DEF Superseded
  <2>0. /\ from \notin {0, session} /\ UNCHANGED <<from, session, account, delivered, cancelled, loaded>>
        /\ account.lastInterval \in 0..Deadline /\ account.lastInterval <= clock
    BY <1>1, WorkFacts DEF FleetTypes, Account
  <2> DEFINE last == account.lastInterval
  <2>1. CASE FlushRevision
    <3>1. /\ isActiveLoad(current) /\ collecting /\ InHand /\ transitionEnd > intervalStart
          /\ Emits(transitionEnd, TRUE) /\ transitionEnd \in Nat /\ transitionEnd = Lesser(now, Deadline)
      BY <2>1, EmissionFacts DEF FlushRevision, Enqueue, Flushing, ControllerInv, Reporting, InHand,
         transitionEnd, Lesser
    <3>2. /\ now >= last /\ last < Deadline
          /\ emitted = <<>> => intervalStart >= last \/ now >= Deadline
      BY <2>0, <3>1 DEF Superseded, Belated
    <3>3. emitted = <<>> => transitionEnd > last
      BY <2>0, <3>1, <3>2 DEF Lesser
    <3>4. emitted' # <<>> /\ emitted'[1].end > last
      <4>1. CASE emitted = <<>>
        BY <2>0, <3>1, <3>3, <4>1, FirstOfSession
      <4>2. CASE emitted # <<>>
        <5>1. emitted'[1] = emitted[1] /\ emitted' # <<>>
          BY <3>1, <4>2 DEF Emits
        <5> QED BY <2>0, <4>2, <5>1 DEF Superseded
      <4> QED BY <4>1, <4>2
    <3>5. task' = "none"
      BY <2>1 DEF FlushRevision
    <3> QED BY <2>0, <3>2, <3>4, <3>5 DEF Superseded, InHand
  <2>2. CASE ApplyWithoutFlush
    <3>1. /\ InHand /\ UNCHANGED <<emitted, clock>> /\ task' = "none" /\ pc' = "select"
          /\ Apply(Head(inbox)) /\ now <= clock
      BY <2>2 DEF ApplyWithoutFlush, ControllerInv, Reporting, InHand, envVars, outVars, Timing
    <3>2. now >= last /\ now \in Nat
      BY <2>0, <3>1 DEF Superseded
    <3>3. /\ status'.active => collecting' /\ intervalStart' = Greater(now, StartsAt)
          /\ ~status'.active => UNCHANGED collecting /\ timerAt' = Deadline
          /\ isActiveLoad(current)' = isActiveLoad(current')
          /\ (status'.active <=> isActiveLoad(current') /\ now < Deadline)
      BY <2>2, <3>1, AppliedFacts DEF Apply, resetTimer
    <3>4. collecting' => last < Deadline
      <4>1. CASE status'.active
        BY <2>0, <3>2, <3>3, <4>1
      <4>2. CASE ~status'.active
        <5>1. collecting' = collecting
          BY <3>3, <4>2
        <5>2. collecting => last < Deadline
          BY <2>0 DEF Superseded
        <5> QED BY <5>1, <5>2
      <4> QED BY <4>1, <4>2
    <3>5. isActiveLoad(current)' => intervalStart' >= last \/ (timerAt' = Deadline /\ clock' >= Deadline)
      BY <2>0, <3>1, <3>2, <3>3 DEF Greater
    <3> QED BY <2>0, <3>1, <3>4, <3>5 DEF Superseded, InHand, Belated
  <2>3. CASE FlushBoundary
    <3>0. timerAt \in Nat
      OBVIOUS
    <3>1. /\ isActiveLoad(current) /\ collecting /\ timerAt < Deadline /\ timerAt > intervalStart
          /\ Emits(timerAt, FALSE) /\ UNCHANGED <<collecting, now>> /\ task' = "none"
      BY <2>3, EmissionFacts DEF FlushBoundary, Enqueue, Flushing, ControllerInv, Reporting
    <3>2. emitted = <<>> => timerAt > last
      BY <2>0, <3>1 DEF Superseded, Belated
    <3>3. emitted' # <<>> /\ emitted'[1].end > last
      <4>1. CASE emitted = <<>>
        BY <2>0, <3>0, <3>1, <3>2, <4>1, FirstOfSession
      <4>2. CASE emitted # <<>>
        <5>1. emitted'[1] = emitted[1] /\ emitted' # <<>>
          BY <3>1, <4>2 DEF Emits
        <5> QED BY <2>0, <4>2, <5>1 DEF Superseded
      <4> QED BY <4>1, <4>2
    <3> QED BY <2>0, <3>1, <3>3 DEF Superseded, InHand
  <2>4. CASE FlushDeadline
    <3>1. /\ collecting /\ Emits(Deadline, TRUE) /\ UNCHANGED <<collecting, now>> /\ task' = "none"
      BY <2>4, EmissionFacts DEF FlushDeadline, Enqueue, ControllerInv, Reporting
    <3>2. Deadline > last
      BY <2>0, <3>1 DEF Superseded
    <3>3. emitted' # <<>> /\ emitted'[1].end > last
      BY <2>0, <3>1, <3>2, FirstOfSession
    <3> QED BY <2>0, <3>1, <3>3 DEF Superseded, InHand
  <2>5. CASE TakeCommand \/ CommandDrained
    <3>1. /\ now' = clock /\ UNCHANGED <<emitted, clock, current, collecting, intervalStart, timerAt>>
      BY <2>5 DEF TakeCommand, CommandDrained, envVars, outVars, schedVars, timerVars
    <3> QED BY <2>0, <3>1 DEF Superseded, Belated, isActiveLoad
  <2>6. CASE BoundaryTimer
    <3>1. /\ timerAt < Deadline /\ task' # "command"
          /\ UNCHANGED <<emitted, current, collecting, intervalStart>>
      BY <2>6 DEF BoundaryTimer, TimerFires, envVars, outVars, ControllerInv, TypeOK
    <3> QED BY <2>0, <3>1 DEF Superseded, Belated, isActiveLoad, InHand
  <2>7. CASE ~(\/ FlushRevision \/ ApplyWithoutFlush \/ FlushBoundary \/ FlushDeadline \/ TakeCommand
               \/ CommandDrained \/ BoundaryTimer)
    <3>1. /\ UNCHANGED <<emitted, current, collecting, intervalStart, timerAt>> /\ clock' >= clock
          /\ InHand' => InHand /\ now' = now
      <4>1. UNCHANGED <<emitted, current, collecting, intervalStart, timerAt>>
        BY <1>1, <2>7 DEF Work, Controller, RejectOverdue, BeginRevisionFlush, DeadlineTimer,
           DeadlineDrained, ReapScheduler, Return, SchedulerEnds, WriteMessage, Heartbeat, Tick, outVars,
           schedVars, timerVars
      <4>2. clock' >= clock
        BY <1>1, WorkFacts
      <4>3. InHand' => InHand /\ now' = now
        BY <1>1, <2>7 DEF Work, Controller, RejectOverdue, BeginRevisionFlush, BeginFlush, DeadlineTimer,
           TimerFires, DeadlineDrained, Drained, ReapScheduler, Return, Interruptible, SchedulerEnds,
           WriteMessage, Heartbeat, Tick, InHand
      <4> QED BY <4>1, <4>2, <4>3
    <3>2. Belated => Belated'
      <4>1. clock \in Nat /\ clock' \in Nat /\ Deadline \in Nat
        BY ClockFacts
      <4> HIDE DEF FleetInv
      <4> QED BY <3>1, <4>1 DEF Belated
    <3>3. isActiveLoad(current)' = isActiveLoad(current)
      BY <2>0, <3>1 DEF isActiveLoad
    <3> QED BY <2>0, <3>1, <3>2, <3>3 DEF Superseded
  <2> QED BY <2>1, <2>2, <2>3, <2>4, <2>5, <2>6, <2>7
<1>2. ASSUME NEW active \in BOOLEAN, Plan(active) PROVE Superseded'
  BY <1>2, PlanFacts DEF Superseded, Belated, InHand
<1>3. CASE MeasuredRequest
  BY <1>3, MeasuredFacts DEF Superseded, Belated, InHand, isActiveLoad
<1>4. CASE Disconnect \/ UNCHANGED allVars
  BY <1>4, DisconnectFacts DEF Superseded, Belated, InHand, isActiveLoad
<1>5. CASE Reconnect
  <2>1. /\ delivered' = 0 /\ emitted' = <<>> /\ ~collecting' /\ task' = "none"
    BY <1>5, ReconnectFacts DEF Restarted
  <2> QED BY <2>1 DEF Superseded, InHand
<1>6. CASE Deliver
  <2> DEFINE d == emitted[delivered + 1]
  <2>1. /\ UNCHANGED <<clock, loaded, pc, task, current, collecting, intervalStart, timerAt, now,
                       emitted, session>>
        /\ Merged(d) \/ Rejected(d) \/ Ignored(d)
    BY <1>6, DeliverFacts DEF ControllerInv
  <2> HIDE DEF d
  <2>2. CASE from \notin {0, session}
    <3>1. Rejected(d)
      BY <1>6, <2>2, RefusedAfterMerge DEF d
    <3>2. UNCHANGED <<account, from>> /\ cancelled'
      BY <3>1 DEF Rejected
    <3> QED BY <2>1, <2>2, <3>2 DEF Superseded, Belated, InHand, isActiveLoad
  <2>3. CASE from \in {0, session}
    <3>1. from' \in {0, session'}
      BY <2>1, <2>3 DEF Merged, Rejected, Ignored
    <3> QED BY <3>1 DEF Superseded
  <2> QED BY <2>2, <2>3
<1> QED BY <1>1, <1>2, <1>3, <1>4, <1>5, <1>6 DEF FleetNext

----------------------------------------------------------------------------
(* The deltas of a session that reports for the first time, or goes on       *)
(* reporting, are acceptable while nothing was applied late.                 *)
LEMMA HonestAcceptable ==
  ASSUME FleetInv, ~late, ~cancelled, from \in {0, session}, delivered + 1 \in 1..Len(emitted)
  PROVE  Acceptable(emitted[delivered + 1])
<1> DEFINE d == emitted[delivered + 1]
<1>1. /\ d.end \in Nat /\ d.start \in Nat /\ d.revision \in 1..Len(loaded) /\ d.requests \in 0..1
      /\ StartsAt \in Nat \ {0} /\ clock \in Nat /\ delivered \in Nat /\ d.final \in BOOLEAN
  BY NumberFacts DEF FleetInv, FleetTypes
<1>2. d.sequence = delivered + 1 /\ d.end <= clock /\ clock <= MaxClock /\ MaxClock \in Nat
  <2>1. d.sequence = delivered + 1 /\ d.end <= clock
    BY DEF FleetInv, Timing
  <2>2. clock \in 0..MaxClock /\ MaxClock \in Nat
    BY RunControllerAssumption DEF FleetInv, ControllerInv, TypeOK
  <2> QED BY <2>1, <2>2
<1>3. WellFormed(d)
  BY DEF FleetInv, Chained
<1>4. /\ snapshot \in Nat /\ account.closedRevision \in Nat /\ account.lastRevision \in Nat
      /\ account.lastInterval \in Nat
  <2>1. Len(loaded) \in Nat /\ Deadline \in Nat
    BY NumberFacts DEF FleetInv
  <2>2. /\ snapshot \in Nat /\ account.closedRevision \in 0..Len(loaded)
        /\ account.lastRevision \in 0..Len(loaded) /\ account.lastInterval \in 0..Deadline
    BY DEF FleetInv, FleetTypes
  <2> QED BY <2>1, <2>2
<1>5. CASE from = 0
  <2>1. /\ account.lastSequence = 0 /\ account.lastRevision = 0 /\ account.closedRevision = 0
        /\ account.lastInterval = 0 /\ snapshot = 0 /\ delivered = 0
    BY <1>5 DEF FleetInv, Account, Agg!ZeroState
  <2> HIDE DEF d
  <2>2. snapshot + d.requests <= MaxClock /\ d.end > d.start /\ d.end - d.start <= Interval
    BY <1>1, <1>2, <1>3, <2>1, RunControllerAssumption DEF WellFormed
  <2> QED BY <1>1, <1>2, <1>3, <2>1, <2>2 DEF Acceptable, WellFormed, d
<1>6. CASE from # 0
  <2> DEFINE e == emitted[delivered]
  <2>1. /\ from = session /\ delivered = account.lastSequence /\ account.lastSequence >= 1
        /\ account.lastDelta = Message(e)
        /\ account.lastDelta.end = account.lastInterval
        /\ account.lastDelta.revision = account.lastRevision
        /\ StartsAt < account.lastInterval /\ snapshot <= account.lastInterval
        /\ account.closedRevision <= account.lastRevision
        /\ account.closedRevision = account.lastRevision => account.lastDelta.final
    BY <1>6 DEF FleetInv, Account
  <2>2. delivered \in 1..(Len(emitted) - 1)
    BY <1>1, <2>1, NumberFacts DEF FleetInv
  <2>3. Follows(e, d)
    BY <2>2 DEF FleetInv, Chained
  <2> HIDE DEF d, e
  <2>4. /\ e.end = account.lastInterval /\ e.revision = account.lastRevision
        /\ account.closedRevision = account.lastRevision => e.final
    BY <2>1, MessageFacts
  <2>5. /\ account.lastRevision <= d.revision /\ d.revision # account.closedRevision
        /\ account.lastInterval <= d.start
        /\ Contiguous(account.lastRevision, d.revision) => d.start = account.lastInterval
    BY <1>1, <1>4, <2>1, <2>3, <2>4 DEF Follows
  <2>6. d.start < d.end /\ d.end <= d.start + Interval /\ Interval \in Nat
    BY <1>3, RunControllerAssumption DEF WellFormed
  <2>7. snapshot + d.requests <= MaxClock
    <3>1. snapshot <= d.start
      BY <1>1, <1>4, <2>1, <2>5
    <3>2. d.start + 1 <= MaxClock /\ d.requests <= 1
      BY <1>1, <1>2, <2>6
    <3> QED BY <1>1, <1>2, <1>4, <3>1, <3>2
  <2>8. d.end > d.start /\ d.end - d.start <= Interval
    BY <1>1, <2>6
  <2> QED BY <1>1, <1>2, <1>3, <1>4, <2>1, <2>5, <2>7, <2>8 DEF Acceptable, WellFormed, d
<1> QED BY <1>5, <1>6

LEMMA HonestKept == ASSUME FleetInv, [FleetNext]_allVars PROVE HonestNeverRejected'
<1> USE DEF FleetInv, HonestNeverRejected
<1>1. CASE Work
  <2>1. late => late'
    BY <1>1 DEF Work, Controller, TakeCommand, CommandDrained, RejectOverdue, BeginRevisionFlush, Apply,
       FlushRevision, ApplyWithoutFlush, BoundaryTimer, FlushBoundary, DeadlineTimer, DeadlineDrained,
       FlushDeadline, ReapScheduler, Return, SchedulerEnds, WriteMessage, Heartbeat, Tick
  <2> QED BY <1>1, <2>1, WorkFacts
<1>2. ASSUME NEW active \in BOOLEAN, Plan(active) PROVE HonestNeverRejected'
  BY <1>2, PlanFacts
<1>3. CASE MeasuredRequest
  BY <1>3, MeasuredFacts
<1>4. CASE Disconnect \/ UNCHANGED allVars
  BY <1>4, DisconnectFacts
<1>5. CASE Reconnect
  <2>1. UNCHANGED <<violations, late, from>> /\ session' = session + 1
    BY <1>5, ReconnectFacts
  <2>2. from \in Nat /\ session \in Nat /\ from <= session
    BY FleetAssumption DEF FleetTypes
  <2> QED BY <2>1, <2>2
<1>6. CASE Deliver
  <2> DEFINE d == emitted[delivered + 1]
  <2>1. /\ UNCHANGED <<late, session>> /\ ~cancelled /\ delivered + 1 \in 1..Len(emitted)
        /\ (Merged(d) /\ from \in {0, session}) \/ Rejected(d)
    BY <1>6, DeliverFacts, DeliveryFacts DEF ControllerInv
  <2> HIDE DEF d
  <2>2. CASE from \notin {0, session}
    BY <2>1, <2>2 DEF Rejected
  <2>3. CASE from \in {0, session} /\ ~late
    <3>1. Acceptable(d)
      BY <2>1, <2>3, HonestAcceptable DEF d
    <3> QED BY <2>1, <2>3, <3>1 DEF Merged, Rejected
  <2>4. CASE late
    BY <2>1, <2>4
  <2> QED BY <2>2, <2>3, <2>4
<1> QED BY <1>1, <1>2, <1>3, <1>4, <1>5, <1>6 DEF FleetNext

----------------------------------------------------------------------------
(* Nothing measured is lost, none is counted twice. *)

LEMMA CountFacts == \A x \in 0..1 : x \in Nat
OBVIOUS

(* The steps that neither send nor deliver a delta.                          *)
LEMMA SumsStay ==
  ASSUME FleetInv, UNCHANGED <<emitted, session, snapshot, from, delivered>>, cancelled => cancelled',
         \A s \in 1..MaxSessions : s > session => measured'[s] = measured[s],
         measured'[session] = measured[session] + (taken' + pending') - (taken + pending),
         pc' \notin {"flushing", "stopped"} => taken' = 0, ControllerInv'
  PROVE  Conserved'
<1>1. PICK sums \in [0..Len(emitted) -> Nat] : PartialSums(sums) /\ Accounted(sums)
  BY DEF FleetInv, Conserved
<1>2. /\ taken \in Nat /\ pending \in Nat /\ taken' \in Nat /\ pending' \in Nat
      /\ sums[Len(emitted)] \in Nat
  <2>1. Len(emitted) \in 0..Len(emitted)
    BY NumberFacts DEF FleetInv
  <2>2. taken \in 0..1 /\ pending \in 0..1 /\ taken' \in 0..1 /\ pending' \in 0..1
    BY DEF FleetInv, ControllerInv, TypeOK
  <2>3. sums[Len(emitted)] \in Nat
    <3> DEFINE n == Len(emitted)
    <3>1. sums \in [0..n -> Nat] /\ n \in 0..n
      BY <1>1, <2>1
    <3> HIDE DEF n
    <3>2. sums[n] \in Nat
      BY <3>1
    <3> QED BY <3>2 DEF n
  <2>4. taken \in Nat /\ pending \in Nat /\ taken' \in Nat /\ pending' \in Nat
    BY <2>2, CountFacts, Zenon
  <2> QED BY <2>3, <2>4, Zenon
<1>3. measured'[session'] = sums[Len(emitted')] + taken' + pending'
  BY <1>1, <1>2 DEF Accounted
<1>4. from' \in {0, session'} /\ ~cancelled' => snapshot' = sums[delivered']
  BY <1>1 DEF Accounted
<1>5. PartialSums(sums)' /\ Accounted(sums)'
  BY <1>1, <1>3, <1>4 DEF PartialSums, Accounted
<1>6. \A s \in 1..MaxSessions : s > session' => measured'[s] = 0
  BY DEF FleetInv, Conserved
<1> QED BY <1>1, <1>5, <1>6 DEF Conserved

LEMMA SumsGrow ==
  ASSUME FleetInv, NEW end, NEW final, Emits(end, final), UNCHANGED <<session, snapshot, from, delivered>>,
         UNCHANGED <<measured, pending, cancelled>>
  PROVE  Conserved'
<1>1. PICK sums \in [0..Len(emitted) -> Nat] : PartialSums(sums) /\ Accounted(sums)
  BY DEF FleetInv, Conserved
<1> DEFINE n == Len(emitted)
<1>2. /\ n \in Nat /\ Len(emitted') = n + 1 /\ emitted'[n + 1].requests = taken /\ taken' = 0
      /\ \A i \in 1..n : emitted'[i] = emitted[i]
  BY DeltaFacts DEF Emits
<1>3. taken \in Nat /\ pending \in Nat /\ delivered \in 0..n /\ n \in 0..n /\ 0 \in 0..n
  <2>1. taken \in 0..1 /\ pending \in 0..1
    BY DEF FleetInv, ControllerInv, TypeOK
  <2> QED BY <1>2, <2>1 DEF FleetInv, FleetTypes
<1>4. sums \in [0..n -> Nat] /\ sums[0] = 0 /\ \A i \in 1..n : sums[i] = sums[i - 1] + emitted[i].requests
  BY <1>1 DEF PartialSums
<1>5. /\ measured[session] = sums[n] + taken + pending
      /\ from \in {0, session} /\ ~cancelled => snapshot = sums[delivered]
  BY <1>1 DEF Accounted
<1> HIDE DEF n
<1>6. PICK more \in [0..(n + 1) -> Nat] :
        more[n + 1] = sums[n] + taken /\ \A i \in 0..n : more[i] = sums[i]
  <2> DEFINE m == [i \in 0..(n + 1) |-> IF i <= n THEN sums[i] ELSE sums[n] + taken]
  <2>1. m \in [0..(n + 1) -> Nat] /\ m[n + 1] = sums[n] + taken /\ \A i \in 0..n : m[i] = sums[i]
    BY <1>2, <1>3, <1>4
  <2> QED BY <2>1
<1>7. \A i \in 1..(n + 1) : more[i] = more[i - 1] + emitted'[i].requests
  <2> TAKE i \in 1..(n + 1)
  <2>1. CASE i \in 1..n
    <3>1. more[i] = sums[i] /\ more[i - 1] = sums[i - 1] /\ emitted'[i] = emitted[i]
      BY <1>2, <1>6, <2>1
    <3> QED BY <1>4, <2>1, <3>1
  <2>2. CASE i = n + 1
    <3>1. more[i - 1] = sums[n]
      BY <1>2, <1>3, <1>6, <2>2
    <3> QED BY <1>2, <1>6, <2>2, <3>1
  <2> QED BY <1>2, <2>1, <2>2
<1>8. PartialSums(more)'
  BY <1>2, <1>3, <1>4, <1>6, <1>7 DEF PartialSums
<1>9. Accounted(more)'
  <2>1. measured'[session'] = more[n + 1] + taken' + pending'
    BY <1>2, <1>3, <1>4, <1>5, <1>6
  <2>2. from' \in {0, session'} /\ ~cancelled' => snapshot' = more[delivered']
    BY <1>3, <1>5, <1>6
  <2> QED BY <1>2, <2>1, <2>2 DEF Accounted
<1>10. \A s \in 1..MaxSessions : s > session' => measured'[s] = 0
  BY DEF FleetInv, Conserved
<1> QED BY <1>2, <1>6, <1>8, <1>9, <1>10 DEF Conserved

LEMMA ConservedKept == ASSUME FleetInv, ControllerInv', FleetTypes', [FleetNext]_allVars PROVE Conserved'
<1> USE DEF FleetInv
<1>0. /\ taken \in 0..1 /\ pending \in 0..1 /\ session \in 1..MaxSessions /\ MaxSessions \in Nat
      /\ measured \in [1..MaxSessions -> Nat] /\ measured[session] \in Nat
  BY FleetAssumption DEF ControllerInv, TypeOK, FleetTypes
<1>1. CASE Work
  <2>1. CASE FlushRevision \/ FlushBoundary \/ FlushDeadline
    <3>1. PICK end, final : Emits(end, final)
      BY <2>1, EmissionFacts
    <3>2. UNCHANGED pending
      BY <2>1 DEF FlushRevision, FlushBoundary, FlushDeadline
    <3> QED BY <1>1, <3>1, <3>2, WorkFacts, SumsGrow
  <2>2. CASE ~(FlushRevision \/ FlushBoundary \/ FlushDeadline)
    <3>1. UNCHANGED emitted
      BY <1>1, <2>2 DEF Work, Controller, TakeCommand, CommandDrained, RejectOverdue, BeginRevisionFlush,
         ApplyWithoutFlush, BoundaryTimer, DeadlineTimer, DeadlineDrained, ReapScheduler, Return,
         SchedulerEnds, WriteMessage, Heartbeat, Tick, outVars
    <3>2. \/ UNCHANGED <<taken, pending>> /\ (pc' \notin {"flushing", "stopped"} => pc \notin {"flushing", "stopped"})
          \/ taken' = pending /\ pending' = 0 /\ pc' = "flushing" /\ pc \notin {"flushing", "stopped"}
      BY <1>1, <2>2 DEF Work, Controller, TakeCommand, CommandDrained, RejectOverdue, BeginRevisionFlush,
         BeginFlush, ApplyWithoutFlush, BoundaryTimer, TimerFires, DeadlineTimer, DeadlineDrained, Drained,
         ReapScheduler, Return, SchedulerEnds, WriteMessage, Heartbeat, Tick, schedVars
    <3>3. pc \notin {"flushing", "stopped"} => taken = 0
      BY DEF Conserved
    <3>4. /\ taken' + pending' = taken + pending
          /\ pc' \notin {"flushing", "stopped"} => taken' = 0
      BY <1>0, <3>2, <3>3
    <3>5. measured'[session] = measured[session] + (taken' + pending') - (taken + pending)
      <4>1. UNCHANGED measured
        BY <1>1, WorkFacts
      <4> QED BY <1>0, <3>4, <4>1
    <3> QED BY <1>1, <3>1, <3>4, <3>5, WorkFacts, SumsStay
  <2> QED BY <2>1, <2>2
<1>2. ASSUME NEW active \in BOOLEAN, Plan(active) PROVE Conserved'
  <2>1. /\ UNCHANGED <<emitted, session, snapshot, from, delivered, measured, cancelled, pc, taken, pending>>
    BY <1>2, PlanFacts
  <2>2. measured'[session] = measured[session] + (taken' + pending') - (taken + pending)
    BY <1>0, <2>1
  <2> QED BY <2>1, <2>2, SumsStay DEF Conserved
<1>3. CASE MeasuredRequest
  <2>1. /\ UNCHANGED <<emitted, session, snapshot, from, delivered, cancelled, pc, taken>>
        /\ pending = 0 /\ pending' = 1 /\ measured' = [measured EXCEPT ![session] = @ + 1]
    BY <1>3, MeasuredFacts
  <2>2. measured'[session] = measured[session] + (taken' + pending') - (taken + pending)
    BY <1>0, <2>1
  <2>3. \A s \in 1..MaxSessions : s > session => measured'[s] = measured[s]
    BY <1>0, <2>1
  <2> QED BY <2>1, <2>2, <2>3, SumsStay DEF Conserved
<1>4. CASE Disconnect \/ UNCHANGED allVars
  <2>1. /\ UNCHANGED <<emitted, session, snapshot, from, delivered, measured, pc, taken, pending>>
        /\ cancelled => cancelled'
    BY <1>4, DisconnectFacts
  <2>2. measured'[session] = measured[session] + (taken' + pending') - (taken + pending)
    BY <1>0, <2>1
  <2> QED BY <2>1, <2>2, SumsStay DEF Conserved
<1>5. CASE Reconnect
  <2>1. /\ session < MaxSessions /\ session' = session + 1 /\ delivered' = 0 /\ Len(emitted') = 0
        /\ taken' = 0 /\ pending' = 0 /\ UNCHANGED <<measured, from, snapshot>>
    BY <1>5, ReconnectFacts DEF Restarted
  <2>2. measured'[session'] = 0 /\ \A s \in 1..MaxSessions : s > session' => measured'[s] = 0
    BY <1>0, <2>1 DEF Conserved
  <2>3. from' \in {0, session'} => snapshot' = 0
    BY <1>0, <2>1 DEF FleetTypes, Account
  <2> DEFINE none == [i \in 0..0 |-> 0]
  <2>4. none \in [0..0 -> Nat] /\ none[0] = 0
    OBVIOUS
  <2> HIDE DEF none
  <2>5. PartialSums(none)' /\ Accounted(none)'
    BY <2>1, <2>2, <2>3, <2>4 DEF PartialSums, Accounted
  <2> QED BY <2>1, <2>2, <2>4, <2>5 DEF Conserved
<1>6. CASE Deliver
  <2> DEFINE d == emitted[delivered + 1]
  <2>1. /\ ~cancelled /\ delivered + 1 \in 1..Len(emitted) /\ delivered' = delivered + 1
        /\ UNCHANGED <<emitted, session, measured, pc, taken, pending>>
        /\ (Merged(d) /\ from \in {0, session}) \/ Rejected(d)
    BY <1>6, DeliverFacts, DeliveryFacts DEF ControllerInv
  <2>2. PICK sums \in [0..Len(emitted) -> Nat] : PartialSums(sums) /\ Accounted(sums)
    BY DEF Conserved
  <2>3. sums[delivered + 1] = sums[delivered] + d.requests
    <3>1. (delivered + 1) - 1 = delivered
      BY NumberFacts DEF FleetTypes
    <3> QED BY <2>1, <2>2, <3>1 DEF PartialSums
  <2> HIDE DEF d
  <2>4. from' \in {0, session'} /\ ~cancelled' => snapshot' = sums[delivered']
    <3>1. CASE Merged(d) /\ from \in {0, session}
      <4>1. snapshot' = snapshot + d.requests
        BY <3>1 DEF Merged
      <4>2. snapshot = sums[delivered]
        BY <2>1, <2>2, <3>1 DEF Accounted
      <4> QED BY <2>1, <2>3, <4>1, <4>2
    <3>2. CASE Rejected(d)
      BY <3>2 DEF Rejected
    <3> QED BY <2>1, <3>1, <3>2
  <2>5. PartialSums(sums)' /\ Accounted(sums)'
    BY <2>1, <2>2, <2>4 DEF PartialSums, Accounted
  <2> QED BY <2>1, <2>2, <2>5 DEF Conserved
<1> QED BY <1>1, <1>2, <1>3, <1>4, <1>5, <1>6 DEF FleetNext

----------------------------------------------------------------------------
(* The last delta. *)

(* When a delta up to the deadline has been sent under the latest revision.  *)
Reported(i) == emitted[i].end = Deadline /\ emitted[i].revision = Len(loaded)
Rested(i) ==
  /\ i = Len(emitted) /\ current = Len(loaded)
  /\ pending = 0 /\ taken = 0 /\ scheduler # "running" /\ task = "none" /\ ~armed

LEMMA LastWordKept == ASSUME FleetInv, ControllerInv', [FleetNext]_allVars PROVE LastWord'
<1> USE NumberFacts DEF FleetInv
<1>0. ASSUME NEW i \in 1..Len(emitted), Reported(i) PROVE Rested(i)
  BY <1>0 DEF LastWord, Reported, Rested
<1>1. CASE Work
  <2>1. CASE FlushRevision \/ FlushBoundary \/ FlushDeadline
    <3>1. task # "none" /\ loaded' = loaded
      BY <1>1, <2>1, WorkFacts DEF FlushRevision, FlushBoundary, FlushDeadline
    <3>2. PICK end, final : Emits(end, final) /\ (end = Deadline => FlushRevision \/ FlushDeadline)
      <4>1. CASE FlushRevision \/ FlushDeadline
        BY <4>1, EmissionFacts
      <4>2. CASE FlushBoundary
        <5>1. timerAt < Deadline /\ timerAt \in Nat
          BY <4>2 DEF FlushBoundary, Enqueue, ControllerInv, Reporting
        <5>2. timerAt # Deadline
          BY <5>1
        <5>3. Emits(timerAt, FALSE)
          BY <4>2, EmissionFacts
        <5> QED BY <5>2, <5>3, Zenon
      <4> QED BY <2>1, <4>1, <4>2
    <3> SUFFICES ASSUME NEW i \in 1..Len(emitted'), Reported(i)' PROVE Rested(i)'
      BY DEF LastWord, Reported, Rested
    <3>3. i = Len(emitted) + 1
      <4> SUFFICES ASSUME i \in 1..Len(emitted) PROVE FALSE
        BY <3>2 DEF Emits
      <4>1. Reported(i)
        BY <3>1, <3>2 DEF Emits, Reported
      <4> QED BY <1>0, <3>1, <4>1 DEF Rested
    <3>4. emitted'[i].end = end /\ emitted'[i].revision = current
      <4>1. emitted'[i] = Delta(end, final)
        BY <3>2, <3>3 DEF Emits
      <4> QED BY <4>1, DeltaFacts
    <3>5. end = Deadline /\ current = Len(loaded)
      BY <3>1, <3>4 DEF Reported
    <3>6. ~FlushRevision
      <4> SUFFICES ASSUME FlushRevision PROVE FALSE
        OBVIOUS
      <4>1. Len(inbox) >= 1 /\ Len(inbox) \in Nat /\ Head(inbox) = inbox[1]
        BY TailFacts
      <4>2. inbox[1] > current
        BY <4>1 DEF InOrder
      <4>3. Head(inbox) \in 1..Len(loaded)
        BY CommandFacts
      <4> QED BY <3>5, <4>1, <4>2, <4>3
    <3>7. FlushDeadline
      BY <3>2, <3>5, <3>6
    <3>8. /\ UNCHANGED <<current, pending, scheduler>> /\ task' = "none" /\ ~armed'
          /\ pending = 0 /\ scheduler # "running"
      BY <3>7 DEF FlushDeadline, Enqueue, ControllerInv, Reporting, Scheduling
    <3> QED BY <3>1, <3>2, <3>3, <3>5, <3>8 DEF Rested, Emits
  <2>2. CASE ~(FlushRevision \/ FlushBoundary \/ FlushDeadline)
    <3>1. UNCHANGED <<emitted, loaded>>
      <4>1. UNCHANGED emitted
        BY <1>1, <2>2 DEF Work, Controller, TakeCommand, CommandDrained, RejectOverdue, BeginRevisionFlush,
           ApplyWithoutFlush, BoundaryTimer, DeadlineTimer, DeadlineDrained, ReapScheduler, Return,
           SchedulerEnds, WriteMessage, Heartbeat, Tick, outVars
      <4> QED BY <1>1, <4>1, WorkFacts
    <3> SUFFICES ASSUME NEW i \in 1..Len(emitted), Reported(i) PROVE Rested(i)'
      BY <3>1 DEF LastWord, Reported, Rested
    <3>2. Rested(i)
      BY <1>0
    <3>3. inbox = <<>>
      <4> SUFFICES ASSUME inbox # <<>> PROVE FALSE
        OBVIOUS
      <4>1. Len(inbox) \in Nat /\ Len(inbox) >= 1 /\ Head(inbox) = inbox[1] /\ Head(inbox) \in 1..Len(loaded)
        <5> DEFINE Issued == 1..Len(loaded)
        <5>1. inbox \in Seq(Issued)
          BY DEF ControllerInv, TypeOK
        <5> HIDE DEF Issued
        <5>2. Len(inbox) \in Nat /\ Len(inbox) >= 1 /\ Head(inbox) = inbox[1] /\ Head(inbox) \in Issued
          BY <5>1, HeadTailProperties, LenProperties, EmptySeq
        <5> QED BY <5>2 DEF Issued
      <4>2. inbox[1] > current
        BY <4>1 DEF InOrder
      <4> QED BY <3>2, <4>1, <4>2 DEF Rested
    <3>4. pc \notin {"deciding", "draining", "flushing"} \/ pc = "stopped"
      BY <3>2 DEF Rested, ControllerInv, Reporting, Scheduling
    <3> QED BY <1>1, <2>2, <3>1, <3>2, <3>3, <3>4 DEF Rested, Work, Controller, TakeCommand, CommandDrained,
       Drained, RejectOverdue, BeginRevisionFlush, ApplyWithoutFlush, BoundaryTimer, TimerFires, DeadlineTimer,
       DeadlineDrained, ReapScheduler, Return, SchedulerEnds, WriteMessage, Heartbeat, Tick, schedVars, timerVars
  <2> QED BY <2>1, <2>2
<1>2. ASSUME NEW active \in BOOLEAN, Plan(active) PROVE LastWord'
  <2>1. emitted' = emitted /\ Len(loaded) \in Nat /\ Len(loaded') = Len(loaded) + 1
    BY <1>2, PlanFacts
  <2>2. \A i \in 1..Len(emitted) : emitted[i].revision # Len(loaded')
    BY <2>1
  <2> QED BY <2>1, <2>2 DEF LastWord
<1>3. CASE MeasuredRequest
  <2>1. /\ UNCHANGED <<emitted, loaded>> /\ scheduler = "running"
    BY <1>3, MeasuredFacts
  <2>2. \A i \in 1..Len(emitted) : ~Reported(i)
    BY <1>0, <2>1 DEF Rested
  <2> QED BY <2>1, <2>2 DEF LastWord, Reported
<1>4. CASE Disconnect \/ UNCHANGED allVars
  BY <1>4, DisconnectFacts DEF LastWord
<1>5. CASE Reconnect
  BY <1>5, ReconnectFacts DEF LastWord
<1>6. CASE Deliver
  BY <1>6, DeliverFacts DEF LastWord, ControllerInv
<1> QED BY <1>1, <1>2, <1>3, <1>4, <1>5, <1>6 DEF FleetNext

LEMMA FinalTotalKept == ASSUME FleetInv, ControllerInv', FleetTypes', [FleetNext]_allVars PROVE FinalTotal'
<1> USE NumberFacts DEF FleetInv
<1>0. /\ session \in 1..MaxSessions /\ MaxSessions \in Nat /\ from \in 0..session
      /\ measured \in [1..MaxSessions -> Nat] /\ session \in Nat /\ delivered \in Nat
  <2>1. /\ session \in 1..MaxSessions /\ MaxSessions \in Nat /\ from \in 0..session
        /\ measured \in [1..MaxSessions -> Nat] /\ delivered \in 0..Len(emitted)
    BY FleetAssumption DEF FleetTypes
  <2> QED BY <2>1
<1>1. ASSUME account.finalRevision # 0, from = session
      PROVE  /\ pc # "flushing" /\ scheduler # "running" /\ delivered = Len(emitted)
  <2>1. Len(emitted) \in 1..Len(emitted) /\ LastSent.end = Deadline /\ LastSent.revision = Len(loaded)
        /\ delivered = Len(emitted)
    BY <1>1 DEF FinalTotal
  <2>2. scheduler # "running" /\ task = "none"
    BY <2>1 DEF LastWord, LastSent
  <2> QED BY <2>1, <2>2 DEF ControllerInv, Reporting, Scheduling
<1>2. CASE Work
  <2>1. /\ UNCHANGED <<loaded, session, delivered, snapshot, measured, from, account>>
        /\ clock' \in {clock, clock + 1}
    BY <1>2, WorkFacts
  <2>2. ASSUME account.finalRevision # 0, from = session PROVE UNCHANGED emitted
    BY <1>1, <1>2, <2>2 DEF Work, Controller, TakeCommand, CommandDrained, RejectOverdue, BeginRevisionFlush,
       ApplyWithoutFlush, BoundaryTimer, DeadlineTimer, DeadlineDrained, ReapScheduler, Return,
       SchedulerEnds, WriteMessage, Heartbeat, Tick, outVars, FlushRevision, FlushBoundary, FlushDeadline, Enqueue
  <2> QED BY <2>1, <2>2 DEF FinalTotal, LastSent
<1>3. ASSUME NEW active \in BOOLEAN, Plan(active) PROVE FinalTotal'
  <2>1. account' = account /\ clock < Deadline
    BY <1>3, PlanFacts
  <2> QED BY <2>1 DEF FinalTotal
<1>4. CASE MeasuredRequest
  <2>1. /\ UNCHANGED <<loaded, session, delivered, snapshot, from, account, emitted, clock>>
        /\ scheduler = "running" /\ measured' = [measured EXCEPT ![session] = @ + 1]
    BY <1>4, MeasuredFacts
  <2>2. ASSUME account.finalRevision # 0 PROVE measured'[from] = measured[from]
    <3>1. from # session /\ from # 0
      BY <1>1, <2>1, <2>2 DEF FinalTotal
    <3> QED BY <1>0, <2>1, <3>1
  <2> QED BY <2>1, <2>2 DEF FinalTotal, LastSent
<1>5. CASE Disconnect \/ UNCHANGED allVars
  BY <1>5, DisconnectFacts DEF FinalTotal, LastSent
<1>6. CASE Reconnect
  <2>1. UNCHANGED <<account, snapshot, from, measured, clock, loaded>> /\ session' = session + 1
    BY <1>6, ReconnectFacts
  <2>2. from' # session'
    BY <1>0, <2>1
  <2> QED BY <2>1, <2>2 DEF FinalTotal
<1>7. CASE Deliver
  <2> DEFINE d == emitted[delivered + 1]
  <2>1. /\ delivered + 1 \in 1..Len(emitted) /\ delivered' = delivered + 1 /\ ~cancelled
        /\ UNCHANGED <<clock, emitted, session, measured, loaded>>
        /\ (Merged(d) /\ from \in {0, session}) \/ Rejected(d)
    BY <1>7, DeliverFacts, DeliveryFacts DEF ControllerInv
  <2>2. ~(account.finalRevision # 0 /\ from = session)
    BY <1>0, <1>1, <2>1
  <2>3. CASE Rejected(d)
    <3>1. UNCHANGED <<account, snapshot, from>>
      BY <2>3 DEF Rejected
    <3> QED BY <2>1, <2>2, <3>1 DEF FinalTotal
  <2>4. CASE Merged(d) /\ from \in {0, session}
    <3>1. account.finalRevision = 0
      BY <2>2, <2>4 DEF FinalTotal
    <3>2. snapshot' = snapshot + d.requests /\ from' = session
      BY <2>4 DEF Merged
    <3>3. account'.finalRevision = IF Agg!ClosesRun(Worker, Message(d)) THEN Len(loaded) ELSE 0
      BY <2>4, <3>1, AdvanceFacts DEF Merged
    <3>4. CASE Agg!ClosesRun(Worker, Message(d))
      <4>1. d.end = Deadline /\ d.revision = Len(loaded)
        <5> HIDE DEF d
        <5>1. Message(d).end = d.end /\ Message(d).revision = d.revision
          BY MessageFacts
        <5> QED BY <3>4, <5>1 DEF Agg!ClosesRun
      <4>2. delivered + 1 = Len(emitted) /\ pending = 0 /\ taken = 0
        BY <2>1, <4>1 DEF LastWord
      <4>3. clock >= Deadline
        BY <2>1, <4>1 DEF Timing
      <4>4. snapshot' = measured[session]
        <5>1. PICK sums \in [0..Len(emitted) -> Nat] : PartialSums(sums) /\ Accounted(sums)
          BY DEF Conserved
        <5>2. (delivered + 1) - 1 = delivered
          BY <1>0
        <5>3. sums[delivered + 1] = sums[delivered] + d.requests
          BY <2>1, <5>1, <5>2 DEF PartialSums
        <5>4. snapshot = sums[delivered] /\ measured[session] = sums[delivered + 1] + 0 + 0
          BY <2>1, <2>4, <4>2, <5>1 DEF Accounted
        <5>5. delivered + 1 \in 0..Len(emitted)
          BY <2>1
        <5>6. sums[delivered + 1] \in Nat
          BY <5>1, <5>5
        <5> QED BY <3>2, <5>3, <5>4, <5>6
      <4>5. emitted' # <<>> /\ LastSent' = d
        BY <2>1, <4>2 DEF LastSent
      <4>6. from' # 0 /\ from' = session'
        BY <1>0, <2>1, <3>2
      <4>7. account'.finalRevision = Len(loaded')
        BY <2>1, <3>3, <3>4
      <4> HIDE DEF d
      <4> QED BY <2>1, <3>2, <4>1, <4>2, <4>3, <4>4, <4>5, <4>6, <4>7 DEF FinalTotal
    <3>5. CASE ~Agg!ClosesRun(Worker, Message(d))
      BY <3>3, <3>5 DEF FinalTotal
    <3> QED BY <3>4, <3>5
  <2> QED BY <2>1, <2>3, <2>4
<1> QED BY <1>2, <1>3, <1>4, <1>5, <1>6, <1>7 DEF FleetNext

----------------------------------------------------------------------------
LEMMA InitFleetInv == FleetInit => FleetInv
<1> SUFFICES ASSUME FleetInit PROVE FleetInv
  OBVIOUS
<1> USE RunControllerAssumption, FleetAssumption DEF FleetInit
<1>1. ControllerInv
  BY InitControllerInv
<1>2. /\ Len(emitted) = 0 /\ Len(loaded) = 0 /\ Len(inbox) = 0 /\ emitted = <<>> /\ pc = "select"
      /\ task = "none" /\ ~collecting /\ ~cancelled /\ taken = 0 /\ pending = 0 /\ current = 0
      /\ account = Agg!ZeroState
  BY DEF Init, account
<1>3. FleetTypes
  BY <1>2 DEF FleetTypes, Agg!ZeroState
<1>4. InOrder /\ Timing /\ Flushing /\ Account /\ Superseded /\ OpenInterval /\ Chained /\ Frontier /\ LastWord
  BY <1>2 DEF InOrder, Timing, InHand, Flushing, Account, Superseded, OpenInterval, isActiveLoad, Chained,
     Frontier, LastWord
<1>5. HonestNeverRejected
  BY DEF HonestNeverRejected
<1>6. FinalTotal
  BY <1>2 DEF FinalTotal, Agg!ZeroState
<1>7. Conserved
  <2> DEFINE none == [i \in 0..0 |-> 0]
  <2>1. none \in [0..0 -> Nat] /\ none[0] = 0
    OBVIOUS
  <2> HIDE DEF none
  <2>2. measured[session] = 0 /\ \A s \in 1..MaxSessions : measured[s] = 0
    OBVIOUS
  <2>3. PartialSums(none) /\ Accounted(none)
    BY <1>2, <2>1, <2>2 DEF PartialSums, Accounted
  <2> QED BY <1>2, <2>1, <2>2, <2>3 DEF Conserved
<1> QED BY <1>1, <1>3, <1>4, <1>5, <1>6, <1>7 DEF FleetInv

LEMMA FleetInvKept == ASSUME FleetInv, [FleetNext]_allVars PROVE FleetInv'
<1>1. ControllerInv'
  BY ControllerKept DEF FleetInv
<1>2. FleetTypes'
  BY FleetTypesKept
<1> QED BY <1>1, <1>2, InOrderKept, TimingKept, FlushingKept, AccountKept, SupersededKept, OpenIntervalKept,
           ChainedKept, FrontierKept, HonestKept, ConservedKept, LastWordKept, FinalTotalKept DEF FleetInv

(* The inductive invariant holds in every state of every behaviour.          *)
THEOREM FleetInvariance == FleetSpec => []FleetInv
<1>1. FleetInv /\ [FleetNext]_allVars => FleetInv'
  BY FleetInvKept
<1> QED BY InitFleetInv, <1>1, PTL DEF FleetSpec

(* The aggregator finds no fault with the deltas of a worker that applied no *)
(* revision after the deadline and did not reconnect once it was merged,     *)
(* however its timers, commands, drains and the stream are interleaved.      *)
THEOREM HonestWorkersReport == FleetSpec => []HonestNeverRejected
<1>1. FleetInv => HonestNeverRejected
  BY DEF FleetInv
<1> QED BY FleetInvariance, <1>1, PTL

(* When the run is complete, the total is all that the session that reported *)
(* measured: no request is lost between intervals, revisions or behind the   *)
(* final delta, and none is counted twice.                                   *)
THEOREM TotalsAreComplete == FleetSpec => []CompleteCountsAll
<1>1. FleetInv => CompleteCountsAll
  <2> SUFFICES ASSUME FleetInv, loaded # <<>>, loaded[Len(loaded)], Agg!Complete
               PROVE  snapshot = measured[from]
    BY DEF CompleteCountsAll
  <2>1. Len(loaded) \in 1..Len(loaded)
    <3>1. loaded \in Seq(BOOLEAN)
      BY DEF FleetInv, ControllerInv, TypeOK
    <3> QED BY <3>1, EmptySeq, LenProperties
  <2>2. Agg!Loaded(Worker, Len(loaded))
    BY <2>1, AssignedFacts DEF FleetInv, ControllerInv
  <2>3. account.finalRevision = Len(loaded)
    BY <2>2 DEF Agg!Complete, Agg!MissingFinal, account
  <2> QED BY <2>1, <2>3 DEF FleetInv, FinalTotal
<1> QED BY FleetInvariance, <1>1, PTL

(* Once a delta has been merged, no other session of the worker adds to the  *)
(* total.                                                                    *)
THEOREM SessionsAreNotMixed == FleetSpec => OneSessionCounts
<1>1. FleetInv /\ [FleetNext]_allVars => [from # 0 => from' = from]_allVars
  <2> SUFFICES ASSUME FleetInv, [FleetNext]_allVars, from # 0 PROVE from' = from
    OBVIOUS
  <2>1. CASE Work
    BY <2>1, WorkFacts DEF FleetInv
  <2>2. ASSUME NEW active \in BOOLEAN, Plan(active) PROVE from' = from
    BY <2>2, PlanFacts DEF FleetInv
  <2>3. CASE MeasuredRequest
    BY <2>3, MeasuredFacts
  <2>4. CASE Disconnect \/ UNCHANGED allVars
    BY <2>4, DisconnectFacts
  <2>5. CASE Reconnect
    BY <2>5, ReconnectFacts
  <2>6. CASE Deliver
    BY <2>6, DeliveryFacts DEF Merged, Rejected
  <2> QED BY <2>1, <2>2, <2>3, <2>4, <2>5, <2>6 DEF FleetNext
<1> QED BY FleetInvariance, <1>1, PTL DEF FleetSpec, OneSessionCounts

(* What the controller's proofs show of a session holds for each of them.    *)
THEOREM SessionsReportFinals == FleetSpec => [](TypeOK /\ DeadlineReported /\ LoadMatchesRevision)
<1>1. FleetInv => TypeOK /\ DeadlineReported /\ LoadMatchesRevision
  BY DEF FleetInv, ControllerInv, Scheduling, LoadMatchesRevision, isActiveLoad
<1> QED BY FleetInvariance, <1>1, PTL
=============================================================================
