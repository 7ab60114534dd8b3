----------------------------- MODULE Aggregator -----------------------------
(* metricsAggregator (internal/orchestrator/aggregator.go): it is told each  *)
(* assignment revision and validates, deduplicates and merges the interval   *)
(* deltas that worker streams deliver.  Both methods run under one mutex, so *)
(* each is one step.  Deltas are arbitrary: validation is the component's    *)
(* job.  Counters and histogram are abstracted to a request count and the    *)
(* observation count it must match.                                          *)
EXTENDS Naturals, Sequences, FiniteSets, Functions

CONSTANTS
  Workers,
  Interval,              \* the one-second reporting cadence, in ticks
  StartsAt, Deadline,    \* the run window every revision carries
  MaxCount,              \* the largest uint64
  MaxRevisions,          \* bound: revisions recorded
  MaxSequence,           \* bound: delta sequence numbers sent
  MaxRequests            \* bound: requests in one delta

ASSUME AggregatorAssumption ==
  /\ IsFiniteSet(Workers)
  /\ Interval \in Nat \ {0} /\ StartsAt \in Nat \ {0} /\ Deadline \in Nat
  /\ StartsAt < Deadline
  /\ MaxCount \in Nat /\ MaxRevisions \in Nat /\ MaxSequence \in Nat /\ MaxRequests \in Nat

(* A MetricsDelta.  sound: its worker and run IDs are the session's, and its *)
(* counters agree with each other and with its histogram.                    *)
Deltas == [revision : 0..MaxRevisions, sequence : 0..MaxSequence,
           start : StartsAt-1..Deadline, end : StartsAt..Deadline+1, final : BOOLEAN,
           requests : 0..MaxRequests, sound : BOOLEAN]
NoDelta == <<>>

VARIABLES
  assignments,   \* revision -> worker -> whether its slice carries load
  latest,        \* the last revision recorded; its workers owe a final delta
  workers,       \* worker -> workerMetricState
  snapshot,      \* the fleet-wide request count
  violations,    \* workers with a rejected delta
  changed,       \* the capacity-one notification channel
  merged         \* history: per worker, the deltas merged, oldest first

vars == <<assignments, latest, workers, snapshot, violations, changed, merged>>

(* workerMetricState; the zero value stands for a worker not in the map. *)
ZeroState == [lastSequence |-> 0, lastDelta |-> NoDelta, lastInterval |-> 0,
              lastRevision |-> 0, closedRevision |-> 0, finalRevision |-> 0, snapshot |-> 0]

Init ==
  /\ assignments = [r \in {} |-> NoDelta]
  /\ latest = 0
  /\ workers = [w \in Workers |-> ZeroState]
  /\ snapshot = 0
  /\ violations = {}
  /\ changed = FALSE
  /\ merged = [w \in Workers |-> <<>>]

Unnotified == UNCHANGED changed                                     \* mutant
notify == changed' = TRUE

(* WaitForResult drains the notification channel. *)
TakeChange ==
  /\ changed /\ changed' = FALSE
  /\ UNCHANGED <<assignments, latest, workers, snapshot, violations, merged>>

(* RecordAssignments: the coordinator calls it with consecutive revisions,   *)
(* each with at least one loaded worker.                                     *)
RecordAssignments(plan) ==
  /\ assignments' = [r \in DOMAIN assignments \cup {latest + 1} |->
                       IF r = latest + 1 THEN plan ELSE assignments[r]]
  /\ latest' = latest + 1
  /\ notify
  /\ UNCHANGED <<workers, snapshot, violations, merged>>

----------------------------------------------------------------------------
(* Accept's checks, in the code's order. *)

Assigned(w, r) == r \in DOMAIN assignments /\ w \in DOMAIN assignments[r]
Loaded(w, r) == Assigned(w, r) /\ assignments[r][w]

SameSequence(w, d) == workers[w].lastSequence = d.sequence           \* mutant
(* A redelivery of the last accepted delta is acknowledged and changes nothing. *)
Redelivered(w, d) == workers[w].lastDelta = d

InSequenceLoosely(w, d) == d.sequence > workers[w].lastSequence     \* mutant
InSequence(w, d) == d.sequence = workers[w].lastSequence + 1

OpenIgnoringClosure(w, d) == d.revision >= workers[w].lastRevision  \* mutant
RevisionOpen(w, d) ==
  /\ d.revision >= workers[w].lastRevision
  /\ d.revision # workers[w].closedRevision

(* Continuity is relaxed only over a revision that left the worker idle. *)
requiresContiguousInterval(w, previous, current) ==
  /\ previous # 0
  /\ \A r \in previous..current : r \in DOMAIN assignments => Loaded(w, r)

EndsProperly(w, d) ==
  LET atDeadline == d.end = Deadline
      replaced == Assigned(w, latest) /\ latest > d.revision
  IN  IF d.final THEN atDeadline \/ replaced
      ELSE ~atDeadline /\ d.end > StartsAt /\ (d.end - StartsAt) % Interval = 0

OverlapAllowed(w, d) == TRUE                                        \* mutant
FollowsLast(w, d) ==
  LET last == workers[w].lastInterval IN
  last # 0 => /\ d.start >= last
              /\ requiresContiguousInterval(w, workers[w].lastRevision, d.revision)
                   => d.start = last

validateMetricInterval(w, d) ==
  /\ d.end > d.start /\ d.end - d.start <= Interval
  /\ d.start >= StartsAt /\ d.end <= Deadline
  /\ EndsProperly(w, d)
  /\ FollowsLast(w, d)

workerMerged(w, d) == workers[w].snapshot + d.requests

(* validateAndDecodeSnapshot, by its outcome. *)
Sound(d) == d.sound

(* metrics.Merge wraps nowhere: a merge that would overflow is an error. *)
Unchecked(w, d) == TRUE                                             \* mutant
Mergeable(w, d) == /\ snapshot + d.requests <= MaxCount
                   /\ workerMerged(w, d) <= MaxCount

Valid(w, d) ==
  /\ Assigned(w, d.revision)
  /\ InSequence(w, d) /\ RevisionOpen(w, d)
  /\ validateMetricInterval(w, d)
  /\ Sound(d) /\ Mergeable(w, d)

FinalOfAnyRevision(w, d) == Loaded(w, latest) /\ d.final            \* mutant
ClosesRun(w, d) == /\ Loaded(w, latest) /\ latest = d.revision
                   /\ d.final /\ d.end = Deadline

Advance(w, d) ==
  [lastSequence |-> d.sequence, lastDelta |-> d, lastInterval |-> d.end,
   lastRevision |-> d.revision,
   closedRevision |-> IF d.final THEN d.revision ELSE workers[w].closedRevision,
   finalRevision |-> IF ClosesRun(w, d) THEN latest ELSE workers[w].finalRevision,
   snapshot |-> workerMerged(w, d)]

Merge(w, d) ==
  /\ ~Redelivered(w, d) /\ Valid(w, d)
  /\ snapshot' = snapshot + d.requests
  /\ workers' = [workers EXCEPT ![w] = Advance(w, d)]
  /\ merged' = [merged EXCEPT ![w] = Append(@, d)]
  /\ notify
  /\ UNCHANGED <<assignments, latest, violations>>

Ignore(w, d) == Redelivered(w, d) /\ UNCHANGED vars

reject(w, d) ==
  /\ ~Redelivered(w, d) /\ ~Valid(w, d)
  /\ violations' = violations \cup {w}
  /\ notify
  /\ UNCHANGED <<assignments, latest, workers, snapshot, merged>>

Accept(w, d) == Merge(w, d) \/ Ignore(w, d) \/ reject(w, d)

(* The workers of the latest revision whose final delta is still owed. *)
MissingFinal == {w \in Workers : Loaded(w, latest) /\ workers[w].finalRevision # latest}
Complete == MissingFinal = {}

Next ==
  \/ /\ latest < MaxRevisions
     /\ \E members \in SUBSET Workers : \E plan \in [members -> BOOLEAN] :
          (\E w \in members : plan[w]) /\ RecordAssignments(plan)
  \/ \E w \in Workers, d \in Deltas : Accept(w, d)
  \/ TakeChange

Spec == Init /\ [][Next]_vars

----------------------------------------------------------------------------
Last(s) == s[Len(s)]

TypeOK ==
  /\ latest \in 0..MaxRevisions /\ DOMAIN assignments = 1..latest
  /\ \A r \in 1..latest : /\ DOMAIN assignments[r] \subseteq Workers
                          /\ \A w \in DOMAIN assignments[r] : assignments[r][w] \in BOOLEAN
  /\ workers \in [Workers -> [lastSequence : 0..MaxSequence, lastDelta : Deltas \cup {NoDelta},
                              lastInterval : 0..Deadline, lastRevision : 0..latest,
                              closedRevision : 0..latest, finalRevision : 0..latest,
                              snapshot : 0..MaxCount]]
  /\ snapshot \in 0..MaxCount
  /\ violations \subseteq Workers /\ changed \in BOOLEAN
  /\ merged \in [Workers -> Seq(Deltas)]

(* A worker's state is that of the last delta merged for it, and its         *)
(* sequence numbers have no gap and no repetition.                           *)
StateMatchesHistory ==
  \A w \in Workers :
    /\ workers[w].lastSequence = Len(merged[w])
    /\ merged[w] = <<>> => workers[w] = ZeroState
    /\ merged[w] # <<>> => /\ workers[w].lastDelta = Last(merged[w])
                           /\ workers[w].lastInterval = Last(merged[w]).end
                           /\ workers[w].lastRevision = Last(merged[w]).revision
                           /\ Last(merged[w]).final =>
                                workers[w].closedRevision = Last(merged[w]).revision

(* The time a worker reports is disjoint and, over revisions that all gave   *)
(* it load, gapless.                                                         *)
Uninterrupted(w, r1, r2) == \A r \in r1..r2 : Loaded(w, r)
IntervalsFollow ==
  \A w \in Workers : \A i \in 1..Len(merged[w]) - 1 :
    LET d == merged[w][i]
        e == merged[w][i+1]
    IN  /\ d.end <= e.start
        /\ Uninterrupted(w, d.revision, e.revision) => d.end = e.start

(* When the run counts as complete, every worker that owes the latest        *)
(* revision load has reported, last of all, up to the deadline under it.     *)
CompleteMeansReported ==
  \A w \in Workers \ MissingFinal : latest > 0 /\ Loaded(w, latest) =>
    /\ merged[w] # <<>>
    /\ Last(merged[w]).end = Deadline /\ Last(merged[w]).final
    /\ Last(merged[w]).revision = latest

(* What makes these facts inductive: merged deltas belong to recorded        *)
(* revisions and to the window, and a final revision, once set, is that of   *)
(* the last delta merged, since nothing can follow the deadline.             *)
MergedInWindow ==
  \A w \in Workers : \A i \in 1..Len(merged[w]) :
    merged[w][i].revision \in 1..latest /\ merged[w][i].end \in StartsAt+1..Deadline
FinalIsLast ==
  \A w \in Workers : workers[w].finalRevision # 0 =>
    /\ merged[w] # <<>>
    /\ Last(merged[w]).end = Deadline /\ Last(merged[w]).final
    /\ Last(merged[w]).revision = workers[w].finalRevision
IInv == TypeOK /\ StateMatchesHistory /\ MergedInWindow /\ FinalIsLast /\ IntervalsFollow

Ledger == INSTANCE MetricsLedger WITH ledger <- merged, total <- snapshot

(* The aggregator implements the ledger.                                     *)
ImplementsLedger == Ledger!Spec
=============================================================================
