# Verification of the distributed load tester

TLA+ modules for the concurrent core of this repository: an orchestrator that
accepts worker streams, splits a load over them, collects their metrics and
judges the run, and workers that generate the load and report once a second.
TLC checks the modules on small instances. For every value of their constants
TLAPS proves every safety property they are checked for: of the control plane,
the run controller, the connection loop, the collector, the aggregator, one
worker's sessions together with the aggregator, the end of a distributed run, a
local run, and the functions that divide a load, time its arrivals and count
its results.

Paths below are relative to the repository. `PROJECT.json` maps each definition
to the lines it stands for, lists the runs, the mutants that show that each
property can fail, the hazards and the theorems.

## The system

| component | code | state | operations | talks to |
|---|---|---|---|---|
| worker control server | `internal/orchestrator/server.go` | registry worker ID → session; per session the last heartbeat | `Connect` (register, acknowledge, serve, deferred removal), `addSession`, `removeSession`, `recordHeartbeat` | worker stream; notifies the coordinator; hands deltas to the aggregator |
| assignment coordinator | `internal/orchestrator/coordinator.go` | revision, run window, a notification channel of one | `membershipChanged`, `run`, `reconcile` | reads the registry, records revisions in the aggregator, sends on the sessions, removes those whose send fails |
| load splitting | `internal/orchestrator/assignment.go` | none | `splitLoad`, `divide` | called by `reconcile` |
| metrics aggregator | `internal/orchestrator/aggregator.go` | revisions, per-worker progress and totals, fleet total, violations, a notification channel of one | `RecordAssignments`, `Accept`, `MissingFinal` | called from every stream handler, the coordinator and the waiter, under one mutex |
| run completion | `internal/orchestrator/completion.go`, `cmd/orchestrator/main.go` | the waiter's position, the process's exit | `WaitForResult`, `finalSummary`, `awaitRunCompletion` | run window from the coordinator, aggregator, gRPC server, signals |
| worker connection loop | `internal/worker/client.go` | the current session, retry delay | `run`, `runSession`, `runRegistered` and its writer, heartbeat and receive goroutines | stream; run controller |
| run controller | `internal/worker/run.go`, `metrics.go` | applied assignment, scheduler, open interval, timer, delta sequence | `Apply`, `Close`, timers, flush | collector, scheduler, outbound queue |
| metrics collector | `internal/metrics/collector.go` | event channel, drop counter, open snapshot | `Offer`, `OfferUnmetDemand`, `SnapshotAndReset`, `Close` | request goroutines; run controller or local runner |
| schedulers | `internal/loadgen` | virtual users; in-flight slots, arrival sequence | `RunClosed`, `RunOpen`, `firstArrivalSequence` | executor, collector |
| local runner | `internal/runner`, `cmd/loadtest/main.go` | the run's context, the exit | `Run`, `preflight`, `executeLoad` | one scheduler, the collector, the report |
| configuration, report | `internal/config`, `internal/report` | none | `Parse`, `validate`; `Evaluate`, `Interrupted` | called at the start and the end of a run |
| HTTP executor, target application, generated stubs | the rest | none that concurrency touches | | |

What is hard here: sessions that end and reappear while the coordinator walks
over a snapshot of them; two coalescing notification channels; revisions that
replace each other while their deltas are in flight; one `select` in the worker
that serves commands, timers and the scheduler's end in any order; a collector
queue that is full; and a verdict put together from several critical sections.
`PROJECT.json` "hazards" lists these at their lines.

What makes each component correct:

- *server*: a registry entry belongs to the live session of its worker; nobody
  is evicted by an older session's cleanup, and a dead session does not stay.
- *coordinator*: no membership change is lost; all revisions share one window;
  a revision is known to the aggregator before a worker can report on it.
- *splitting*: the slices that generate load add up to the configured load.
- *aggregator*: accepted deltas form one ordered, disjoint, once-only ledger
  per worker, gapless while the worker has load, and the totals are its sum.
- *completion*: a passing verdict is about a complete run, every run ends, and
  the exit code says why.
- *controller*: what it sends is what the aggregator accepts; load runs for the
  applied revision only and always stops.
- *connection loop*: a session that is broken ends whatever its goroutines wait
  for; a worker stops for good only when it was refused; retries back off.
- *schedulers and local runner*: every arrival is a request or unmet demand and
  is accounted for when the run is over; a late start neither replays nor skips.
- *counters*: what a collector counts is what the aggregator demands.
- *collector*: each sample is counted once or counted as dropped; commands are
  barriers; calls return.

## Modules

**`SplitLoad`**, **`LoadConfig`**, **`Arrivals`**, **`Counters`** are functions
only. **`PureFunctions`** puts them to use, so that their inputs are those the
program can produce (a load that was parsed, a fleet that grew worker by worker,
a snapshot that was filled result by result), and holds the reference definitions.
**`PureFunctionsProofs`** proves that the functions meet them.
In `SplitLoad` a worker is its rank in the ID order; `divide` gives the share of
one rank. `LoadConfig` is the load section of a configuration: what `validate`
accepts, and the load that comes of it. `Arrivals` has `arrivalOffset` and the
doubling and halving search of `firstArrivalSequence`, with exact fractions of a
tick where the code has `float64` seconds. `Counters` has `recordResult` on the
worker's side and `validateAndDecodeSnapshot` on the orchestrator's; a status code
is a number of at most three digits.

**`ControlPlane`** models server, coordinator and connection loop together,
because their errors are errors of interleaving. A session `<<w, k>>` is the
k-th connection of worker `w`; `down` and `up` are the two directions of its
stream, `broken` the sessions whose stream is gone. Each handler position in
`Connect` is a value of `handler[s]`, so registry insertion, acknowledgment,
notification and deferred removal are separate steps, as they are separate
critical sections in the code. `reconcile` is five steps (snapshot, plan,
record, one send per session, idle). A client step `EndSession` is what
`runRegistered` does on any error; whether the worker dials again depends on
`isPermanent`. **`ControlPlaneProofs`** proves its safety.

**`Aggregator`** is one step per method because both hold the mutex. Deltas are
arbitrary records: the component's task is to reject the wrong ones. `Accept`
is `Merge`, `Ignore` (a redelivery of the last delta) or `reject`; the guard
`Valid` conjoins the code's checks. Counters and histogram are one request
count, and `Sound` is the outcome of `validateAndDecodeSnapshot`. **`MetricsLedger`**
is the promise it implements; **`CompletionProofs`** proves that it does.

**`RunController`** follows `run`'s goroutine: `pc` says whether it is in its
`select`, waits for a scheduler to drain, decides, or waits for room in the
outbound queue, and `task` says for which case. The clock advances freely, so
timers fire late and drains take any time. The orchestrator is an environment
that issues revisions before the deadline and a stream that delivers them later.
Requests are counted: `pending` in the collector, `taken` in the snapshot that
waits to be sent, `requests` in the delta. A tick is coarse, so a request of an
interval ends after the interval's first tick, and the collector holds at most
one (a bound). **`RunControllerProofs`** proves what a single session keeps true,
and what the modules that embed the controller need.

**`Fleet`** composes one worker's sessions with the aggregator. It extends
`RunController` and instantiates `Aggregator` with the revisions the coordinator
issued; `Deliver` hands the deltas of `emitted` to `Accept` in order (`Message` is
what `newMetricsDelta` makes of one), and a rejected one ends the stream. The
counters' limit is the clock's bound, which honest workers cannot reach: overflow
is `Aggregator`'s subject. `Reconnect` starts a new controller, whose
sequence begins at one, against the old aggregator. A revision that leaves the
worker idle stands for one that gives its load to others. **`FleetProofs`** proves
that the two sides agree.

**`WorkerSession`** models `client.go` over the same controller: the receiver,
the writer and the controller report on their channels, `Select` takes any that
is ready, and `Close` waits for controller and load. What the server and the
network do to the stream is an environment. `refused` is a history variable: it
tells whether anything said no. **`WorkerSessionProofs`** proves why a worker stops
and that each session runs its controller as specified.

**`LocalRun`** models `cmd/loadtest`: request goroutines are counted by how far
they are (looping, executing, answered, aborted, leaving), the collector's
channel by the kinds of samples on it, and the verdict by the counters
`Evaluate` reads. `model` chooses one of the two schedulers.
**`LocalRunProofs`** proves its accounting.

**`Collector`** splits an offer into the closed check and the non-blocking
send, and a call into locking, posting and returning, so that every order of
producers, callers and the aggregating goroutine occurs. A snapshot is the set of
samples it counts and the number of drops it reports; as history it also keeps
which samples were dropped, so that a drop reported twice, or in place of
another, is seen. **`CollectorProofs`** proves the accounting.

**`Completion`** extends `Aggregator` and interleaves it with `WaitForResult`
(the three reads of `finalSummary` are three steps) and the orchestrator
process. The coordinator's deadline check (`Plan`) and its `Record` are two
steps here, since the deadline may pass in between. **`CompletionProofs`**
proves, on top of the aggregator's safety, what a passing verdict and an exit
code mean, and what a prompt verdict has counted.

Operators marked `mutant` in a module are alternatives that are not part of the
model: plausible mistakes in the definition below them, used to show that a
property notices.

## Runs

| run | checks | bounds, and why they suffice |
|---|---|---|
| `control_plane` | `TypeOK`, `LiveSessionRegistered`, `RecordedBeforeDelivered`, `CoordinatorCaughtUp`, `HealthyWorkerNeverRefused`, `NoTakeover` | 2 workers, 2 sessions and 2 dial attempts, 2 heartbeats, clock 0..2 with lead time 1 and duration 1: plans before, in and after the window, and a worker that comes back while its old handler and the coordinator still clean up; a rate load with fewer slots than rate |
| `membership_live` | `StaleSessionRemoved`, `AnnouncedGetsAssignment` | 2 connections in total, no heartbeats, fair |
| `ack_race` | `AcknowledgedFirst` (violated) | 2 workers, one connection each |
| `functions` | `LoadConserved`, `SearchFindsFirst`, `FleetFollowsCurve`, `HonestSnapshotAccepted` | raw loads with numbers 0..5, fleets up to 6, no, a short and a long ramp, 13 ticks at 4 to the second; 5 results: more workers than load, remainders, limit below rate and above, loads that are incomplete, starts in and after the ramp, each class of result beside each other, and a code (700) that the aggregator refuses |
| `aggregator` | `TypeOK`, `StateMatchesHistory`, `IntervalsFollow`, `CompleteMeansReported`, `ImplementsLedger` | 1 worker, arbitrary deltas, 3 revisions, 4 deltas, a window of two intervals, counters that overflow at 3: loaded → idle → loaded, replaced revisions, partial closes |
| `fleet` | `TypeOK`, `HonestNeverRejected`, `DeadlineReported`, `LoadMatchesRevision`, `CompleteCountsAll`, `OneSessionCounts` | 1 worker, 2 sessions, 3 revisions, window 1..6 with interval 2, so its last interval is short; a queue of 1, so every flush can block; a clock that outlasts the deadline |
| `late_revision` | `RevisionClosedOnce` (violated) | 2 revisions, window 1..4 |
| `worker_session` | `StopsOnlyWhenRefused`, `RetryDelayBounded`, `BrokenSessionEnds`, `RunEnds` | delays 1, 2, 5 and 4 failures in a row, so the delay reaches its maximum, an odd one, and stays; 2 revisions, queue of 1; any number of sessions; fair |
| `collector` | `TypeOK`, `CountedOnce`, `Barrier`, `CallsReturn` | 2 producers, 2 callers, 2 slots, 4 samples, 3 calls: drops, blocked commands, a second close; fair |
| `local_run` | `NothingUnaccounted`, `PassIsReliable`, `RunEnds` | 2 users or 2 slots, a channel of 2, 6 arrivals: slots run out and the channel overflows, together and apart; fair |
| `completion` | `PassIsComplete`, `PromptPassCountsFinals`, `ExitCodeHonest`, `CompleteIsNoticed`, `SignalEnds`, `StartedRunEnds` | 2 workers with one report each, 2 revisions: one worker's report is merged while the other's is missing, and the second revision adds a worker or replaces the first's; timers need not fire, except where `StartedRunEnds` says so |
| `summary_race` | `PassCountsFinals` (violated) | 1 worker, 1 revision, 2 reports |

Deadlock is not checked: in all these bounded models the system may come to
rest, because workers may stop dialling, the process exits, or a bound is
reached. That nothing waits for ever is what the liveness properties say.

Bounds (`MaxAttempts`, `MaxSessions`, `MaxHeartbeats`, `MaxClock`,
`MaxRevision(s)`, `MaxSequence`, `MaxRequests`, `MaxSamples`, `MaxCalls`,
`MaxArrivals`, and in `PureFunctions` `MaxLoad`, `MaxFleet`, `MaxElapsed`,
`MaxResults`) cap counters only; each is a constant and appears in a guard or in
a set of inputs. `MaxFailures` caps a history variable of `WorkerSession` that
only `RetryDelayBounded` reads, and `Fleets` in `Completion` names the
memberships a revision may have.
In `Completion`, reports that come after the result are left out, as they
cannot change it.

### What the violated properties show

- `ack_race`: `Connect` registers a session (`server.go:136`) before it
  acknowledges it (`server.go:141`). A coordinator working for another worker's
  join can put an assignment in front; the worker insists that the
  acknowledgment comes first (`client.go:153`) and stops for good.
- `late_revision`: the deadline flush does not move the start of the interval
  (`run.go:256`). A replacement planned before the deadline and received after
  it flushes and closes the old revision again. `HonestNeverRejected` and
  `DeadlineReported` therefore exclude such runs (`late`).
- `summary_race`: `finalSummary` reads the snapshot before it asks what is
  missing (`completion.go:68`, `:72`). A final delta accepted in between at the
  end of the grace period makes the run pass without its measurements.

### What the other runs show of the limits of the design

No document or comment promises otherwise in these cases, so they are stated
where they limit a property:

- A worker that reconnects after one of its deltas was accepted is rejected: its
  new controller counts from one (`run.go:165`), the aggregator goes on. Apart
  from late revisions this is the only way for an honest delta to be rejected
  (`HonestNeverRejected`), and it keeps two sessions from being mixed in one
  total (`OneSessionCounts`).
- A worker whose first session ended before a delta was accepted starts afresh,
  and the aggregator cannot tell (`aggregator.go:178`): the run may be complete
  without what that session measured. `CompleteCountsAll` is about the session
  that reported.
- An overdue revision makes the controller report on its own channel, as a
  transient error, and through `Apply` to the receiver, as a permanent one; and
  a refusal by the server reaches the receiver as its status, but the writer as
  `io.EOF`. `Select` takes either, so the same cause stops one worker and makes
  another retry.
- The collector counts any status code, the aggregator accepts 100 to 599:
  `HonestSnapshotAccepted` holds for targets that keep to these.
- An open-loop scheduler that lags at the end of the run has arrivals that were
  due but not met; they are neither requests nor unmet demand
  (`open.go:60`). `NothingUnaccounted` is about arrivals that were met.

### Fairness

Weak fairness of goroutines that can run: the Go scheduler starves none. Strong
fairness only where the runtime gives it. A channel serves blocked senders in
order: a flush waiting for room in the outbound queue is not overtaken for ever
by heartbeats, nor a collector command by samples. A mutex hands over to waiters.
And `select` chooses among ready cases at random: in
`WaitForResult` neither the grace timer nor a signal is passed over for ever
while reports keep arriving. Workers, the network, requests and operators owe
nothing, except that a request returns once its context is cancelled
(`SchedulerEnds`; `Answer` or `Cut` in `LocalRun`). Timers fire in
`WorkerSession`, in `LocalRun` (the end of the run's duration) and, as the
premise `Timed` of `StartedRunEnds`, in `Completion`; the other properties of
`Completion` do without. `Fleet` is checked for safety only.

## Proofs

Eight modules hold theorems. Each follows one pattern: an inductive invariant, a
conjunction of named parts, that holds initially (`Init...`), is kept by every
step (`...Kept`, `...KeepsInv`), and implies the properties. TLC checked each
invariant on the instance of the corresponding run before it was proved (that of
`Fleet` also with three sessions). Lemmas named `...Facts` say what an
operator or a guard gives; proofs cite them instead of expanding the operator.

**`ControlPlaneProofs`**, from `ControlPlaneAssumption` (workers are positive numbers
that are finitely many, a load that the configuration can contain, positive lead
time and duration), for `ControlPlane!Spec`: `TypeCorrectness`,
`LiveSessionsStayRegistered`, `DeliveredIsRecorded`, `NoChangeLost`,
`HealthyWorkersStay` and the action property `EntriesAreNotTakenOver`: all safety
properties of the `control_plane` run. What the parts of `IInv` are for:

- `Connections`: all but a worker's latest connection are broken, and one that
  was not made has left no trace. With it a cleanup by an older handler meets
  either its own entry or none.
- `Acknowledgments`, `Heartbeats`, `Assignments`: what is on a stream is in order,
  and ordered after what its reader has already taken. A worker refuses a
  revision that is not newer, or has another window, so `HealthyWorkersStay` needs
  that the coordinator sends each revision at most once per session (`todo`) and
  that the window is fixed by the first (`Planned`).
- `Noticed` and `LatestReached`: whoever announced itself is in the last snapshot,
  or the channel is full, or the coordinator was just woken; and whoever is in
  the snapshot has the latest revision, is still to get it, or has a broken stream.
  Together they are `NoChangeLost`.

**`PureFunctionsProofs`**, from `ArrivalsAssumption` (a second has ticks),
`CountersAssumption` (codes of at most three digits) and `PureFunctionsAssumption` (the
bounds are natural numbers), for `PureFunctions!Spec`: `LoadIsConserved`, `SearchIsExact`,
`FleetKeepsToCurve` and `HonestSnapshotsPass`, the four properties of the `functions`
run for any configuration, fleet, time and sequence of results; and `LoadIsDivided`,
which is about `splitLoad` alone. The state's invariant is simple (`IInv`: the load was
accepted, the counters belong together); the work is in the functions. Induction
is replaced by two facts about sets: a non-empty set of numbers has a least
element (`LeastElement`), one of finite sets a minimal one (`LeastSet`), and what holds
for all is shown of the least counterexample. A recursive definition is a `CHOOSE`,
so its equation holds only once a solution is exhibited (`SumExists`, `DoubleExists`,
`HalveExists`).

- *Sums*: `AnyOrder` says that a sum does not depend on the order in which its
  elements are taken, `SumOfRange` that it is given by its partial sums. The first k
  shares of a total have a closed form (`FirstShares`), which gives `SharesAddUp`.
- *Search*: with arrivals past exactly up to some number, doubling ends behind it
  and halving at it (`DoubleFinds`, `HalveFinds`, `SearchFinds`).
- *Curve*: `PastIsLinear` is the heart. Root and quotients are rounded down, yet
  whether an arrival is past is a linear question in the rate, with units and a
  demand that ramp and time alone determine. So the demands of the workers add up
  to that of the fleet, and each is at most one arrival from what is due
  (`SumsAreClose`).
- *Counters*: a result adds to one outcome, and to one status unless it failed
  without (`RecordKeepsCounted`); the aggregator's inequalities follow
  (`CountedIsAccepted`). The premise of `HonestSnapshotAccepted`, codes in 100..599,
  is not kept by the collector.

**`RunControllerProofs`**, from `RunControllerAssumption` (a positive interval and
queue, a start before the deadline), for `RunController!Spec`: `TypeCorrectness`,
`FinalsAreSent`, `LoadFollowsRevisions`. `Scheduling` ties scheduler, status and
position; `Reporting` says that a loaded revision applied in time leaves an
interval open before the deadline, without which the deadline would owe no final
delta. `BoundaryInWindow` is the arithmetic of `nextMetricBoundary`.

**`FleetProofs`**, from `RunControllerAssumption` and `FleetAssumption` (some number of
sessions), for `Fleet!FleetSpec`: `HonestWorkersReport`, `TotalsAreComplete`, the action
property `SessionsAreNotMixed`, and `SessionsReportFinals`, which carries the
controller's invariants over to every session. `FleetInv` is about two parties
that know each other only through deltas:

- *the worker*: `Chained` (each delta sent is well-formed and follows the one
  before it), `OpenInterval` and `Frontier` (so will the next one: the open interval
  reaches to the next boundary of the grid, and starts where the last delta ended
  if the revisions in between all gave load), `Timing` and `Flushing` (what is
  flushed is a non-empty interval of at most one cadence, of time that has passed);
- *the aggregator*: `Account` (its state is that of the last delta merged; while
  the session lives, all that was delivered was merged) and `Superseded` (a later
  session's first delta is never taken for a redelivery of an earlier one's last);
- *both*: `Conserved` (what a session measured is in its deltas, in a snapshot or
  in the collector, by partial sums over `emitted`), `LastWord` and `FinalTotal` (a
  delta up to the deadline under the latest revision is the last, and once merged
  the total is that of its session).

`HonestWorkersReport` is the meeting point: for each check of `Valid` a step shows
that the next delta passes it, from `Chained` and `Account`. In `TotalsAreComplete` it
is not presumed that nothing was rejected: a rejection ends the session, and only
an accepted final delta completes the run.

**`WorkerSessionProofs`**, from `RunControllerAssumption` and
`WorkerSessionAssumption` (positive delays, the base at most the maximum), for
`WorkerSession!LoopSpec`: `StopsOnlyForCause`, `DelaysAreBounded` and
`SessionsKeepControllers`. For the delay, `DelayDoubles` ties it to the failures since the
last registered session: it is the base doubled as often, or the maximum. The
attempt to prove a plain doubling failed on an odd maximum, which the code
halves rounding down (`client.go:381`): the step to it may exceed the double by one
tick, which `RetryDelayBounded` allows. `DoubledFacts` has the powers, by the least
counterexample as above. The invariant also says that whatever stands for a refusal has one as its cause
(`RefusedForCause`: the errors still on the channel, the result, the receiver, the
stream) and that nothing of a session outlives it (`SessionScoped`): otherwise an
error of one session could stop the worker in the next, after the retry forgot
the cause. `StepsController` shows that each step is one of the controller, leaves
it alone, or replaces it.

**`CollectorProofs`**, from `CollectorAssumption` (a positive channel, finitely many
producers), for `Collector!Spec`: `TypeCorrectness`, `SamplesCountedOnce`,
`CommandsAreBarriers`. `CountedOnce` needs that a sample has one place (`Places`); that
one command at a time is on the channel (`OneCommand`), which is what the mutex is
for; and `Barrier` that the samples accepted before a call are ahead of its command
(`Ahead`), and for a close all there ever will be.

**`CompletionProofs`** has two parts. Of the aggregator it proves, from
`AggregatorAssumption` alone (a finite set of workers, a positive interval and
start, a start before the deadline, natural bounds), for `Aggregator!Spec`:

- `TypeCorrect`, `GapFree`, `NoOverlapNoGap`, `CompleteIsReported`: the
  invariants of the `aggregator` run;
- `LedgerRefinement`: `Spec` implements `MetricsLedger` with the history of
  merged deltas as the ledger and the fleet total as its total.

The argument is one inductive invariant, `IInv`. Contiguity of intervals is
about the last two deltas, but the code decides it from `lastInterval` and
`lastRevision`; so the invariant needs `StateMatchesHistory`, which ties that
state to the history. `CompleteMeansReported` needs that nothing is merged after
a final delta at the deadline: `MergedInWindow` bounds every accepted interval
by the deadline and `FinalIsLast` says that a recorded final revision is the
last entry. `MergeFacts` collects what the guard of an accepted delta
gives; `RecordKeepsIInv` and `MergeKeepsIInv` are the two steps that
matter, `reject`, `Ignore` and `TakeChange` change nothing the invariant speaks
of. The refinement maps `Merge` to `Enter` and every other step to a stutter.

Of the end of a run it proves, from `AggregatorAssumption` and
`FleetsAssumption` (each revision has a set of possible, non-empty
memberships), for `Completion!CompletionSpec`:

- `CompletionRunsAggregator`: `CompletionSpec` implies `Aggregator!Spec`. Every
  step of the composition is a step of the aggregator or leaves it alone
  (`StepsAggregator`), so the aggregator's theorems hold in it;
- `PassIsOfCompleteRun` and `ExitCodeTellsTruth`: `PassIsComplete` and
  `ExitCodeHonest` of the `completion` run.

The invariant, `CompletionInv`, adds to `IInv` which verdict goes with each of
the waiter's positions (`VerdictReady`: the process asks for an exit code only
where there is one) and why the process's context can be done
(`CancelledForCause`: by a signal, or after the result; without it 130 might
stand for the process's own cancellation). `ReadMissing` is the step that
decides a pass: a worker not missing there has reported
(`NotMissingIsReported`), and after the waiter returned nothing that the
verdict speaks of changes in the model. On top of it `PromptInv` gives
`PromptPassIsComplete` (`PromptPassCountsFinals`): within the grace period the
waiter reads only a run that is complete; it stays complete, as a revision can no
longer follow (`lateRecord`), and a worker whose final delta is in has nothing
accepted any more (`NothingAfterFinal`), so what was counted is all it reported.

**`LocalRunProofs`** proves, from `LocalRunAssumption` alone (positive users,
slots and channel, a natural bound), for `LocalRun!Spec`:

- `Conservation`: the inductive invariant `IInv`;
- `EverythingAccounted` and `PassMeansMeasured`: the safety properties of the
  `local_run` run.

A run that is over has accounted for its arrivals because nothing is on the way
any more. So the invariant counts what is on the way: `Conserved` says that the
arrivals are the requests with a goroutine, the samples on the channel and
those counted, dropped or excluded, and `Quiet` that there are no goroutines
once the scheduler has returned and no samples once the snapshot was taken.
`OfferAddsOne` is the step at the border: an offer puts exactly one sample on
the channel or into the drops. It needs that the collector is not closed, which
is `Quiet` again: a goroutine with a sample means the scheduler still waits.

Model-checked only:

- the liveness properties (`StaleSessionRemoved`, `AnnouncedGetsAssignment`,
  `BrokenSessionEnds`, `RunEnds`, `CallsReturn`, `CompleteIsNoticed`, `SignalEnds`,
  `StartedRunEnds`): fairness and ENABLED are out of the prover's reach.

Every invariant and action property of the passing runs is a theorem.
`HonestNeverRejected` and `CompleteCountsAll` are proved for one worker, and every
theorem for the bounds' constants as parameters: a bound may be any number.

## Not modelled

Generated stubs, YAML decoding, the HTTP call itself, histogram encoding, the
text and percentiles of reports, flags and environment, and the target
application: no concurrent state, or a library's. Of a ramp only its times are
modelled (`Arrivals`; free in `LocalRun`), of latencies nothing. Within the
modelled components: malformed registrations and heartbeats, several run IDs, a
scheduler that cannot start or fails (a validated assignment excludes it), and
worker clocks that differ from the orchestrator's.

## Plan

Order of work, the most important behaviour first; done: steps 1 to 15.

1. `SplitLoad`, `ControlPlane`: registry, coordinator, connection loop.
2. `MetricsLedger`, `Aggregator`: validation and merging, with the abstract ledger.
3. The aggregator's proofs: type correctness, gap freedom, completion, refinement.
4. `RunController`: flushes and revisions on the worker.
5. `Collector`: the sample queue.
6. `Completion`: aggregator + waiter + process.
7. `Fleet`: controller, stream, reconnection and aggregator.
8. `WorkerSession`: the connection loop, its goroutines and its retries.
9. `LoadConfig`, `Arrivals`, `Counters`: functions against reference definitions.
10. `LocalRun` and `LocalRunProofs`: runner, schedulers, collector, verdict.
11. `CompletionProofs`: the verdict and the exit code, on the aggregator's proofs.
12. `ControlPlaneProofs`, `CollectorProofs`, `RunControllerProofs`: the safety of these
    three modules.
13. `FleetProofs`: honest deltas are accepted and totals complete.
14. `WorkerSessionProofs`, and prompt verdicts in `CompletionProofs`.
15. `PureFunctionsProofs`, and the retry delay in `WorkerSessionProofs`: induction over
    data by least counterexamples.
16. Two workers in `Fleet`, if its state space can be reduced enough.
