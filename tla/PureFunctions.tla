--------------------------- MODULE PureFunctions ---------------------------
(* The pure functions over small inputs: a parsed load is divided over a     *)
(* fleet that grows worker by worker, and its arrivals are resumed at every  *)
(* tick; a snapshot is filled result by result.                              *)
EXTENDS LoadConfig, Arrivals, Counters, FiniteSets

CONSTANTS
  MaxLoad, MaxFleet,     \* bounds: users, rate, in-flight limit; workers
  RampUps, MaxElapsed,   \* bounds: ramp-ups tried, ticks of elapsed time
  MaxResults             \* bound: results in one snapshot

ASSUME PureFunctionsAssumption ==
  {MaxLoad, MaxFleet, MaxElapsed, MaxResults} \cup RampUps \subseteq Nat

VARIABLES raw, fleet, elapsed, snapshot
vars == <<raw, fleet, elapsed, snapshot>>

NoLoad == [model |-> "none", users |-> 0, rate |-> 0, limit |-> 0, duration |-> 0, rampUp |-> 0]
Inputs == {l \in RawLoads(0..MaxLoad, {0, 1}, RampUps) : validate(l)}
Init ==
  /\ fleet = 1 /\ elapsed = 0 /\ snapshot = newSnapshot
  /\ raw \in Inputs \cup {NoLoad}

load == configured(raw)
Join ==
  /\ raw # NoLoad /\ elapsed = 0 /\ fleet < MaxFleet
  /\ fleet' = fleet + 1 /\ UNCHANGED <<raw, elapsed, snapshot>>
Tick ==
  /\ raw.model = "constant-rate" /\ elapsed < MaxElapsed
  /\ elapsed' = elapsed + 1 /\ UNCHANGED <<raw, fleet, snapshot>>
Result ==
  /\ raw = NoLoad /\ snapshot.requests < MaxResults
  /\ \E r \in Results : snapshot' = recordResult(snapshot, r)
  /\ UNCHANGED <<raw, fleet, elapsed>>
Spec == Init /\ [][Join \/ Tick \/ Result]_vars

slices == splitLoad(load, fleet)
Active == {i \in 1..fleet : isActiveSlice(slices[i])}

(* However an accepted configuration and a fleet compare, the workers that   *)
(* will generate load (isActiveSlice, the worker's and the aggregator's      *)
(* test) together carry exactly the configured load: none of it is on a      *)
(* slice taken for idle, or on one the worker's validateAssignment refuses.  *)
LoadConserved ==
  raw # NoLoad =>
    /\ Active # {} /\ \A i \in 1..fleet : validSlice(slices[i])
    /\ SumFunction([i \in Active |-> slices[i].users])
         = IF raw.model = "constant-vus" THEN raw.users ELSE 0
    /\ SumFunction([i \in Active |-> slices[i].rate])
         = IF raw.model = "constant-rate" THEN raw.rate ELSE 0
    /\ SumFunction([i \in Active |-> slices[i].limit]) = raw.limit

Options(i) == [rate |-> slices[i].rate, rampUp |-> raw.rampUp]

(* A scheduler that starts late goes on with the first arrival that is still *)
(* due: it replays none of those before it and skips none behind.            *)
SearchFindsFirst ==
  raw.model = "constant-rate" => \A i \in Active :
    LET first == firstArrivalSequence(elapsed, Options(i)) IN
    /\ arrivalOffset(first, Options(i)) >= elapsed
    /\ first > 0 => arrivalOffset(first - 1, Options(i)) < elapsed

(* The demand of the configured load after t ticks: its rate rises linearly  *)
(* over the ramp and stays.                                                  *)
Curve(t) ==
  IF raw.rampUp = 0 THEN (raw.rate * t) \div Second
  ELSE IF t <= raw.rampUp THEN (raw.rate * t * t) \div (2 * raw.rampUp * Second)
  ELSE (raw.rate * (2 * t - raw.rampUp)) \div (2 * Second)

(* However the rate is divided, the arrivals due on all workers together     *)
(* follow the configured curve, at most one arrival per worker from it.      *)
FleetFollowsCurve ==
  raw.model = "constant-rate" =>
    LET due == SumFunction([i \in Active |-> firstArrivalSequence(elapsed, Options(i))]) IN
    /\ due <= Curve(elapsed) + Cardinality(Active)
    /\ Curve(elapsed) <= due + Cardinality(Active)

(* Whatever results a worker measures, as long as their status codes lie in  *)
(* 100..599, the snapshot it sends passes the orchestrator's checks: the     *)
(* classes the collector counts are the ones the aggregator demands.         *)
HonestSnapshotAccepted ==
  (\A c \in Codes : snapshot.statuses[c] > 0 => c \in 100..599)
    => validateAndDecodeSnapshot(snapshot)
=============================================================================
