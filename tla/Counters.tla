------------------------------ MODULE Counters ------------------------------
(* The counters of a metrics snapshot, twice: how the collector accumulates  *)
(* them (internal/metrics/collector.go recordResult) and what the            *)
(* orchestrator demands of them before it merges a delta (aggregator.go      *)
(* validateAndDecodeSnapshot).  Bytes and latencies are left out, except     *)
(* that every request adds one observation to the histogram.                 *)
EXTENDS Naturals, Functions

CONSTANT Codes         \* status codes a response may carry: three digits

ASSUME CountersAssumption == Codes \subseteq 1..999

(* A protocol.Result: the status received, 0 if none, and whether the        *)
(* request failed in transport, before or after the status.                  *)
Results == {r \in [status : Codes \cup {0}, failed : BOOLEAN] : r.status = 0 => r.failed}

newSnapshot == [requests |-> 0, succeeded |-> 0, failed |-> 0, transport |-> 0,
                client |-> 0, server |-> 0, observations |-> 0,
                statuses |-> [c \in Codes |-> 0]]

(* Exactly one outcome per request; a transport failure outranks the status. *)
IsClientError(r) == ~r.failed /\ r.status \in 400..499
ByStatusOnly(r) == r.status >= 500                                   \* mutant
IsServerError(r) == ~r.failed /\ r.status >= 500
One(condition) == IF condition THEN 1 ELSE 0

recordResult(s, r) ==
  [requests     |-> s.requests + 1,
   observations |-> s.observations + 1,
   transport    |-> s.transport + One(r.failed),
   client       |-> s.client + One(IsClientError(r)),
   server       |-> s.server + One(IsServerError(r)),
   failed       |-> s.failed + One(r.failed \/ IsClientError(r) \/ IsServerError(r)),
   succeeded    |-> s.succeeded + One(~(r.failed \/ IsClientError(r) \/ IsServerError(r))),
   statuses     |-> [c \in Codes |-> s.statuses[c] + One(c = r.status)]]

(* Codes outside 100..599 are refused, whatever else agrees. *)
validateAndDecodeSnapshot(s) ==
  LET total == SumFunction(s.statuses) IN
  /\ s.succeeded <= s.requests /\ s.failed = s.requests - s.succeeded
  /\ s.transport + s.client + s.server = s.failed
  /\ \A c \in Codes : s.statuses[c] > 0 => c \in 100..599
  /\ s.requests - s.transport <= total /\ total <= s.requests
  /\ s.observations = s.requests
=============================================================================
