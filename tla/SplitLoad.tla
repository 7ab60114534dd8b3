----------------------------- MODULE SplitLoad -----------------------------
(* How the orchestrator divides one configured load over the workers of a   *)
(* revision (internal/orchestrator/assignment.go).  Worker IDs are sorted   *)
(* by the caller, so a worker is here its rank 1..n in that order.          *)
EXTENDS Naturals

Slice == [users : Nat, rate : Nat, limit : Nat]

(* A configured load: a constant-VU load has only users, a constant-rate    *)
(* load only rate and limit (max_in_flight).                                *)
ClosedLoad(users) == [users |-> users, rate |-> 0, limit |-> 0]
OpenLoad(rate, limit) == [users |-> 0, rate |-> rate, limit |-> limit]
Loads == {l \in Slice : \/ l.users > 0 /\ l.rate = 0 /\ l.limit = 0
                        \/ l.users = 0 /\ l.rate > 0 /\ l.limit > 0}

LOCAL Least(a, b) == IF a <= b THEN a ELSE b

(* The share of the index-th of parts: the remainder goes to the first. *)
divide(total, parts, index) ==
  (total \div parts) + (IF index <= total % parts THEN 1 ELSE 0)

RateOnly(load, n) == IF load.users > 0 THEN Least(n, load.users)   \* mutant
                                       ELSE Least(n, load.rate)

(* How many of n workers get load; the surplus get an all-zero slice. *)
activeParts(load, n) ==
  IF load.users > 0 THEN Least(n, load.users)
                    ELSE Least(n, Least(load.rate, load.limit))

splitLoad(load, n) ==
  LET active == activeParts(load, n)
      Share(total, i) == IF total > 0 /\ i <= active THEN divide(total, active, i) ELSE 0
  IN  [i \in 1..n |-> [users |-> Share(load.users, i),
                       rate  |-> Share(load.rate, i),
                       limit |-> Share(load.limit, i)]]

(* The load checks of the worker's validateAssignment. *)
validSlice(slice) == IF slice.users > 0 THEN slice.rate = 0 /\ slice.limit = 0
                                        ELSE (slice.rate = 0) <=> (slice.limit = 0)

isActiveSlice(slice) == slice.users > 0 \/ (slice.rate > 0 /\ slice.limit > 0)
=============================================================================
