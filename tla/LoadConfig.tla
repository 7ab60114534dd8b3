----------------------------- MODULE LoadConfig -----------------------------
(* The load section of a configuration file (internal/config/config.go):     *)
(* what Parse accepts and the load it hands on.                              *)
EXTENDS SplitLoad

RawLoads(numbers, durations, rampUps) ==
  [model : {"constant-vus", "constant-rate", "other"},
   users : numbers, rate : numbers, limit : numbers, duration : durations,
   rampUp : rampUps]

AnyLimit(raw) == raw.model = "constant-rate" => raw.rate > 0         \* mutant
OpenComplete(raw) == raw.model = "constant-rate" => raw.rate > 0 /\ raw.limit > 0

(* A constant-rate load may name virtual users and a constant-VU load a      *)
(* rate: they are accepted and not used.                                     *)
validate(raw) ==
  /\ raw.model \in {"constant-vus", "constant-rate"}
  /\ raw.model = "constant-vus" => raw.users > 0 /\ raw.limit = 0
  /\ OpenComplete(raw)
  /\ raw.duration > 0

configured(raw) == IF raw.model = "constant-vus" THEN ClosedLoad(raw.users)
                                                 ELSE OpenLoad(raw.rate, raw.limit)
=============================================================================
