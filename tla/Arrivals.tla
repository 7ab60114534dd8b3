------------------------------ MODULE Arrivals ------------------------------
(* The open-loop arrival schedule (internal/loadgen/open.go): when arrival   *)
(* number `sequence` is due, and with which arrival a scheduler that starts  *)
(* late goes on.  Times are ticks since the start of the run.  The code's    *)
(* float64 seconds are exact fractions here, rounded down to a tick.         *)
EXTENDS Naturals

CONSTANT Second        \* time.Second, in ticks

ASSUME ArrivalsAssumption == Second \in Nat \ {0}

OpenOptions == [rate : Nat \ {0}, rampUp : Nat]

Root(n) == CHOOSE r \in 0..n : r * r <= n /\ n < (r + 1) * (r + 1)

WholeRamp(o) == 2 * o.rate * o.rampUp                                  \* mutant
(* Arrivals of the ramp, 1/(2 Second) each: half what the full rate yields.  *)
rampCount(o) == o.rate * o.rampUp

(* The inverse of the cumulative arrival curve, which is quadratic in the    *)
(* ramp and linear behind it.                                                *)
arrivalOffset(sequence, o) ==
  LET targetCount == 2 * (sequence + 1) * Second IN
  IF o.rampUp = 0 THEN (sequence * Second) \div o.rate
  ELSE IF targetCount <= rampCount(o) THEN Root((targetCount * o.rampUp) \div o.rate)
  ELSE o.rampUp + (targetCount - rampCount(o)) \div (2 * o.rate)

OrEqual(sequence, elapsed, o) == arrivalOffset(sequence, o) <= elapsed \* mutant
AlreadyPast(sequence, elapsed, o) == arrivalOffset(sequence, o) < elapsed

(* Doubling finds an arrival that is not past, halving the first such one. *)
firstArrivalSequence(elapsed, o) ==
  LET double[high \in Nat] == IF AlreadyPast(high, elapsed, o) THEN double[2 * high] ELSE high
      halve[range \in Nat \X Nat] ==
        LET low == range[1]  high == range[2]  middle == low + (high - low) \div 2 IN
        IF low >= high THEN low
        ELSE IF AlreadyPast(middle, elapsed, o) THEN halve[<<middle + 1, high>>]
                                                ELSE halve[<<low, middle>>]
  IN  IF elapsed = 0 THEN 0 ELSE halve[<<0, double[1]>>]
=============================================================================
