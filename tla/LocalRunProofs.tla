--------------------------- MODULE LocalRunProofs ---------------------------
(* NothingUnaccounted and PassIsReliable for any number of users, slots and  *)
(* arrivals and any channel: an induction over the steps of a run, counting  *)
(* the samples that are still with a goroutine or on the channel.            *)
EXTENDS LocalRun, TLAPS

LEMMA InitIInv == Init => IInv
<1> SUFFICES ASSUME Init PROVE IInv
  OBVIOUS
<1>1. TypeOK
  BY DEF Init, TypeOK, None
<1>2. Conserved
  BY DEF Init, Conserved, None
<1>3. Quiet
  BY DEF Init, Quiet, Goroutines
<1>4. PassJudged
  BY DEF Init, PassJudged, Running
<1> QED BY <1>1, <1>2, <1>3, <1>4 DEF IInv

(* A sample offered by a goroutine of a run that is not closed yet goes to   *)
(* the channel or into the drops.                                            *)
LEMMA OfferAddsOne ==
  ASSUME TypeOK, pc \in {"scheduling", "waiting"},
         NEW kind \in {"result", "unmet"}, Offer(kind)
  PROVE  /\ counted' = counted
         /\ queued' \in [result : Nat, unmet : Nat] /\ dropped' \in Nat
         /\ queued'.result + queued'.unmet + dropped'
              = queued.result + queued.unmet + dropped + 1
<1>1. CASE queued.result + queued.unmet < BufferSize
  <2>1. queued' = [queued EXCEPT ![kind] = @ + 1] /\ dropped' = dropped /\ counted' = counted
    BY <1>1 DEF Offer
  <2>2. CASE kind = "result"
    BY <2>1, <2>2 DEF TypeOK
  <2>3. CASE kind = "unmet"
    BY <2>1, <2>3 DEF TypeOK
  <2> QED BY <2>2, <2>3
<1>2. CASE ~(queued.result + queued.unmet < BufferSize)
  BY <1>2 DEF Offer, TypeOK
<1> QED BY <1>1, <1>2

LEMMA NextIInv == IInv /\ [Next]_vars => IInv'
<1> SUFFICES ASSUME IInv, [Next]_vars PROVE IInv'
  OBVIOUS
<1> USE DEF IInv
<1>1. CASE Interrupt \/ Expire
  <2>1. /\ signalled' \in BOOLEAN /\ expired' \in BOOLEAN
        /\ UNCHANGED <<model, pc, users, arrivals, stages, samples, excluded, exit>>
    BY <1>1 DEF Interrupt, Expire, TypeOK
  <2> QED
    BY <2>1 DEF stages, samples, TypeOK, Conserved, Quiet, PassJudged, Goroutines, Reliable
<1>2. CASE Preflight
  BY <1>2 DEF Preflight, ExitInterrupted, stages, samples, context, TypeOK, Conserved, Quiet, PassJudged, Goroutines, Reliable
<1>3. CASE Arrive
  <2>1. CASE SlotFree
    BY <1>3, <2>1 DEF Arrive, samples, context, TypeOK, Conserved, Quiet, PassJudged, Goroutines, Reliable
  <2>2. CASE ~SlotFree
    <3>1. Offer("unmet") /\ pc = "scheduling" /\ executing' = executing
      BY <1>3, <2>2 DEF Arrive
    <3>2. /\ counted' = counted
          /\ queued' \in [result : Nat, unmet : Nat] /\ dropped' \in Nat
          /\ queued'.result + queued'.unmet + dropped'
               = queued.result + queued.unmet + dropped + 1
      BY <3>1, OfferAddsOne
    <3> QED BY <1>3, <3>1, <3>2 DEF Arrive, context, TypeOK, Conserved, Quiet, PassJudged, Goroutines, Reliable
  <2> QED BY <2>1, <2>2
<1>4. CASE StartUser
  BY <1>4 DEF StartUser, samples, context, TypeOK, Conserved, Quiet, PassJudged, Goroutines, Reliable
<1>5. CASE StopScheduling \/ Return
  BY <1>5 DEF StopScheduling, Return, Waited, stages, samples, context, TypeOK, Conserved, Quiet, PassJudged,
              Goroutines, Reliable
<1>6. CASE NextRequest \/ UserStops
  BY <1>6 DEF NextRequest, UserStops, samples, context, TypeOK, Conserved, Quiet, PassJudged, Goroutines, Reliable
<1>7. CASE Answer \/ Cut
  BY <1>7 DEF Answer, Cut, samples, context, TypeOK, Conserved, Quiet, PassJudged, Goroutines, Reliable
<1>8. CASE OfferResult
  <2>1. Offer("result") /\ answered > 0 /\ answered' = answered - 1
    BY <1>8 DEF OfferResult
  <2>2. pc \in {"scheduling", "waiting"}
    BY <2>1 DEF Quiet, Goroutines, TypeOK
  <2>3. /\ counted' = counted
        /\ queued' \in [result : Nat, unmet : Nat] /\ dropped' \in Nat
        /\ queued'.result + queued'.unmet + dropped'
             = queued.result + queued.unmet + dropped + 1
    BY <2>1, <2>2, OfferAddsOne
  <2> QED BY <1>8, <2>1, <2>2, <2>3
          DEF OfferResult, context, TypeOK, Conserved, Quiet, PassJudged, Goroutines, Reliable
<1>9. CASE Exclude \/ Leave
  BY <1>9 DEF Exclude, Leave, samples, context, TypeOK, Conserved, Quiet, PassJudged, Goroutines, Reliable
<1>10. CASE Aggregate
  <2>1. PICK kind \in {"result", "unmet"} :
          /\ queued[kind] > 0
          /\ queued' = [queued EXCEPT ![kind] = @ - 1]
          /\ counted' = [counted EXCEPT ![kind] = @ + 1]
    BY <1>10 DEF Aggregate
  <2>2. queued \in [result : Nat, unmet : Nat] /\ counted \in [result : Nat, unmet : Nat]
    BY DEF TypeOK
  <2>3. /\ queued' \in [result : Nat, unmet : Nat] /\ counted' \in [result : Nat, unmet : Nat]
        /\ queued'.result + queued'.unmet + counted'.result + counted'.unmet
             = queued.result + queued.unmet + counted.result + counted.unmet
    <3>1. CASE kind = "result" BY <2>1, <2>2, <3>1
    <3>2. CASE kind = "unmet" BY <2>1, <2>2, <3>2
    <3> QED BY <3>1, <3>2
  <2>4. pc \notin {"preflight", "judging", "exited"}
    BY <2>1 DEF Quiet, None
  <2> QED BY <1>10, <2>3, <2>4
          DEF Aggregate, stages, context, TypeOK, Conserved, Quiet, PassJudged, Goroutines
<1>11. CASE Collected
  BY <1>11 DEF Collected, ExitInterrupted, stages, samples, context, TypeOK, Conserved, Quiet, PassJudged, Goroutines, Reliable
<1>12. CASE Judge
  BY <1>12 DEF Judge, stages, samples, context, TypeOK, Conserved, Quiet, PassJudged, Goroutines, Reliable
<1>13. CASE UNCHANGED vars
  BY <1>13 DEF vars, stages, samples, context, TypeOK, Conserved, Quiet, PassJudged, Goroutines, Reliable
<1> QED BY <1>1, <1>2, <1>3, <1>4, <1>5, <1>6, <1>7, <1>8, <1>9, <1>10, <1>11, <1>12, <1>13
        DEF Next, Runner, Goroutine

(* The samples of a run are conserved, and a judged run holds none back.     *)
THEOREM Conservation == Spec => []IInv
BY InitIInv, NextIInv, PTL DEF Spec

(* Whatever the load, the slots and the channel: when a run is over, each of *)
(* its arrivals is a result, unmet demand, a drop, or was cut by the end.    *)
THEOREM EverythingAccounted == Spec => []NothingUnaccounted
<1>1. IInv => NothingUnaccounted
  BY DEF IInv, TypeOK, Conserved, Quiet, Goroutines, None, NothingUnaccounted
<1> QED BY <1>1, Conservation, PTL

(* A local run that exits with 0 has measured every arrival it met, except   *)
(* requests cut by the end of the run.                                       *)
THEOREM PassMeansMeasured == Spec => []PassIsReliable
<1>1. IInv => PassIsReliable
  BY DEF IInv, TypeOK, Conserved, Quiet, Goroutines, None, PassJudged, Reliable, PassIsReliable
<1> QED BY <1>1, Conservation, PTL
=============================================================================
