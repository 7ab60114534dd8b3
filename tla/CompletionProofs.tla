-------------------------- MODULE CompletionProofs --------------------------
(* Safety of the metrics aggregator, and of the end of a distributed run,    *)
(* for every set of workers, fleet, window, cadence and number of revisions. *)
(* The composition runs the aggregator by its specification, so the          *)
(* aggregator's invariants hold in it, and with them what a passing verdict  *)
(* and an exit code mean.                                                    *)
EXTENDS Completion, TLAPS

----------------------------------------------------------------------------
(* The aggregator alone.                                                     *)

(* The delta merged last is the one appended. *)
LEMMA LastOfAppend ==
  ASSUME NEW S, NEW s \in Seq(S), NEW d \in S
  PROVE  /\ Append(s, d) \in Seq(S) /\ Append(s, d) # <<>>
         /\ Len(Append(s, d)) = Len(s) + 1
         /\ Last(Append(s, d)) = d
         /\ \A i \in 1..Len(s) : Append(s, d)[i] = s[i]
         /\ s # <<>> => Len(s) \in 1..Len(s) /\ Append(s, d)[Len(s)] = Last(s)
BY DEF Last

(* What the step that merges d for w establishes, conjunct by conjunct. *)
LEMMA MergeFacts ==
  ASSUME IInv, NEW w \in Workers, NEW d \in Deltas, Merge(w, d)
  PROVE  /\ d.revision \in 1..latest
         /\ d.sequence = Len(merged[w]) + 1
         /\ d.start < d.end /\ d.end \in StartsAt+1..Deadline
         /\ d.start \in Nat /\ d.requests \in Nat
         /\ snapshot + d.requests \in 0..MaxCount
         /\ workers[w].snapshot + d.requests \in 0..MaxCount
         /\ workers[w].finalRevision = 0
         /\ merged[w] # <<>> =>
              /\ d.start >= Last(merged[w]).end
              /\ d.revision >= Last(merged[w]).revision
              /\ Last(merged[w]).final => d.revision > Last(merged[w]).revision
              /\ Uninterrupted(w, Last(merged[w]).revision, d.revision)
                   => d.start = Last(merged[w]).end
<1> USE AggregatorAssumption
<1>1. Valid(w, d) /\ merged[w] \in Seq(Deltas)
  BY DEF Merge, IInv, TypeOK
<1>2. workers[w] \in [lastSequence : 0..MaxSequence, lastDelta : Deltas \cup {NoDelta},
                      lastInterval : 0..Deadline, lastRevision : 0..latest,
                      closedRevision : 0..latest, finalRevision : 0..latest,
                      snapshot : 0..MaxCount]
  BY DEF IInv, TypeOK
<1>3. d.revision \in 1..latest
  BY <1>1 DEF Valid, Assigned, IInv, TypeOK
<1>4. d.sequence = Len(merged[w]) + 1
  BY <1>1 DEF Valid, InSequence, IInv, StateMatchesHistory
<1>5. /\ d.start < d.end /\ d.end \in StartsAt+1..Deadline
      /\ d.start \in Nat /\ d.end \in Nat /\ d.requests \in Nat /\ d.revision \in Nat
  BY <1>1 DEF Valid, validateMetricInterval, Deltas
<1>6. /\ snapshot + d.requests \in 0..MaxCount
      /\ workers[w].snapshot + d.requests \in 0..MaxCount
  <2>1. snapshot \in 0..MaxCount /\ workers[w].snapshot \in 0..MaxCount
    BY <1>2 DEF IInv, TypeOK
  <2>2. /\ snapshot + d.requests <= MaxCount
        /\ workers[w].snapshot + d.requests <= MaxCount
    BY <1>1 DEF Valid, Mergeable, workerMerged
  <2> QED
    BY <1>5, <2>1, <2>2
<1>7. ASSUME merged[w] # <<>>
      PROVE  /\ d.start >= Last(merged[w]).end
             /\ d.revision >= Last(merged[w]).revision
             /\ Last(merged[w]).final => d.revision > Last(merged[w]).revision
             /\ Uninterrupted(w, Last(merged[w]).revision, d.revision)
                  => d.start = Last(merged[w]).end
  <2>1. Len(merged[w]) \in 1..Len(merged[w])
    BY <1>1, <1>7
  <2>2. /\ Last(merged[w]).end \in StartsAt+1..Deadline
        /\ Last(merged[w]).revision \in 1..latest
    BY <2>1 DEF IInv, MergedInWindow, Last
  <2>3. /\ workers[w].lastInterval = Last(merged[w]).end
        /\ workers[w].lastRevision = Last(merged[w]).revision
        /\ Last(merged[w]).final => workers[w].closedRevision = Last(merged[w]).revision
    BY <1>7 DEF IInv, StateMatchesHistory
  <2>4. workers[w].lastInterval # 0 /\ workers[w].lastRevision # 0
    BY <2>2, <2>3
  <2>5. d.start >= Last(merged[w]).end
    BY <1>1, <2>3, <2>4 DEF Valid, validateMetricInterval, FollowsLast
  <2>6. d.revision >= Last(merged[w]).revision
    BY <1>1, <2>3 DEF Valid, RevisionOpen
  <2>7. Last(merged[w]).final => d.revision > Last(merged[w]).revision
    BY <1>1, <1>5, <2>2, <2>3, <2>6 DEF Valid, RevisionOpen
  <2>8. ASSUME Uninterrupted(w, Last(merged[w]).revision, d.revision)
        PROVE  d.start = Last(merged[w]).end
    <3>1. requiresContiguousInterval(w, workers[w].lastRevision, d.revision)
      BY <2>3, <2>4, <2>8 DEF requiresContiguousInterval, Uninterrupted
    <3> QED
      BY <1>1, <2>3, <2>4, <3>1 DEF Valid, validateMetricInterval, FollowsLast
  <2> QED
    BY <2>5, <2>6, <2>7, <2>8
<1>8. workers[w].finalRevision = 0
  <2>1. SUFFICES ASSUME workers[w].finalRevision # 0
                 PROVE  FALSE
    OBVIOUS
  <2>2. merged[w] # <<>> /\ Last(merged[w]).end = Deadline
    BY <2>1 DEF IInv, FinalIsLast
  <2> QED
    BY <1>5, <1>7, <2>2
<1> QED
  BY <1>3, <1>4, <1>5, <1>6, <1>7, <1>8

LEMMA InitIInv == Init => IInv
<1> SUFFICES ASSUME Init PROVE IInv
  OBVIOUS
<1> USE AggregatorAssumption DEF Init
<1>1. TypeOK
  <2>1. DOMAIN assignments = {} /\ latest \in 0..MaxRevisions /\ 1..latest = {}
    OBVIOUS
  <2>2. workers \in [Workers -> [lastSequence : 0..MaxSequence, lastDelta : Deltas \cup {NoDelta},
                              lastInterval : 0..Deadline, lastRevision : 0..latest,
                              closedRevision : 0..latest, finalRevision : 0..latest,
                              snapshot : 0..MaxCount]]
    BY DEF ZeroState
  <2>3. merged \in [Workers -> Seq(Deltas)]
    OBVIOUS
  <2>4. snapshot \in 0..MaxCount /\ violations \subseteq Workers
    OBVIOUS
  <2>7. changed \in BOOLEAN
    OBVIOUS
  <2>5. \A r \in 1..latest : /\ DOMAIN assignments[r] \subseteq Workers
                              /\ \A w \in DOMAIN assignments[r] : assignments[r][w] \in BOOLEAN
    BY <2>1
  <2>6. DOMAIN assignments = 1..latest
    BY <2>1
  <2> HIDE DEF Init
  <2> QED
    BY <2>1, <2>2, <2>3, <2>4, <2>5, <2>6, <2>7 DEF TypeOK
<1>2. StateMatchesHistory
  BY DEF StateMatchesHistory, ZeroState
<1>3. MergedInWindow
  BY DEF MergedInWindow
<1>4. FinalIsLast
  BY DEF FinalIsLast, ZeroState
<1>5. IntervalsFollow
  BY DEF IntervalsFollow
<1> QED
  BY <1>1, <1>2, <1>3, <1>4, <1>5 DEF IInv

(* Recording a revision adds to the assignment history and rewrites none of  *)
(* it, so that what was gapless stays gapless.                               *)
LEMMA RecordKeepsIInv ==
  ASSUME IInv, latest < MaxRevisions,
         NEW members \in SUBSET Workers, NEW plan \in [members -> BOOLEAN],
         RecordAssignments(plan)
  PROVE  IInv'
<1> USE AggregatorAssumption DEF RecordAssignments, notify
<1>1. latest \in Nat /\ latest' = latest + 1 /\ latest' \in 0..MaxRevisions
  BY DEF IInv, TypeOK
<1>2. /\ DOMAIN assignments' = 1..latest'
      /\ \A r \in 1..latest : assignments'[r] = assignments[r]
      /\ assignments'[latest'] = plan
  BY <1>1 DEF IInv, TypeOK
<1>3. TypeOK'
  <2>1. \A r \in 1..latest' : /\ DOMAIN assignments'[r] \subseteq Workers
                              /\ \A w \in DOMAIN assignments'[r] : assignments'[r][w] \in BOOLEAN
    <3> TAKE r \in 1..latest'
    <3>1. CASE r = latest'
      BY <1>2, <3>1
    <3>2. CASE r # latest'
      <4>1. r \in 1..latest
        BY <1>1, <3>2
      <4> QED
        BY <1>2, <4>1 DEF IInv, TypeOK
    <3> QED
      BY <3>1, <3>2
  <2>2. workers' \in [Workers -> [lastSequence : 0..MaxSequence, lastDelta : Deltas \cup {NoDelta},
                              lastInterval : 0..Deadline, lastRevision : 0..latest',
                              closedRevision : 0..latest', finalRevision : 0..latest',
                              snapshot : 0..MaxCount]]
    BY <1>1 DEF IInv, TypeOK
  <2> QED
    BY <1>1, <1>2, <2>1, <2>2 DEF IInv, TypeOK
<1>4. StateMatchesHistory'
  BY DEF IInv, StateMatchesHistory
<1>5. MergedInWindow'
  BY <1>1 DEF IInv, MergedInWindow
<1>6. FinalIsLast'
  BY DEF IInv, FinalIsLast
<1>7. IntervalsFollow'
  <2> SUFFICES ASSUME NEW w \in Workers, NEW i \in 1..Len(merged[w]) - 1
               PROVE  /\ merged[w][i].end <= merged[w][i+1].start
                      /\ Uninterrupted(w, merged[w][i].revision, merged[w][i+1].revision)'
                           => merged[w][i].end = merged[w][i+1].start
    BY DEF IntervalsFollow
  <2>1. /\ merged[w] \in Seq(Deltas) /\ i \in 1..Len(merged[w]) /\ i+1 \in 1..Len(merged[w])
    BY DEF IInv, TypeOK
  <2>2. merged[w][i].revision \in 1..latest /\ merged[w][i+1].revision \in 1..latest
    BY <2>1 DEF IInv, MergedInWindow
  <2>3. Uninterrupted(w, merged[w][i].revision, merged[w][i+1].revision)'
          => Uninterrupted(w, merged[w][i].revision, merged[w][i+1].revision)
    <3>1. \A r \in merged[w][i].revision..merged[w][i+1].revision : r \in 1..latest
      BY <1>1, <2>2
    <3>2. \A r \in 1..latest : Loaded(w, r)' => Loaded(w, r)
      BY <1>1, <1>2 DEF Loaded, Assigned, IInv, TypeOK
    <3> QED
      BY <3>1, <3>2 DEF Uninterrupted
  <2> QED
    BY <2>3 DEF IInv, IntervalsFollow
<1> QED
  BY <1>3, <1>4, <1>5, <1>6, <1>7 DEF IInv

LEMMA MergeKeepsIInv ==
  ASSUME IInv, NEW w \in Workers, NEW d \in Deltas, Merge(w, d)
  PROVE  IInv'
<1> USE AggregatorAssumption
<1>1. /\ d.revision \in 1..latest
      /\ d.sequence = Len(merged[w]) + 1
      /\ d.end \in StartsAt+1..Deadline
      /\ snapshot + d.requests \in 0..MaxCount
      /\ workers[w].snapshot + d.requests \in 0..MaxCount
      /\ workers[w].finalRevision = 0
      /\ merged[w] # <<>> =>
           /\ d.start >= Last(merged[w]).end
           /\ Uninterrupted(w, Last(merged[w]).revision, d.revision)
                => d.start = Last(merged[w]).end
  BY MergeFacts
<1>2. /\ merged \in [Workers -> Seq(Deltas)]
      /\ workers \in [Workers -> [lastSequence : 0..MaxSequence, lastDelta : Deltas \cup {NoDelta},
                                  lastInterval : 0..Deadline, lastRevision : 0..latest,
                                  closedRevision : 0..latest, finalRevision : 0..latest,
                                  snapshot : 0..MaxCount]]
      /\ latest \in Nat
  BY DEF IInv, TypeOK
<1>3. /\ merged' = [merged EXCEPT ![w] = Append(@, d)]
      /\ workers' = [workers EXCEPT ![w] = Advance(w, d)]
      /\ snapshot' = snapshot + d.requests
      /\ changed' = TRUE
      /\ UNCHANGED <<assignments, latest, violations>>
  BY DEF Merge, notify
<1>4. /\ merged'[w] = Append(merged[w], d)
      /\ workers'[w] = Advance(w, d)
      /\ \A v \in Workers \ {w} : merged'[v] = merged[v] /\ workers'[v] = workers[v]
  BY <1>2, <1>3
<1>5. /\ merged'[w] \in Seq(Deltas) /\ merged'[w] # <<>>
      /\ Len(merged'[w]) = Len(merged[w]) + 1 /\ Last(merged'[w]) = d
      /\ \A i \in 1..Len(merged[w]) : merged'[w][i] = merged[w][i]
      /\ merged'[w][Len(merged[w]) + 1] = d
      /\ merged[w] # <<>> => /\ Len(merged[w]) \in 1..Len(merged[w])
                             /\ merged[w][Len(merged[w])] = Last(merged[w])
      /\ Len(merged[w]) \in Nat
  BY <1>2, <1>4, LastOfAppend DEF Last
<1>6. TypeOK'
  <2>1. Advance(w, d) \in [lastSequence : 0..MaxSequence, lastDelta : Deltas \cup {NoDelta},
                           lastInterval : 0..Deadline, lastRevision : 0..latest,
                           closedRevision : 0..latest, finalRevision : 0..latest,
                           snapshot : 0..MaxCount]
    <3>1. d.sequence \in 0..MaxSequence
      BY DEF Deltas
    <3>2. d.end \in 0..Deadline /\ d.revision \in 0..latest
      BY <1>1, <1>2
    <3>3. workerMerged(w, d) \in 0..MaxCount
      BY <1>1 DEF workerMerged
    <3>4. /\ (IF d.final THEN d.revision ELSE workers[w].closedRevision) \in 0..latest
          /\ (IF ClosesRun(w, d) THEN latest ELSE workers[w].finalRevision) \in 0..latest
      BY <1>2, <3>2
    <3> QED
      BY <3>1, <3>2, <3>3, <3>4 DEF Advance
  <2>2. workers' \in [Workers -> [lastSequence : 0..MaxSequence, lastDelta : Deltas \cup {NoDelta},
                                 lastInterval : 0..Deadline, lastRevision : 0..latest,
                                 closedRevision : 0..latest, finalRevision : 0..latest,
                                 snapshot : 0..MaxCount]]
    BY <1>2, <1>3, <2>1
  <2>3. merged' \in [Workers -> Seq(Deltas)]
    BY <1>2, <1>3, <1>4, <1>5
  <2>4. snapshot' \in 0..MaxCount /\ changed' \in BOOLEAN
    BY <1>1, <1>3
  <2> QED
    BY <1>3, <2>2, <2>3, <2>4 DEF IInv, TypeOK
<1>7. StateMatchesHistory'
  <2> SUFFICES ASSUME NEW v \in Workers
               PROVE  /\ workers'[v].lastSequence = Len(merged'[v])
                      /\ merged'[v] = <<>> => workers'[v] = ZeroState
                      /\ merged'[v] # <<>> =>
                           /\ workers'[v].lastDelta = Last(merged'[v])
                           /\ workers'[v].lastInterval = Last(merged'[v]).end
                           /\ workers'[v].lastRevision = Last(merged'[v]).revision
                           /\ Last(merged'[v]).final =>
                                workers'[v].closedRevision = Last(merged'[v]).revision
    BY DEF StateMatchesHistory
  <2>1. CASE v = w
    <3>1. /\ Advance(w, d).lastSequence = d.sequence /\ Advance(w, d).lastDelta = d
          /\ Advance(w, d).lastInterval = d.end /\ Advance(w, d).lastRevision = d.revision
          /\ d.final => Advance(w, d).closedRevision = d.revision
      BY DEF Advance
    <3>2. merged'[v] # <<>> /\ Last(merged'[v]) = d /\ Len(merged'[v]) = d.sequence
      BY <1>1, <1>5, <2>1
    <3> QED
      BY <1>4, <2>1, <3>1, <3>2
  <2>2. CASE v # w
    BY <1>4, <2>2 DEF IInv, StateMatchesHistory
  <2> QED
    BY <2>1, <2>2
<1>8. MergedInWindow'
  <2> SUFFICES ASSUME NEW v \in Workers, NEW i \in 1..Len(merged'[v])
               PROVE  /\ merged'[v][i].revision \in 1..latest
                      /\ merged'[v][i].end \in StartsAt+1..Deadline
    BY <1>3 DEF MergedInWindow
  <2>1. CASE v = w /\ i = Len(merged[w]) + 1
    BY <1>1, <1>5, <2>1
  <2>2. CASE v = w /\ i # Len(merged[w]) + 1
    <3>1. i \in 1..Len(merged[w])
      BY <1>5, <2>2
    <3> QED
      BY <1>5, <2>2, <3>1 DEF IInv, MergedInWindow
  <2>3. CASE v # w
    BY <1>4, <2>3 DEF IInv, MergedInWindow
  <2> QED
    BY <2>1, <2>2, <2>3
<1>9. FinalIsLast'
  <2> SUFFICES ASSUME NEW v \in Workers, workers'[v].finalRevision # 0
               PROVE  /\ merged'[v] # <<>>
                      /\ Last(merged'[v]).end = Deadline /\ Last(merged'[v]).final
                      /\ Last(merged'[v]).revision = workers'[v].finalRevision
    BY DEF FinalIsLast
  <2>1. CASE v = w
    <3>1. workers'[w].finalRevision = IF ClosesRun(w, d) THEN latest ELSE 0
      BY <1>1, <1>4 DEF Advance
    <3>2. ClosesRun(w, d)
      BY <2>1, <3>1
    <3> QED
      BY <1>5, <2>1, <3>1, <3>2 DEF ClosesRun
  <2>2. CASE v # w
    BY <1>4, <2>2 DEF IInv, FinalIsLast
  <2> QED
    BY <2>1, <2>2
<1>10. IntervalsFollow'
  <2>1. \A v \in Workers : \A r1, r2 : Uninterrupted(v, r1, r2)' <=> Uninterrupted(v, r1, r2)
    BY <1>3 DEF Uninterrupted, Loaded, Assigned
  <2> SUFFICES ASSUME NEW v \in Workers, NEW i \in 1..Len(merged'[v]) - 1
               PROVE  /\ merged'[v][i].end <= merged'[v][i+1].start
                      /\ Uninterrupted(v, merged'[v][i].revision, merged'[v][i+1].revision)
                           => merged'[v][i].end = merged'[v][i+1].start
    BY <2>1 DEF IntervalsFollow
  <2>2. CASE v = w /\ i = Len(merged[w])
    <3>1. merged[w] # <<>>
      <4>1. Len(merged[w]) # 0
        BY <1>5, <2>2
      <4> QED
        BY <4>1
    <3>2. merged'[v][i] = Last(merged[w]) /\ merged'[v][i+1] = d
      BY <1>5, <2>2, <3>1
    <3>3. Last(merged[w]).end \in Nat /\ d.start \in Nat
      BY <1>1, <1>5, <3>1, MergeFacts DEF IInv, MergedInWindow
    <3> QED
      BY <1>1, <2>2, <3>1, <3>2, <3>3
  <2>3. CASE v = w /\ i # Len(merged[w])
    <3>1. i \in 1..Len(merged[w]) - 1 /\ i \in 1..Len(merged[w]) /\ i+1 \in 1..Len(merged[w])
      BY <1>5, <2>3
    <3> QED
      BY <1>5, <2>3, <3>1 DEF IInv, IntervalsFollow
  <2>4. CASE v # w
    BY <1>4, <2>4 DEF IInv, IntervalsFollow
  <2> QED
    BY <2>2, <2>3, <2>4
<1> QED
  BY <1>6, <1>7, <1>8, <1>9, <1>10 DEF IInv

LEMMA NextKeepsIInv == IInv /\ [Next]_vars => IInv'
<1> SUFFICES ASSUME IInv, [Next]_vars PROVE IInv'
  OBVIOUS
<1>1. ASSUME latest < MaxRevisions, NEW members \in SUBSET Workers,
             NEW plan \in [members -> BOOLEAN], RecordAssignments(plan)
      PROVE  IInv'
  BY <1>1, RecordKeepsIInv
<1>2. ASSUME NEW w \in Workers, NEW d \in Deltas, Merge(w, d)
      PROVE  IInv'
  BY <1>2, MergeKeepsIInv
<1>3. ASSUME UNCHANGED <<assignments, latest, workers, snapshot, merged>>,
             violations' \subseteq Workers, changed' \in BOOLEAN
      PROVE  IInv'
  BY <1>3 DEF IInv, TypeOK, StateMatchesHistory, MergedInWindow, FinalIsLast,
              IntervalsFollow, Uninterrupted, Loaded, Assigned
<1>4. violations \subseteq Workers /\ changed \in BOOLEAN
  BY DEF IInv, TypeOK
<1>5. ASSUME NEW w \in Workers, NEW d \in Deltas, Ignore(w, d)
      PROVE  IInv'
  BY <1>3, <1>4, <1>5 DEF Ignore, vars
<1>6. ASSUME NEW w \in Workers, NEW d \in Deltas, reject(w, d)
      PROVE  IInv'
  BY <1>3, <1>4, <1>6 DEF reject, notify
<1>7. CASE TakeChange
  BY <1>3, <1>4, <1>7 DEF TakeChange
<1>8. CASE UNCHANGED vars
  BY <1>3, <1>4, <1>8 DEF vars
<1> QED
  BY <1>1, <1>2, <1>5, <1>6, <1>7, <1>8 DEF Next, Accept

(* The inductive invariant holds of every reachable state. *)
THEOREM Invariance == Spec => []IInv
<1> QED
  BY InitIInv, NextKeepsIInv, PTL DEF Spec

(* Types: in particular no counter ever exceeds the largest uint64.          *)
THEOREM TypeCorrect == Spec => []TypeOK
<1>1. IInv => TypeOK
  BY DEF IInv
<1> QED
  BY <1>1, Invariance, PTL

(* A worker's sequence numbers have no gap and no repetition, and its state  *)
(* is that of the last delta merged for it (Accept).                         *)
THEOREM GapFree == Spec => []StateMatchesHistory
<1>1. IInv => StateMatchesHistory
  BY DEF IInv
<1> QED
  BY <1>1, Invariance, PTL

(* No instant of a worker's time is counted twice, and none is skipped while *)
(* every revision gives the worker load (validateMetricInterval,             *)
(* requiresContiguousInterval).                                              *)
THEOREM NoOverlapNoGap == Spec => []IntervalsFollow
<1>1. IInv => IntervalsFollow
  BY DEF IInv
<1> QED
  BY <1>1, Invariance, PTL

(* A worker not listed as missing has the final revision that FinalIsLast    *)
(* speaks of.                                                                *)
LEMMA NotMissingIsReported == IInv => CompleteMeansReported
<1> SUFFICES ASSUME IInv, NEW w \in Workers, w \notin MissingFinal, latest > 0,
                    Loaded(w, latest)
             PROVE  /\ merged[w] # <<>>
                    /\ Last(merged[w]).end = Deadline /\ Last(merged[w]).final
                    /\ Last(merged[w]).revision = latest
  BY DEF CompleteMeansReported
<1>1. workers[w].finalRevision = latest /\ latest # 0
  BY DEF MissingFinal, IInv, TypeOK
<1> QED
  BY <1>1 DEF IInv, FinalIsLast

(* A complete run has a last report, up to the deadline and under the latest *)
(* revision, of every worker that revision gave load (MissingFinal).         *)
THEOREM CompleteIsReported == Spec => []CompleteMeansReported
BY NotMissingIsReported, Invariance, PTL

(* The aggregator implements the abstract ledger: each merged delta is one   *)
(* entry, and every other step leaves the ledger alone.                      *)
THEOREM LedgerRefinement == Spec => ImplementsLedger
<1>1. Init => Ledger!Init
  BY DEF Init, Ledger!Init
<1>2. IInv /\ [Next]_vars => [Ledger!Next]_(Ledger!vars)
  <2> SUFFICES ASSUME IInv, [Next]_vars PROVE [Ledger!Next]_(Ledger!vars)
    OBVIOUS
  <2>1. ASSUME NEW w \in Workers, NEW d \in Deltas, Merge(w, d)
        PROVE  Ledger!Next
    <3>1. /\ d.sequence = Len(merged[w]) + 1 /\ d.start < d.end
          /\ snapshot + d.requests \in 0..MaxCount
          /\ merged[w] # <<>> =>
               /\ d.start >= Last(merged[w]).end
               /\ d.revision >= Last(merged[w]).revision
               /\ Last(merged[w]).final => d.revision > Last(merged[w]).revision
      BY <2>1, MergeFacts
    <3>2. /\ merged \in [Workers -> Seq(Deltas)]
          /\ merged' = [merged EXCEPT ![w] = Append(@, d)]
          /\ snapshot' = snapshot + d.requests
      BY <2>1 DEF IInv, TypeOK, Merge
    <3>3. /\ merged'[w] = Append(merged[w], d)
          /\ Len(merged'[w]) = Len(merged[w]) + 1
          /\ merged'[w][Len(merged[w]) + 1] = d
      BY <3>2
    <3>4. snapshot + d.requests <= MaxCount
      BY <3>1, AggregatorAssumption
    <3>5. Ledger!Enter(w, d)
      BY <3>1, <3>2, <3>4 DEF Ledger!Enter, Ledger!MayFollow, Last
    <3> QED
      BY <3>3, <3>5 DEF Ledger!Next
  <2>2. ASSUME UNCHANGED <<merged, snapshot>>
        PROVE  UNCHANGED Ledger!vars
    BY <2>2 DEF Ledger!vars
  <2>3. CASE \E w \in Workers, d \in Deltas : Ignore(w, d) \/ reject(w, d)
    BY <2>2, <2>3 DEF Ignore, reject, vars
  <2>4. CASE \E members \in SUBSET Workers : \E plan \in [members -> BOOLEAN] : RecordAssignments(plan)
    BY <2>2, <2>4 DEF RecordAssignments
  <2>5. CASE TakeChange \/ UNCHANGED vars
    BY <2>2, <2>5 DEF TakeChange, vars
  <2> QED
    BY <2>1, <2>3, <2>4, <2>5 DEF Next, Accept
<1> QED
  BY <1>1, <1>2, Invariance, PTL DEF Spec, ImplementsLedger, Ledger!Spec

----------------------------------------------------------------------------
(* The end of a run.                                                         *)

LEMMA InitCompletionInv == CompletionInit => CompletionInv
<1> SUFFICES ASSUME CompletionInit PROVE CompletionInv
  OBVIOUS
<1>1. IInv
  BY InitIInv DEF CompletionInit
<1>2. CompletionTypes
  BY DEF CompletionInit, CompletionTypes, NoSummary
<1>3. VerdictReady /\ CancelledForCause /\ PassIsComplete /\ ExitCodeHonest
  BY DEF CompletionInit, VerdictReady, CancelledForCause, PassIsComplete, ExitCodeHonest, Judged
<1> QED
  BY <1>1, <1>2, <1>3 DEF CompletionInv

(* Each step of the composition is one of the aggregator or leaves it alone. *)
LEMMA StepsAggregator ==
  ASSUME IInv, CompletionTypes, [CompletionNext]_allVars
  PROVE  [Next]_vars
<1>1. CASE Record
  <2>1. latest \in Nat /\ latest < MaxRevisions
    BY <1>1 DEF Record, CompletionTypes, IInv, TypeOK
  <2>2. PICK members \in Fleets[latest + 1] : \E plan \in [members -> BOOLEAN] :
          (\E w \in members : plan[w]) /\ RecordAssignments(plan)
    BY <1>1 DEF Record
  <2>3. members \in SUBSET Workers
    BY <2>1, <2>2, FleetsAssumption, AggregatorAssumption
  <2> QED
    BY <2>1, <2>2, <2>3 DEF Next
<1>2. CASE Deliver
  BY <1>2 DEF Deliver, Reports, Next
<1>3. CASE SeeChange
  BY <1>3 DEF SeeChange, Next
<1>4. CASE UNCHANGED aggregatorVars
  BY <1>4 DEF aggregatorVars
<1>5. CASE Plan \/ DeadlinePasses \/ GraceExpires \/ Signal \/ ServerStops \/ ServerFails
  BY <1>4, <1>5 DEF Plan, DeadlinePasses, GraceExpires, Signal, ServerStops, ServerFails
<1>6. CASE Main
  BY <1>4, <1>6 DEF Main, TakeResult, FinishResult, TakeServeError, JoinResult
<1>7. CASE ReceiveWindow \/ ReachDeadline \/ CheckComplete \/ StopWaiting \/ ReturnInterrupted
           \/ ReadSnapshot \/ ReadViolations \/ ReadMissing
  BY <1>4, <1>7 DEF ReceiveWindow, ReachDeadline, CheckComplete, StopWaiting, ReturnInterrupted,
                    ReadSnapshot, ReadViolations, ReadMissing
<1>8. CASE UNCHANGED allVars
  BY <1>4, <1>8 DEF allVars
<1> QED
  BY <1>1, <1>2, <1>3, <1>5, <1>6, <1>7, <1>8 DEF CompletionNext, Waiter

(* The aggregator and the coordinator leave the verdict alone, and run only  *)
(* until it is returned.                                                     *)
LEMMA ReportsKeepVerdict ==
  ASSUME CompletionInv, Plan \/ Record \/ Deliver \/ DeadlinePasses \/ GraceExpires, IInv'
  PROVE  CompletionInv'
<1>1. waiter # "returned" /\ UNCHANGED <<waiter, summary, mainVars>>
  BY DEF Plan, Record, Deliver, DeadlinePasses, GraceExpires, waiterVars
<1>2. (planned => latest < MaxRevisions)'
  <2>1. CASE Plan
    BY <2>1 DEF Plan, aggregatorVars, vars, CompletionInv, CompletionTypes
  <2>2. CASE Record
    BY <2>2 DEF Record
  <2>3. CASE Deliver
    BY <2>3 DEF Deliver, coordinatorVars, Accept, Merge, Ignore, reject, vars, CompletionInv,
                CompletionTypes
  <2>4. CASE DeadlinePasses \/ GraceExpires
    BY <2>4 DEF DeadlinePasses, GraceExpires, coordinatorVars, aggregatorVars, vars, CompletionInv,
                CompletionTypes
  <2> QED
    BY <2>1, <2>2, <2>3, <2>4
<1>3. CompletionTypes'
  BY <1>1, <1>2 DEF CompletionInv, CompletionTypes, mainVars
<1>4. VerdictReady' /\ CancelledForCause' /\ ExitCodeHonest'
  BY <1>1 DEF CompletionInv, VerdictReady, CancelledForCause, ExitCodeHonest, Undecided, mainVars
<1>5. PassIsComplete'
  BY <1>1 DEF PassIsComplete, Judged
<1> QED
  BY <1>3, <1>4, <1>5 DEF CompletionInv

(* WaitForResult: only its last read, or an interruption, returns a verdict. *)
LEMMA WaiterKeepsInv ==
  ASSUME CompletionInv, Waiter, IInv'
  PROVE  CompletionInv'
<1> USE DEF CompletionInv
<1>1. CASE ReceiveWindow \/ ReachDeadline \/ CheckComplete \/ SeeChange \/ StopWaiting
  <2>1. /\ waiter \notin {"judging", "listing", "returned"}
        /\ waiter' \in {"untilDeadline", "checking", "waiting", "reading"}
        /\ UNCHANGED <<summary, mainVars, planned, latest>>
    BY <1>1 DEF ReceiveWindow, ReachDeadline, CheckComplete, SeeChange, StopWaiting, TakeChange,
                aggregatorVars, vars, coordinatorVars
  <2>2. CompletionTypes'
    BY <2>1 DEF CompletionTypes, mainVars
  <2>3. VerdictReady' /\ CancelledForCause' /\ ExitCodeHonest' /\ PassIsComplete'
    BY <2>1 DEF VerdictReady, CancelledForCause, ExitCodeHonest, PassIsComplete, Judged, Undecided,
                mainVars
  <2> QED
    BY <2>2, <2>3
<1>2. CASE ReturnInterrupted
  <2>1. /\ cancelled /\ waiter \notin {"judging", "listing", "returned"} /\ waiter' = "returned"
        /\ summary' = [NoSummary EXCEPT !.status = "INTERRUPTED", !.requests = snapshot]
        /\ UNCHANGED <<mainVars, planned, latest>>
    BY <1>2 DEF ReturnInterrupted, Selecting, Interrupted, aggregatorVars, vars, coordinatorVars
  <2>2. snapshot \in Nat
    BY AggregatorAssumption DEF IInv, TypeOK
  <2>3. CompletionTypes' /\ summary'.status = "INTERRUPTED"
    BY <2>1, <2>2 DEF CompletionTypes, mainVars, NoSummary
  <2>4. VerdictReady' /\ CancelledForCause' /\ PassIsComplete'
    BY <2>1, <2>3 DEF VerdictReady, CancelledForCause, PassIsComplete, Judged, Undecided, mainVars
  <2>5. ExitCodeHonest'
    BY <2>1, <2>3 DEF CompletionTypes, VerdictReady, ExitCodeHonest, mainVars
  <2> QED
    BY <2>3, <2>4, <2>5
<1>3. CASE ReadSnapshot
  <2>1. PICK satisfied \in BOOLEAN :
          summary' = [NoSummary EXCEPT !.status = Evaluate(satisfied), !.requests = snapshot,
                                       !.counted = [w \in Workers |-> Len(merged[w])]]
    BY <1>3 DEF ReadSnapshot
  <2>2. /\ waiter = "reading" /\ waiter' = "judging"
        /\ UNCHANGED <<mainVars, planned, latest>>
    BY <1>3 DEF ReadSnapshot, aggregatorVars, vars, coordinatorVars
  <2>3. snapshot \in Nat /\ \A w \in Workers : Len(merged[w]) \in Nat
    BY AggregatorAssumption DEF IInv, TypeOK
  <2>4. Evaluate(satisfied) \in {"PASS", "FAIL"}
    BY DEF Evaluate
  <2>5. CompletionTypes' /\ summary'.status \in {"PASS", "FAIL"}
    BY <2>1, <2>2, <2>3, <2>4 DEF CompletionTypes, mainVars, NoSummary
  <2>6. VerdictReady' /\ CancelledForCause' /\ ExitCodeHonest' /\ PassIsComplete'
    BY <2>2, <2>5 DEF CompletionTypes, VerdictReady, CancelledForCause, ExitCodeHonest,
                      PassIsComplete, Judged, Undecided, mainVars
  <2> QED
    BY <2>5, <2>6
<1>4. CASE ReadViolations
  <2>1. /\ waiter = "judging" /\ waiter' = "listing"
        /\ summary' = summary \/ summary' = [summary EXCEPT !.status = "FAIL"]
        /\ UNCHANGED <<mainVars, planned, latest>>
    BY <1>4 DEF ReadViolations, aggregatorVars, vars, coordinatorVars
  <2>2. CompletionTypes' /\ summary'.status \in {"PASS", "FAIL"}
    BY <2>1 DEF CompletionTypes, mainVars, VerdictReady
  <2>3. VerdictReady' /\ CancelledForCause' /\ ExitCodeHonest' /\ PassIsComplete'
    BY <2>1, <2>2 DEF CompletionTypes, VerdictReady, CancelledForCause, ExitCodeHonest,
                      PassIsComplete, Judged, Undecided, mainVars
  <2> QED
    BY <2>2, <2>3
<1>5. CASE ReadMissing
  <2>1. /\ waiter = "listing" /\ waiter' = "returned"
        /\ UNCHANGED <<mainVars, planned, aggregatorVars>>
        /\ summary' = [summary EXCEPT !.missing = MissingFinal,
                                      !.owed = {w \in Workers : Loaded(w, latest)},
                                      !.status = IF MissingFinal # {} THEN "FAIL" ELSE @]
    BY <1>5 DEF ReadMissing, Listed, coordinatorVars
  <2>2. MissingFinal \in SUBSET Workers
    BY DEF MissingFinal
  <2>3. CompletionTypes' /\ summary'.status \in {"PASS", "FAIL"}
    BY <2>1, <2>2 DEF CompletionTypes, mainVars, VerdictReady, aggregatorVars, vars
  <2>4. VerdictReady' /\ CancelledForCause' /\ ExitCodeHonest'
    BY <2>1, <2>3 DEF CompletionTypes, VerdictReady, CancelledForCause, ExitCodeHonest, Undecided,
                      mainVars
  <2>5. PassIsComplete'
    <3> SUFFICES ASSUME summary'.status = "PASS", NEW w \in summary'.owed
                 PROVE  /\ merged'[w] # <<>>
                        /\ Last(merged'[w]).final /\ Last(merged'[w]).end = Deadline
                        /\ Last(merged'[w]).revision = latest'
      BY DEF PassIsComplete
    <3>1. MissingFinal = {} /\ w \in Workers /\ Loaded(w, latest)
      BY <2>1 DEF CompletionTypes
    <3>2. latest > 0
      BY <3>1 DEF Loaded, Assigned, IInv, TypeOK
    <3>3. CompleteMeansReported
      BY NotMissingIsReported
    <3> QED
      BY <2>1, <3>1, <3>2, <3>3 DEF CompleteMeansReported, aggregatorVars, vars
  <2> QED
    BY <2>3, <2>4, <2>5
<1> QED
  BY <1>1, <1>2, <1>3, <1>4, <1>5 DEF Waiter

(* The process: why it stops, and with which code. *)
LEMMA MainKeepsInv ==
  ASSUME CompletionInv, Main \/ Signal \/ ServerStops \/ ServerFails, IInv'
  PROVE  CompletionInv'
<1> USE DEF CompletionInv
<1>1. UNCHANGED <<aggregatorVars, coordinatorVars, waiterVars>>
  BY DEF Main, TakeResult, FinishResult, TakeServeError, JoinResult, Signal, ServerStops, ServerFails
<1>2. PassIsComplete'
  BY <1>1 DEF PassIsComplete, Judged, waiterVars, aggregatorVars, vars
<1>3. waiter = "returned" =>
        /\ exitCodeForSummary \in {0, 1, 130}
        /\ exitCodeForSummary = 0 => summary.status = "PASS"
        /\ exitCodeForSummary = 1 => summary.status = "FAIL"
        /\ exitCodeForSummary = 130 => summary.status = "INTERRUPTED"
  BY DEF VerdictReady, exitCodeForSummary
<1>4. CompletionTypes'
  <2>1. UNCHANGED <<planned, latest, waiter, summary>>
    BY <1>1 DEF aggregatorVars, vars, coordinatorVars, waiterVars
  <2>2. CASE TakeResult \/ Signal \/ ServerStops \/ ServerFails
    <3>1. serve' \in {serve, "stopped", "failed"} /\ main' \in {main, "stopping"} /\ exit' = exit
      BY <2>2 DEF TakeResult, Signal, ServerStops, ServerFails
    <3>2. cancelled' \in {cancelled, TRUE} /\ signalled' \in {signalled, TRUE}
      BY <2>2 DEF TakeResult, Signal, ServerStops, ServerFails
    <3>3. cancelled' \in BOOLEAN /\ signalled' \in BOOLEAN
      <4>1. cancelled \in BOOLEAN /\ signalled \in BOOLEAN
        BY DEF CompletionTypes
      <4> QED BY <3>2, <4>1, Zenon
    <3>4. /\ serve' \in {"serving", "stopped", "failed"}
          /\ main' \in {"awaiting", "stopping", "joining", "exited"}
          /\ exit' \in {0, 1, 2, 130}
      BY <3>1 DEF CompletionTypes
    <3> QED
      BY <2>1, <3>3, <3>4 DEF CompletionTypes
  <2>3. CASE TakeServeError
    <3>1. /\ main' \in {"joining", "exited"} /\ exit' \in {exit, 2}
          /\ cancelled' = TRUE /\ UNCHANGED <<serve, signalled>>
      <4>1. CASE WasCancelled
        BY <2>3, <4>1 DEF TakeServeError
      <4>2. CASE ~WasCancelled
        BY <2>3, <4>2 DEF TakeServeError, Exit
      <4> QED BY <4>1, <4>2
    <3> QED
      BY <2>1, <3>1 DEF CompletionTypes
  <2>4. CASE FinishResult \/ JoinResult
    <3>1. waiter = "returned"
      BY <2>4 DEF FinishResult, JoinResult, VerdictReady
    <3>2. exit' \in {0, 1, 2, 130}
      <4>1. exitCodeForSummary \in {0, 1, 130}
        BY <3>1, <1>3
      <4>2. exit' \in {2, exitCodeForSummary}
        BY <2>4 DEF FinishResult, JoinResult, Exit
      <4> QED BY <4>1, <4>2
    <3>3. main' = "exited" /\ UNCHANGED <<serve, cancelled, signalled>>
      BY <2>4 DEF FinishResult, JoinResult, Exit
    <3> QED
      BY <2>1, <3>2, <3>3 DEF CompletionTypes
  <2> QED
    BY <2>2, <2>4, <2>3 DEF Main
<1>5. VerdictReady' /\ CancelledForCause' /\ ExitCodeHonest'
  <2> USE DEF VerdictReady, CancelledForCause, ExitCodeHonest, Undecided, waiterVars
  <2>1. CASE TakeResult
    BY <1>1, <2>1 DEF TakeResult, CompletionTypes
  <2>2. CASE FinishResult
    BY <1>1, <1>3, <2>2 DEF FinishResult, CompletionTypes, Exit
  <2>3. CASE TakeServeError
    BY <1>1, <2>3 DEF TakeServeError, WasCancelled, CompletionTypes, Exit
  <2>4. CASE JoinResult
    BY <1>1, <1>3, <2>4 DEF JoinResult, CompletionTypes, Exit
  <2>5. CASE Signal
    BY <1>1, <2>5 DEF Signal, CompletionTypes
  <2>6. CASE ServerStops \/ ServerFails
    BY <1>1, <2>6 DEF ServerStops, ServerFails, CompletionTypes
  <2> QED
    BY <2>1, <2>2, <2>3, <2>4, <2>5, <2>6 DEF Main
<1> QED
  BY <1>2, <1>4, <1>5

LEMMA NextKeepsCompletionInv == CompletionInv /\ [CompletionNext]_allVars => CompletionInv'
<1> SUFFICES ASSUME CompletionInv, [CompletionNext]_allVars PROVE CompletionInv'
  OBVIOUS
<1>1. IInv'
  BY StepsAggregator, NextKeepsIInv DEF CompletionInv
<1>2. CASE UNCHANGED allVars
  <2>1. UNCHANGED <<aggregatorVars, planned, waiter, summary, serve, cancelled, signalled, main, exit>>
    BY <1>2 DEF allVars, coordinatorVars, waiterVars, mainVars
  <2>2. CompletionTypes' /\ VerdictReady' /\ CancelledForCause' /\ PassIsComplete' /\ ExitCodeHonest'
    BY <2>1 DEF CompletionInv, CompletionTypes, VerdictReady, CancelledForCause, PassIsComplete,
                ExitCodeHonest, Judged, Undecided, aggregatorVars, vars
  <2> QED
    BY <1>1, <2>2 DEF CompletionInv
<1> QED
  BY <1>1, <1>2, ReportsKeepVerdict, WaiterKeepsInv, MainKeepsInv DEF CompletionNext

(* The invariant of the composition. *)
THEOREM CompletionInvariance == CompletionSpec => []CompletionInv
BY InitCompletionInv, NextKeepsCompletionInv, PTL DEF CompletionSpec

(* In the composition with coordinator, waiter and process the aggregator    *)
(* behaves as specified alone: all that is proved of it holds here.          *)
THEOREM CompletionRunsAggregator == CompletionSpec => Spec
<1>1. CompletionInit => Init
  BY DEF CompletionInit
<1>2. CompletionInv /\ [CompletionNext]_allVars => [Next]_vars
  BY StepsAggregator DEF CompletionInv
<1> QED
  BY <1>1, <1>2, CompletionInvariance, PTL DEF CompletionSpec, Spec

(* A passing verdict is about a run that is complete under the latest        *)
(* revision, whatever arrived between finalSummary's reads.                  *)
THEOREM PassIsOfCompleteRun == CompletionSpec => []PassIsComplete
<1>1. CompletionInv => PassIsComplete
  BY DEF CompletionInv
<1> QED
  BY <1>1, CompletionInvariance, PTL

(* The orchestrator's exit code tells the verdict, a signal or a failed      *)
(* server, and never its own cancellation (awaitRunCompletion).              *)
THEOREM ExitCodeTellsTruth == CompletionSpec => []ExitCodeHonest
<1>1. CompletionInv => ExitCodeHonest
  BY DEF CompletionInv
<1> QED
  BY <1>1, CompletionInvariance, PTL

----------------------------------------------------------------------------
(* The measurements behind a verdict given within the grace period. *)

(* After the final delta of the run nothing of its worker is accepted.       *)
LEMMA NothingAfterFinal ==
  ASSUME IInv, NEW w \in Workers, NEW d \in Deltas, Merge(w, d)
  PROVE  ~(Loaded(w, latest) /\ w \notin MissingFinal)
<1> SUFFICES ASSUME Loaded(w, latest), w \notin MissingFinal PROVE FALSE
  OBVIOUS
<1>1. latest > 0
  BY DEF Loaded, Assigned, IInv, TypeOK
<1> QED
  BY <1>1, MergeFacts DEF MissingFinal

(* A delta never makes a complete run incomplete.                            *)
LEMMA MergeKeepsComplete ==
  ASSUME IInv, Complete, NEW w \in Workers, NEW d \in Deltas, Merge(w, d)
  PROVE  Complete'
<1>1. UNCHANGED <<assignments, latest>> /\ workers' = [workers EXCEPT ![w] = Advance(w, d)]
  BY DEF Merge
<1>2. \A v \in Workers : Loaded(v, latest)' = Loaded(v, latest)
  BY <1>1 DEF Loaded, Assigned
<1>3. ~Loaded(w, latest)
  BY NothingAfterFinal DEF Complete
<1>4. \A v \in Workers \ {w} : workers'[v] = workers[v]
  BY <1>1 DEF IInv, TypeOK
<1> QED
  BY <1>1, <1>2, <1>3, <1>4 DEF Complete, MissingFinal

(* A report leaves a complete run complete, and adds to no worker that owes  *)
(* load.                                                                     *)
LEMMA ReportsAfterComplete ==
  ASSUME IInv, Complete, Deliver
  PROVE  /\ Complete'
         /\ \A v \in Workers : /\ Loaded(v, latest)' = Loaded(v, latest)
                               /\ Loaded(v, latest) => merged'[v] = merged[v]
<1>1. PICK w \in Workers, d \in Deltas : Accept(w, d)
  BY DEF Deliver, Reports
<1>2. CASE Merge(w, d)
  <2>1. ~Loaded(w, latest)
    BY <1>2, NothingAfterFinal DEF Complete
  <2>2. \A v \in Workers \ {w} : merged'[v] = merged[v]
    BY <1>2 DEF Merge, IInv, TypeOK
  <2>3. \A v \in Workers : Loaded(v, latest)' = Loaded(v, latest)
    BY <1>2 DEF Merge, Loaded, Assigned
  <2> QED
    BY <1>2, <2>1, <2>2, <2>3, MergeKeepsComplete
<1>3. CASE Ignore(w, d) \/ reject(w, d)
  <2>1. UNCHANGED <<assignments, latest, workers, merged>>
    BY <1>3 DEF Ignore, reject, vars
  <2> QED
    BY <2>1 DEF Complete, MissingFinal, Loaded, Assigned
<1> QED
  BY <1>1, <1>2, <1>3 DEF Accept

LEMMA InitPromptInv == CompletionInit => PromptInv
BY DEF CompletionInit, PromptInv, Reading, PromptPassCountsFinals, PassCountsFinals, Judged

(* What the aggregator's state says of the verdict does not change with it.  *)
LEMMA AggregatorAlone ==
  ASSUME UNCHANGED aggregatorVars
  PROVE  /\ Complete' = Complete
         /\ \A v \in Workers : Loaded(v, latest)' = Loaded(v, latest) /\ merged'[v] = merged[v]
BY DEF aggregatorVars, vars, Complete, MissingFinal, Loaded, Assigned

LEMMA ReportsKeepPrompt ==
  ASSUME CompletionInv, PromptInv, Plan \/ Record \/ Deliver \/ DeadlinePasses \/ GraceExpires
  PROVE  PromptInv'
<1> USE DEF PromptInv, Reading
<1>1. waiter # "returned" /\ waiter' = waiter /\ summary' = summary
  BY DEF Plan, Record, Deliver, DeadlinePasses, GraceExpires, waiterVars
<1>2. PromptPassCountsFinals'
  BY <1>1 DEF PromptPassCountsFinals, PassCountsFinals, Judged
<1>3. CASE Plan
  BY <1>1, <1>2, <1>3, AggregatorAlone DEF Plan, waiterVars
<1>4. CASE Record
  <2>1. lateRecord' = (lateRecord \/ overdue) /\ UNCHANGED <<overdue, graceOver>>
    BY <1>4 DEF Record, waiterVars
  <2> QED
    BY <1>1, <1>2, <2>1
<1>5. CASE Deliver
  <2>1. UNCHANGED <<lateRecord, overdue, graceOver>>
    BY <1>5 DEF Deliver, coordinatorVars, waiterVars
  <2>2. IInv
    BY DEF CompletionInv
  <2> QED
    BY <1>1, <1>2, <1>5, <2>1, <2>2, ReportsAfterComplete
<1>6. CASE DeadlinePasses
  BY <1>1, <1>2, <1>6, AggregatorAlone DEF DeadlinePasses, coordinatorVars, waiterVars
<1>7. CASE GraceExpires
  BY <1>1, <1>2, <1>7 DEF GraceExpires, coordinatorVars
<1> QED
  BY <1>3, <1>4, <1>5, <1>6, <1>7

LEMMA WaiterKeepsPrompt ==
  ASSUME CompletionInv, PromptInv, Waiter
  PROVE  PromptInv'
<1> USE DEF PromptInv, Reading
<1>1. UNCHANGED <<overdue, graceOver, lateRecord>>
  BY DEF Waiter, ReceiveWindow, ReachDeadline, CheckComplete, SeeChange, StopWaiting,
         ReturnInterrupted, ReadSnapshot, ReadViolations, ReadMissing, coordinatorVars
<1> USE <1>1 DEF PromptPassCountsFinals, PassCountsFinals, Judged
<1>2. CASE ReceiveWindow \/ ReachDeadline
  BY <1>2 DEF ReceiveWindow, ReachDeadline
<1>3. CASE CheckComplete
  BY <1>3, AggregatorAlone DEF CheckComplete, Satisfied
<1>4. CASE SeeChange
  BY <1>4 DEF SeeChange
<1>5. CASE StopWaiting
  BY <1>5 DEF StopWaiting, GraceFired
<1>6. CASE ReturnInterrupted
  BY <1>6 DEF ReturnInterrupted, Interrupted, NoSummary
<1>7. CASE ReadSnapshot
  <2>1. PICK satisfied \in BOOLEAN :
          summary' = [NoSummary EXCEPT !.status = Evaluate(satisfied), !.requests = snapshot,
                                       !.counted = [w \in Workers |-> Len(merged[w])]]
    BY <1>7 DEF ReadSnapshot
  <2>2. \A w \in Workers : summary'.counted[w] = Len(merged[w])
    BY <2>1 DEF NoSummary
  <2>3. waiter = "reading" /\ waiter' = "judging" /\ UNCHANGED aggregatorVars
    BY <1>7 DEF ReadSnapshot
  <2> QED
    BY <2>2, <2>3, AggregatorAlone
<1>8. CASE ReadViolations
  <2>1. waiter = "judging" /\ waiter' = "listing" /\ UNCHANGED aggregatorVars
        /\ (summary' = summary \/ summary' = [summary EXCEPT !.status = "FAIL"])
    BY <1>8 DEF ReadViolations
  <2>2. summary'.counted = summary.counted
    BY <2>1 DEF CompletionInv, CompletionTypes
  <2> QED
    BY <2>1, <2>2, AggregatorAlone
<1>9. CASE ReadMissing
  <2>1. /\ waiter = "listing" /\ waiter' = "returned" /\ UNCHANGED aggregatorVars
        /\ summary' = [summary EXCEPT !.missing = MissingFinal,
                                      !.owed = {w \in Workers : Loaded(w, latest)},
                                      !.status = IF MissingFinal # {} THEN "FAIL" ELSE @]
    BY <1>9 DEF ReadMissing, Listed
  <2>2. summary'.counted = summary.counted /\ summary'.owed = {w \in Workers : Loaded(w, latest)}
    BY <2>1 DEF CompletionInv, CompletionTypes
  <2> QED
    BY <2>1, <2>2, AggregatorAlone
<1> QED
  BY <1>2, <1>3, <1>4, <1>5, <1>6, <1>7, <1>8, <1>9 DEF Waiter

LEMMA PromptInvKept == CompletionInv /\ PromptInv /\ [CompletionNext]_allVars => PromptInv'
<1> SUFFICES ASSUME CompletionInv, PromptInv, [CompletionNext]_allVars PROVE PromptInv'
  OBVIOUS
<1>1. CASE Main \/ Signal \/ ServerStops \/ ServerFails \/ UNCHANGED allVars
  <2>1. UNCHANGED <<aggregatorVars, coordinatorVars, overdue, waiterVars>>
    BY <1>1 DEF Main, TakeResult, FinishResult, TakeServeError, JoinResult, Signal, ServerStops,
                ServerFails, allVars
  <2> QED
    BY <2>1, AggregatorAlone DEF PromptInv, Reading, PromptPassCountsFinals, PassCountsFinals, Judged,
                                 coordinatorVars, waiterVars, CompletionInv, CompletionTypes
<1> QED
  BY <1>1, ReportsKeepPrompt, WaiterKeepsPrompt DEF CompletionNext

(* A verdict that did not wait out the grace period is about all that the    *)
(* workers owing load have reported: WaitForResult saw the run complete, and *)
(* nothing is accepted between finalSummary's reads that they would have to  *)
(* include.                                                                  *)
THEOREM PromptPassIsComplete == CompletionSpec => []PromptPassCountsFinals
<1>1. PromptInv => PromptPassCountsFinals
  BY DEF PromptInv
<1> QED
  BY <1>1, InitPromptInv, PromptInvKept, CompletionInvariance, PTL DEF CompletionSpec
=============================================================================
