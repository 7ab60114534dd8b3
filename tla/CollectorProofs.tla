--------------------------- MODULE CollectorProofs ---------------------------
(* CountedOnce and Barrier for any number of producers, callers and samples  *)
(* and any channel.                                                          *)
EXTENDS Collector, FiniteSetTheorems, SequenceTheorems, TLAPS

----------------------------------------------------------------------------
(* The inductive invariant. *)

IsSample(i) == events[i].kind = "sample"
Holding == {"posting", "waiting", "replied"}

(* A sample is offered once, and has one place. *)
Missed == missed \cup UNION {snapshots[i].missed : i \in 1..Len(snapshots)}
Places ==
  /\ accepted \subseteq 1..offered /\ Missed \subseteq 1..offered
  /\ \A p \in Producers : hand[p] <= offered /\ hand[p] \notin accepted \cup Missed
  /\ \A p, q \in Producers : hand[p] = hand[q] /\ hand[p] # 0 => p = q
  /\ \A i, j \in 1..Len(events) :
       IsSample(i) /\ IsSample(j) /\ events[i].sample = events[j].sample => i = j
  /\ stopped => \A p \in Producers : hand[p] = 0

(* One command is under way at a time, and whoever holds the mutex waits for *)
(* it.                                                                       *)
OneCommand ==
  /\ \A c \in Callers : caller[c] \in Holding <=> mutex = c
  /\ \A i \in 1..Len(events) : ~IsSample(i) =>
       /\ caller[events[i].caller] = "waiting" /\ events[i].kind = call[events[i].caller]
       /\ \A j \in 1..Len(events) : ~IsSample(j) => i = j

(* What was accepted before a call is ahead of its command.  A close finds   *)
(* everything that was ever accepted ahead of it.                            *)
Ahead ==
  /\ \A c \in Callers : before[c] \subseteq accepted
  /\ \A i, j \in 1..Len(events) : ~IsSample(i) /\ IsSample(j) /\ i < j =>
       events[j].sample \notin before[events[i].caller]
  /\ \A c \in Callers : caller[c] # "idle" /\ call[c] = "close" => stopped /\ before[c] = accepted

IInv == TypeOK /\ Places /\ CountedOnce /\ OneCommand /\ Ahead /\ Barrier

----------------------------------------------------------------------------
(* Messages, and what appending to the channel or taking from it does.       *)

LEMMA MessageFacts ==
  /\ \A x \in Samples : Sample(x) \in Message /\ Sample(x).kind = "sample" /\ Sample(x).sample = x
  /\ \A k \in {"snapshot", "close"}, c \in Callers :
       Command(k, c) \in Message /\ Command(k, c).kind = k /\ Command(k, c).caller = c
  /\ \A m \in Message : IF m.kind = "sample" THEN m.sample \in Samples
                        ELSE m.kind \in {"snapshot", "close"} /\ m.caller \in Callers
BY DEF Message, Sample, Command

LEMMA EventFacts ==
  ASSUME TypeOK, NEW i \in 1..Len(events)
  PROVE  /\ IsSample(i) => events[i].sample \in Samples
         /\ ~IsSample(i) => events[i].kind \in {"snapshot", "close"} /\ events[i].caller \in Callers
<1>1. events[i] \in Message
  BY DEF TypeOK
<1> QED BY <1>1, MessageFacts DEF IsSample

LEMMA AppendFacts ==
  ASSUME TypeOK, NEW m \in Message, events' = Append(events, m)
  PROVE  /\ events' \in Seq(Message) /\ Len(events) \in Nat /\ Len(events') = Len(events) + 1
         /\ events'[Len(events) + 1] = m
         /\ \A i \in 1..Len(events) : i \in 1..Len(events') /\ events'[i] = events[i]
         /\ \A i \in 1..Len(events') : i \in 1..Len(events) \/ i = Len(events) + 1
<1>1. events \in Seq(Message)
  BY DEF TypeOK
<1> HIDE DEF Message
<1> QED BY <1>1

LEMMA TailFacts ==
  ASSUME TypeOK, events # <<>>, events' = Tail(events)
  PROVE  /\ events' \in Seq(Message) /\ Len(events') \in Nat /\ Len(events) = Len(events') + 1
         /\ Head(events) = events[1] /\ 1 \in 1..Len(events)
         /\ \A i \in 1..Len(events') : i + 1 \in 1..Len(events) /\ events'[i] = events[i + 1]
         /\ \A i \in 1..Len(events) :
              i = 1 \/ (i - 1 \in 1..Len(events') /\ events'[i - 1] = events[i])
<1>1. events \in Seq(Message) /\ Len(events) \in Nat /\ Len(events) # 0
  BY EmptySeq, LenProperties DEF TypeOK
<1>2. events' \in Seq(Message) /\ Len(events') = Len(events) - 1 /\ Head(events) = events[1]
  BY <1>1, HeadTailProperties
<1>3. \A i \in 1..Len(events') : events'[i] = events[i + 1]
  BY <1>1, HeadTailProperties
<1> QED BY <1>1, <1>2, <1>3

(* The same for what is queued and reported. *)
LEMMA SampleQueued ==
  ASSUME TypeOK, NEW x \in Samples, events' = Append(events, Sample(x))
  PROVE  Queue' = Queue \cup {x}
<1>1. /\ Len(events) \in Nat
      /\ events'[Len(events) + 1].kind = "sample" /\ events'[Len(events) + 1].sample = x
      /\ Len(events) + 1 \in 1..Len(events')
      /\ \A i \in 1..Len(events) : i \in 1..Len(events') /\ events'[i] = events[i]
      /\ \A i \in 1..Len(events') : i \in 1..Len(events) \/ i = Len(events) + 1
  BY AppendFacts, MessageFacts
<1> QED BY <1>1 DEF Queue

LEMMA CommandQueued ==
  ASSUME TypeOK, NEW m \in Message, m.kind # "sample", events' = Append(events, m)
  PROVE  Queue' = Queue
<1>1. /\ events'[Len(events) + 1].kind # "sample"
      /\ \A i \in 1..Len(events) : i \in 1..Len(events') /\ events'[i] = events[i]
      /\ \A i \in 1..Len(events') : i \in 1..Len(events) \/ i = Len(events) + 1
  BY AppendFacts
<1> QED BY <1>1 DEF Queue

LEMMA HeadTaken ==
  ASSUME TypeOK, Places, events # <<>>, events' = Tail(events)
  PROVE  Queue' = IF IsSample(1) THEN Queue \ {events[1].sample} ELSE Queue
<1>1. /\ 1 \in 1..Len(events) /\ Len(events') \in Nat
      /\ \A i \in 1..Len(events') : i + 1 \in 1..Len(events) /\ events'[i] = events[i + 1]
      /\ \A i \in 1..Len(events) :
           i = 1 \/ (i - 1 \in 1..Len(events') /\ events'[i - 1] = events[i])
  BY TailFacts
<1>2. ASSUME NEW x \in Queue' PROVE x \in Queue /\ (IsSample(1) => x # events[1].sample)
  <2>1. PICK i \in 1..Len(events') : events'[i].kind = "sample" /\ events'[i].sample = x
    BY <1>2 DEF Queue
  <2>2. i + 1 \in 1..Len(events) /\ IsSample(i + 1) /\ events[i + 1].sample = x /\ i + 1 # 1
    BY <1>1, <2>1 DEF IsSample
  <2>3. x \in Queue
    BY <2>2 DEF Queue, IsSample
  <2>4. \A k \in 1..Len(events) : IsSample(1) /\ IsSample(k) /\ events[1].sample = events[k].sample => 1 = k
    BY <1>1 DEF Places
  <2> QED BY <2>2, <2>3, <2>4
<1>3. ASSUME NEW x \in Queue, IsSample(1) => x # events[1].sample PROVE x \in Queue'
  <2>1. PICK i \in 1..Len(events) : events[i].kind = "sample" /\ events[i].sample = x
    BY <1>3 DEF Queue
  <2>2. i # 1
    BY <1>3, <2>1 DEF IsSample
  <2> QED BY <1>1, <2>1, <2>2 DEF Queue
<1> QED BY <1>2, <1>3

LEMMA SnapshotAdded ==
  ASSUME TypeOK, NEW d \in Snapshot, snapshots' = Append(snapshots, d)
  PROVE  /\ snapshots' \in Seq(Snapshot) /\ Len(snapshots) \in Nat
         /\ Len(snapshots') = Len(snapshots) + 1 /\ snapshots'[Len(snapshots) + 1] = d
         /\ \A i \in 1..Len(snapshots) : i \in 1..Len(snapshots') /\ snapshots'[i] = snapshots[i]
         /\ \A i \in 1..Len(snapshots') : i \in 1..Len(snapshots) \/ i = Len(snapshots) + 1
         /\ Reported' = Reported \cup d.samples
<1>1. snapshots \in Seq(Snapshot)
  BY DEF TypeOK
<1> HIDE DEF Snapshot
<1>2. /\ snapshots' \in Seq(Snapshot) /\ Len(snapshots) \in Nat
      /\ Len(snapshots') = Len(snapshots) + 1 /\ snapshots'[Len(snapshots) + 1] = d
      /\ \A i \in 1..Len(snapshots) : i \in 1..Len(snapshots') /\ snapshots'[i] = snapshots[i]
      /\ \A i \in 1..Len(snapshots') : i \in 1..Len(snapshots) \/ i = Len(snapshots) + 1
  BY <1>1
<1>3. Reported' = Reported \cup d.samples
  BY <1>2 DEF Reported
<1> QED BY <1>2, <1>3

----------------------------------------------------------------------------
(* Each step keeps the invariant. *)

LEMMA InitIInv == Init => IInv
<1> SUFFICES ASSUME Init PROVE IInv
  OBVIOUS
<1> USE CollectorAssumption DEF Init
<1>1. TypeOK
  <2>1. events \in Seq(Message) /\ Len(events) <= BufferSize /\ snapshots \in Seq(Snapshot)
    BY EmptySeq
  <2>2. /\ offered \in 0..MaxSamples /\ hand \in [Producers -> 0..MaxSamples]
        /\ calls \in 0..MaxCalls /\ before \in [Callers -> SUBSET Samples]
    OBVIOUS
  <2> QED BY <2>1, <2>2 DEF TypeOK
<1>2. Queue = {} /\ Reported = {} /\ Missed = {}
  BY DEF Queue, Reported, Missed
<1>3. Places /\ OneCommand /\ Ahead /\ Barrier
  BY <1>2 DEF Places, OneCommand, Holding, Ahead, Barrier
<1>4. CountedOnce
  BY <1>2, FS_EmptySet DEF CountedOnce
<1> QED BY <1>1, <1>3, <1>4 DEF IInv

(* What a step that touches neither the channel nor a snapshot keeps. *)
LEMMA SamplesAlone ==
  ASSUME IInv, UNCHANGED <<events, dropped, current, snapshots, accepted, missed>>
  PROVE  CountedOnce' /\ Queue' = Queue /\ Reported' = Reported /\ Missed' = Missed
<1>1. Queue' = Queue /\ Reported' = Reported /\ Missed' = Missed
  BY DEF Queue, Reported, Missed
<1> QED BY <1>1 DEF IInv, CountedOnce

LEMMA OfferKeeps == ASSUME IInv, NEW p \in Producers, Offer(p) PROVE IInv'
<1> USE DEF IInv
<1>1. /\ ~stopped /\ hand[p] = 0 /\ offered' = offered + 1 /\ offered < MaxSamples
      /\ hand' = [hand EXCEPT ![p] = IF closed THEN 0 ELSE offered']
      /\ UNCHANGED <<stopped, events, dropped, closed, running, current, mutex, snapshots, accepted,
                     missed, caller, call, calls, before>>
  BY DEF Offer, callerVars
<1>2. CountedOnce' /\ Reported' = Reported /\ Missed' = Missed
  BY <1>1, SamplesAlone
<1>3. TypeOK'
  BY <1>1, CollectorAssumption DEF TypeOK
<1>4. Places'
  BY <1>1, <1>2 DEF Places, TypeOK, IsSample
<1>5. OneCommand' /\ Ahead' /\ Barrier'
  BY <1>1, <1>2 DEF OneCommand, Ahead, Barrier, IsSample
<1> QED BY <1>2, <1>3, <1>4, <1>5

LEMMA SendKeeps == ASSUME IInv, NEW p \in Producers, offerEvent(p) PROVE IInv'
<1> USE DEF IInv
<1> DEFINE x == hand[p]
<1>1. /\ x # 0 /\ hand' = [hand EXCEPT ![p] = 0]
      /\ UNCHANGED <<offered, stopped, closed, running, current, mutex, snapshots, caller, call, calls,
                     before>>
  BY DEF offerEvent, callerVars
<1>2. /\ x \in Samples /\ x \in 1..offered /\ x \notin accepted \cup Missed /\ ~stopped
      /\ \A q \in Producers : hand'[q] = IF q = p THEN 0 ELSE hand[q]
      /\ \A q \in Producers : hand'[q] # x
  BY <1>1 DEF TypeOK, Samples, Places
<1> HIDE DEF x
<1>3. Reported' = Reported
  BY <1>1 DEF Reported
<1>4. CASE HasRoom
  <2>1. /\ events' = Append(events, Sample(x)) /\ accepted' = accepted \cup {x}
        /\ UNCHANGED <<dropped, missed>>
    BY <1>4 DEF offerEvent, x
  <2>2. Sample(x) \in Message /\ Sample(x).kind = "sample" /\ Sample(x).sample = x
    BY <1>2, MessageFacts
  <2>3. /\ events' \in Seq(Message) /\ Len(events) \in Nat /\ Len(events') = Len(events) + 1
        /\ events'[Len(events) + 1] = Sample(x)
        /\ \A i \in 1..Len(events) : i \in 1..Len(events') /\ events'[i] = events[i]
        /\ \A i \in 1..Len(events') : i \in 1..Len(events) \/ i = Len(events) + 1
    BY <2>1, <2>2, AppendFacts
  <2>4. Queue' = Queue \cup {x} /\ Missed' = Missed
    BY <1>1, <1>2, <2>1, SampleQueued DEF Missed
  <2>5. TypeOK'
    BY <1>1, <1>2, <1>4, <2>1, <2>3, CollectorAssumption DEF TypeOK, HasRoom
  <2>6. \A i \in 1..Len(events) : IsSample(i) => events[i].sample \in accepted
    BY DEF CountedOnce, Queue, IsSample
  <2>7. Places'
    BY <1>1, <1>2, <2>1, <2>2, <2>3, <2>4, <2>6 DEF Places, IsSample, TypeOK
  <2>8. CountedOnce'
    <3>1. x \notin accepted /\ x \notin Missed
      BY <1>2
    <3> QED BY <1>1, <1>3, <2>1, <2>4, <3>1 DEF CountedOnce, Missed
  <2>9. OneCommand'
    BY <1>1, <2>2, <2>3 DEF OneCommand, IsSample
  <2>10. Ahead'
    <3>1. \A c \in Callers : x \notin before[c]
      BY <1>2 DEF Ahead
    <3>2. \A i \in 1..Len(events') : ~IsSample(i)' => i \in 1..Len(events) /\ events[i].caller \in Callers
      BY <2>2, <2>3, EventFacts DEF IsSample
    <3>3. \A i, j \in 1..Len(events') : ~IsSample(i)' /\ IsSample(j)' /\ i < j =>
            events'[j].sample \notin before'[events'[i].caller]
      BY <1>1, <2>2, <2>3, <3>1, <3>2 DEF Ahead, IsSample
    <3> QED BY <1>1, <1>2, <2>1, <3>3 DEF Ahead
  <2>11. Barrier'
    BY <1>1, <1>2, <1>3, <2>1 DEF Barrier, Ahead
  <2> QED BY <2>5, <2>7, <2>8, <2>9, <2>10, <2>11
<1>5. CASE ~HasRoom
  <2>1. /\ dropped' = dropped + 1 /\ missed' = missed \cup {x}
        /\ UNCHANGED <<events, accepted>>
    BY <1>5 DEF offerEvent, Counted, x
  <2>2. Queue' = Queue /\ Missed' = Missed \cup {x}
    BY <1>1, <2>1 DEF Queue, Missed
  <2>3. Cardinality(missed') = Cardinality(missed) + 1
    <3>1. IsFiniteSet(missed)
      <4>1. IsFiniteSet(Samples)
        BY FS_Interval, CollectorAssumption DEF Samples
      <4> QED BY <4>1, FS_Subset DEF TypeOK
    <3>2. x \notin missed
      BY <1>2 DEF Missed
    <3> QED BY <2>1, <3>1, <3>2, FS_AddElement
  <2>4. TypeOK' /\ Places'
    BY <1>1, <1>2, <2>1, <2>2, CollectorAssumption DEF TypeOK, Places, IsSample
  <2>5. CountedOnce'
    <3>1. x \notin accepted /\ \A i \in 1..Len(snapshots) : x \notin snapshots[i].missed
      BY <1>2 DEF Missed
    <3> QED BY <1>1, <1>3, <2>1, <2>2, <2>3, <3>1 DEF CountedOnce
  <2>6. OneCommand' /\ Ahead' /\ Barrier'
    BY <1>1, <1>2, <1>3, <2>1 DEF OneCommand, Ahead, Barrier, IsSample
  <2> QED BY <2>4, <2>5, <2>6
<1> QED BY <1>4, <1>5

LEMMA StopKeeps == ASSUME IInv, StopProducers PROVE IInv'
<1> USE DEF IInv
<1>1. /\ \A p \in Producers : hand[p] = 0
      /\ stopped' = TRUE
      /\ UNCHANGED <<offered, hand, events, dropped, closed, running, current, mutex, snapshots,
                     accepted, missed, caller, call, calls, before>>
  BY DEF StopProducers, callerVars
<1>2. CountedOnce' /\ Reported' = Reported /\ Missed' = Missed
  BY <1>1, SamplesAlone
<1> QED BY <1>1, <1>2 DEF TypeOK, Places, OneCommand, Ahead, Barrier, IsSample

LEMMA CallKeeps ==
  ASSUME IInv, NEW c \in Callers, NEW m \in {"snapshot", "close"}, Call(c, m) PROVE IInv'
<1> USE DEF IInv
<1>1. /\ caller[c] = "idle" /\ calls < MaxCalls /\ (m = "close" => stopped)
      /\ caller' = [caller EXCEPT ![c] = "locking"] /\ call' = [call EXCEPT ![c] = m]
      /\ calls' = calls + 1 /\ before' = [before EXCEPT ![c] = accepted]
      /\ UNCHANGED <<offered, hand, stopped, events, dropped, closed, running, current, mutex,
                     snapshots, accepted, missed>>
  BY DEF Call, producerVars
<1>2. CountedOnce' /\ Reported' = Reported /\ Missed' = Missed
  BY <1>1, SamplesAlone
<1>3. TypeOK' /\ Places'
  BY <1>1, <1>2, CollectorAssumption DEF TypeOK, Places, IsSample
<1>4. /\ \A d \in Callers : d # c => caller'[d] = caller[d] /\ call'[d] = call[d] /\ before'[d] = before[d]
      /\ caller'[c] = "locking" /\ call'[c] = m /\ before'[c] = accepted
  BY <1>1 DEF TypeOK
<1>5. \A i \in 1..Len(events) : ~IsSample(i) => events[i].caller \in Callers /\ events[i].caller # c
  BY <1>1, EventFacts DEF OneCommand
<1>6. OneCommand'
  BY <1>1, <1>4, <1>5 DEF OneCommand, Holding, IsSample
<1>7. Ahead'
  BY <1>1, <1>4, <1>5 DEF Ahead, IsSample
<1>8. Barrier'
  BY <1>1, <1>2, <1>4 DEF Barrier
<1> QED BY <1>2, <1>3, <1>6, <1>7, <1>8

LEMMA LockKeeps == ASSUME IInv, NEW c \in Callers, Lock(c) PROVE IInv'
<1> USE DEF IInv
<1>1. /\ caller[c] = "locking" /\ mutex = NoCaller
      /\ \/ caller' = [caller EXCEPT ![c] = "idle"] /\ mutex' = mutex /\ closed' = closed
         \/ caller' = [caller EXCEPT ![c] = "posting"] /\ mutex' = c
            /\ closed' = (closed \/ call[c] = "close")
      /\ UNCHANGED <<offered, hand, stopped, events, dropped, running, current, call, calls, before,
                     snapshots, accepted, missed>>
  BY DEF Lock, producerVars
<1>2. CountedOnce' /\ Reported' = Reported /\ Missed' = Missed
  BY <1>1, SamplesAlone
<1>3. /\ \A d \in Callers : d # c => caller'[d] = caller[d]
      /\ \/ caller'[c] = "idle" /\ mutex' = mutex
         \/ caller'[c] = "posting" /\ mutex' = c
  BY <1>1 DEF TypeOK
<1>4. TypeOK' /\ Places'
  <2>1. closed' \in BOOLEAN
    BY <1>1 DEF TypeOK
  <2> QED BY <1>1, <1>2, <2>1 DEF TypeOK, Places, IsSample
<1>5. \A i \in 1..Len(events) : IsSample(i)
  <2>1. \A d \in Callers : caller[d] # "waiting"
    BY <1>1, CollectorAssumption DEF OneCommand, Holding
  <2> QED BY <2>1, EventFacts DEF OneCommand
<1>6. OneCommand'
  BY <1>1, <1>3, <1>5, CollectorAssumption DEF OneCommand, Holding, IsSample
<1>7. Ahead' /\ Barrier'
  BY <1>1, <1>2, <1>3, <1>5 DEF Ahead, Barrier, IsSample
<1> QED BY <1>2, <1>4, <1>6, <1>7

LEMMA PostKeeps == ASSUME IInv, NEW c \in Callers, Post(c) PROVE IInv'
<1> USE DEF IInv
<1> DEFINE m == Command(call[c], c)
<1>1. /\ caller[c] = "posting" /\ Len(events) < BufferSize /\ events' = Append(events, m)
      /\ caller' = [caller EXCEPT ![c] = "waiting"]
      /\ UNCHANGED <<offered, hand, stopped, dropped, closed, running, current, mutex, call, calls,
                     before, snapshots, accepted, missed>>
  BY DEF Post, Queued, HasRoom, producerVars
<1>2. m \in Message /\ m.kind = call[c] /\ m.kind # "sample" /\ m.caller = c
  <2>1. call[c] \in {"snapshot", "close"}
    BY DEF TypeOK
  <2> QED BY <2>1, MessageFacts
<1> HIDE DEF m
<1>3. /\ events' \in Seq(Message) /\ Len(events) \in Nat /\ Len(events') = Len(events) + 1
      /\ events'[Len(events) + 1] = m
      /\ \A i \in 1..Len(events) : i \in 1..Len(events') /\ events'[i] = events[i]
      /\ \A i \in 1..Len(events') : i \in 1..Len(events) \/ i = Len(events) + 1
  BY <1>1, <1>2, AppendFacts
<1>4. Queue' = Queue /\ Reported' = Reported /\ Missed' = Missed
  BY <1>1, <1>2, CommandQueued DEF Reported, Missed
<1>5. \A i \in 1..Len(events) : IsSample(i)
  <2>1. mutex = c
    BY <1>1 DEF OneCommand, Holding
  <2>2. \A d \in Callers : caller[d] # "waiting"
    BY <1>1, <2>1 DEF OneCommand, Holding
  <2> QED BY <2>2, EventFacts DEF OneCommand
<1>6. \A d \in Callers : caller'[d] = IF d = c THEN "waiting" ELSE caller[d]
  BY <1>1 DEF TypeOK
<1>7. TypeOK'
  BY <1>1, <1>3, CollectorAssumption DEF TypeOK
<1>8. Places'
  BY <1>1, <1>2, <1>3, <1>4 DEF Places, IsSample
<1>9. CountedOnce'
  BY <1>1, <1>4 DEF CountedOnce
<1>10. OneCommand'
  BY <1>1, <1>2, <1>3, <1>5, <1>6 DEF OneCommand, Holding, IsSample
<1>11. Ahead'
  BY <1>1, <1>2, <1>3, <1>5, <1>6 DEF Ahead, IsSample
<1>12. Barrier'
  BY <1>1, <1>4, <1>6 DEF Barrier
<1> QED BY <1>7, <1>8, <1>9, <1>10, <1>11, <1>12

LEMMA ReturnKeeps == ASSUME IInv, NEW c \in Callers, Return(c) PROVE IInv'
<1> USE DEF IInv
<1>1. /\ caller[c] = "replied" /\ caller' = [caller EXCEPT ![c] = "idle"] /\ mutex' = NoCaller
      /\ UNCHANGED <<offered, hand, stopped, events, dropped, closed, running, current, call, calls,
                     before, snapshots, accepted, missed>>
  BY DEF Return, producerVars
<1>2. CountedOnce' /\ Reported' = Reported /\ Missed' = Missed
  BY <1>1, SamplesAlone
<1>3. \A d \in Callers : caller'[d] = IF d = c THEN "idle" ELSE caller[d]
  BY <1>1 DEF TypeOK
<1>4. \A i \in 1..Len(events) : ~IsSample(i) => events[i].caller \in Callers /\ events[i].caller # c
  BY <1>1, EventFacts DEF OneCommand
<1>5. TypeOK' /\ Places'
  BY <1>1, <1>2 DEF TypeOK, Places, IsSample
<1>6. mutex = c
  BY <1>1 DEF OneCommand, Holding
<1>7. OneCommand'
  BY <1>1, <1>3, <1>4, <1>6, CollectorAssumption DEF OneCommand, Holding, IsSample
<1>8. Ahead' /\ Barrier'
  BY <1>1, <1>2, <1>3 DEF Ahead, Barrier, IsSample
<1> QED BY <1>2, <1>5, <1>7, <1>8

(* What is left on the channel stays in its order. *)
LEMMA OrderKept ==
  ASSUME IInv, events # <<>>, events' = Tail(events)
  PROVE  /\ \A i \in 1..Len(events') : ~IsSample(i)' =>
              /\ caller[events'[i].caller] = "waiting" /\ events'[i].kind = call[events'[i].caller]
              /\ \A j \in 1..Len(events') : ~IsSample(j)' => i = j
              /\ \A j \in 1..Len(events') : IsSample(j)' /\ i < j =>
                   events'[j].sample \notin before[events'[i].caller]
         /\ ~IsSample(1) => \A i \in 1..Len(events') :
              IsSample(i)' /\ events'[i].sample \notin before[events[1].caller]
<1> USE DEF IInv
<1>1. /\ 1 \in 1..Len(events) /\ Len(events') \in Nat
      /\ \A i \in 1..Len(events') :
           i + 1 \in 1..Len(events) /\ events'[i] = events[i + 1] /\ (IsSample(i)' <=> IsSample(i + 1))
  BY TailFacts DEF IsSample
<1>2. \A i, j \in 1..Len(events') : i + 1 = j + 1 => i = j
  OBVIOUS
<1>3. \A i, j \in 1..Len(events') : i < j => i + 1 < j + 1
  OBVIOUS
<1>4. \A i \in 1..Len(events') : 1 # i + 1 /\ 1 < i + 1
  OBVIOUS
<1>5. ASSUME NEW i \in 1..Len(events'), ~IsSample(i)'
      PROVE  /\ caller[events'[i].caller] = "waiting" /\ events'[i].kind = call[events'[i].caller]
             /\ \A j \in 1..Len(events') : ~IsSample(j)' => i = j
             /\ \A j \in 1..Len(events') : IsSample(j)' /\ i < j =>
                  events'[j].sample \notin before[events'[i].caller]
  <2> DEFINE k == i + 1
  <2>1. k \in 1..Len(events) /\ ~IsSample(k) /\ events'[i] = events[k]
    BY <1>1, <1>5
  <2>2. /\ caller[events[k].caller] = "waiting" /\ events[k].kind = call[events[k].caller]
        /\ \A j \in 1..Len(events) : ~IsSample(j) => k = j
        /\ \A j \in 1..Len(events) : IsSample(j) /\ k < j => events[j].sample \notin before[events[k].caller]
    BY <2>1 DEF OneCommand, Ahead
  <2> QED BY <1>1, <1>2, <1>3, <2>1, <2>2
<1>6. ASSUME ~IsSample(1), NEW i \in 1..Len(events')
      PROVE  IsSample(i)' /\ events'[i].sample \notin before[events[1].caller]
  <2> DEFINE k == i + 1
  <2>1. k \in 1..Len(events) /\ 1 # k /\ 1 < k /\ events'[i] = events[k] /\ (IsSample(i)' <=> IsSample(k))
    BY <1>1, <1>4
  <2> HIDE DEF k
  <2>2. IsSample(k)
    BY <1>1, <1>6, <2>1 DEF OneCommand
  <2> QED BY <1>1, <1>6, <2>1, <2>2 DEF Ahead
<1> QED BY <1>5, <1>6

LEMMA AggregateKeeps == ASSUME IInv, Aggregate PROVE IInv'
<1> USE DEF IInv
<1> DEFINE x == events[1].sample
<1>1. /\ events # <<>> /\ IsSample(1) /\ current' = current \cup {x} /\ events' = Tail(events)
      /\ UNCHANGED <<offered, hand, stopped, dropped, closed, running, mutex, snapshots, accepted,
                     missed, caller, call, calls, before>>
  <2>1. events # <<>> /\ events' = Tail(events)
    BY DEF Aggregate
  <2> QED BY <2>1, TailFacts DEF Aggregate, producerVars, callerVars, IsSample
<1>2. /\ events' \in Seq(Message) /\ Len(events') \in Nat /\ Len(events) = Len(events') + 1
      /\ 1 \in 1..Len(events)
      /\ \A i \in 1..Len(events') : i + 1 \in 1..Len(events) /\ events'[i] = events[i + 1]
  BY <1>1, TailFacts
<1>3. Queue' = Queue \ {x} /\ Reported' = Reported /\ Missed' = Missed
  BY <1>1, HeadTaken DEF Reported, Missed
<1>4. x \in Queue /\ x \in Samples
  BY <1>1, <1>2, EventFacts DEF Queue, IsSample
<1> HIDE DEF x
<1>5. TypeOK'
  BY <1>1, <1>2, <1>4, CollectorAssumption DEF TypeOK
<1>6. Places'
  <2>1. \A i, j \in 1..Len(events') :
          IsSample(i)' /\ IsSample(j)' /\ events'[i].sample = events'[j].sample => i = j
    <3> SUFFICES ASSUME NEW i \in 1..Len(events'), NEW j \in 1..Len(events'),
                        IsSample(i)', IsSample(j)', events'[i].sample = events'[j].sample
                 PROVE  i = j
      OBVIOUS
    <3>1. /\ i + 1 \in 1..Len(events) /\ IsSample(i + 1) /\ j + 1 \in 1..Len(events) /\ IsSample(j + 1)
          /\ events[i + 1].sample = events[j + 1].sample
      BY <1>2 DEF IsSample
    <3>2. i + 1 = j + 1
      BY <3>1 DEF Places
    <3> QED BY <3>2
  <2> QED BY <1>1, <1>3, <2>1 DEF Places
<1>7. CountedOnce'
  BY <1>1, <1>3, <1>4 DEF CountedOnce
<1>8. OneCommand'
  BY <1>1, OrderKept DEF OneCommand
<1>9. Ahead'
  BY <1>1, OrderKept DEF Ahead
<1>10. Barrier'
  BY <1>1, <1>3 DEF Barrier
<1> QED BY <1>5, <1>6, <1>7, <1>8, <1>9, <1>10

LEMMA ReplyKeeps == ASSUME IInv, Reply PROVE IInv'
<1> USE DEF IInv
<1> DEFINE c == events[1].caller
           d == [samples |-> current, missed |-> missed, dropped |-> dropped]
<1>1. /\ events # <<>> /\ ~IsSample(1) /\ events' = Tail(events)
      /\ snapshots' = Append(snapshots, d)
      /\ current' = {} /\ dropped' = 0 /\ missed' = {}
      /\ running' \in BOOLEAN /\ caller' = [caller EXCEPT ![c] = "replied"]
      /\ UNCHANGED <<offered, hand, stopped, closed, mutex, call, calls, before, accepted>>
  <2>1. events # <<>> /\ events' = Tail(events)
    BY DEF Reply
  <2> QED BY <2>1, TailFacts DEF Reply, producerVars, IsSample
<1>2. /\ events' \in Seq(Message) /\ Len(events') \in Nat /\ Len(events) = Len(events') + 1
      /\ 1 \in 1..Len(events)
      /\ \A i \in 1..Len(events') : i + 1 \in 1..Len(events) /\ events'[i] = events[i + 1]
  BY <1>1, TailFacts
<1>3. c \in Callers /\ caller[c] = "waiting" /\ mutex = c
  <2>1. c \in Callers
    BY <1>1, <1>2, EventFacts
  <2> QED BY <1>1, <1>2, <2>1 DEF OneCommand, Holding
<1>4. d \in Snapshot /\ d.samples = current /\ d.missed = missed /\ d.dropped = dropped
  BY DEF TypeOK, Snapshot
<1> HIDE DEF d
<1>5. /\ snapshots' \in Seq(Snapshot) /\ Len(snapshots) \in Nat
      /\ Len(snapshots') = Len(snapshots) + 1 /\ snapshots'[Len(snapshots) + 1] = d
      /\ \A i \in 1..Len(snapshots) : i \in 1..Len(snapshots') /\ snapshots'[i] = snapshots[i]
      /\ \A i \in 1..Len(snapshots') : i \in 1..Len(snapshots) \/ i = Len(snapshots) + 1
      /\ Reported' = Reported \cup current
  BY <1>1, <1>4, SnapshotAdded
<1>6. Queue' = Queue
  BY <1>1, HeadTaken
<1>7. Missed' = Missed
  BY <1>1, <1>4, <1>5 DEF Missed
<1>8. \A i \in 1..Len(events') : IsSample(i)' /\ events'[i].sample \notin before[c]
  BY <1>1, OrderKept
<1>9. \A b \in Callers : caller'[b] = IF b = c THEN "replied" ELSE caller[b]
  BY <1>1 DEF TypeOK
<1> HIDE DEF c
<1>10. TypeOK'
  BY <1>1, <1>2, <1>3, <1>5, CollectorAssumption DEF TypeOK
<1>11. Places'
  <2>1. \A i, j \in 1..Len(events') : events'[i].sample = events'[j].sample => i = j
    <3> SUFFICES ASSUME NEW i \in 1..Len(events'), NEW j \in 1..Len(events'),
                        events'[i].sample = events'[j].sample
                 PROVE  i = j
      OBVIOUS
    <3>1. /\ i + 1 \in 1..Len(events) /\ IsSample(i + 1) /\ j + 1 \in 1..Len(events) /\ IsSample(j + 1)
          /\ events[i + 1].sample = events[j + 1].sample
      BY <1>2, <1>8 DEF IsSample
    <3>2. i + 1 = j + 1
      BY <3>1 DEF Places
    <3> QED BY <3>2
  <2> QED BY <1>1, <1>7, <2>1 DEF Places
<1>12. CountedOnce'
  <2>1. \A i \in 1..Len(snapshots) :
          snapshots[i].samples \cap current = {} /\ snapshots[i].missed \cap missed = {}
    BY DEF CountedOnce, Reported
  <2>2. Cardinality({}) = 0
    BY FS_EmptySet
  <2>3. \A i \in 1..Len(snapshots') :
         /\ snapshots'[i].dropped = Cardinality(snapshots'[i].missed)
         /\ snapshots'[i].missed \cap (missed' \cup accepted') = {}
    BY <1>1, <1>4, <1>5 DEF CountedOnce
  <2>4. \A i, j \in 1..Len(snapshots') : i # j =>
          /\ snapshots'[i].samples \cap snapshots'[j].samples = {}
          /\ snapshots'[i].missed \cap snapshots'[j].missed = {}
    BY <1>4, <1>5, <2>1 DEF CountedOnce
  <2> QED BY <1>1, <1>5, <1>6, <2>2, <2>3, <2>4 DEF CountedOnce
<1>13. OneCommand'
  BY <1>1, <1>3, <1>8, <1>9 DEF OneCommand, Holding
<1>14. Ahead'
  BY <1>1, <1>3, <1>8, <1>9 DEF Ahead
<1>15. Barrier'
  <2>1. Queue \cap before[c] = {}
    BY <1>6, <1>8 DEF Queue
  <2>2. before[c] \subseteq Reported'
    BY <1>3, <1>5, <2>1 DEF CountedOnce, Ahead
  <2>3. call[c] = "close" => accepted = Reported'
    BY <1>3, <1>5, <2>2 DEF CountedOnce, Ahead
  <2>4. \A b \in Callers : caller'[b] = "replied" => b = c
    BY <1>3, <1>9 DEF OneCommand, Holding
  <2> QED BY <1>1, <2>2, <2>3, <2>4 DEF Barrier
<1> QED BY <1>10, <1>11, <1>12, <1>13, <1>14, <1>15

----------------------------------------------------------------------------

(* The collector's inductive invariant, whatever the goroutines and the      *)
(* channel.                                                                  *)
THEOREM Invariance == Spec => []IInv
<1>1. IInv /\ [Next]_vars => IInv'
  <2> SUFFICES ASSUME IInv, [Next]_vars PROVE IInv'
    OBVIOUS
  <2>1. CASE UNCHANGED vars
    <3>1. CountedOnce' /\ Reported' = Reported /\ Missed' = Missed
      BY <2>1, SamplesAlone DEF vars
    <3> QED BY <2>1, <3>1 DEF vars, producerVars, callerVars, IInv, TypeOK, Places, OneCommand, Ahead,
                              Barrier, IsSample
  <2> QED
    BY <2>1, OfferKeeps, SendKeeps, StopKeeps, CallKeeps, LockKeeps, PostKeeps, ReturnKeeps,
       AggregateKeeps, ReplyKeeps DEF Next, Caller, Run
<1> QED BY <1>1, InitIInv, PTL DEF Spec

(* The types of the collector's fields and of what is on its channel.        *)
THEOREM TypeCorrectness == Spec => []TypeOK
<1>1. IInv => TypeOK
  BY DEF IInv
<1> QED BY <1>1, Invariance, PTL

(* Offer, OfferUnmetDemand and run (collector.go): a sample is reported in   *)
(* one snapshot or counted as dropped in one, whatever overtakes what.       *)
THEOREM SamplesCountedOnce == Spec => []CountedOnce
<1>1. IInv => CountedOnce
  BY DEF IInv
<1> QED BY <1>1, Invariance, PTL

(* SnapshotAndReset and Close (collector.go) answer after everything that    *)
(* was accepted before the call was reported; Close after everything.        *)
THEOREM CommandsAreBarriers == Spec => []Barrier
<1>1. IInv => Barrier
  BY DEF IInv
<1> QED BY <1>1, Invariance, PTL
=============================================================================
