----------------------------- MODULE Collector -----------------------------
(* The metrics collector (internal/metrics/collector.go): request           *)
(* goroutines offer samples without blocking, one goroutine aggregates them *)
(* in queue order, and snapshot and close commands pass through the same    *)
(* queue.  A snapshot is abstracted to the set of samples it counts and its *)
(* number of dropped samples; as history it also keeps which ones those     *)
(* were.  Results and unmet demand are both samples.                        *)
EXTENDS Naturals, Sequences, FiniteSets

CONSTANTS
  Producers,    \* goroutines that offer samples
  Callers,      \* goroutines that call SnapshotAndReset or Close
  NoCaller,     \* nobody: the mutex is free
  BufferSize,   \* capacity of the event channel
  MaxSamples,   \* bound: samples offered
  MaxCalls      \* bound: SnapshotAndReset and Close calls

ASSUME CollectorAssumption ==
  /\ BufferSize \in Nat \ {0} /\ MaxSamples \in Nat /\ MaxCalls \in Nat
  /\ IsFiniteSet(Producers) /\ NoCaller \notin Callers

Samples == 1..MaxSamples
Sample(i) == [kind |-> "sample", sample |-> i]
Command(kind, c) == [kind |-> kind, caller |-> c]

VARIABLES
  offered,     \* samples offered so far; the last one's identity
  hand,        \* per producer: a sample past the closed check, 0 for none
  stopped,     \* all producers have stopped for good
  events,      \* the channel
  dropped,     \* samples dropped since the last snapshot
  closed,      \* the closed flag
  running,     \* the aggregating goroutine has not returned
  current,     \* samples in the open interval's snapshot
  mutex,       \* holder of controlMu
  caller,      \* per caller: idle, or where its call stands
  call,        \* per caller: the method called
  calls,       \* calls made
  snapshots,   \* history: the snapshots replied, oldest first
  accepted,    \* history: samples put on the channel
  missed,      \* history: samples dropped since the last snapshot
  before       \* history, per caller: samples accepted when it called

producerVars == <<offered, hand, stopped>>
callerVars == <<caller, call, calls, before>>
vars == <<producerVars, events, dropped, closed, running, current, mutex, callerVars, snapshots,
          accepted, missed>>

Init ==
  /\ offered = 0 /\ hand = [p \in Producers |-> 0] /\ stopped = FALSE
  /\ events = <<>> /\ dropped = 0 /\ closed = FALSE /\ running = TRUE /\ current = {}
  /\ mutex = NoCaller
  /\ caller = [c \in Callers |-> "idle"] /\ call = [c \in Callers |-> "snapshot"] /\ calls = 0
  /\ before = [c \in Callers |-> {}]
  /\ snapshots = <<>> /\ accepted = {} /\ missed = {}

AlmostFull == Len(events) <= BufferSize                             \* mutant
HasRoom == Len(events) < BufferSize

----------------------------------------------------------------------------
(* Offer and OfferUnmetDemand: the closed check, then the non-blocking send. *)
Offer(p) ==
  /\ ~stopped /\ hand[p] = 0 /\ offered < MaxSamples
  /\ offered' = offered + 1
  /\ hand' = [hand EXCEPT ![p] = IF closed THEN 0 ELSE offered']
  /\ UNCHANGED <<stopped, events, dropped, closed, running, current, mutex, snapshots, accepted, missed>>
  /\ UNCHANGED callerVars

Uncounted == dropped                                                \* mutant
Counted == dropped + 1

offerEvent(p) ==
  /\ hand[p] # 0
  /\ IF HasRoom
       THEN /\ events' = Append(events, Sample(hand[p]))
            /\ accepted' = accepted \cup {hand[p]}
            /\ UNCHANGED <<dropped, missed>>
       ELSE /\ dropped' = Counted
            /\ missed' = missed \cup {hand[p]}
            /\ UNCHANGED <<events, accepted>>
  /\ hand' = [hand EXCEPT ![p] = 0]
  /\ UNCHANGED <<offered, stopped, closed, running, current, mutex, snapshots>>
  /\ UNCHANGED callerVars

(* The load generator returns only after its request goroutines did. *)
StopProducers ==
  /\ ~stopped /\ \A p \in Producers : hand[p] = 0
  /\ stopped' = TRUE
  /\ UNCHANGED <<offered, hand, events, dropped, closed, running, current, mutex, snapshots,
                 accepted, missed>>
  /\ UNCHANGED callerVars

----------------------------------------------------------------------------
(* SnapshotAndReset and Close.  Close is called once the producers stopped;  *)
(* a second Close waits for the first (closeOnce).                           *)
Call(c, method) ==
  /\ caller[c] = "idle" /\ calls < MaxCalls
  /\ method = "close" => stopped
  /\ caller' = [caller EXCEPT ![c] = "locking"] /\ call' = [call EXCEPT ![c] = method]
  /\ calls' = calls + 1
  /\ before' = [before EXCEPT ![c] = accepted]
  /\ UNCHANGED <<producerVars, events, dropped, closed, running, current, mutex, snapshots,
                 accepted, missed>>

NeverAfterClose == FALSE                                            \* mutant
AlreadyClosed == closed

(* Under the mutex a closed collector has nothing to add. *)
Lock(c) ==
  /\ caller[c] = "locking" /\ mutex = NoCaller
  /\ IF AlreadyClosed
       THEN caller' = [caller EXCEPT ![c] = "idle"] /\ UNCHANGED <<mutex, closed>>
       ELSE /\ caller' = [caller EXCEPT ![c] = "posting"]
            /\ mutex' = c
            /\ closed' = (closed \/ call[c] = "close")
  /\ UNCHANGED <<producerVars, events, dropped, running, current, call, calls, before, snapshots,
                 accepted, missed>>

Overtaking(e) == <<e>> \o events                                    \* mutant
Queued(e) == Append(events, e)

(* The command waits for room in the channel, behind every accepted sample. *)
Post(c) ==
  /\ caller[c] = "posting" /\ HasRoom
  /\ events' = Queued(Command(call[c], c))
  /\ caller' = [caller EXCEPT ![c] = "waiting"]
  /\ UNCHANGED <<producerVars, dropped, closed, running, current, mutex, call, calls, before,
                 snapshots, accepted, missed>>

(* The reply arrived: unlock and return. *)
Return(c) ==
  /\ caller[c] = "replied"
  /\ caller' = [caller EXCEPT ![c] = "idle"]
  /\ mutex' = NoCaller
  /\ UNCHANGED <<producerVars, events, dropped, closed, running, current, call, calls, before,
                 snapshots, accepted, missed>>

----------------------------------------------------------------------------
(* run: the goroutine that owns the snapshot. *)
Aggregate ==
  /\ running /\ events # <<>> /\ Head(events).kind = "sample"
  /\ current' = current \cup {Head(events).sample}
  /\ events' = Tail(events)
  /\ UNCHANGED <<producerVars, dropped, closed, running, mutex, snapshots, accepted, missed>>
  /\ UNCHANGED callerVars

Reply ==
  /\ running /\ events # <<>> /\ Head(events).kind # "sample"
  /\ snapshots' = Append(snapshots, [samples |-> current, missed |-> missed, dropped |-> dropped])
  /\ current' = {} /\ dropped' = 0 /\ missed' = {}
  /\ running' = (Head(events).kind # "close")
  /\ caller' = [caller EXCEPT ![Head(events).caller] = "replied"]
  /\ events' = Tail(events)
  /\ UNCHANGED <<producerVars, closed, mutex, call, calls, before, accepted>>

Caller(c) == Lock(c) \/ Post(c) \/ Return(c)
Run == Aggregate \/ Reply

Next == \/ \E p \in Producers : Offer(p) \/ offerEvent(p)
        \/ StopProducers
        \/ \E c \in Callers : Caller(c) \/ \E m \in {"snapshot", "close"} : Call(c, m)
        \/ Run

(* The goroutines run.  A Go channel serves blocked senders, and a mutex its *)
(* waiters, in order, so neither producers nor other callers starve a call.  *)
Fairness == /\ WF_vars(Run)
            /\ \A c \in Callers : SF_vars(Caller(c))
Spec == Init /\ [][Next]_vars
FairSpec == Spec /\ Fairness

----------------------------------------------------------------------------
Queue == {events[i].sample : i \in {j \in 1..Len(events) : events[j].kind = "sample"}}
Reported == UNION {snapshots[i].samples : i \in 1..Len(snapshots)}

Message == [kind : {"sample"}, sample : Samples]
             \cup [kind : {"snapshot", "close"}, caller : Callers]
Snapshot == [samples : SUBSET Samples, missed : SUBSET Samples, dropped : Nat]

TypeOK ==
  /\ offered \in 0..MaxSamples /\ hand \in [Producers -> 0..MaxSamples] /\ stopped \in BOOLEAN
  /\ events \in Seq(Message) /\ Len(events) <= BufferSize
  /\ dropped \in Nat /\ closed \in BOOLEAN /\ running \in BOOLEAN
  /\ current \subseteq Samples /\ mutex \in Callers \cup {NoCaller}
  /\ caller \in [Callers -> {"idle", "locking", "posting", "waiting", "replied"}]
  /\ call \in [Callers -> {"snapshot", "close"}] /\ calls \in 0..MaxCalls
  /\ before \in [Callers -> SUBSET Samples]
  /\ snapshots \in Seq(Snapshot) /\ accepted \subseteq Samples /\ missed \subseteq Samples

(* Every sample the collector took is counted exactly once: it is queued, in *)
(* the open interval, or in one snapshot, and every sample it could not take *)
(* is in one snapshot's dropped count or waiting for the next.               *)
CountedOnce ==
  /\ accepted = Queue \cup current \cup Reported
  /\ Queue \cap (current \cup Reported) = {} /\ current \cap Reported = {}
  /\ dropped = Cardinality(missed) /\ missed \cap accepted = {}
  /\ \A i \in 1..Len(snapshots) :
       /\ snapshots[i].dropped = Cardinality(snapshots[i].missed)
       /\ snapshots[i].missed \cap (missed \cup accepted) = {}
       /\ \A j \in 1..Len(snapshots) : i # j =>
            /\ snapshots[i].samples \cap snapshots[j].samples = {}
            /\ snapshots[i].missed \cap snapshots[j].missed = {}

(* A command is a barrier: when it is answered, everything accepted before   *)
(* the call has been reported.  For Close, which follows the producers' end, *)
(* that is everything ever accepted.                                         *)
Barrier ==
  \A c \in Callers : caller[c] = "replied" =>
    /\ before[c] \subseteq Reported
    /\ call[c] = "close" => accepted = Reported /\ dropped = 0

(* Every call returns, whatever else is queued, blocked or closed. *)
CallsReturn == \A c \in Callers : caller[c] # "idle" ~> caller[c] = "idle"
=============================================================================
