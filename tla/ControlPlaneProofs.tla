------------------------ MODULE ControlPlaneProofs ------------------------
(* The safety of the control plane for every fleet, load, window and number  *)
(* of connections: the registry, the order of messages on a stream, what the *)
(* aggregator knows, and what the coordinator has caught up with.            *)
EXTENDS ControlPlane, SequenceTheorems, FiniteSetTheorems, TLAPS

----------------------------------------------------------------------------
(* The inductive invariant. *)

turn(s) == s[2]
Current(s) == turn(s) = attempt[worker(s)]
Connected(w) == client[w] \in {"registering", "running"}

(* A connection that was not made has left no trace, and all but a worker's  *)
(* latest connection are broken.                                             *)
Connections ==
  /\ \A s \in Sessions : handler[s] = "none" <=> turn(s) > attempt[worker(s)]
  /\ \A s \in Sessions : handler[s] = "none" =>
       s \notin broken /\ down[s] = <<>> /\ up[s] = <<>> /\ heartbeat[s] = 0
  /\ \A w \in Workers : sessions[w] # None => handler[sessions[w]] # "none"
  /\ \A s \in batch : handler[s] # "none"
  /\ \A s \in Sessions : turn(s) < attempt[worker(s)] => s \in broken
  /\ \A s \in Sessions : Current(s) /\ ~Connected(worker(s)) => s \in broken
  /\ \A w \in Workers : Connected(w) => attempt[w] > 0
  /\ \A w \in Workers : client[w] # "running" => applied[w] = None /\ sent[w] = 0

(* Heartbeats travel in sequence, and what is refused is beyond recall. *)
Heartbeats ==
  /\ \A s \in Sessions : \A i \in 1..Len(up[s]) :
       /\ up[s][i] > heartbeat[s]
       /\ \A j \in 1..Len(up[s]) : j < i => up[s][j] < up[s][i]
  /\ \A s \in Sessions : Current(s) /\ Connected(worker(s)) =>
       /\ heartbeat[s] <= sent[worker(s)]
       /\ \A i \in 1..Len(up[s]) : up[s][i] <= sent[worker(s)]
  /\ \A s \in Sessions : handler[s] \in {"refusing", "refused"} => s \in broken

(* One acknowledgment is sent, by the handler, and a running worker has it. *)
Unacknowledged(s) == handler[s] \in {"none", "accepted", "added", "exists"}
Acknowledgments ==
  \A s \in Sessions :
    /\ \A i \in 1..Len(down[s]) : down[s][i] = Ack =>
         ~Unacknowledged(s) /\ \A j \in 1..Len(down[s]) : down[s][j] = Ack => i = j
    /\ Current(s) /\ client[worker(s)] = "running" =>
         ~Unacknowledged(s) /\ \A i \in 1..Len(down[s]) : down[s][i] # Ack

(* What the coordinator knows of its revision. *)
Planned ==
  /\ pc # "sending" => todo = {}
  /\ revision = 0 => deadline = 0
  /\ revision > 0 => deadline = startsAt + Duration
  /\ pc \in {"recording", "sending"} => revision > 0
  /\ pc = "sending" => recorded[revision] = Slices

(* An assignment of session s as the aggregator knows it. *)
Known(s, m) ==
  /\ m.revision \in DOMAIN recorded
  /\ worker(s) \in DOMAIN recorded[m.revision]
  /\ m.load = recorded[m.revision][worker(s)]
  /\ m.startsAt = startsAt /\ m.deadline = deadline

(* Assignments are recorded before they are sent, and reach each stream in   *)
(* the order of their revisions.                                             *)
Assignments ==
  \A s \in Sessions :
    /\ \A i \in 1..Len(down[s]) : down[s][i] # Ack =>
         /\ Known(s, down[s][i])
         /\ s \in todo => down[s][i].revision < revision
         /\ \A j \in 1..Len(down[s]) : j < i /\ down[s][j] # Ack =>
              down[s][j].revision < down[s][i].revision
    /\ Current(s) /\ applied[worker(s)] # None =>
         /\ Known(s, applied[worker(s)])
         /\ s \in todo => applied[worker(s)].revision < revision
         /\ \A i \in 1..Len(down[s]) : down[s][i] # Ack =>
              applied[worker(s)].revision < down[s][i].revision

(* Who has announced itself was seen, or will be. *)
Noticed ==
  \A s \in Sessions : handler[s] = "serving" /\ s \notin broken =>
    changed \/ pc = "woken" \/ s \in batch

(* Who was seen gets the revision, unless its stream breaks. *)
HasLatest(s) ==
  \/ Current(s) /\ applied[worker(s)] # None /\ applied[worker(s)].revision = revision
  \/ \E i \in 1..Len(down[s]) : down[s][i] # Ack /\ down[s][i].revision = revision
Distributed ==
  \/ pc = "sending"
  \/ pc = "idle" /\ Cardinality(batch) >= MinWorkers /\ clock < deadline
LatestReached == Distributed => \A s \in batch \ todo : s \in broken \/ HasLatest(s)

IInv == /\ TypeOK /\ LiveSessionRegistered /\ Connections /\ Heartbeats /\ Acknowledgments
        /\ Planned /\ Assignments /\ HealthyWorkerNeverRefused /\ Noticed /\ LatestReached

----------------------------------------------------------------------------
(* Sessions are pairs; below this point they are only what these facts say. *)

LEMMA SessionFacts ==
  /\ \A s \in Sessions : s # None /\ worker(s) \in Workers /\ turn(s) \in 1..MaxAttempts
  /\ \A s, t \in Sessions : worker(s) = worker(t) /\ turn(s) = turn(t) => s = t
  /\ \A w \in Workers, k \in 1..MaxAttempts :
       <<w, k>> \in Sessions /\ worker(<<w, k>>) = w /\ turn(<<w, k>>) = k
<1>1. \A s \in Sessions : s # None /\ worker(s) \in Workers /\ turn(s) \in 1..MaxAttempts
  BY DEF Sessions, None, worker, turn
<1>2. \A s, t \in Sessions : worker(s) = worker(t) /\ turn(s) = turn(t) => s = t
  BY DEF Sessions, worker, turn
<1>3. \A w \in Workers, k \in 1..MaxAttempts :
        <<w, k>> \in Sessions /\ worker(<<w, k>>) = w /\ turn(<<w, k>>) = k
  BY DEF Sessions, worker, turn
<1> QED BY <1>1, <1>2, <1>3

LEMMA MessageFacts == \A m \in Assignment : m # Ack /\ m # None
<1>1. \A m \in Assignment : m # Ack
  BY DEF Assignment, Ack
<1>2. \A m \in Assignment : m # None
  BY DEF Assignment, None
<1> QED BY <1>1, <1>2

(* A share of a configured load is a slice. *)
LEMMA ShareIsSlice ==
  ASSUME NEW load \in Loads, NEW n \in Nat, NEW i \in 1..n
  PROVE  splitLoad(load, n)[i] \in Slice
<1> DEFINE active == activeParts(load, n)
<1>1. active \in Nat
  BY DEF activeParts, Loads, Slice
<1>2. \A total \in Nat : total > 0 /\ i <= active => divide(total, active, i) \in Nat
  BY <1>1 DEF divide
<1> HIDE DEF active
<1> QED
  BY <1>1, <1>2 DEF splitLoad, Slice, Loads, active

LEMMA CurrentFacts ==
  ASSUME TypeOK, NEW w \in Workers, attempt[w] > 0
  PROVE  current(w) \in Sessions /\ worker(current(w)) = w /\ turn(current(w)) = attempt[w]
BY SessionFacts, ControlPlaneAssumption DEF TypeOK, ClientTypes, current

(* The slices of a revision are well-formed, one for each member. *)
LEMMA SlicesAreSlices == TypeOK => Slices \in [members -> Slice]
<1> SUFFICES ASSUME TypeOK, NEW w \in members PROVE Slices[w] \in Slice
  BY DEF Slices
<1>1. members \in SUBSET Workers
  BY SessionFacts DEF TypeOK, CoordinatorTypes, members
<1>2. IsFiniteSet(members) /\ Cardinality(members) \in Nat
  BY <1>1, FS_Subset, FS_CardinalityType, ControlPlaneAssumption
<1>3. Rank(w) \in 1..Cardinality(members)
  <2> DEFINE upTo == {v \in members : v <= w}
  <2>1. w \in upTo
    BY <1>1, ControlPlaneAssumption
  <2>2. IsFiniteSet(upTo) /\ Cardinality(upTo) \in Nat /\ Cardinality(upTo) <= Cardinality(members)
    BY <1>2, FS_Subset, FS_CardinalityType
  <2>3. Cardinality(upTo) # 0
    BY <2>1, <2>2, FS_EmptySet
  <2> QED BY <1>2, <2>2, <2>3 DEF Rank
<1>4. splitLoad(Load, Cardinality(members))[Rank(w)] \in Slice
  BY <1>2, <1>3, ShareIsSlice, ControlPlaneAssumption
<1> QED BY <1>4 DEF Slices


----------------------------------------------------------------------------
(* What a worker's receive loop can do to its session: take the              *)
(* acknowledgment, apply an assignment, or end it.  It never ends it because *)
(* an assignment is unacceptable or the orchestrator refused a heartbeat.    *)

TakesAck(w, s) ==
  /\ client[w] = "registering" /\ down[s] # <<>> /\ Head(down[s]) = Ack
  /\ client' = [client EXCEPT ![w] = "running"]
  /\ down' = [down EXCEPT ![s] = Tail(@)]
  /\ UNCHANGED <<broken, applied, sent>>
Applies(w, s) ==
  /\ client[w] = "running" /\ down[s] # <<>> /\ Head(down[s]) # Ack
  /\ applied' = [applied EXCEPT ![w] = Head(down[s])]
  /\ down' = [down EXCEPT ![s] = Tail(@)]
  /\ UNCHANGED <<client, broken, sent>>
Ends(w, s) ==
  /\ \E next \in {"dialing", "unacknowledged"} : client' = [client EXCEPT ![w] = next]
  /\ broken' = broken \cup {s}
  /\ down' = [down EXCEPT ![s] = <<>>]
  /\ applied' = [applied EXCEPT ![w] = None]
  /\ sent' = [sent EXCEPT ![w] = 0]

LEMMA HeadFacts ==
  ASSUME TypeOK, NEW s \in Sessions, down[s] # <<>>
  PROVE  /\ Head(down[s]) = down[s][1] /\ 1 \in 1..Len(down[s])
         /\ down[s][1] \in Assignment \cup {Ack}
         /\ Tail(down[s]) \in Seq(Assignment \cup {Ack}) /\ Len(Tail(down[s])) = Len(down[s]) - 1
         /\ \A i \in 1..Len(Tail(down[s])) :
              i + 1 \in 1..Len(down[s]) /\ Tail(down[s])[i] = down[s][i + 1]
BY DEF TypeOK, StreamTypes

(* A message more at the end of a stream, and what a receiver leaves of one. *)
LEMMA AppendFacts ==
  ASSUME TypeOK, NEW s \in Sessions, NEW m \in Assignment \cup {Ack},
         down' = [down EXCEPT ![s] = Append(@, m)]
  PROVE  /\ Len(down[s]) \in Nat /\ Len(down'[s]) = Len(down[s]) + 1
         /\ down'[s][Len(down[s]) + 1] = m
         /\ \A i \in 1..Len(down[s]) : down'[s][i] = down[s][i]
         /\ \A t \in Sessions : t # s => down'[t] = down[t]
<1>1. down[s] \in Seq(Assignment \cup {Ack}) /\ down'[s] = Append(down[s], m)
  BY DEF TypeOK, StreamTypes
<1>2. \A t \in Sessions : t # s => down'[t] = down[t]
  BY DEF TypeOK, StreamTypes
<1> QED BY <1>1, <1>2

LEMMA ConsumeFacts ==
  ASSUME TypeOK, NEW w, NEW s \in Sessions, TakesAck(w, s) \/ Applies(w, s) \/ Ends(w, s)
  PROVE  /\ \A t \in Sessions : t # s => down'[t] = down[t]
         /\ \A i \in 1..Len(down'[s]) :
              down[s] # <<>> /\ i + 1 \in 1..Len(down[s]) /\ down'[s][i] = down[s][i + 1]
<1>1. down \in [Sessions -> Seq(Assignment \cup {Ack})]
  BY DEF TypeOK, StreamTypes
<1>2. CASE TakesAck(w, s) \/ Applies(w, s)
  <2>1. down' = [down EXCEPT ![s] = Tail(@)] /\ down[s] # <<>>
    BY <1>2 DEF TakesAck, Applies
  <2> QED BY <1>1, <2>1, HeadFacts
<1>3. CASE Ends(w, s)
  <2>1. down' = [down EXCEPT ![s] = <<>>]
    BY <1>3 DEF Ends
  <2> QED BY <1>1, <2>1
<1> QED BY <1>2, <1>3

LEMMA RestFacts ==
  ASSUME TypeOK, NEW s \in Sessions, down[s] # <<>>, down' = [down EXCEPT ![s] = Tail(@)]
  PROVE  \A i \in 1..Len(down[s]) :
           i = 1 \/ (i - 1 \in 1..Len(down'[s]) /\ down'[s][i - 1] = down[s][i])
<1>1. down[s] \in Seq(Assignment \cup {Ack}) /\ down'[s] = Tail(down[s])
  BY DEF TypeOK, StreamTypes
<1>2. Len(down[s]) \in Nat /\ Len(down'[s]) = Len(down[s]) - 1
  <2>1. Len(down[s]) \in Nat
    BY <1>1, LenProperties
  <2>2. Len(down'[s]) = Len(down[s]) - 1
    BY <1>1, HeadFacts
  <2> QED BY <2>1, <2>2
<1>3. \A k \in 1..Len(down'[s]) : down'[s][k] = down[s][k + 1]
  BY <1>1, HeadFacts
<1>4. \A i \in 1..Len(down[s]) : i = 1 \/ i - 1 \in 1..Len(down'[s])
  BY <1>2
<1> QED BY <1>2, <1>3, <1>4

LEMMA UpFacts ==
  ASSUME TypeOK, NEW s \in Sessions, up[s] # <<>>
  PROVE  /\ Head(up[s]) = up[s][1] /\ 1 \in 1..Len(up[s]) /\ up[s][1] \in 1..MaxHeartbeats
         /\ Tail(up[s]) \in Seq(1..MaxHeartbeats) /\ Len(Tail(up[s])) = Len(up[s]) - 1
         /\ \A i \in 1..Len(Tail(up[s])) :
              i + 1 \in 1..Len(up[s]) /\ Tail(up[s])[i] = up[s][i + 1]
<1> DEFINE Beats == 1..MaxHeartbeats
<1>1. up[s] \in Seq(Beats)
  BY DEF TypeOK, StreamTypes
<1> HIDE DEF Beats
<1>2. /\ Head(up[s]) = up[s][1] /\ 1 \in 1..Len(up[s]) /\ up[s][1] \in Beats
      /\ Tail(up[s]) \in Seq(Beats) /\ Len(Tail(up[s])) = Len(up[s]) - 1
      /\ \A i \in 1..Len(Tail(up[s])) :
           i + 1 \in 1..Len(up[s]) /\ Tail(up[s])[i] = up[s][i + 1]
  BY <1>1
<1> QED BY <1>2 DEF Beats

LEMMA ReceiveCases ==
  ASSUME IInv, NEW w \in Workers, Receive(w) \/ LoseSession(w)
  PROVE  \E s \in Sessions :
           /\ worker(s) = w /\ Current(s) /\ Connected(w)
           /\ TakesAck(w, s) \/ Applies(w, s) \/ Ends(w, s)
           /\ UNCHANGED <<up, changed, attempt, clock, registryVars, coordVars>>
<1> DEFINE s == current(w)
<1>1. Connected(w)
  BY DEF Receive, ReceiveFirst, ReceiveAssignment, ReceiveStatus, LoseSession, Connected
<1>2. s \in Sessions /\ worker(s) = w /\ Current(s)
  BY <1>1, CurrentFacts DEF IInv, Connections, Current
<1>3. UNCHANGED <<up, changed, attempt, clock, registryVars, coordVars>>
  BY DEF Receive, ReceiveFirst, ReceiveAssignment, ReceiveStatus, LoseSession
<1>4. CASE ReceiveFirst(w)
  <2>1. TakesAck(w, s) \/ Ends(w, s)
    BY <1>4 DEF ReceiveFirst, TakesAck, EndSession, Ends
  <2> QED BY <1>1, <1>2, <1>3, <2>1
<1>5. CASE ReceiveAssignment(w)
  <2>1. client[w] = "running" /\ down[s] # <<>>
    BY <1>5 DEF ReceiveAssignment
  <2>2. Head(down[s]) # Ack /\ Acceptable(applied[w], Head(down[s]))
    <3>1. Head(down[s]) = down[s][1] /\ 1 \in 1..Len(down[s])
      BY <1>2, <2>1, HeadFacts DEF IInv
    <3>2. down[s][1] # Ack
      BY <1>2, <2>1, <3>1 DEF IInv, Acknowledgments
    <3>3. CASE applied[w] = None
      BY <3>1, <3>2, <3>3 DEF Acceptable
    <3>4. CASE applied[w] # None
      <4>1. Known(s, applied[w]) /\ Known(s, down[s][1]) /\ applied[w].revision < down[s][1].revision
        BY <1>2, <3>1, <3>2, <3>4 DEF IInv, Assignments
      <4> QED BY <3>1, <3>2, <4>1 DEF Known, Acceptable
    <3> QED BY <3>3, <3>4
  <2>3. Applies(w, s)
    BY <1>5, <2>1, <2>2 DEF ReceiveAssignment, Applies
  <2> QED BY <1>1, <1>2, <1>3, <2>3
<1>6. CASE ReceiveStatus(w)
  <2>1. s \notin broken
    BY <1>6 DEF ReceiveStatus
  <2>2. handler[s] # "refused"
    BY <1>2, <2>1 DEF IInv, Heartbeats
  <2>3. Ends(w, s)
    BY <1>6, <2>2 DEF ReceiveStatus, EndSession, Ends
  <2> QED BY <1>1, <1>2, <1>3, <2>3
<1>7. CASE LoseSession(w)
  <2>1. Ends(w, s)
    BY <1>7 DEF LoseSession, EndSession, Ends
  <2> QED BY <1>1, <1>2, <1>3, <2>1
<1> QED BY <1>4, <1>5, <1>6, <1>7 DEF Receive

----------------------------------------------------------------------------
(* The assignment that is sent is well-formed. *)
LEMMA NewAssignment ==
  ASSUME TypeOK, NEW s \in Sessions, SendAssignment(s)
  PROVE  worker(s) \in members /\ assignmentFor(worker(s)) \in Assignment
<1>1. worker(s) \in members
  BY DEF SendAssignment, NextRecipient, members, TypeOK, CoordinatorTypes
<1> QED
  BY <1>1, SlicesAreSlices DEF assignmentFor, Assignment, TypeOK, CoordinatorTypes

(* Each part of the invariant is kept by every step. *)

LEMMA TypesKept == ASSUME IInv, [Next]_vars PROVE TypeOK'
<1> USE DEF IInv, TypeOK
<1>1. ASSUME NEW s \in Sessions, Handler(s) \/ Break(s) PROVE TypeOK'
  <2>1. ClientTypes' /\ CoordinatorTypes'
    BY <1>1 DEF Handler, AddSession, SendAck, membershipChanged, notify, recordHeartbeat, StreamEnds,
                Leave, Break, coordVars, clientVars, ClientTypes, CoordinatorTypes
  <2>2. StreamTypes'
    <3>1. CASE SendAck(s)
      BY <3>1 DEF SendAck, Send, StreamTypes
    <3>2. CASE recordHeartbeat(s)
      <4>1. /\ up' = [up EXCEPT ![s] = Tail(@)] /\ up[s] # <<>>
            /\ UNCHANGED <<broken, down>>
        BY <3>2 DEF recordHeartbeat
      <4> QED BY <4>1, UpFacts DEF StreamTypes
    <3>3. CASE ~SendAck(s) /\ ~recordHeartbeat(s)
      BY <1>1, <3>3 DEF Handler, AddSession, membershipChanged, StreamEnds, Leave, Break, StreamTypes
    <3> QED BY <3>1, <3>2, <3>3
  <2>3. handler' \in [Sessions -> {"none", "accepted", "added", "acked", "serving", "refusing",
                                   "leaving", "exists", "refused", "ended"}]
    BY <1>1 DEF Handler, AddSession, SendAck, membershipChanged, recordHeartbeat, StreamEnds,
                Leave, Break, registryVars, RegistryTypes
  <2>4. /\ sessions' \in [Workers -> Sessions \cup {None}]
        /\ \A w \in Workers : sessions'[w] # None => worker(sessions'[w]) = w
    <3>1. CASE AddSession(s)
      BY <3>1, SessionFacts DEF AddSession, RegistryTypes
    <3>2. CASE Leave(s)
      BY <3>2, SessionFacts DEF Leave, removeSession, RegistryTypes
    <3>3. CASE ~AddSession(s) /\ ~Leave(s)
      BY <1>1, <3>3 DEF Handler, SendAck, membershipChanged, recordHeartbeat, StreamEnds, Break,
                        registryVars, RegistryTypes
    <3> QED BY <3>1, <3>2, <3>3
  <2>5. heartbeat' \in [Sessions -> 0..MaxHeartbeats]
    <3>1. CASE recordHeartbeat(s)
      <4>1. /\ heartbeat' = heartbeat \/ heartbeat' = [heartbeat EXCEPT ![s] = Head(up[s])]
            /\ up[s] # <<>>
        BY <3>1 DEF recordHeartbeat
      <4>2. Head(up[s]) \in 0..MaxHeartbeats
        BY <4>1, UpFacts, ControlPlaneAssumption
      <4> QED BY <4>1, <4>2 DEF RegistryTypes
    <3>2. CASE ~recordHeartbeat(s)
      BY <1>1, <3>2 DEF Handler, AddSession, SendAck, membershipChanged, StreamEnds, Leave, Break,
                        registryVars, RegistryTypes
    <3> QED BY <3>1, <3>2
  <2> QED BY <2>1, <2>2, <2>3, <2>4, <2>5 DEF RegistryTypes
<1>2. CASE CoordinatorWakes \/ TakeSnapshot \/ PlanRevision
  <2>1. RegistryTypes' /\ StreamTypes' /\ ClientTypes'
    BY <1>2 DEF CoordinatorWakes, TakeSnapshot, PlanRevision, registryVars, clientVars,
                RegistryTypes, StreamTypes, ClientTypes
  <2>2. CASE CoordinatorWakes
    BY <2>1, <2>2 DEF CoordinatorWakes, CoordinatorTypes
  <2>4. CASE PlanRevision
    <3>1. PlannedStart \in Nat /\ PlannedStart + Duration \in Nat
      BY ControlPlaneAssumption DEF PlannedStart, CoordinatorTypes, ClientTypes
    <3> QED BY <2>1, <2>4, <3>1 DEF PlanRevision, CoordinatorTypes
  <2>3. CASE TakeSnapshot
    <3>1. activeSessions \subseteq Sessions /\ todo = {}
      BY <2>3 DEF TakeSnapshot, activeSessions, RegistryTypes, Planned
    <3>2. pc' \in {"idle", "planning"} /\ pc = "woken" /\ batch' = activeSessions
          /\ UNCHANGED <<todo, revision, startsAt, deadline, recorded, changed>>
      BY <2>3 DEF TakeSnapshot
    <3> QED BY <2>1, <3>1, <3>2 DEF CoordinatorTypes
  <2> QED BY <1>2, <2>2, <2>3, <2>4
<1>3. CASE RecordAssignments
  <2>1. RegistryTypes' /\ StreamTypes' /\ ClientTypes'
    BY <1>3 DEF RecordAssignments, registryVars, clientVars, RegistryTypes, StreamTypes, ClientTypes
  <2>2. DOMAIN recorded' = 1..revision
    BY <1>3 DEF RecordAssignments, Recorded, CoordinatorTypes, Planned
  <2> QED BY <1>3, <2>1, <2>2 DEF RecordAssignments, CoordinatorTypes
<1>4. ASSUME NEW s \in Sessions, SendAssignment(s) PROVE TypeOK'
  <2>1. ClientTypes' /\ CoordinatorTypes'
    BY <1>4 DEF SendAssignment, Unsent, clientVars, ClientTypes, CoordinatorTypes
  <2>2. RegistryTypes'
    <3>1. sessions' \in {sessions, removeSession(sessions, s)} /\ UNCHANGED <<handler, heartbeat>>
      BY <1>4 DEF SendAssignment
    <3> QED BY <3>1, SessionFacts DEF RegistryTypes, removeSession
  <2>3. StreamTypes'
    <3>2. assignmentFor(worker(s)) \in Assignment
      BY <1>4, NewAssignment
    <3>3. broken' = broken /\ up' = up
          /\ (down' = down \/ down' = [down EXCEPT ![s] = Append(@, assignmentFor(worker(s)))])
      BY <1>4 DEF SendAssignment, Send
    <3>4. Append(down[s], assignmentFor(worker(s))) \in Seq(Assignment \cup {Ack})
      BY <3>2 DEF StreamTypes
    <3> QED BY <3>3, <3>4 DEF StreamTypes
  <2> QED BY <2>1, <2>2, <2>3
<1>5. ASSUME NEW w \in Workers, Dial(w) PROVE TypeOK'
  <2>1. RegistryTypes'
    BY <1>5, SessionFacts, ControlPlaneAssumption DEF Dial, RegistryTypes, ClientTypes
  <2> QED BY <1>5, <2>1, ControlPlaneAssumption
          DEF Dial, coordVars, StreamTypes, ClientTypes, CoordinatorTypes
<1>6. ASSUME NEW w \in Workers, SendHeartbeat(w) PROVE TypeOK'
  <2>1. RegistryTypes' /\ CoordinatorTypes' /\ ClientTypes'
    BY <1>6, ControlPlaneAssumption
    DEF SendHeartbeat, registryVars, coordVars, RegistryTypes, CoordinatorTypes, ClientTypes
  <2>2. sent'[w] \in 1..MaxHeartbeats
    BY <1>6, ControlPlaneAssumption DEF SendHeartbeat, ClientTypes
  <2>3. StreamTypes'
    <3>1. up' = [up EXCEPT ![current(w)] = Append(@, sent'[w])] /\ UNCHANGED <<broken, down>>
      BY <1>6 DEF SendHeartbeat
    <3>2. current(w) \in Sessions => Append(up[current(w)], sent'[w]) \in Seq(1..MaxHeartbeats)
      BY <2>2 DEF StreamTypes
    <3> QED BY <3>1, <3>2 DEF StreamTypes
  <2> QED BY <2>1, <2>3
<1>7. ASSUME NEW w \in Workers, Receive(w) \/ LoseSession(w) PROVE TypeOK'
  <2>1. PICK s \in Sessions :
          /\ worker(s) = w /\ Current(s) /\ Connected(w)
          /\ TakesAck(w, s) \/ Applies(w, s) \/ Ends(w, s)
          /\ UNCHANGED <<up, changed, attempt, clock, registryVars, coordVars>>
    BY <1>7, ReceiveCases
  <2>2. RegistryTypes' /\ CoordinatorTypes'
    BY <2>1 DEF registryVars, coordVars, RegistryTypes, CoordinatorTypes
  <2>3. CASE TakesAck(w, s)
    <3>1. StreamTypes'
      BY <2>1, <2>3, HeadFacts DEF TakesAck, StreamTypes
    <3>2. ClientTypes'
      BY <2>1, <2>3 DEF TakesAck, ClientTypes
    <3> QED BY <2>2, <3>1, <3>2
  <2>4. CASE Applies(w, s)
    <3>1. StreamTypes'
      BY <2>1, <2>4, HeadFacts DEF Applies, StreamTypes
    <3>2. Head(down[s]) \in Assignment
      BY <2>4, HeadFacts DEF Applies
    <3>3. ClientTypes'
      BY <2>1, <2>4, <3>2 DEF Applies, ClientTypes
    <3> QED BY <2>2, <3>1, <3>3
  <2>5. CASE Ends(w, s)
    <3>1. StreamTypes'
      BY <2>1, <2>5 DEF Ends, StreamTypes
    <3>2. ClientTypes'
      BY <2>1, <2>5, ControlPlaneAssumption DEF Ends, ClientTypes
    <3> QED BY <2>2, <3>1, <3>2
  <2> QED BY <2>1, <2>3, <2>4, <2>5
<1>8. CASE Tick \/ UNCHANGED vars
  BY <1>8, ControlPlaneAssumption DEF Tick, vars, registryVars, coordVars, clientVars, RegistryTypes,
     StreamTypes, CoordinatorTypes, ClientTypes
<1> QED
  BY <1>1, <1>2, <1>3, <1>4, <1>5, <1>6, <1>7, <1>8 DEF Next, Coordinator, Client

LEMMA LiveKept == ASSUME IInv, [Next]_vars PROVE LiveSessionRegistered'
<1> USE DEF IInv, LiveSessionRegistered, Registered
<1>1. ASSUME NEW s \in Sessions, AddSession(s) PROVE LiveSessionRegistered'
  <2>1. CASE Free(worker(s))
    <3>1. /\ sessions' = [sessions EXCEPT ![worker(s)] = s] /\ broken' = broken
          /\ handler' = [handler EXCEPT ![s] = "added"]
      BY <1>1, <2>1 DEF AddSession
    <3>2. \A t \in Sessions : handler[t] \in Registered /\ t \notin broken =>
            worker(t) # worker(s)
      BY <2>1, SessionFacts DEF Free
    <3> QED BY <3>1, <3>2, SessionFacts DEF TypeOK, RegistryTypes
  <2>2. CASE ~Free(worker(s))
    BY <1>1, <2>2 DEF AddSession, TypeOK, RegistryTypes
  <2> QED BY <2>1, <2>2
<1>2. ASSUME NEW s \in Sessions, Leave(s) PROVE LiveSessionRegistered'
  <2>1. /\ sessions' = removeSession(sessions, s) /\ broken' = broken
        /\ \E next \in {"ended", "refused"} : handler' = [handler EXCEPT ![s] = next]
    BY <1>2 DEF Leave
  <2> QED BY <2>1, SessionFacts DEF TypeOK, RegistryTypes, removeSession
<1>3. ASSUME NEW s \in Sessions,
             SendAck(s) \/ membershipChanged(s) \/ recordHeartbeat(s) \/ StreamEnds(s) \/ Break(s)
      PROVE  LiveSessionRegistered'
  BY <1>3 DEF SendAck, membershipChanged, recordHeartbeat, StreamEnds, Break, registryVars,
              TypeOK, RegistryTypes
<1>4. ASSUME NEW s \in Sessions, SendAssignment(s) PROVE LiveSessionRegistered'
  <2>1. /\ UNCHANGED <<handler, broken>>
        /\ sessions' = sessions \/ (s \in broken /\ sessions' = removeSession(sessions, s))
    BY <1>4 DEF SendAssignment
  <2> QED BY <2>1, SessionFacts DEF TypeOK, RegistryTypes, removeSession
<1>5. ASSUME NEW w \in Workers, Dial(w) PROVE LiveSessionRegistered'
  BY <1>5 DEF Dial, TypeOK, RegistryTypes
<1>6. ASSUME NEW w \in Workers, Receive(w) \/ LoseSession(w) PROVE LiveSessionRegistered'
  <2>1. UNCHANGED registryVars /\ \E s \in Sessions : TakesAck(w, s) \/ Applies(w, s) \/ Ends(w, s)
    BY <1>6, ReceiveCases
  <2> QED BY <2>1 DEF registryVars, TakesAck, Applies, Ends
<1>7. CASE \/ CoordinatorWakes \/ TakeSnapshot \/ PlanRevision \/ RecordAssignments \/ Tick
           \/ (\E w \in Workers : SendHeartbeat(w)) \/ UNCHANGED vars
  BY <1>7 DEF CoordinatorWakes, TakeSnapshot, PlanRevision, RecordAssignments, Tick, SendHeartbeat,
              vars, registryVars
<1> QED
  BY <1>1, <1>2, <1>3, <1>4, <1>5, <1>6, <1>7 DEF Next, Handler, Coordinator, Client

LEMMA ConnectionsKept == ASSUME IInv, TypeOK', [Next]_vars PROVE Connections'
<1> USE DEF IInv, Connections, Connected, Current
<1>1. ASSUME NEW s \in Sessions, AddSession(s) PROVE Connections'
  <2>1. /\ \E next \in {"added", "exists"} : handler' = [handler EXCEPT ![s] = next]
        /\ sessions' = sessions \/ sessions' = [sessions EXCEPT ![worker(s)] = s]
        /\ handler[s] = "accepted"
        /\ UNCHANGED <<heartbeat, broken, down, up, batch, attempt, client, applied, sent>>
    BY <1>1 DEF AddSession, coordVars, clientVars
  <2> QED BY <2>1, SessionFacts DEF TypeOK, RegistryTypes, CoordinatorTypes
<1>2. ASSUME NEW s \in Sessions,
             SendAck(s) \/ membershipChanged(s) \/ recordHeartbeat(s) \/ StreamEnds(s) \/ Leave(s)
      PROVE  Connections'
  <2>1. /\ handler[s] # "none" /\ \E next : next # "none" /\ handler' = [handler EXCEPT ![s] = next]
        /\ sessions' \in {sessions, removeSession(sessions, s)}
        /\ UNCHANGED <<broken, batch, attempt, client, applied, sent>>
    BY <1>2 DEF SendAck, membershipChanged, recordHeartbeat, StreamEnds, Leave, registryVars,
                coordVars, clientVars, TypeOK, RegistryTypes
  <2>2. \A t \in Sessions : t # s =>
          down'[t] = down[t] /\ up'[t] = up[t] /\ heartbeat'[t] = heartbeat[t]
    BY <1>2 DEF SendAck, Send, membershipChanged, recordHeartbeat, StreamEnds, Leave, registryVars,
                TypeOK, RegistryTypes, StreamTypes
  <2>3. \A t \in Sessions : handler'[t] = "none" <=> handler[t] = "none"
    BY <2>1 DEF TypeOK, RegistryTypes
  <2>4. \A w \in Workers : sessions'[w] \in {sessions[w], None}
    BY <2>1 DEF removeSession, TypeOK, RegistryTypes
  <2>5. \A t \in Sessions : handler[t] = "none" => t # s
    BY <2>1
  <2>6. \A t \in Sessions : handler'[t] = "none" =>
          t \notin broken' /\ down'[t] = <<>> /\ up'[t] = <<>> /\ heartbeat'[t] = 0
    BY <2>1, <2>2, <2>3, <2>5
  <2>7. \A w \in Workers : sessions'[w] # None => handler'[sessions'[w]] # "none"
    BY <2>3, <2>4 DEF TypeOK, RegistryTypes
  <2>8. \A t \in batch' : handler'[t] # "none"
    BY <2>1, <2>3 DEF TypeOK, CoordinatorTypes
  <2> QED
    BY <2>1, <2>3, <2>6, <2>7, <2>8
<1>3. ASSUME NEW s \in Sessions, Break(s) PROVE Connections'
  BY <1>3 DEF Break, registryVars, coordVars, clientVars
<1>4. CASE CoordinatorWakes \/ TakeSnapshot \/ PlanRevision \/ RecordAssignments
  BY <1>4 DEF CoordinatorWakes, TakeSnapshot, activeSessions, PlanRevision, RecordAssignments,
              registryVars, clientVars
<1>5. ASSUME NEW s \in Sessions, SendAssignment(s) PROVE Connections'
  <2>1. s \in batch /\ handler[s] # "none"
    BY <1>5 DEF SendAssignment, NextRecipient, TypeOK, CoordinatorTypes
  <2>2. /\ \A t \in Sessions : t # s => down'[t] = down[t]
        /\ sessions' \in {sessions, removeSession(sessions, s)}
        /\ UNCHANGED <<heartbeat, handler, broken, up, batch, attempt, client, applied, sent>>
    BY <1>5 DEF SendAssignment, Send, clientVars, TypeOK, StreamTypes
  <2> QED BY <2>1, <2>2, SessionFacts DEF removeSession, TypeOK, RegistryTypes
<1>6. ASSUME NEW w \in Workers, Dial(w) PROVE Connections'
  BY <1>6, SessionFacts, ControlPlaneAssumption
  DEF Dial, coordVars, TypeOK, RegistryTypes, ClientTypes, CoordinatorTypes
<1>7. ASSUME NEW w \in Workers, SendHeartbeat(w) PROVE Connections'
  <2>1. current(w) \in Sessions /\ worker(current(w)) = w /\ turn(current(w)) = attempt[w]
    BY <1>7, CurrentFacts DEF SendHeartbeat
  <2>2. handler[current(w)] # "none"
    BY <2>1, SessionFacts DEF TypeOK, ClientTypes
  <2> QED BY <1>7, <2>1, <2>2
          DEF SendHeartbeat, registryVars, coordVars, TypeOK, StreamTypes, ClientTypes
<1>8. ASSUME NEW w \in Workers, Receive(w) \/ LoseSession(w) PROVE Connections'
  <2>1. PICK s \in Sessions :
          /\ worker(s) = w /\ Current(s) /\ Connected(w)
          /\ TakesAck(w, s) \/ Applies(w, s) \/ Ends(w, s)
          /\ UNCHANGED <<up, changed, attempt, clock, registryVars, coordVars>>
    BY <1>8, ReceiveCases
  <2>2. UNCHANGED <<handler, sessions, heartbeat, batch>> /\ handler[s] # "none"
    BY <2>1, SessionFacts DEF registryVars, coordVars, TypeOK, ClientTypes
  <2>3. CASE TakesAck(w, s)
    BY <2>1, <2>2, <2>3 DEF TakesAck, TypeOK, ClientTypes, StreamTypes
  <2>4. CASE Applies(w, s)
    BY <2>1, <2>2, <2>4 DEF Applies, TypeOK, ClientTypes, StreamTypes
  <2>5. CASE Ends(w, s)
    BY <2>1, <2>2, <2>5, SessionFacts DEF Ends, TypeOK, ClientTypes, StreamTypes
  <2> QED BY <2>1, <2>3, <2>4, <2>5
<1>9. CASE Tick \/ UNCHANGED vars
  BY <1>9 DEF Tick, vars, registryVars, coordVars, clientVars
<1> QED
  BY <1>1, <1>2, <1>3, <1>4, <1>5, <1>6, <1>7, <1>8, <1>9 DEF Next, Handler, Coordinator, Client

LEMMA HeartbeatsKept == ASSUME IInv, TypeOK', [Next]_vars PROVE Heartbeats'
<1> USE DEF IInv, Heartbeats, Connected, Current
<1>1. ASSUME NEW s \in Sessions, recordHeartbeat(s) PROVE Heartbeats'
  <2>1. /\ handler[s] = "serving" /\ up[s] # <<>> /\ up' = [up EXCEPT ![s] = Tail(@)]
        /\ UNCHANGED <<broken, attempt, client, sent>>
    BY <1>1 DEF recordHeartbeat, clientVars
  <2>2. /\ up'[s] = Tail(up[s]) /\ \A t \in Sessions : t # s => up'[t] = up[t]
        /\ \A i \in 1..Len(up'[s]) :
             i + 1 \in 1..Len(up[s]) /\ up'[s][i] = up[s][i + 1] /\ up[s][1] < up'[s][i]
    BY <2>1, UpFacts DEF TypeOK, StreamTypes
  <2>3. CASE InSequence(s)
    <3>1. heartbeat' = [heartbeat EXCEPT ![s] = up[s][1]] /\ handler' = handler
      BY <1>1, <2>1, <2>3, UpFacts DEF recordHeartbeat
    <3>2. \A i \in 1..Len(up'[s]) : /\ up'[s][i] > heartbeat'[s]
                                    /\ \A j \in 1..Len(up'[s]) : j < i => up'[s][j] < up'[s][i]
      <4>1. \A i, j \in 1..Len(up'[s]) : j < i => up[s][j + 1] < up[s][i + 1]
        BY <2>2
      <4> QED BY <2>2, <3>1, <4>1 DEF TypeOK, RegistryTypes
    <3>3. Current(s) /\ Connected(worker(s)) => up[s][1] <= sent[worker(s)]
      BY <2>1, UpFacts
    <3>4. \A t \in Sessions : t # s => heartbeat'[t] = heartbeat[t]
      BY <3>1 DEF TypeOK, RegistryTypes
    <3>5. heartbeat'[s] = up[s][1]
      BY <3>1 DEF TypeOK, RegistryTypes
    <3> QED BY <2>1, <2>2, <3>1, <3>2, <3>3, <3>4, <3>5
  <2>4. CASE ~InSequence(s)
    <3>1. s \in broken
      <4>1. up[s][1] > heartbeat[s] /\ Head(up[s]) = up[s][1]
        BY <2>1, UpFacts
      <4>2. sessions[worker(s)] # s
        BY <2>4, <4>1 DEF InSequence
      <4> QED BY <2>1, <4>2 DEF LiveSessionRegistered, Registered
    <3>2. handler' = [handler EXCEPT ![s] = "refusing"] /\ heartbeat' = heartbeat
      BY <1>1, <2>4 DEF recordHeartbeat
    <3>3. \A i \in 1..Len(up'[s]) : /\ up'[s][i] > heartbeat'[s]
                                    /\ \A j \in 1..Len(up'[s]) : j < i => up'[s][j] < up'[s][i]
      <4>1. \A i, j \in 1..Len(up'[s]) : j < i => up[s][j + 1] < up[s][i + 1]
        BY <2>2
      <4> QED BY <2>2, <3>2, <4>1
    <3>4. \A i \in 1..Len(up'[s]) : Current(s) /\ Connected(worker(s)) => up'[s][i] <= sent[worker(s)]
      BY <2>2
    <3>5. \A t \in Sessions : handler'[t] \in {"refusing", "refused"} => t \in broken
      BY <3>1, <3>2 DEF TypeOK, RegistryTypes
    <3> QED BY <2>1, <2>2, <3>2, <3>3, <3>4, <3>5
  <2> QED BY <2>3, <2>4
<1>2. ASSUME NEW s \in Sessions,
             \/ AddSession(s) \/ SendAck(s) \/ membershipChanged(s) \/ StreamEnds(s) \/ Leave(s)
             \/ Break(s) \/ SendAssignment(s)
      PROVE  Heartbeats'
  BY <1>2 DEF AddSession, SendAck, membershipChanged, StreamEnds, Leave, Break, SendAssignment,
              registryVars, clientVars, TypeOK, RegistryTypes
<1>3. ASSUME NEW w \in Workers, Dial(w) PROVE Heartbeats'
  <2>1. \A s \in Sessions : Current(s)' /\ worker(s) = w =>
          heartbeat[s] = 0 /\ up[s] = <<>> /\ sent[w] = 0
    BY <1>3, SessionFacts DEF Dial, Connections, TypeOK, ClientTypes
  <2> QED BY <1>3, <2>1 DEF Dial, TypeOK, RegistryTypes, ClientTypes
<1>4. ASSUME NEW w \in Workers, SendHeartbeat(w) PROVE Heartbeats'
  <2> DEFINE s == current(w)
  <2>1. s \in Sessions /\ worker(s) = w /\ turn(s) = attempt[w]
    BY <1>4, CurrentFacts DEF SendHeartbeat, Connections
  <2>2. /\ sent' = [sent EXCEPT ![w] = @ + 1] /\ up' = [up EXCEPT ![s] = Append(@, sent'[w])]
        /\ client[w] = "running"
        /\ UNCHANGED <<handler, heartbeat, broken, client, attempt>>
    BY <1>4 DEF SendHeartbeat, registryVars
  <2> HIDE DEF s
  <2>3. /\ heartbeat[s] <= sent[w] /\ sent'[w] = sent[w] + 1
        /\ \A i \in 1..Len(up[s]) : up[s][i] <= sent[w]
    BY <2>1, <2>2 DEF TypeOK, ClientTypes
  <2>4. /\ up'[s] = Append(up[s], sent'[w]) /\ up[s] \in Seq(Nat) /\ sent[w] \in Nat
        /\ \A t \in Sessions : t # s => up'[t] = up[t]
        /\ \A i \in 1..Len(up[s]) : up[s][i] \in Nat
    BY <2>1, <2>2, ControlPlaneAssumption DEF TypeOK, StreamTypes, ClientTypes
  <2>5. /\ Len(up'[s]) = Len(up[s]) + 1 /\ up'[s][Len(up[s]) + 1] = sent[w] + 1
        /\ \A i \in 1..Len(up[s]) : up'[s][i] = up[s][i]
    BY <2>3, <2>4
  <2>6. \A i \in 1..Len(up'[s]) : /\ up'[s][i] > heartbeat'[s] /\ up'[s][i] <= sent'[w]
                                  /\ \A j \in 1..Len(up'[s]) : j < i => up'[s][j] < up'[s][i]
    BY <2>1, <2>2, <2>3, <2>4, <2>5, ControlPlaneAssumption DEF TypeOK, RegistryTypes
  <2>7. \A t \in Sessions : Current(t) /\ worker(t) = w => t = s
    BY <2>1, SessionFacts
  <2>8. \A v \in Workers : v # w => sent'[v] = sent[v]
    BY <2>2 DEF TypeOK, ClientTypes
  <2>9. heartbeat[s] <= sent'[w]
    BY <2>1, <2>3, <2>4, ControlPlaneAssumption DEF TypeOK, RegistryTypes
  <2> QED BY <2>1, <2>2, <2>4, <2>6, <2>7, <2>8, <2>9, SessionFacts
<1>5. ASSUME NEW w \in Workers, Receive(w) \/ LoseSession(w) PROVE Heartbeats'
  <2>1. PICK s \in Sessions :
          /\ worker(s) = w /\ Current(s) /\ Connected(w)
          /\ TakesAck(w, s) \/ Applies(w, s) \/ Ends(w, s)
          /\ UNCHANGED <<up, changed, attempt, clock, registryVars, coordVars>>
    BY <1>5, ReceiveCases
  <2>2. broken \subseteq broken' /\ UNCHANGED <<handler, heartbeat>>
    BY <2>1 DEF TakesAck, Applies, Ends, registryVars
  <2>3. \A v \in Workers : Connected(v)' => Connected(v) /\ sent'[v] = sent[v]
    BY <2>1 DEF TakesAck, Applies, Ends, TypeOK, ClientTypes
  <2> QED BY <2>1, <2>2, <2>3, SessionFacts
<1>6. CASE \/ CoordinatorWakes \/ TakeSnapshot \/ PlanRevision \/ RecordAssignments \/ Tick
           \/ UNCHANGED vars
  BY <1>6 DEF CoordinatorWakes, TakeSnapshot, PlanRevision, RecordAssignments, Tick, vars,
              registryVars, clientVars
<1> QED
  BY <1>1, <1>2, <1>3, <1>4, <1>5, <1>6 DEF Next, Handler, Coordinator, Client

LEMMA AcknowledgmentsKept == ASSUME IInv, TypeOK', [Next]_vars PROVE Acknowledgments'
<1> USE DEF IInv, Acknowledgments, Unacknowledged, Current
<1>1. ASSUME NEW s \in Sessions, SendAck(s) PROVE Acknowledgments'
  <2>1. /\ handler[s] = "added" /\ handler' = [handler EXCEPT ![s] = "acked"]
        /\ down' = down \/ down' = [down EXCEPT ![s] = Append(@, Ack)]
        /\ UNCHANGED <<attempt, client>>
    BY <1>1 DEF SendAck, Send, clientVars
  <2>2. ~(Current(s) /\ client[worker(s)] = "running") /\ \A i \in 1..Len(down[s]) : down[s][i] # Ack
    BY <2>1
  <2>3. \A t \in Sessions : t # s => handler'[t] = handler[t] /\ down'[t] = down[t]
    BY <2>1 DEF TypeOK, RegistryTypes, StreamTypes
  <2>4. handler'[s] = "acked"
    BY <2>1 DEF TypeOK, RegistryTypes
  <2>5. \A i \in 1..Len(down'[s]) : down'[s][i] = Ack => i = Len(down[s]) + 1
    <3>1. CASE down' = down
      BY <2>2, <3>1
    <3>2. CASE down' = [down EXCEPT ![s] = Append(@, Ack)]
      <4> DEFINE n == Len(down[s])
      <4>1. /\ n \in Nat /\ Len(down'[s]) = n + 1
            /\ \A i \in 1..n : down'[s][i] # Ack
        BY <2>2, <3>2, AppendFacts
      <4> HIDE DEF n
      <4>2. \A i \in 1..(n + 1) : i \in 1..n \/ i = n + 1
        BY <4>1
      <4> QED BY <4>1, <4>2 DEF n
    <3> QED BY <2>1, <3>1, <3>2
  <2> QED BY <2>1, <2>2, <2>3, <2>4, <2>5
<1>2. ASSUME NEW s \in Sessions, \/ AddSession(s) \/ membershipChanged(s) \/ recordHeartbeat(s)
                                 \/ StreamEnds(s) \/ Leave(s) \/ Break(s)
      PROVE  Acknowledgments'
  BY <1>2 DEF AddSession, membershipChanged, recordHeartbeat, StreamEnds, Leave, Break, registryVars,
              clientVars, Connections, TypeOK, RegistryTypes
<1>3. ASSUME NEW s \in Sessions, SendAssignment(s) PROVE Acknowledgments'
  <2>1. /\ down' = down \/ down' = [down EXCEPT ![s] = Append(@, assignmentFor(worker(s)))]
        /\ UNCHANGED <<handler, client, attempt>>
    BY <1>3 DEF SendAssignment, Send, clientVars
  <2>2. assignmentFor(worker(s)) # Ack
    BY DEF assignmentFor, Ack
  <2>3. \A t \in Sessions : \A i \in 1..Len(down'[t]) :
          down'[t][i] = Ack => i \in 1..Len(down[t]) /\ down[t][i] = Ack
    BY <1>3, <2>1, <2>2, AppendFacts, NewAssignment
  <2> QED BY <2>1, <2>3
<1>4. ASSUME NEW w \in Workers, Dial(w) PROVE Acknowledgments'
  BY <1>4, SessionFacts DEF Dial, Connections, Connected, TypeOK, RegistryTypes, StreamTypes, ClientTypes
<1>5. ASSUME NEW w \in Workers, Receive(w) \/ LoseSession(w) PROVE Acknowledgments'
  <2>1. PICK s \in Sessions :
          /\ worker(s) = w /\ Current(s) /\ Connected(w)
          /\ TakesAck(w, s) \/ Applies(w, s) \/ Ends(w, s)
          /\ UNCHANGED <<up, changed, attempt, clock, registryVars, coordVars>>
    BY <1>5, ReceiveCases
  <2>2. handler' = handler
    BY <2>1 DEF registryVars
  <2>3. /\ \A t \in Sessions : t # s => down'[t] = down[t]
        /\ \A i \in 1..Len(down'[s]) :
             down[s] # <<>> /\ i + 1 \in 1..Len(down[s]) /\ down'[s][i] = down[s][i + 1]
    BY <2>1, ConsumeFacts
  <2>4. \A t \in Sessions : Current(t) /\ worker(t) = w => t = s
    BY <2>1, SessionFacts
  <2>5. client'[w] = "running" => ~Unacknowledged(s) /\ \A i \in 1..Len(down'[s]) : down'[s][i] # Ack
    <3>1. CASE TakesAck(w, s)
      <4>1. down[s][1] = Ack /\ 1 \in 1..Len(down[s])
        BY <3>1, HeadFacts DEF TakesAck
      <4>2. ~Unacknowledged(s) /\ \A i \in 1..Len(down[s]) : down[s][i] = Ack => i = 1
        BY <4>1
      <4> QED BY <2>3, <4>2
    <3>2. CASE Applies(w, s)
      BY <2>1, <2>3, <3>2 DEF Applies
    <3>3. CASE Ends(w, s)
      BY <3>3 DEF Ends, TypeOK, ClientTypes
    <3> QED BY <2>1, <3>1, <3>2, <3>3
  <2>6. \A v \in Workers : v # w => client'[v] = client[v]
    BY <2>1 DEF TakesAck, Applies, Ends, TypeOK, ClientTypes
  <2>7. \A i, j \in 1..Len(down'[s]) : down'[s][i] = Ack /\ down'[s][j] = Ack => i = j
    <3> SUFFICES ASSUME NEW i \in 1..Len(down'[s]), NEW j \in 1..Len(down'[s]),
                        down'[s][i] = Ack, down'[s][j] = Ack
                 PROVE  i = j
      OBVIOUS
    <3>1. /\ i + 1 \in 1..Len(down[s]) /\ down[s][i + 1] = Ack
          /\ j + 1 \in 1..Len(down[s]) /\ down[s][j + 1] = Ack
      BY <2>3
    <3>2. i + 1 = j + 1
      <4> DEFINE k == i + 1
      <4>1. \A l \in 1..Len(down[s]) : down[s][k] = Ack /\ down[s][l] = Ack => k = l
        BY <3>1
      <4> QED BY <3>1, <4>1
    <3> QED BY <3>2
  <2>8. \A i \in 1..Len(down'[s]) : down'[s][i] = Ack => ~Unacknowledged(s)
    BY <2>3
  <2> QED BY <2>1, <2>2, <2>3, <2>4, <2>5, <2>6, <2>7, <2>8, SessionFacts
<1>6. CASE \/ CoordinatorWakes \/ TakeSnapshot \/ PlanRevision \/ RecordAssignments \/ Tick
           \/ (\E w \in Workers : SendHeartbeat(w)) \/ UNCHANGED vars
  BY <1>6 DEF CoordinatorWakes, TakeSnapshot, PlanRevision, RecordAssignments, Tick, SendHeartbeat,
              vars, registryVars, clientVars
<1> QED
  BY <1>1, <1>2, <1>3, <1>4, <1>5, <1>6 DEF Next, Handler, Coordinator, Client

LEMMA PlannedKept == ASSUME IInv, TypeOK', [Next]_vars PROVE Planned'
<1> USE DEF IInv, Planned
<1>1. CASE PlanRevision
  <2>1. CASE revision = 0 \/ clock < deadline
    <3>1. /\ deadline' = startsAt' + Duration /\ revision' = revision + 1 /\ pc' = "recording"
          /\ todo' = todo /\ pc = "planning"
      BY <1>1, <2>1 DEF PlanRevision
    <3>2. revision' > 0
      BY <3>1 DEF TypeOK, CoordinatorTypes
    <3> QED BY <3>1, <3>2
  <2>2. CASE ~(revision = 0 \/ clock < deadline)
    BY <1>1, <2>2 DEF PlanRevision
  <2> QED BY <2>1, <2>2
<1>2. CASE RecordAssignments
  <2>1. /\ recorded'[revision] = Slices /\ Slices' = Slices
    BY <1>2 DEF RecordAssignments, Recorded, Slices, members, Rank
  <2> QED BY <1>2, <2>1 DEF RecordAssignments
<1>3. ASSUME NEW s \in Sessions, SendAssignment(s) PROVE Planned'
  BY <1>3 DEF SendAssignment, Slices, members, Rank
<1>4. CASE CoordinatorWakes \/ TakeSnapshot
  BY <1>4 DEF CoordinatorWakes, TakeSnapshot
<1>5. CASE UNCHANGED coordVars
  BY <1>5 DEF coordVars, Slices, members, Rank
<1>6. ASSUME NEW w \in Workers, Receive(w) \/ LoseSession(w) PROVE UNCHANGED coordVars
  BY <1>6, ReceiveCases
<1> QED
  BY <1>1, <1>2, <1>3, <1>4, <1>5, <1>6
  DEF Next, Handler, AddSession, SendAck, membershipChanged, recordHeartbeat, StreamEnds, Leave, Break,
      Coordinator, Client, Dial, SendHeartbeat, Tick, vars, coordVars

LEMMA NeverRefusedKept == ASSUME IInv, [Next]_vars PROVE HealthyWorkerNeverRefused'
<1> USE DEF IInv, HealthyWorkerNeverRefused
<1>1. ASSUME NEW w \in Workers, Receive(w) \/ LoseSession(w) PROVE HealthyWorkerNeverRefused'
  <2>1. \E s \in Sessions : TakesAck(w, s) \/ Applies(w, s) \/ Ends(w, s)
    BY <1>1, ReceiveCases
  <2> QED BY <2>1 DEF TakesAck, Applies, Ends, TypeOK, ClientTypes
<1>2. ASSUME NEW w \in Workers, Dial(w) PROVE HealthyWorkerNeverRefused'
  BY <1>2 DEF Dial, TypeOK, ClientTypes
<1> QED
  BY <1>1, <1>2
  DEF Next, Handler, AddSession, SendAck, membershipChanged, recordHeartbeat, StreamEnds, Leave, Break,
      Coordinator, CoordinatorWakes, TakeSnapshot, PlanRevision, RecordAssignments, SendAssignment,
      Client, SendHeartbeat, Tick, vars, clientVars

LEMMA NoticedKept == ASSUME IInv, [Next]_vars PROVE Noticed'
<1> USE DEF IInv, Noticed
<1>1. ASSUME NEW s \in Sessions, Handler(s) \/ Break(s) PROVE Noticed'
  BY <1>1 DEF Handler, AddSession, SendAck, membershipChanged, notify, recordHeartbeat, StreamEnds,
              Leave, Break, registryVars, coordVars, TypeOK, RegistryTypes
<1>2. CASE CoordinatorWakes \/ PlanRevision \/ RecordAssignments
  BY <1>2 DEF CoordinatorWakes, PlanRevision, RecordAssignments, registryVars
<1>7. ASSUME NEW s \in Sessions, SendAssignment(s) PROVE Noticed'
  BY <1>7 DEF SendAssignment
<1>3. CASE TakeSnapshot
  <2>1. \A s \in Sessions : handler[s] = "serving" /\ s \notin broken => s \in activeSessions
    BY SessionFacts DEF activeSessions, LiveSessionRegistered, Registered
  <2> QED BY <1>3, <2>1 DEF TakeSnapshot, registryVars
<1>4. ASSUME NEW w \in Workers, Dial(w) PROVE Noticed'
  BY <1>4 DEF Dial, coordVars, TypeOK, RegistryTypes
<1>5. ASSUME NEW w \in Workers, Receive(w) \/ LoseSession(w) PROVE Noticed'
  <2>1. /\ UNCHANGED <<changed, registryVars, coordVars>>
        /\ \E s \in Sessions : TakesAck(w, s) \/ Applies(w, s) \/ Ends(w, s)
    BY <1>5, ReceiveCases
  <2> QED BY <2>1 DEF TakesAck, Applies, Ends, registryVars, coordVars
<1>6. CASE Tick \/ (\E w \in Workers : SendHeartbeat(w)) \/ UNCHANGED vars
  BY <1>6 DEF Tick, SendHeartbeat, vars, registryVars, coordVars
<1> QED
  BY <1>1, <1>2, <1>3, <1>4, <1>5, <1>6, <1>7 DEF Next, Coordinator, Client

LEMMA AssignmentsKept == ASSUME IInv, TypeOK', [Next]_vars PROVE Assignments'
<1> USE DEF IInv, Assignments, Current, Known
<1>1. ASSUME NEW s \in Sessions, SendAck(s) PROVE Assignments'
  <2>1. /\ down' = down \/ down' = [down EXCEPT ![s] = Append(@, Ack)]
        /\ UNCHANGED <<attempt, applied, todo, revision, startsAt, deadline, recorded>>
    BY <1>1 DEF SendAck, Send, clientVars, coordVars
  <2>2. \A t \in Sessions : \A i \in 1..Len(down'[t]) :
          down'[t][i] # Ack => i \in 1..Len(down[t]) /\ down'[t][i] = down[t][i]
    <3>1. CASE down' = down
      BY <3>1
    <3>2. CASE down' = [down EXCEPT ![s] = Append(@, Ack)]
      BY <3>2, AppendFacts
    <3> QED BY <2>1, <3>1, <3>2
  <2> QED BY <2>1, <2>2
<1>2. ASSUME NEW s \in Sessions, SendAssignment(s) PROVE Assignments'
  <2> DEFINE m == assignmentFor(worker(s))
  <2>1. /\ pc = "sending" /\ s \in todo /\ todo' = todo \ {s}
        /\ down' = down \/ down' = [down EXCEPT ![s] = Append(@, m)]
        /\ UNCHANGED <<attempt, applied, revision, startsAt, deadline, recorded>>
    BY <1>2 DEF SendAssignment, NextRecipient, Unsent, Send, clientVars
  <2>2. m # Ack /\ m \in Assignment /\ m.revision = revision /\ Known(s, m)
    <3>1. worker(s) \in members /\ m \in Assignment
      BY <1>2, NewAssignment
    <3>2. recorded[revision] = Slices /\ revision \in DOMAIN recorded
      BY <2>1 DEF Planned, TypeOK, CoordinatorTypes
    <3>3. worker(s) \in DOMAIN Slices
      BY <3>1 DEF Slices
    <3> QED BY <3>1, <3>2, <3>3, MessageFacts DEF assignmentFor
  <2> HIDE DEF m
  <2>3. CASE down' = down
    BY <2>1, <2>3
  <2>4. CASE down' = [down EXCEPT ![s] = Append(@, m)]
    <3>1. /\ Len(down[s]) \in Nat /\ Len(down'[s]) = Len(down[s]) + 1
          /\ down'[s][Len(down[s]) + 1] = m
          /\ \A i \in 1..Len(down[s]) : down'[s][i] = down[s][i]
          /\ \A t \in Sessions : t # s => down'[t] = down[t]
      BY <2>2, <2>4, AppendFacts
    <3>2. \A i \in 1..Len(down'[s]) : i \in 1..Len(down[s]) \/ i = Len(down[s]) + 1
      BY <3>1
    <3>3. \A i \in 1..Len(down'[s]) : down'[s][i] # Ack =>
            /\ Known(s, down'[s][i])
            /\ \A j \in 1..Len(down'[s]) : j < i /\ down'[s][j] # Ack =>
                 down'[s][j].revision < down'[s][i].revision
      <4>1. \A j \in 1..Len(down[s]) : down[s][j] # Ack => down[s][j].revision < m.revision
        BY <2>1, <2>2
      <4> SUFFICES ASSUME NEW i \in 1..Len(down'[s]), down'[s][i] # Ack
                   PROVE  /\ Known(s, down'[s][i])
                          /\ \A j \in 1..Len(down'[s]) : j < i /\ down'[s][j] # Ack =>
                               down'[s][j].revision < down'[s][i].revision
        OBVIOUS
      <4>2. \A j \in 1..Len(down'[s]) : j < i => j \in 1..Len(down[s]) /\ down'[s][j] = down[s][j]
        BY <3>1
      <4>3. CASE i \in 1..Len(down[s])
        BY <3>1, <4>2, <4>3
      <4>4. CASE i = Len(down[s]) + 1
        BY <2>2, <3>1, <4>1, <4>2, <4>4
      <4> QED BY <3>2, <4>3, <4>4
    <3>4. Current(s) /\ applied[worker(s)] # None =>
            /\ Known(s, applied[worker(s)])
            /\ \A i \in 1..Len(down'[s]) : down'[s][i] # Ack =>
                 applied[worker(s)].revision < down'[s][i].revision
      BY <2>1, <2>2, <3>1, <3>2
    <3> QED BY <2>1, <3>1, <3>3, <3>4
  <2> QED BY <2>1, <2>3, <2>4
<1>3. CASE PlanRevision
  <2>1. /\ todo = {} /\ UNCHANGED <<down, attempt, applied, todo, recorded>>
    BY <1>3 DEF PlanRevision, Planned, clientVars
  <2>2. CASE revision = 0
    <3>1. DOMAIN recorded = {}
      BY <1>3, <2>2 DEF PlanRevision, TypeOK, CoordinatorTypes
    <3> QED BY <2>1, <3>1
  <2>3. CASE revision > 0
    <3>1. UNCHANGED <<startsAt, deadline>>
      BY <1>3, <2>3 DEF PlanRevision, PlannedStart, Planned
    <3> QED BY <2>1, <3>1
  <2> QED BY <2>2, <2>3 DEF TypeOK, CoordinatorTypes
<1>4. CASE RecordAssignments
  <2>1. /\ recorded' = Recorded /\ todo' = batch /\ todo = {} /\ DOMAIN recorded = 1..(revision - 1)
        /\ UNCHANGED <<down, attempt, applied, revision, startsAt, deadline>>
    BY <1>4 DEF RecordAssignments, Planned, clientVars, TypeOK, CoordinatorTypes
  <2>2. \A r \in DOMAIN recorded :
          r \in DOMAIN recorded' /\ recorded'[r] = recorded[r] /\ r < revision
    BY <2>1 DEF Recorded, TypeOK, CoordinatorTypes
  <2> QED BY <2>1, <2>2
<1>5. ASSUME NEW w \in Workers, Dial(w) PROVE Assignments'
  BY <1>5, SessionFacts DEF Dial, coordVars, Connections, TypeOK, ClientTypes
<1>6. ASSUME NEW w \in Workers, Receive(w) \/ LoseSession(w) PROVE Assignments'
  <2>1. PICK s \in Sessions :
          /\ worker(s) = w /\ Current(s) /\ Connected(w)
          /\ TakesAck(w, s) \/ Applies(w, s) \/ Ends(w, s)
          /\ UNCHANGED <<up, changed, attempt, clock, registryVars, coordVars>>
    BY <1>6, ReceiveCases
  <2>2. UNCHANGED <<todo, revision, startsAt, deadline, recorded>>
    BY <2>1 DEF coordVars
  <2>3. /\ \A t \in Sessions : t # s => down'[t] = down[t]
        /\ \A i \in 1..Len(down'[s]) :
             down[s] # <<>> /\ i + 1 \in 1..Len(down[s]) /\ down'[s][i] = down[s][i + 1]
    BY <2>1, ConsumeFacts
  <2>4. \A t \in Sessions : Current(t) /\ worker(t) = w => t = s
    BY <2>1, SessionFacts
  <2>5. \A v \in Workers : v # w => applied'[v] = applied[v]
    BY <2>1 DEF TakesAck, Applies, Ends, TypeOK, ClientTypes
  <2>6. \A i \in 1..Len(down'[s]) : down'[s][i] # Ack =>
          /\ Known(s, down'[s][i])
          /\ s \in todo => down'[s][i].revision < revision
          /\ \A j \in 1..Len(down'[s]) : j < i /\ down'[s][j] # Ack =>
               down'[s][j].revision < down'[s][i].revision
    <3> SUFFICES ASSUME NEW i \in 1..Len(down'[s]), down'[s][i] # Ack
                 PROVE  /\ Known(s, down'[s][i])
                        /\ s \in todo => down'[s][i].revision < revision
                        /\ \A j \in 1..Len(down'[s]) : j < i /\ down'[s][j] # Ack =>
                             down'[s][j].revision < down'[s][i].revision
      OBVIOUS
    <3> DEFINE k == i + 1
    <3>1. k \in 1..Len(down[s]) /\ down'[s][i] = down[s][k]
      BY <2>3
    <3>2. \A j \in 1..Len(down'[s]) : j < i => j + 1 < k
      OBVIOUS
    <3> HIDE DEF k
    <3>3. \A j \in 1..Len(down[s]) : j < k /\ down[s][j] # Ack => down[s][j].revision < down[s][k].revision
      BY <3>1
    <3> QED BY <2>3, <3>1, <3>2, <3>3
  <2>7. applied'[w] # None =>
          /\ Known(s, applied'[w])
          /\ s \in todo => applied'[w].revision < revision
          /\ \A i \in 1..Len(down'[s]) : down'[s][i] # Ack =>
               applied'[w].revision < down'[s][i].revision
    <3>1. CASE TakesAck(w, s) \/ Ends(w, s)
      BY <2>1, <3>1 DEF TakesAck, Ends, Connections, TypeOK, ClientTypes
    <3>2. CASE Applies(w, s)
      <4>1. applied'[w] = down[s][1] /\ 1 \in 1..Len(down[s]) /\ down[s][1] # Ack
        BY <3>2, HeadFacts DEF Applies, TypeOK, ClientTypes
      <4>2. \A i \in 1..Len(down'[s]) : 1 < i + 1
        OBVIOUS
      <4> QED BY <2>3, <4>1, <4>2
    <3> QED BY <2>1, <3>1, <3>2
  <2>8. \A t \in Sessions : t # s /\ Current(t) => worker(t) # w
    BY <2>4
  <2>9. UNCHANGED attempt
    BY <2>1
  <2> DEFINE Ordered(t) ==
        /\ \A i \in 1..Len(down[t]) : down[t][i] # Ack =>
             /\ Known(t, down[t][i])
             /\ t \in todo => down[t][i].revision < revision
             /\ \A j \in 1..Len(down[t]) : j < i /\ down[t][j] # Ack =>
                  down[t][j].revision < down[t][i].revision
        /\ Current(t) /\ applied[worker(t)] # None =>
             /\ Known(t, applied[worker(t)])
             /\ t \in todo => applied[worker(t)].revision < revision
             /\ \A i \in 1..Len(down[t]) : down[t][i] # Ack =>
                  applied[worker(t)].revision < down[t][i].revision
  <2>10. Ordered(s)'
    BY <2>1, <2>2, <2>6, <2>7
  <2>11. ASSUME NEW t \in Sessions, t # s PROVE Ordered(t)'
    <3>1. Ordered(t)
      OBVIOUS
    <3> QED BY <2>2, <2>3, <2>5, <2>8, <2>9, <2>11, <3>1, SessionFacts
  <2> QED BY <2>10, <2>11
<1>7. CASE \/ CoordinatorWakes \/ TakeSnapshot \/ Tick \/ UNCHANGED vars
           \/ (\E w \in Workers : SendHeartbeat(w))
           \/ (\E s \in Sessions : \/ AddSession(s) \/ membershipChanged(s) \/ recordHeartbeat(s)
                                   \/ StreamEnds(s) \/ Leave(s) \/ Break(s))
  BY <1>7 DEF CoordinatorWakes, TakeSnapshot, Tick, SendHeartbeat, AddSession, membershipChanged,
              recordHeartbeat, StreamEnds, Leave, Break, vars, coordVars, clientVars
<1> QED
  BY <1>1, <1>2, <1>3, <1>4, <1>5, <1>6, <1>7 DEF Next, Handler, Coordinator, Client

LEMMA LatestReachedKept == ASSUME IInv, TypeOK', [Next]_vars PROVE LatestReached'
<1> USE DEF IInv, LatestReached, Distributed, HasLatest, Current
<1>1. ASSUME NEW s \in Sessions, SendAck(s) PROVE LatestReached'
  <2>1. /\ down' = down \/ down' = [down EXCEPT ![s] = Append(@, Ack)]
        /\ UNCHANGED <<attempt, applied, broken, pc, batch, todo, revision, deadline, clock>>
    BY <1>1 DEF SendAck, Send, clientVars, coordVars
  <2>2. \A t \in Sessions : \A i \in 1..Len(down[t]) : i \in 1..Len(down'[t]) /\ down'[t][i] = down[t][i]
    <3>1. CASE down' = down
      BY <3>1
    <3>2. CASE down' = [down EXCEPT ![s] = Append(@, Ack)]
      BY <3>2, AppendFacts
    <3> QED BY <2>1, <3>1, <3>2
  <2> QED BY <2>1, <2>2 DEF TypeOK, CoordinatorTypes
<1>2. ASSUME NEW s \in Sessions, SendAssignment(s) PROVE LatestReached'
  <2> DEFINE m == assignmentFor(worker(s))
  <2>1. /\ pc = "sending" /\ s \in todo /\ todo' = todo \ {s}
        /\ \/ down' = [down EXCEPT ![s] = Append(@, m)]
           \/ down' = down /\ s \in broken
        /\ UNCHANGED <<attempt, applied, broken, batch, revision>>
    BY <1>2 DEF SendAssignment, NextRecipient, Unsent, Send, clientVars
  <2>2. m # Ack /\ m \in Assignment /\ m.revision = revision
    BY <1>2, NewAssignment, MessageFacts DEF assignmentFor
  <2> HIDE DEF m
  <2>3. \A t \in batch \ todo : t \in Sessions /\ (t \in broken \/ HasLatest(t))
    BY <2>1 DEF TypeOK, CoordinatorTypes
  <2>4. CASE down' = down /\ s \in broken
    BY <2>1, <2>3, <2>4
  <2>5. CASE down' = [down EXCEPT ![s] = Append(@, m)]
    <3>1. /\ Len(down[s]) \in Nat /\ Len(down'[s]) = Len(down[s]) + 1
          /\ down'[s][Len(down[s]) + 1] = m
          /\ \A i \in 1..Len(down[s]) : down'[s][i] = down[s][i]
          /\ \A t \in Sessions : t # s => down'[t] = down[t]
      BY <2>2, <2>5, AppendFacts
    <3>2. HasLatest(s)'
      <4>1. Len(down[s]) + 1 \in 1..Len(down'[s])
        BY <3>1
      <4>2. \E i \in 1..Len(down'[s]) : down'[s][i] # Ack /\ down'[s][i].revision = revision'
        BY <2>1, <2>2, <3>1, <4>1
      <4> QED BY <4>2
    <3>3. \A t \in Sessions : t # s /\ HasLatest(t) => HasLatest(t)'
      BY <2>1, <3>1
    <3> QED BY <2>1, <2>3, <3>2, <3>3
  <2> QED BY <2>1, <2>4, <2>5
<1>3. CASE CoordinatorWakes \/ TakeSnapshot \/ PlanRevision
  <2>1. ~Distributed'
    <3>1. CASE CoordinatorWakes
      BY <3>1 DEF CoordinatorWakes
    <3>2. CASE TakeSnapshot
      <4>1. batch' = activeSessions /\ pc' # "sending"
        BY <3>2 DEF TakeSnapshot
      <4>2. pc' = "idle" => Cardinality(activeSessions) < MinWorkers
        BY <3>2 DEF TakeSnapshot
      <4>3. activeSessions \in SUBSET Sessions
        BY DEF activeSessions, TypeOK, RegistryTypes
      <4>4. IsFiniteSet(Sessions)
        <5>1. IsFiniteSet(1..MaxAttempts) /\ IsFiniteSet(Workers)
          BY FS_Interval, ControlPlaneAssumption
        <5> QED BY <5>1, FS_Product DEF Sessions
      <4>5. Cardinality(activeSessions) \in Nat
        BY <4>3, <4>4, FS_Subset, FS_CardinalityType
      <4> QED BY <4>1, <4>2, <4>5, ControlPlaneAssumption
    <3>3. CASE PlanRevision
      BY <3>3 DEF PlanRevision, TypeOK, CoordinatorTypes, ClientTypes
    <3> QED BY <1>3, <3>1, <3>2, <3>3
  <2> QED BY <2>1
<1>4. CASE RecordAssignments
  BY <1>4 DEF RecordAssignments
<1>5. ASSUME NEW w \in Workers, Dial(w) PROVE LatestReached'
  <2>1. UNCHANGED <<down, applied, broken, pc, batch, todo, revision, deadline, clock>>
    BY <1>5 DEF Dial, coordVars
  <2>2. \A t \in Sessions : HasLatest(t) => t \in broken \/ HasLatest(t)'
    BY <1>5, <2>1 DEF Dial, Connected, Connections, TypeOK, ClientTypes
  <2> QED BY <2>1, <2>2 DEF TypeOK, CoordinatorTypes
<1>6. ASSUME NEW w \in Workers, Receive(w) \/ LoseSession(w) PROVE LatestReached'
  <2>1. PICK s \in Sessions :
          /\ worker(s) = w /\ Current(s) /\ Connected(w)
          /\ TakesAck(w, s) \/ Applies(w, s) \/ Ends(w, s)
          /\ UNCHANGED <<up, changed, attempt, clock, registryVars, coordVars>>
    BY <1>6, ReceiveCases
  <2>2. UNCHANGED <<pc, batch, todo, revision, deadline, clock, attempt>> /\ broken \subseteq broken'
    BY <2>1 DEF coordVars, TakesAck, Applies, Ends
  <2>3. \A t \in Sessions : t # s => down'[t] = down[t]
    BY <2>1, ConsumeFacts
  <2>4. \A t \in Sessions : t # s /\ Current(t) => worker(t) # w
    BY <2>1, SessionFacts
  <2>5. \A v \in Workers : v # w => applied'[v] = applied[v]
    BY <2>1 DEF TakesAck, Applies, Ends, TypeOK, ClientTypes
  <2>6. \A t \in Sessions : t # s /\ HasLatest(t) => HasLatest(t)'
    BY <2>2, <2>3, <2>4, <2>5, SessionFacts
  <2>7. HasLatest(s) => s \in broken' \/ HasLatest(s)'
    <3>1. CASE Ends(w, s)
      BY <3>1 DEF Ends
    <3>2. CASE TakesAck(w, s)
      <4>1. /\ down' = [down EXCEPT ![s] = Tail(@)] /\ down[s] # <<>> /\ down[s][1] = Ack
            /\ applied[w] = None
        BY <3>2, HeadFacts DEF TakesAck, Connections
      <4>2. \A i \in 1..Len(down[s]) :
              i = 1 \/ (i - 1 \in 1..Len(down'[s]) /\ down'[s][i - 1] = down[s][i])
        BY <4>1, RestFacts
      <4> QED BY <2>1, <2>2, <4>1, <4>2
    <3>3. CASE Applies(w, s)
      <4>1. /\ down' = [down EXCEPT ![s] = Tail(@)] /\ down[s] # <<>>
            /\ 1 \in 1..Len(down[s]) /\ down[s][1] # Ack /\ applied'[w] = down[s][1]
        BY <3>3, HeadFacts DEF Applies, TypeOK, ClientTypes
      <4>2. \A i \in 1..Len(down[s]) :
              i = 1 \/ (i - 1 \in 1..Len(down'[s]) /\ down'[s][i - 1] = down[s][i])
        BY <4>1, RestFacts
      <4>3. down[s][1] # None /\ down[s][1].revision <= revision
        <5>1. down[s][1].revision \in DOMAIN recorded
          BY <4>1 DEF Assignments, Known
        <5>2. down[s][1] # None
          BY <4>1, HeadFacts, MessageFacts
        <5> QED BY <5>1, <5>2 DEF TypeOK, CoordinatorTypes
      <4>4. ~(applied[w] # None /\ applied[w].revision = revision)
        <5>1. down[s][1].revision \in Nat /\ revision \in Nat
          BY <4>1, HeadFacts DEF Assignment, TypeOK, CoordinatorTypes
        <5>2. applied[w] # None => applied[w].revision < down[s][1].revision
          BY <2>1, <4>1 DEF Assignments
        <5> QED BY <4>3, <5>1, <5>2
      <4> QED BY <2>1, <2>2, <4>1, <4>2, <4>3, <4>4
    <3> QED BY <2>1, <3>1, <3>2, <3>3
  <2> QED BY <2>2, <2>6, <2>7 DEF TypeOK, CoordinatorTypes
<1>7. CASE \/ UNCHANGED vars \/ (\E w \in Workers : SendHeartbeat(w))
           \/ (\E s \in Sessions : \/ AddSession(s) \/ membershipChanged(s) \/ recordHeartbeat(s)
                                   \/ StreamEnds(s) \/ Leave(s) \/ Break(s))
  <2>1. /\ UNCHANGED <<down, applied, attempt, pc, batch, todo, revision, deadline, clock>>
        /\ broken \subseteq broken'
    BY <1>7 DEF SendHeartbeat, AddSession, membershipChanged,
              recordHeartbeat, StreamEnds, Leave, Break, vars, coordVars, clientVars
  <2> QED BY <2>1
<1>8. CASE Tick
  <2>1. /\ UNCHANGED <<down, applied, attempt, pc, batch, todo, revision, deadline, broken>>
        /\ clock' = clock + 1
    BY <1>8 DEF Tick, coordVars, clientVars
  <2>2. Distributed' => Distributed
    BY <2>1 DEF TypeOK, CoordinatorTypes, ClientTypes
  <2>3. \A t \in Sessions : HasLatest(t)' <=> HasLatest(t)
    BY <2>1
  <2> QED BY <2>1, <2>2, <2>3 DEF TypeOK, CoordinatorTypes
<1> QED
  BY <1>1, <1>2, <1>3, <1>4, <1>5, <1>6, <1>7, <1>8 DEF Next, Handler, Coordinator, Client

----------------------------------------------------------------------------
(* The invariant, and what follows from it. *)

LEMMA InitIInv == Init => IInv
<1> SUFFICES ASSUME Init PROVE IInv
  OBVIOUS
<1> USE DEF Init
<1>1. TypeOK
  <2>1. RegistryTypes
    BY ControlPlaneAssumption DEF RegistryTypes
  <2>2. StreamTypes
    BY DEF StreamTypes
  <2>3. CoordinatorTypes
    <3>1. DOMAIN recorded = 1..(IF pc = "recording" THEN revision - 1 ELSE revision)
      <4>1. DOMAIN recorded = {} /\ 1..0 = {}
        OBVIOUS
      <4>2. (IF pc = "recording" THEN revision - 1 ELSE revision) = 0
        OBVIOUS
      <4> QED BY <4>1, <4>2
    <3>2. /\ changed \in BOOLEAN
          /\ pc \in {"idle", "woken", "planning", "recording", "sending"}
          /\ batch \subseteq Sessions /\ todo \subseteq batch
          /\ revision \in Nat /\ startsAt \in Nat /\ deadline \in Nat
      OBVIOUS
    <3> QED BY <3>1, <3>2 DEF CoordinatorTypes
  <2>4. ClientTypes
    BY ControlPlaneAssumption DEF ClientTypes
  <2> QED BY <2>1, <2>2, <2>3, <2>4 DEF TypeOK
<1>2. LiveSessionRegistered /\ HealthyWorkerNeverRefused /\ Noticed /\ LatestReached
  BY DEF LiveSessionRegistered, Registered, HealthyWorkerNeverRefused, Noticed, LatestReached, Distributed
<1>3. Connections
  BY SessionFacts DEF Connections, Connected, Current
<1>4. Heartbeats /\ Acknowledgments
  BY SessionFacts DEF Heartbeats, Acknowledgments, Connected, Current, Unacknowledged
<1>5. Planned /\ Assignments
  BY SessionFacts DEF Planned, Assignments
<1> QED BY <1>1, <1>2, <1>3, <1>4, <1>5 DEF IInv

LEMMA StepIInv == IInv /\ [Next]_vars => IInv'
<1> SUFFICES ASSUME IInv, [Next]_vars PROVE IInv'
  OBVIOUS
<1>1. TypeOK'
  BY TypesKept
<1> QED
  BY <1>1, LiveKept, ConnectionsKept, HeartbeatsKept, AcknowledgmentsKept, PlannedKept, AssignmentsKept,
     NeverRefusedKept, NoticedKept, LatestReachedKept DEF IInv

(* The control plane's inductive invariant, for every fleet, load, window and *)
(* number of connections.                                                     *)
THEOREM Invariance == Spec => []IInv
<1>1. Init => IInv
  BY InitIInv
<1>2. IInv /\ [Next]_vars => IInv'
  BY StepIInv
<1> QED BY <1>1, <1>2, PTL DEF Spec

LEMMA CaughtUp == IInv => CoordinatorCaughtUp
<1> SUFFICES ASSUME IInv, pc = "idle", ~changed, NEW s \in Sessions,
                    handler[s] = "serving", s \notin broken
             PROVE  /\ s \in batch
                    /\ (Cardinality(batch) >= MinWorkers /\ clock < deadline) =>
                         \E m \in Carried(s) : m.revision = revision
  BY DEF CoordinatorCaughtUp
<1> USE DEF IInv
<1>1. s \in batch
  BY DEF Noticed
<1>2. ASSUME Cardinality(batch) >= MinWorkers, clock < deadline
      PROVE  \E m \in Carried(s) : m.revision = revision
  <2>1. HasLatest(s)
    BY <1>1, <1>2 DEF LatestReached, Distributed, Planned
  <2>2. CASE Current(s) /\ applied[worker(s)] # None /\ applied[worker(s)].revision = revision
    <3>1. s = current(worker(s))
      BY <2>2 DEF current, Current, turn, worker, Sessions
    <3>2. applied[worker(s)] \in Carried(s)
      BY <2>2, <3>1, SessionFacts, MessageFacts DEF Carried, Holds, TypeOK, ClientTypes
    <3> QED BY <2>2, <3>2
  <2>3. ASSUME NEW i \in 1..Len(down[s]), down[s][i] # Ack, down[s][i].revision = revision
        PROVE  \E m \in Carried(s) : m.revision = revision
    <3>1. down[s][i] \in Assignment
      BY <2>3 DEF TypeOK, StreamTypes
    <3>2. down[s][i] \in Carried(s)
      BY <3>1, MessageFacts DEF Carried
    <3> QED BY <2>3, <3>2
  <2> QED BY <2>1, <2>2, <2>3 DEF HasLatest
<1> QED BY <1>1, <1>2

LEMMA KnownWhenDelivered == IInv => RecordedBeforeDelivered
<1> SUFFICES ASSUME IInv, NEW s \in Sessions, NEW m \in Carried(s) PROVE Known(s, m)
  BY DEF RecordedBeforeDelivered, Known
<1> USE DEF IInv, Assignments
<1>1. m # None /\ m # Ack
  BY DEF Carried
<1>2. CASE m = Holds(s)
  <2>1. s = current(worker(s)) /\ m = applied[worker(s)]
    BY <1>1, <1>2 DEF Holds
  <2>2. Current(s)
    BY <2>1 DEF Current, current, turn
  <2> QED BY <1>1, <2>1, <2>2
<1>3. CASE \E i \in 1..Len(down[s]) : m = down[s][i]
  BY <1>1, <1>3
<1> QED BY <1>2, <1>3 DEF Carried

(* The types of server.go's, coordinator.go's and client.go's fields. *)
THEOREM TypeCorrectness == Spec => []TypeOK
<1>1. IInv => TypeOK
  BY DEF IInv
<1> QED BY <1>1, Invariance, PTL

(* removeSession's identity check (server.go): no late removal, of a handler  *)
(* or of the coordinator, evicts a worker's next session.                     *)
THEOREM LiveSessionsStayRegistered == Spec => []LiveSessionRegistered
<1>1. IInv => LiveSessionRegistered
  BY DEF IInv
<1> QED BY <1>1, Invariance, PTL

(* reconcile (coordinator.go) records a revision before it sends it: every    *)
(* assignment a worker holds is one the aggregator knows, slice and all.      *)
THEOREM DeliveredIsRecorded == Spec => []RecordedBeforeDelivered
BY KnownWhenDelivered, Invariance, PTL

(* The capacity-one notification channel loses no membership change.          *)
THEOREM NoChangeLost == Spec => []CoordinatorCaughtUp
BY CaughtUp, Invariance, PTL

(* No worker that follows the protocol is stopped for good by a revision out  *)
(* of order (client.go validateRunTransition) or a heartbeat out of sequence  *)
(* (server.go recordHeartbeat), whatever is lost and however often it dials.  *)
THEOREM HealthyWorkersStay == Spec => []HealthyWorkerNeverRefused
<1>1. IInv => HealthyWorkerNeverRefused
  BY DEF IInv
<1> QED BY <1>1, Invariance, PTL

(* A registry entry passes through "free": a reconnecting worker gets in only *)
(* after its dead session was removed (server.go addSession, removeSession).  *)
THEOREM EntriesAreNotTakenOver == Spec => NoTakeover
<1> DEFINE Guarded == \A w \in Workers : sessions[w] # None /\ sessions'[w] # sessions[w] =>
                        /\ sessions'[w] = None
                        /\ (sessions[w] \in broken \/ handler[sessions[w]] \in {"leaving", "refusing"})
<1>1. TypeOK /\ [Next]_vars => [Guarded]_vars
  <2> SUFFICES ASSUME TypeOK, Next, NEW w \in Workers, sessions[w] # None, sessions'[w] # sessions[w]
               PROVE  /\ sessions'[w] = None
                      /\ (sessions[w] \in broken \/ handler[sessions[w]] \in {"leaving", "refusing"})
    OBVIOUS
  <2>1. ASSUME NEW s \in Sessions, AddSession(s) PROVE FALSE
    BY <2>1 DEF AddSession, Free, TypeOK, RegistryTypes
  <2>2. ASSUME NEW s \in Sessions, sessions' = removeSession(sessions, s)
        PROVE  sessions[w] = s /\ sessions'[w] = None
    BY <2>2 DEF removeSession, TypeOK, RegistryTypes
  <2>3. ASSUME NEW s \in Sessions, Leave(s)
        PROVE  sessions'[w] = None /\ handler[sessions[w]] \in {"leaving", "refusing"}
    BY <2>2, <2>3 DEF Leave
  <2>4. ASSUME NEW s \in Sessions, SendAssignment(s)
        PROVE  sessions'[w] = None /\ sessions[w] \in broken
    BY <2>2, <2>4 DEF SendAssignment
  <2> QED
    BY <2>1, <2>3, <2>4
    DEF Next, Handler, SendAck, membershipChanged, recordHeartbeat, StreamEnds, Break, Coordinator,
        CoordinatorWakes, TakeSnapshot, PlanRevision, RecordAssignments, Client, Dial, Receive,
        ReceiveFirst, ReceiveAssignment, ReceiveStatus, SendHeartbeat, LoseSession, Tick, registryVars
<1> QED BY <1>1, TypeCorrectness, PTL DEF Spec, NoTakeover, Guarded
=============================================================================
