---------------------------- MODULE ControlPlane ----------------------------
(* The worker control stream: the orchestrator's session registry           *)
(* (internal/orchestrator/server.go), the goroutine that turns membership   *)
(* changes into assignment revisions (coordinator.go), and the worker that  *)
(* dials, registers, applies assignments and reconnects (worker/client.go). *)
(*                                                                          *)
(* A session is one stream: <<w, k>> is the k-th connection of worker w.    *)
(* gRPC itself is modelled by two FIFO channels per session, a set of       *)
(* broken sessions, and the status the handler returned.                    *)
EXTENDS Naturals, Sequences, FiniteSets, SplitLoad

CONSTANTS
  Workers,        \* worker IDs; their numeric order is the ID sort order
  MinWorkers,     \* config.Fleet.MinWorkers
  Load,           \* config.Load, as SplitLoad splits it
  LeadTime,       \* AssignmentOptions.LeadTime, in clock ticks
  Duration,       \* config.Load.Duration, in clock ticks
  MaxAttempts,    \* bound: connections one worker makes
  MaxSessions,    \* bound: connections all workers make
  MaxHeartbeats,  \* bound: heartbeats one session sends
  MaxClock        \* bound: clock ticks

ASSUME ControlPlaneAssumption ==
  /\ Workers \subseteq Nat \ {0} /\ IsFiniteSet(Workers)
  /\ MinWorkers \in Nat \ {0}
  /\ Load \in Loads
  /\ LeadTime \in Nat \ {0} /\ Duration \in Nat \ {0}
  /\ MaxAttempts \in Nat /\ MaxSessions \in Nat /\ MaxHeartbeats \in Nat /\ MaxClock \in Nat

Sessions == Workers \X (1..MaxAttempts)
None == <<>>                      \* no session, no assignment
worker(s) == s[1]

Ack == [kind |-> "ack"]
Assignment == [kind : {"assignment"}, revision : Nat, load : Slice,
               startsAt : Nat, deadline : Nat]

VARIABLES
  handler,   \* per session: where its Connect call stands
  sessions,  \* the registry: worker -> its registered session or None
  heartbeat, \* per session: the last heartbeat sequence recorded
  broken,    \* sessions whose stream was cancelled or lost
  down, up,  \* per session: messages sent and not yet received
  changed,   \* the coordinator's capacity-one notification channel
  pc,        \* where the coordinator goroutine stands
  batch,     \* sessions in the coordinator's last membership snapshot
  todo,      \* those of them that reconcile has not sent to yet
  revision, startsAt, deadline,     \* coordinator fields
  recorded,  \* revision -> worker -> slice, in the metrics aggregator
  client,    \* per worker: where its connection loop stands
  attempt,   \* per worker: connections made
  applied,   \* per worker: its session's run controller's current assignment
  sent,      \* per worker: heartbeats its session sent
  clock

registryVars == <<handler, sessions, heartbeat>>
coordVars == <<pc, batch, todo, revision, startsAt, deadline, recorded>>
clientVars == <<client, attempt, applied, sent>>
vars == <<handler, sessions, heartbeat, broken, down, up, changed, pc, batch, todo,
          revision, startsAt, deadline, recorded, client, attempt, applied, sent, clock>>

Init ==
  /\ handler = [s \in Sessions |-> "none"]
  /\ sessions = [w \in Workers |-> None]
  /\ heartbeat = [s \in Sessions |-> 0]
  /\ broken = {}
  /\ down = [s \in Sessions |-> <<>>] /\ up = [s \in Sessions |-> <<>>]
  /\ changed = FALSE
  /\ pc = "idle" /\ batch = {} /\ todo = {}
  /\ revision = 0 /\ startsAt = 0 /\ deadline = 0
  /\ recorded = [r \in {} |-> None]
  /\ client = [w \in Workers |-> "dialing"]
  /\ attempt = [w \in Workers |-> 0]
  /\ applied = [w \in Workers |-> None]
  /\ sent = [w \in Workers |-> 0]
  /\ clock = 0

----------------------------------------------------------------------------
(* Connect, one stream handler per session. *)

Evicting(w) == TRUE                            \* mutant: the newcomer replaces

(* A message put on a stream that is already broken is lost. *)
Send(s, m) == down' = IF s \in broken THEN down ELSE [down EXCEPT ![s] = Append(@, m)]

Free(w) == sessions[w] = None

(* addSession: check and insert under the registry lock.  A refused stream   *)
(* returns before the removal is deferred.                                   *)
AddSession(s) ==
  /\ handler[s] = "accepted"
  /\ IF Free(worker(s))
       THEN /\ sessions' = [sessions EXCEPT ![worker(s)] = s]
            /\ handler' = [handler EXCEPT ![s] = "added"]
       ELSE /\ handler' = [handler EXCEPT ![s] = "exists"]
            /\ UNCHANGED sessions
  /\ UNCHANGED <<heartbeat, broken, down, up, changed, clock>>
  /\ UNCHANGED coordVars /\ UNCHANGED clientVars

(* The acknowledgment is sent after the registry lock was released. *)
SendAck(s) ==
  /\ handler[s] = "added"
  /\ Send(s, Ack)
  /\ handler' = [handler EXCEPT ![s] = "acked"]
  /\ UNCHANGED <<sessions, heartbeat, broken, up, changed, clock>>
  /\ UNCHANGED coordVars /\ UNCHANGED clientVars

(* membershipChanged: a notification already pending absorbs this one. *)
Unbuffered == changed' = (pc = "idle")         \* mutant: lost while reconciling
notify == changed' = TRUE

membershipChanged(s) ==
  /\ handler[s] = "acked"
  /\ notify
  /\ handler' = [handler EXCEPT ![s] = "serving"]
  /\ UNCHANGED <<sessions, heartbeat, broken, down, up, clock>>
  /\ UNCHANGED coordVars /\ UNCHANGED clientVars

SharedSequence(s) ==                           \* mutant: one sequence per worker ID
  sessions[worker(s)] = s /\ \A k \in 1..MaxAttempts : Head(up[s]) > heartbeat[<<worker(s), k>>]
InSequence(s) == sessions[worker(s)] = s /\ Head(up[s]) > heartbeat[s]

(* recordHeartbeat: the session must still be the registered one and the     *)
(* sequence must grow; otherwise Connect returns a permanent status.         *)
recordHeartbeat(s) ==
  /\ handler[s] = "serving" /\ up[s] # <<>>
  /\ up' = [up EXCEPT ![s] = Tail(@)]
  /\ IF InSequence(s)
       THEN heartbeat' = [heartbeat EXCEPT ![s] = Head(up[s])] /\ UNCHANGED handler
       ELSE handler' = [handler EXCEPT ![s] = "refusing"] /\ UNCHANGED heartbeat
  /\ UNCHANGED <<sessions, broken, down, changed, clock>>
  /\ UNCHANGED coordVars /\ UNCHANGED clientVars

(* Recv, or the acknowledgment's Send, fails: only a broken stream does that. *)
StreamEnds(s) ==
  /\ s \in broken
  /\ handler[s] \in {"accepted", "added", "serving"}
  /\ handler' = [handler EXCEPT ![s] = IF @ = "accepted" THEN "ended" ELSE "leaving"]
  /\ UNCHANGED <<sessions, heartbeat, broken, down, up, changed, clock>>
  /\ UNCHANGED coordVars /\ UNCHANGED clientVars

RemoveByID(reg, s) == [reg EXCEPT ![worker(s)] = None]   \* mutant
KeepStale(reg, s) == reg                                 \* mutant

(* removeSession compares session identity, so that a late removal cannot    *)
(* evict the same worker's next session.                                     *)
removeSession(reg, s) == IF reg[worker(s)] = s THEN [reg EXCEPT ![worker(s)] = None] ELSE reg

(* The deferred removal of a handler that returns. *)
Leave(s) ==
  /\ handler[s] \in {"leaving", "refusing"}
  /\ sessions' = removeSession(sessions, s)
  /\ handler' = [handler EXCEPT ![s] = IF @ = "leaving" THEN "ended" ELSE "refused"]
  /\ UNCHANGED <<heartbeat, broken, down, up, changed, clock>>
  /\ UNCHANGED coordVars /\ UNCHANGED clientVars

----------------------------------------------------------------------------
(* The coordinator goroutine: run and reconcile. *)

CoordinatorWakes ==
  /\ pc = "idle" /\ changed
  /\ changed' = FALSE
  /\ pc' = "woken"
  /\ UNCHANGED <<batch, todo, revision, startsAt, deadline, recorded, broken, down, up, clock>>
  /\ UNCHANGED registryVars /\ UNCHANGED clientVars

activeSessions == {sessions[w] : w \in Workers} \ {None}

(* Too small a fleet ends this reconcile, before the first revision and after. *)
TakeSnapshot ==
  /\ pc = "woken"
  /\ batch' = activeSessions
  /\ pc' = IF Cardinality(activeSessions) < MinWorkers THEN "idle" ELSE "planning"
  /\ UNCHANGED <<todo, revision, startsAt, deadline, recorded, broken, down, up, changed, clock>>
  /\ UNCHANGED registryVars /\ UNCHANGED clientVars

PlannedStart == IF revision = 0 THEN clock + LeadTime ELSE startsAt

(* The first revision fixes the run window; later ones keep it, and past the *)
(* deadline there is none.                                                   *)
PlanRevision ==
  /\ pc = "planning"
  /\ IF revision = 0 \/ clock < deadline
       THEN /\ startsAt' = PlannedStart /\ deadline' = startsAt' + Duration
            /\ revision' = revision + 1 /\ pc' = "recording"
       ELSE pc' = "idle" /\ UNCHANGED <<revision, startsAt, deadline>>
  /\ UNCHANGED <<batch, todo, recorded, broken, down, up, changed, clock>>
  /\ UNCHANGED registryVars /\ UNCHANGED clientVars

members == {worker(s) : s \in batch}
Rank(w) == Cardinality({v \in members : v <= w})
Slices == LET shares == splitLoad(Load, Cardinality(members))
          IN  [w \in members |-> shares[Rank(w)]]

LatestOnly == [r \in {revision} |-> Slices]    \* mutant: forgets older revisions
Recorded == [r \in DOMAIN recorded \cup {revision} |->
               IF r = revision THEN Slices ELSE recorded[r]]

(* RecordAssignments, before any of the revision's messages is sent. *)
RecordAssignments ==
  /\ pc = "recording"
  /\ recorded' = Recorded
  /\ todo' = batch /\ pc' = "sending"
  /\ UNCHANGED <<batch, revision, startsAt, deadline, broken, down, up, changed, clock>>
  /\ UNCHANGED registryVars /\ UNCHANGED clientVars

SplitAgain(w) ==                               \* mutant: splits over today's fleet
  [kind |-> "assignment", revision |-> revision, startsAt |-> startsAt, deadline |-> deadline,
   load |-> splitLoad(Load, Cardinality(members \cup {worker(s) : s \in activeSessions}))[Rank(w)]]
assignmentFor(w) ==
  [kind |-> "assignment", revision |-> revision, load |-> Slices[w],
   startsAt |-> startsAt, deadline |-> deadline]

StopAtFailure(s, delivered) == IF delivered THEN todo \ {s} ELSE {}   \* mutant
Unsent(s, delivered) == todo \ {s}

NextRecipient(s) == s \in todo /\ \A t \in todo : worker(s) <= worker(t)

(* One iteration of the send loop; a failed send removes the session. *)
SendAssignment(s) ==
  /\ pc = "sending" /\ NextRecipient(s)
  /\ \/ /\ Send(s, assignmentFor(worker(s)))
        /\ todo' = Unsent(s, TRUE) /\ UNCHANGED sessions
     \/ /\ s \in broken /\ sessions' = removeSession(sessions, s)
        /\ todo' = Unsent(s, FALSE) /\ UNCHANGED down
  /\ pc' = IF todo' = {} THEN "idle" ELSE pc
  /\ UNCHANGED <<batch, revision, startsAt, deadline, recorded, handler, heartbeat,
                 broken, up, changed, clock>>
  /\ UNCHANGED clientVars

----------------------------------------------------------------------------
(* The worker's connection loop: run, runSession, runRegistered. *)

current(w) == <<w, attempt[w]>>

(* dial, open the stream and send the registration. *)
Dial(w) ==
  /\ client[w] = "dialing" /\ attempt[w] < MaxAttempts
  /\ Cardinality({s \in Sessions : handler[s] # "none"}) < MaxSessions
  /\ attempt' = [attempt EXCEPT ![w] = @ + 1]
  /\ client' = [client EXCEPT ![w] = "registering"]
  /\ handler' = [handler EXCEPT ![<<w, attempt'[w]>>] = "accepted"]
  /\ UNCHANGED <<sessions, heartbeat, broken, down, up, changed, applied, sent, clock>>
  /\ UNCHANGED coordVars

(* A session that ends is cancelled, its controller closed and what it had   *)
(* not read dropped; why decides whether run dials again: "retry" is a       *)
(* transient error, anything else a permanent stop.                          *)
EndSession(w, why) ==
  /\ client' = [client EXCEPT ![w] = IF why = "retry" THEN "dialing" ELSE why]
  /\ broken' = broken \cup {current(w)}
  /\ down' = [down EXCEPT ![current(w)] = <<>>]
  /\ applied' = [applied EXCEPT ![w] = None]
  /\ sent' = [sent EXCEPT ![w] = 0]

(* runSession: the first message must be the acknowledgment. *)
ReceiveFirst(w) ==
  LET s == current(w) IN
  /\ client[w] = "registering" /\ down[s] # <<>>
  /\ IF Head(down[s]) = Ack
       THEN /\ client' = [client EXCEPT ![w] = "running"]
            /\ down' = [down EXCEPT ![s] = Tail(@)]
            /\ UNCHANGED <<broken, applied, sent>>
       ELSE EndSession(w, "unacknowledged")
  /\ UNCHANGED <<up, changed, attempt, clock>>
  /\ UNCHANGED registryVars /\ UNCHANGED coordVars

(* validateRunTransition, for assignments of one run and target. *)
Acceptable(old, new) ==
  \/ old = None
  \/ new = old
  \/ /\ new.revision > old.revision
     /\ new.startsAt = old.startsAt /\ new.deadline = old.deadline

(* receiveMessages: apply the assignment or stop with FailedPrecondition. *)
ReceiveAssignment(w) ==
  LET s == current(w)
      m == Head(down[s]) IN
  /\ client[w] = "running" /\ down[s] # <<>>
  /\ IF m # Ack /\ Acceptable(applied[w], m)
       THEN /\ applied' = [applied EXCEPT ![w] = m]
            /\ down' = [down EXCEPT ![s] = Tail(@)]
            /\ UNCHANGED <<client, broken, sent>>
       ELSE EndSession(w, "unacceptable")
  /\ UNCHANGED <<up, changed, attempt, clock>>
  /\ UNCHANGED registryVars /\ UNCHANGED coordVars

(* produceHeartbeats and writeMessages. *)
SendHeartbeat(w) ==
  LET s == current(w) IN
  /\ client[w] = "running" /\ sent[w] < MaxHeartbeats
  /\ sent' = [sent EXCEPT ![w] = @ + 1]
  /\ up' = [up EXCEPT ![s] = Append(@, sent'[w])]
  /\ UNCHANGED <<broken, down, changed, client, attempt, applied, clock>>
  /\ UNCHANGED registryVars /\ UNCHANGED coordVars

(* The handler's status arrives behind the messages it sent; isPermanent.    *)
ReceiveStatus(w) ==
  LET s == current(w) IN
  /\ client[w] \in {"registering", "running"}
  /\ down[s] = <<>> /\ s \notin broken
  /\ \/ handler[s] = "exists" /\ EndSession(w, "retry")
     \/ handler[s] = "refused" /\ EndSession(w, "refused")
  /\ UNCHANGED <<up, changed, attempt, clock>>
  /\ UNCHANGED registryVars /\ UNCHANGED coordVars

(* The transport fails, or the acknowledgment times out: both are retried. *)
LoseSession(w) ==
  /\ client[w] \in {"registering", "running"}
  /\ EndSession(w, "retry")
  /\ UNCHANGED <<up, changed, attempt, clock>>
  /\ UNCHANGED registryVars /\ UNCHANGED coordVars

(* The transport fails before the worker has noticed. *)
Break(s) ==
  /\ handler[s] # "none" /\ s \notin broken
  /\ broken' = broken \cup {s}
  /\ UNCHANGED <<down, up, changed, clock>>
  /\ UNCHANGED registryVars /\ UNCHANGED coordVars /\ UNCHANGED clientVars

Tick ==
  /\ clock < MaxClock
  /\ clock' = clock + 1
  /\ UNCHANGED <<broken, down, up, changed>>
  /\ UNCHANGED registryVars /\ UNCHANGED coordVars /\ UNCHANGED clientVars

----------------------------------------------------------------------------
Handler(s) == \/ AddSession(s) \/ SendAck(s) \/ membershipChanged(s)
              \/ recordHeartbeat(s) \/ StreamEnds(s) \/ Leave(s)

Coordinator == \/ CoordinatorWakes \/ TakeSnapshot \/ PlanRevision
               \/ RecordAssignments \/ \E s \in Sessions : SendAssignment(s)

Receive(w) == ReceiveFirst(w) \/ ReceiveAssignment(w) \/ ReceiveStatus(w)
Client(w) == Dial(w) \/ Receive(w) \/ SendHeartbeat(w) \/ LoseSession(w)

Next == \/ \E s \in Sessions : Handler(s) \/ Break(s)
        \/ Coordinator
        \/ \E w \in Workers : Client(w)
        \/ Tick

(* The Go scheduler runs every runnable goroutine: handlers, the coordinator *)
(* and the worker's receive loop are not starved.  Dialling, failures and    *)
(* the clock need no fairness.                                               *)
Fairness == /\ \A s \in Sessions : WF_vars(Handler(s))
            /\ WF_vars(Coordinator)
            /\ \A w \in Workers : WF_vars(Receive(w))

Spec == Init /\ [][Next]_vars
FairSpec == Spec /\ Fairness

----------------------------------------------------------------------------
(* The assignments session s holds or is about to receive. *)
Holds(s) == IF s = current(worker(s)) THEN applied[worker(s)] ELSE None
Carried(s) == ({Holds(s)} \cup {down[s][i] : i \in 1..Len(down[s])}) \ {None, Ack}
Registered == {"added", "acked", "serving"}

RegistryTypes ==
  /\ handler \in [Sessions -> {"none", "accepted", "added", "acked", "serving", "refusing",
                               "leaving", "exists", "refused", "ended"}]
  /\ sessions \in [Workers -> Sessions \cup {None}]
  /\ \A w \in Workers : sessions[w] # None => worker(sessions[w]) = w
  /\ heartbeat \in [Sessions -> 0..MaxHeartbeats]
StreamTypes ==
  /\ broken \subseteq Sessions
  /\ down \in [Sessions -> Seq(Assignment \cup {Ack})]
  /\ up \in [Sessions -> Seq(1..MaxHeartbeats)]
CoordinatorTypes ==
  /\ changed \in BOOLEAN
  /\ pc \in {"idle", "woken", "planning", "recording", "sending"}
  /\ batch \subseteq Sessions /\ todo \subseteq batch
  /\ revision \in Nat /\ startsAt \in Nat /\ deadline \in Nat
  /\ DOMAIN recorded = 1..(IF pc = "recording" THEN revision - 1 ELSE revision)
ClientTypes ==
  /\ client \in [Workers -> {"dialing", "registering", "running", "unacknowledged",
                             "unacceptable", "refused"}]
  /\ attempt \in [Workers -> 0..MaxAttempts]
  /\ applied \in [Workers -> Assignment \cup {None}]
  /\ sent \in [Workers -> 0..MaxHeartbeats]
  /\ clock \in 0..MaxClock
TypeOK == RegistryTypes /\ StreamTypes /\ CoordinatorTypes /\ ClientTypes

(* A handler inside its add/remove window whose stream is intact owns its    *)
(* worker's registry entry: neither an older handler's deferred removal nor  *)
(* the coordinator's removal of a failed session (server.go removeSession)   *)
(* ever evicts a live successor.                                             *)
LiveSessionRegistered ==
  \A s \in Sessions : handler[s] \in Registered /\ s \notin broken => sessions[worker(s)] = s

(* No membership change is lost to the coalescing channel: once the          *)
(* coordinator is idle with nothing pending, every live announced session    *)
(* was in its last snapshot and, unless that fleet was too small or the run  *)
(* is over, its stream ends with the latest revision.                        *)
CoordinatorCaughtUp ==
  pc = "idle" /\ ~changed =>
    \A s \in Sessions : handler[s] = "serving" /\ s \notin broken =>
      /\ s \in batch
      /\ (Cardinality(batch) >= MinWorkers /\ clock < deadline) =>
           \E m \in Carried(s) : m.revision = revision

(* Whatever a worker holds or is about to receive was recorded for it in the *)
(* aggregator, with the same slice: no honest delta can name an unknown      *)
(* revision (aggregator.go RecordAssignments).                               *)
RecordedBeforeDelivered ==
  \A s \in Sessions : \A m \in Carried(s) :
    /\ m.revision \in DOMAIN recorded
    /\ worker(s) \in DOMAIN recorded[m.revision]
    /\ m.load = recorded[m.revision][worker(s)]

(* No worker is stopped for good by an assignment it refuses or a heartbeat  *)
(* the orchestrator refuses: revisions reach each stream in order, and a     *)
(* heartbeat is only refused on a stream that can no longer carry a status.  *)
HealthyWorkerNeverRefused ==
  \A w \in Workers : client[w] \notin {"unacceptable", "refused"}

(* A worker that follows the protocol is acknowledged before it is assigned. *)
(* The code breaks this: the session is registered, and visible to the       *)
(* coordinator, before its acknowledgment is sent.                           *)
AcknowledgedFirst == \A w \in Workers : client[w] # "unacknowledged"

(* A registry entry never passes from one session to another: a reconnecting *)
(* worker gets in only after its previous session was removed, and that      *)
(* session's stream was broken or its handler was returning.                 *)
NoTakeover ==
  [][\A w \in Workers : sessions[w] # None /\ sessions'[w] # sessions[w] =>
       /\ sessions'[w] = None
       /\ (sessions[w] \in broken \/ handler[sessions[w]] \in {"leaving", "refusing"})]_vars

(* A dead session does not hold its worker's ID for ever.                    *)
StaleSessionRemoved ==
  \A s \in Sessions : s \in broken /\ sessions[worker(s)] = s ~> sessions[worker(s)] # s

(* Every session that stays connected is assigned load, unless the fleet the *)
(* coordinator saw it in was too small or the run was over.                  *)
AnnouncedGetsAssignment ==
  \A s \in Sessions :
    handler[s] = "serving" ~> \/ Holds(s) # None
                             \/ s \in broken
                             \/ (s \in batch /\ Cardinality(batch) < MinWorkers)
                             \/ (revision > 0 /\ clock >= deadline)
=============================================================================
