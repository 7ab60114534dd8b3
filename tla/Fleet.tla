------------------------------- MODULE Fleet -------------------------------
(* One worker of the fleet end to end: the sessions of its connection loop   *)
(* (internal/worker/client.go), in each a run controller (RunController),    *)
(* and the orchestrator's aggregator (Aggregator), which takes the deltas in *)
(* the order they were queued (server.go Connect).  The coordinator records  *)
(* a revision before it sends it; revisions that leave this worker idle      *)
(* stand for those that give the load to others or do not name it at all.    *)
EXTENDS RunController

CONSTANTS
  Worker,
  MaxSessions            \* bound: connections of the worker

ASSUME FleetAssumption == MaxSessions \in Nat \ {0}

VARIABLES
  session,        \* connections made
  delivered,      \* deltas of this session that reached Accept
  workers, snapshot, violations, changed, merged,   \* the aggregator's state
  measured,       \* history: per session, the requests its collector counted
  from            \* history: the session of the last delta merged, 0 if none

aggVars == <<workers, snapshot, violations, changed, merged>>
fleetVars == <<session, delivered, aggVars, measured, from>>
allVars == <<vars, fleetVars>>

Agg == INSTANCE Aggregator WITH
  Workers <- {Worker},
  assignments <- [r \in 1..Len(loaded) |-> [w \in {Worker} |-> loaded[r]]],
  latest <- Len(loaded),
  MaxCount <- MaxClock, MaxRevisions <- MaxRevision,
  MaxSequence <- MaxClock, MaxRequests <- 1

FleetInit ==
  /\ Init
  /\ session = 1 /\ delivered = 0
  /\ workers = [w \in {Worker} |-> Agg!ZeroState]
  /\ snapshot = 0 /\ violations = {} /\ changed = FALSE /\ merged = [w \in {Worker} |-> <<>>]
  /\ measured = [s \in 1..MaxSessions |-> 0] /\ from = 0

(* A step of the controller, of its scheduler, of the stream or of time. *)
Work ==
  /\ Controller \/ SchedulerEnds \/ WriteMessage \/ Heartbeat \/ Tick
  /\ UNCHANGED fleetVars

MeasuredRequest ==
  /\ Request
  /\ measured' = [measured EXCEPT ![session] = @ + 1]
  /\ UNCHANGED <<session, delivered, aggVars, from>>

(* The coordinator plans a revision; without a live session it does not      *)
(* reach this worker.                                                        *)
Plan(active) ==
  /\ IF cancelled
       THEN /\ Len(loaded) < MaxRevision /\ clock < Deadline /\ ~active
            /\ loaded' = Append(loaded, active)
            /\ UNCHANGED <<clock, cancelled, inbox, pc, task, current, schedVars, timerVars, now,
                           outVars, status, failed, late>>
       ELSE Issue(active)
  /\ Agg!RecordAssignments([w \in {Worker} |-> active])
  /\ UNCHANGED <<session, delivered, measured, from>>

(* The message of a delta; its worker, run, counters and histogram are right. *)
Message(d) ==
  [revision |-> d.revision, sequence |-> d.sequence, start |-> d.start, end |-> d.end,
   final |-> d.final, requests |-> d.requests, sound |-> TRUE]

(* Connect receives the next delta; an error of Accept ends the stream. *)
Deliver ==
  /\ ~cancelled /\ delivered < Len(emitted)
  /\ delivered' = delivered + 1
  /\ UNCHANGED <<clock, loaded, inbox, pc, task, current, schedVars, timerVars, now, outVars,
                 status, failed, late, session, measured>>
  /\ LET delta == Message(emitted[delivered + 1])
     IN  \/ Agg!Merge(Worker, delta) /\ from' = session /\ UNCHANGED cancelled
         \/ Agg!Ignore(Worker, delta) /\ UNCHANGED <<from, cancelled>>
         \/ Agg!reject(Worker, delta) /\ cancelled' = TRUE /\ UNCHANGED from

(* The stream breaks, or the controller failed: what was not delivered is    *)
(* lost.                                                                     *)
Disconnect == Cancel /\ UNCHANGED fleetVars

(* runRegistered closes the controller before runSession returns. *)
Closed == cancelled /\ pc = "stopped" /\ scheduler # "running"

(* A retry, with a new controller, whose sequence starts again, on the clock *)
(* and the revisions of the same run.  A worker whose delta was refused      *)
(* retries too if its writer's EOF is noticed before the status.             *)
Reconnect ==
  /\ Closed /\ session < MaxSessions
  /\ session' = session + 1 /\ delivered' = 0
  /\ inbox' = <<>> /\ pc' = "select" /\ task' = "none" /\ current' = 0
  /\ collecting' = FALSE /\ pending' = 0 /\ taken' = 0 /\ scheduler' = "none"
  /\ intervalStart' = 0 /\ armed' = FALSE /\ timerAt' = 0 /\ now' = 0
  /\ backlog' = 0 /\ emitted' = <<>> /\ status' = Idle
  /\ cancelled' = FALSE /\ failed' = FALSE
  /\ UNCHANGED <<late, clock, loaded, aggVars, measured, from>>

FleetNext == \/ Work \/ MeasuredRequest \/ Deliver \/ Disconnect \/ Reconnect
             \/ \E active \in BOOLEAN : Plan(active)

FleetSpec == FleetInit /\ [][FleetNext]_allVars

----------------------------------------------------------------------------
(* The aggregator finds fault with a delta only if the worker applied a      *)
(* revision after the deadline or reconnected after one of its deltas was    *)
(* merged: however late timers fire, commands arrive and requests drain, and *)
(* however revisions change the worker's part, its deltas are acceptable.    *)
HonestNeverRejected == violations # {} => late \/ from \notin {0, session}

(* A final total is of one session: once a delta has been merged, no other   *)
(* session of the worker adds to it.                                         *)
OneSessionCounts == [][from # 0 => from' = from]_allVars

(* When the run counts as complete, the fleet's total is all the worker has  *)
(* measured in the session that reported: no request fell between two        *)
(* intervals, two revisions or behind the final delta.                       *)
CompleteCountsAll ==
  loaded # <<>> /\ loaded[Len(loaded)] /\ Agg!Complete
  => snapshot = measured[from]
=============================================================================
