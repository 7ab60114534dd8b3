--------------------------- MODULE WorkerSession ---------------------------
(* The worker's connection loop (internal/worker/client.go): dial, register, *)
(* run a session with its controller (RunController), writer and receiver,   *)
(* pick the error that ends it, close, and retry with a growing delay or     *)
(* stop.  The orchestrator and the network are an environment: they accept   *)
(* or refuse, deliver revisions and end the stream at any time.  Errors are  *)
(* what isPermanent makes of their status.                                   *)
EXTENDS RunController, Integers

CONSTANTS
  BaseBackoff, MaxBackoff,   \* the retry delay starts at the one and stays below the other
  MaxFailures                \* bound: retries in a row that are told apart

ASSUME WorkerSessionAssumption ==
  /\ BaseBackoff \in Nat \ {0} /\ MaxBackoff \in Nat /\ BaseBackoff <= MaxBackoff
  /\ MaxFailures \in Nat \ {0}

VARIABLES
  loop,        \* dialing, awaiting, registered, closing, ended, retrying or stopped
  stream,      \* open, or how it ended: lost, or refused by the server
  receiver,    \* running, rejecting (Apply returned an error) or gone
  writer,      \* running or gone
  errors,      \* the channel of runRegistered, oldest first
  result,      \* the error the session returned
  shutdown,    \* the process's context is done
  backoff,     \* retryBackoff.current
  delay,       \* the delay drawn for the retry under way
  failures,    \* history: retries since the last registered session
  refused      \* history: the session was refused, or a revision was overdue

controllerVars == <<inbox, pc, task, current, schedVars, timerVars, now, outVars, status, failed>>
goroutines == <<stream, receiver, writer, errors>>
retryVars == <<backoff, delay, failures>>
allVars == <<vars, loop, goroutines, result, shutdown, retryVars, refused>>

LoopInit ==
  /\ Init
  /\ loop = "dialing"
  /\ stream = "lost" /\ receiver = "gone" /\ writer = "gone" /\ errors = <<>>
  /\ result = "none" /\ shutdown = FALSE
  /\ backoff = BaseBackoff /\ delay = 0 /\ failures = 0
  /\ refused = FALSE

----------------------------------------------------------------------------
(* runSession up to the acknowledgment. *)

Connect ==
  /\ loop = "dialing"
  /\ loop' = "awaiting" /\ stream' = "open"
  /\ UNCHANGED <<vars, receiver, writer, errors, result, shutdown, retryVars, refused>>

(* The dial or the registration fails, or the acknowledgment is late, wrong  *)
(* or an error.                                                              *)
NotRegistered ==
  /\ loop \in {"dialing", "awaiting"}
  /\ \E error \in {"transient", "permanent"} :
       result' = error /\ refused' = (refused \/ error = "permanent")
  /\ loop' = "ended"
  /\ UNCHANGED <<vars, goroutines, shutdown, retryVars>>

NeverReset == backoff                                               \* mutant
(* The code resets the delay when the session has ended: nobody reads it in  *)
(* between.                                                                  *)
Reset == BaseBackoff

(* A controller with nothing applied, a receiver, a writer and heartbeats.   *)
Register ==
  /\ loop = "awaiting"
  /\ loop' = "registered"
  /\ receiver' = "running" /\ writer' = "running"
  /\ cancelled' = shutdown
  /\ backoff' = Reset /\ failures' = 0
  /\ UNCHANGED <<clock, loaded, controllerVars, late, stream, errors, result, shutdown, delay, refused>>

----------------------------------------------------------------------------
(* The goroutines of a registered session. *)

(* The controller, its scheduler and the heartbeats; what requests measure   *)
(* is of no concern here.  An overdue revision is an error for the receiver  *)
(* as well as for the controller's own channel.                              *)
Work ==
  /\ loop \in {"registered", "closing"}
  /\ Controller \/ SchedulerEnds \/ Heartbeat
  /\ IF pc = "deciding" /\ pc' = "stopped" /\ ~cancelled
       THEN receiver' = "rejecting" /\ refused' = TRUE
       ELSE UNCHANGED <<receiver, refused>>
  /\ UNCHANGED <<loop, stream, writer, errors, result, shutdown, retryVars>>

(* reportStreamError: a session that is over has no reader. *)
reportStreamError(error) == errors' = IF cancelled THEN errors ELSE Append(errors, error)

Applying == task = "command"
StatusOf(end) == IF end = "refused" THEN "permanent" ELSE "transient"

(* receiveMessages ends with Recv's error, or with Apply's as permanent.     *)
ReceiverEnds ==
  /\ \/ receiver = "running" /\ (cancelled \/ (stream # "open" /\ ~Applying))
        /\ reportStreamError(StatusOf(stream))
     \/ receiver = "rejecting" /\ reportStreamError("permanent")
  /\ receiver' = "gone"
  /\ UNCHANGED <<vars, loop, stream, writer, result, shutdown, retryVars, refused>>

(* writeMessages; Send on a stream that ended returns io.EOF, not its status. *)
Write ==
  /\ writer = "running" /\ WriteMessage
  /\ IF stream = "open" THEN UNCHANGED <<writer, errors>>
                        ELSE writer' = "gone" /\ reportStreamError("transient")
  /\ UNCHANGED <<loop, stream, receiver, result, shutdown, retryVars, refused>>

(* runRegistered's select takes any ready case, and cancels the session. *)
Select ==
  /\ loop = "registered"
  /\ \/ cancelled /\ result' = "transient" /\ UNCHANGED errors
     \/ errors # <<>> /\ result' = Head(errors) /\ errors' = Tail(errors)
     \/ failed /\ result' = "transient" /\ UNCHANGED errors
  /\ loop' = "closing" /\ cancelled' = TRUE
  /\ UNCHANGED <<clock, loaded, controllerVars, late, stream, receiver, writer,
                 shutdown, retryVars, refused>>

(* The deferred Close waits for the controller and its load to end; nothing  *)
(* of the session is left.                                                   *)
Close ==
  /\ loop = "closing" /\ pc = "stopped" /\ scheduler # "running"
  /\ loop' = "ended"
  /\ inbox' = <<>> /\ pc' = "select" /\ task' = "none" /\ current' = 0
  /\ collecting' = FALSE /\ pending' = 0 /\ taken' = 0 /\ scheduler' = "none"
  /\ intervalStart' = 0 /\ armed' = FALSE /\ timerAt' = 0 /\ now' = 0
  /\ backlog' = 0 /\ emitted' = <<>> /\ status' = Idle
  /\ cancelled' = FALSE /\ failed' = FALSE
  /\ stream' = "lost" /\ receiver' = "gone" /\ writer' = "gone" /\ errors' = <<>>
  /\ UNCHANGED <<clock, loaded, late, result, shutdown, retryVars, refused>>

----------------------------------------------------------------------------
(* run: what a returned session leads to. *)

AnyError(error) == error \in {"transient", "permanent"}             \* mutant
isPermanent(error) == error = "permanent"

Stop ==
  /\ \/ loop = "ended" /\ (shutdown \/ isPermanent(result))
     \/ loop = "retrying" /\ shutdown
  /\ loop' = "stopped"
  /\ UNCHANGED <<vars, goroutines, result, shutdown, retryVars, refused>>

Retry ==
  /\ loop = "ended" /\ ~shutdown /\ ~isPermanent(result)
  /\ delay' \in 0..backoff
  /\ backoff' = IF backoff >= MaxBackoff \div 2 THEN MaxBackoff ELSE 2 * backoff
  /\ failures' = Lesser(failures + 1, MaxFailures)
  /\ loop' = "retrying"
  /\ result' = "none" /\ refused' = FALSE
  /\ UNCHANGED <<vars, goroutines, shutdown>>

Dial ==
  /\ loop = "retrying"
  /\ loop' = "dialing" /\ delay' = 0
  /\ UNCHANGED <<vars, goroutines, result, shutdown, backoff, failures, refused>>

----------------------------------------------------------------------------
(* The environment. *)

Deliver(active) ==
  /\ loop = "registered" /\ stream = "open" /\ Issue(active)
  /\ UNCHANGED <<loop, goroutines, result, shutdown, retryVars, refused>>

StreamEnds ==
  /\ loop = "registered" /\ stream = "open"
  /\ stream' \in {"lost", "refused"}
  /\ refused' = (refused \/ stream' = "refused")
  /\ UNCHANGED <<vars, loop, receiver, writer, errors, result, shutdown, retryVars>>

Shutdown ==
  /\ ~shutdown /\ shutdown' = TRUE
  /\ cancelled' = (cancelled \/ loop = "registered")
  /\ UNCHANGED <<clock, loaded, controllerVars, late, loop, goroutines, result, retryVars, refused>>

Time == Tick /\ UNCHANGED <<loop, goroutines, result, shutdown, retryVars, refused>>

Loop == NotRegistered \/ Connect \/ Register \/ Select \/ Close \/ Stop \/ Retry \/ Dial
LoopNext == \/ Loop \/ Work \/ ReceiverEnds \/ Write \/ StreamEnds \/ Shutdown \/ Time
            \/ \E active \in BOOLEAN : Deliver(active)

(* Every goroutine runs, a cancelled scheduler returns (its requests take    *)
(* the cancelled context), dials and acknowledgments resolve (the latter by  *)
(* a timeout), and time passes.  A Go channel serves blocked senders in      *)
(* order, so heartbeats cannot starve a flush that waits for room: strong    *)
(* fairness.                                                                 *)
LoopFairness ==
  /\ WF_allVars(Loop) /\ WF_allVars(ReceiverEnds) /\ WF_allVars(Write)
  /\ WF_allVars(Work /\ Controller) /\ WF_allVars(Work /\ SchedulerEnds)
  /\ WF_allVars(Time)
  /\ SF_allVars(Work /\ (FlushRevision \/ FlushBoundary \/ FlushDeadline))
LoopSpec == LoopInit /\ [][LoopNext]_allVars
LoopFairSpec == LoopSpec /\ LoopFairness

----------------------------------------------------------------------------
(* A session whose stream has ended ends, whatever its controller is waiting *)
(* for: a full queue nobody writes from, a drain, a revision in hand.        *)
BrokenSessionEnds ==
  loop = "registered" /\ stream # "open" ~> loop \notin {"registered", "closing"}

(* A worker stops for good only if it was shut down or something refused it: *)
(* no error a dying session's goroutines report about a lost stream does.    *)
StopsOnlyWhenRefused == loop = "stopped" => shutdown \/ refused

(* The first delay's bound after n doublings.                                *)
Doubled[n \in Nat] == IF n = 0 THEN BaseBackoff ELSE 2 * Doubled[n - 1]

(* The delay of a retry at most doubles with every failure since the last    *)
(* registered session, and never exceeds the maximum.  Only the step to an   *)
(* odd maximum may exceed the double by a tick: the code halves the maximum, *)
(* rounding down.                                                            *)
RetryDelayBounded ==
  loop = "retrying" =>
    /\ delay <= MaxBackoff
    /\ failures < MaxFailures => delay <= Doubled[failures - 1] + (MaxBackoff % 2)
=============================================================================
