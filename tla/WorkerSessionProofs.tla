------------------------ MODULE WorkerSessionProofs ------------------------
(* What a worker's connection loop keeps true over any number of sessions,   *)
(* for every window, queue, retry delay and number of revisions: why it      *)
(* stops, how long it waits, and that each session runs its controller by    *)
(* RunController's specification.                                            *)
EXTENDS WorkerSession, RunControllerProofs, WellFoundedInduction

----------------------------------------------------------------------------
(* The inductive invariant. *)

InSession == loop \in {"registered", "closing"}

(* Nothing of a session outlives it. *)
SessionScoped ==
  ~InSession => /\ receiver = "gone" /\ writer = "gone" /\ errors = <<>> /\ stream # "refused"
                /\ ~cancelled

(* Whatever stands for a refusal has one as its cause: the error a session   *)
(* returned or has still to report, a receiver whose revision was overdue,   *)
(* the end of the stream.                                                    *)
RefusedForCause ==
  /\ errors \in Seq({"transient", "permanent"})
  /\ \A i \in 1..Len(errors) : errors[i] = "permanent" => refused
  /\ result = "permanent" \/ receiver = "rejecting" \/ stream = "refused" => refused

(* The delay never leaves its bounds. *)
DelayCapped == backoff \in 1..MaxBackoff /\ delay \in 0..MaxBackoff

(* Since the last registered session the delay has doubled with each failure *)
(* or has been set to a maximum it had half reached.                         *)
Reached(n) == \/ backoff = Doubled[n]
              \/ backoff = MaxBackoff /\ MaxBackoff <= Doubled[n] + (MaxBackoff % 2)
DelayDoubles ==
  /\ failures \in 0..MaxFailures /\ (failures < MaxFailures => Reached(failures))
  /\ loop = "retrying" =>
       /\ failures > 0
       /\ failures < MaxFailures => delay <= Doubled[failures - 1] + (MaxBackoff % 2)

LoopTypes ==
  /\ loop \in {"dialing", "awaiting", "registered", "closing", "ended", "retrying", "stopped"}
  /\ stream \in {"open", "lost", "refused"}
  /\ shutdown \in BOOLEAN

SessionInv == /\ ControllerInv /\ LoopTypes /\ SessionScoped /\ RefusedForCause /\ DelayCapped
              /\ DelayDoubles /\ StopsOnlyWhenRefused

----------------------------------------------------------------------------
(* Doublings.                                                                *)

(* A set of numbers has a least element: what is to be shown for all numbers *)
(* is shown by looking at the least counterexample.                          *)
LEMMA LeastNumber ==
  ASSUME NEW T, T \subseteq Nat, T # {}
  PROVE  \E m \in T : \A k \in T : m <= k
<1> DEFINE Below == {ss \in Nat \X Nat : ss[1] < ss[2]}
<1>1. IsWellFoundedOn(Below, Nat)
  BY NatLessThanWellFounded DEF OpToRel
<1>2. \A k, m \in Nat : k < m => <<k, m>> \in Below
  OBVIOUS
<1> HIDE DEF Below
<1>3. PICK m \in T : \A y \in T : ~(<<y, m>> \in Below)
  BY <1>1, WFMin
<1>4. ASSUME NEW k \in T PROVE m <= k
  <2>1. m \in Nat /\ k \in Nat
    BY <1>3, <1>4
  <2>2. ~(k < m)
    BY <2>1, <1>2, <1>3
  <2> QED
    BY <2>1, <2>2
<1> QED
  BY <1>3, <1>4

(* n doublings: the values of Doubled up to n.                               *)
Doubles(f, n) == /\ f \in [0..n -> Nat] /\ f[0] = BaseBackoff
                 /\ \A k \in 1..n : f[k] = 2 * f[k - 1]

(* Any number of doublings can be made.                                      *)
LEMMA DoublesExist == \A n \in Nat : \E f : Doubles(f, n)
<1> DEFINE B == {n \in Nat : ~ \E f : Doubles(f, n)}
<1>1. SUFFICES ASSUME B # {} PROVE FALSE
  OBVIOUS
<1>2. PICK n \in B : \A k \in B : n <= k
  <2>1. B \subseteq Nat
    OBVIOUS
  <2> HIDE DEF B
  <2> QED
    BY <1>1, <2>1, LeastNumber
<1>3. n \in Nat /\ ~ \E f : Doubles(f, n)
  OBVIOUS
<1>4. n # 0
  <2>1. Doubles([k \in 0..0 |-> BaseBackoff], 0)
    BY WorkerSessionAssumption DEF Doubles
  <2> QED
    BY <1>3, <2>1
<1>5. n - 1 \in Nat /\ ~(n <= n - 1)
  BY <1>3, <1>4
<1>6. PICK f : Doubles(f, n - 1)
  BY <1>2, <1>5
<1> DEFINE g == [k \in 0..n |-> IF k = n THEN 2 * f[n - 1] ELSE f[k]]
<1>7. \A k \in 0..(n - 1) : f[k] \in Nat /\ g[k] = f[k]
  BY <1>3, <1>5, <1>6 DEF Doubles
<1>8. g \in [0..n -> Nat] /\ g[n] = 2 * f[n - 1]
  <2>1. f[n - 1] \in Nat
    <3>1. n - 1 \in 0..(n - 1)
      BY <1>5
    <3> QED
      BY <1>7, <3>1
  <2>2. \A k \in 0..n : k # n => k \in 0..(n - 1)
    BY <1>3
  <2>3. n \in 0..n /\ 2 * f[n - 1] \in Nat
    BY <1>3, <2>1
  <2>4. \A k \in 0..n : (IF k = n THEN 2 * f[n - 1] ELSE f[k]) \in Nat
    BY <1>7, <2>2, <2>3
  <2> QED
    BY <2>3, <2>4
<1> HIDE DEF g
<1>9. Doubles(g, n)
  <2>1. g[0] = BaseBackoff
    BY <1>5, <1>6, <1>7 DEF Doubles
  <2>2. ASSUME NEW k \in 1..n PROVE g[k] = 2 * g[k - 1]
    <3>1. k - 1 \in 0..(n - 1) /\ (k = n \/ k \in 1..(n - 1))
      BY <1>3, <2>2
    <3> QED
      BY <1>3, <1>6, <1>7, <1>8, <3>1 DEF Doubles
  <2> QED
    BY <1>8, <2>1, <2>2 DEF Doubles
<1> QED
  BY <1>3, <1>9

(* One more does not change the ones before it.                              *)
LEMMA DoublesAgree ==
  ASSUME NEW n \in Nat, NEW f, NEW g, Doubles(f, n), Doubles(g, n + 1)
  PROVE  f[n] = g[n]
<1> DEFINE B == {k \in 0..n : f[k] # g[k]}
<1>1. SUFFICES ASSUME B # {} PROVE FALSE
  OBVIOUS
<1>2. PICK k \in B : \A j \in B : k <= j
  <2>1. B \subseteq Nat
    OBVIOUS
  <2> HIDE DEF B
  <2> QED
    BY <1>1, <2>1, LeastNumber
<1>3. k \in 0..n /\ f[k] # g[k]
  OBVIOUS
<1>4. k # 0
  BY <1>3 DEF Doubles
<1>5. k - 1 \in 0..n /\ ~(k <= k - 1) /\ k \in 1..n /\ k \in 1..(n + 1)
  BY <1>3, <1>4
<1>6. f[k - 1] = g[k - 1]
  BY <1>2, <1>5
<1> QED
  BY <1>3, <1>5, <1>6 DEF Doubles

(* The equation that defines Doubled has a solution, so Doubled is one.      *)
LEMMA DoubledFacts ==
  /\ Doubled[0] = BaseBackoff
  /\ \A n \in Nat : Doubled[n] \in Nat /\ Doubled[n + 1] = 2 * Doubled[n]
<1> DEFINE F(n) == CHOOSE f : Doubles(f, n)
           d == [n \in Nat |-> F(n)[n]]
<1>1. \A n \in Nat : Doubles(F(n), n)
  BY DoublesExist
<1> HIDE DEF F
<1>2. \A n \in Nat : d[n] \in Nat /\ (n = 0 => d[n] = BaseBackoff)
  BY <1>1 DEF Doubles
<1>3. ASSUME NEW n \in Nat \ {0} PROVE d[n] = 2 * d[n - 1]
  <2>1. n - 1 \in Nat /\ (n - 1) + 1 = n /\ n \in Nat /\ n \in 1..n
    OBVIOUS
  <2>2. F(n - 1)[n - 1] = F(n)[n - 1]
    BY <1>1, <2>1, DoublesAgree
  <2>3. F(n)[n] = 2 * F(n)[n - 1]
    BY <1>1, <2>1 DEF Doubles
  <2> QED
    BY <2>1, <2>2, <2>3
<1>4. d = [n \in Nat |-> IF n = 0 THEN BaseBackoff ELSE 2 * d[n - 1]]
  <2>1. d = [n \in Nat |-> d[n]]
    OBVIOUS
  <2> HIDE DEF d
  <2> QED
    BY <1>2, <1>3, <2>1
<1> HIDE DEF d
<1>5. Doubled = [n \in Nat |-> IF n = 0 THEN BaseBackoff ELSE 2 * Doubled[n - 1]]
  <2> DEFINE Solution(f) == f = [n \in Nat |-> IF n = 0 THEN BaseBackoff ELSE 2 * f[n - 1]]
  <2>1. Doubled = CHOOSE f : Solution(f)
    BY DEF Doubled
  <2>2. Solution(d)
    BY <1>4
  <2> HIDE DEF Solution
  <2>3. Solution(Doubled)
    BY <2>1, <2>2
  <2> QED
    BY <2>3 DEF Solution
<1>6. Doubled[0] = BaseBackoff /\ \A n \in Nat \ {0} : Doubled[n] = 2 * Doubled[n - 1]
  BY <1>5
<1>7. \A n \in Nat : Doubled[n + 1] = 2 * Doubled[n]
  BY <1>6
<1> DEFINE B == {n \in Nat : Doubled[n] \notin Nat}
<1>8. B = {}
  <2>1. SUFFICES ASSUME B # {} PROVE FALSE
    OBVIOUS
  <2>2. PICK n \in B : \A k \in B : n <= k
    <3>1. B \subseteq Nat
      OBVIOUS
    <3> HIDE DEF B
    <3> QED
      BY <2>1, <3>1, LeastNumber
  <2>3. n \in Nat /\ Doubled[n] \notin Nat
    OBVIOUS
  <2>4. n # 0
    BY <1>6, <2>3, WorkerSessionAssumption
  <2>5. n - 1 \in Nat /\ ~(n <= n - 1)
    BY <2>3, <2>4
  <2>6. Doubled[n - 1] \in Nat
    BY <2>2, <2>5
  <2> QED
    BY <1>6, <2>3, <2>4, <2>6
<1> QED
  BY <1>6, <1>7, <1>8

----------------------------------------------------------------------------

LEMMA InitSessionInv == LoopInit => SessionInv
<1> SUFFICES ASSUME LoopInit PROVE SessionInv
  OBVIOUS
<1>1. ControllerInv
  BY InitControllerInv DEF LoopInit
<1>2. LoopTypes /\ StopsOnlyWhenRefused
  BY DEF LoopInit, LoopTypes, StopsOnlyWhenRefused
<1>3. DelayCapped
  BY WorkerSessionAssumption DEF LoopInit, DelayCapped
<1>4. SessionScoped
  BY DEF LoopInit, Init, SessionScoped, InSession
<1>5. RefusedForCause
  BY DEF LoopInit, RefusedForCause
<1>6. DelayDoubles
  BY WorkerSessionAssumption, DoubledFacts DEF LoopInit, DelayDoubles, Reached
<1> QED
  BY <1>1, <1>2, <1>3, <1>4, <1>5, <1>6 DEF SessionInv

(* Cancelling a session is a step of its controller's environment.           *)
LEMMA CancelsController ==
  ASSUME ControllerInv, NEW c \in BOOLEAN, cancelled' = (cancelled \/ c),
         UNCHANGED <<clock, loaded, controllerVars, late>>
  PROVE  [Next]_vars
<1>1. cancelled \in BOOLEAN
  BY DEF ControllerInv, TypeOK
<1>2. CASE cancelled \/ ~c
  <2>1. cancelled' = cancelled
    BY <1>1, <1>2, Zenon
  <2> QED
    BY <2>1 DEF controllerVars, vars, envVars
<1>3. CASE ~cancelled /\ c
  BY <1>3 DEF controllerVars, Cancel, Next
<1> QED
  BY <1>2, <1>3

(* Each step of the loop is one of its controller, leaves it alone, or       *)
(* replaces it by a new one.                                                 *)
LEMMA StepsController ==
  ASSUME SessionInv, [LoopNext]_allVars
  PROVE  [Next]_vars \/ Restarted
<1> USE DEF SessionInv
<1>1. CASE Register
  <2>1. cancelled' = (cancelled \/ shutdown) /\ UNCHANGED <<clock, loaded, controllerVars, late>>
    <3>1. cancelled' = shutdown /\ UNCHANGED <<clock, loaded, controllerVars, late>>
      BY <1>1 DEF Register
    <3>2. ~cancelled /\ shutdown \in BOOLEAN
      BY <1>1 DEF Register, SessionScoped, InSession, LoopTypes
    <3> QED
      BY <3>1, <3>2, Zenon
  <2> QED
    BY <2>1, CancelsController DEF LoopTypes
<1>2. CASE Select
  <2>1. cancelled' = (cancelled \/ TRUE) /\ UNCHANGED <<clock, loaded, controllerVars, late>>
    BY <1>2 DEF Select
  <2> QED
    BY <2>1, CancelsController
<1>3. CASE Shutdown
  <2>1. /\ cancelled' = (cancelled \/ loop = "registered")
        /\ UNCHANGED <<clock, loaded, controllerVars, late>>
    BY <1>3 DEF Shutdown
  <2> QED
    BY <2>1, CancelsController
<1>4. CASE Work
  BY <1>4 DEF Work, Next
<1>5. CASE Write
  BY <1>5 DEF Write, Next
<1>6. CASE Time
  BY <1>6 DEF Time, Next
<1>7. CASE \E active \in BOOLEAN : Deliver(active)
  BY <1>7 DEF Deliver, Next
<1>8. CASE Close
  BY <1>8 DEF Close, Restarted
<1>9. CASE NotRegistered \/ Connect \/ Stop \/ Retry \/ Dial \/ ReceiverEnds \/ StreamEnds
           \/ UNCHANGED allVars
  BY <1>9 DEF NotRegistered, Connect, Stop, Retry, Dial, ReceiverEnds, StreamEnds, allVars
<1> QED
  BY <1>1, <1>2, <1>3, <1>4, <1>5, <1>6, <1>7, <1>8, <1>9 DEF LoopNext, Loop

(* Only the loop and the process cancel a session.                           *)
LEMMA WorkKeepsContext ==
  ASSUME Controller \/ SchedulerEnds \/ Heartbeat \/ WriteMessage
  PROVE  cancelled' = cancelled
<1>1. CASE TakeCommand \/ CommandDrained \/ RejectOverdue \/ BeginRevisionFlush \/ FlushRevision
           \/ ApplyWithoutFlush \/ BoundaryTimer
  BY <1>1 DEF TakeCommand, CommandDrained, RejectOverdue, BeginRevisionFlush, FlushRevision,
              ApplyWithoutFlush, BoundaryTimer, envVars
<1>2. CASE FlushBoundary \/ DeadlineTimer \/ DeadlineDrained \/ FlushDeadline \/ ReapScheduler
           \/ Return \/ SchedulerEnds \/ Heartbeat \/ WriteMessage
  BY <1>2 DEF FlushBoundary, DeadlineTimer, DeadlineDrained, FlushDeadline, ReapScheduler, Return,
              SchedulerEnds, Heartbeat, WriteMessage, envVars
<1> QED
  BY <1>1, <1>2 DEF Controller

LEMMA LoopTypesKept == ASSUME SessionInv, [LoopNext]_allVars PROVE LoopTypes'
<1> USE DEF SessionInv, LoopTypes
<1>1. CASE Loop
  BY <1>1 DEF Loop, NotRegistered, Connect, Register, Select, Close, Stop, Retry, Dial, goroutines
<1>2. CASE Work \/ ReceiverEnds \/ Write \/ StreamEnds \/ Time \/ \E active \in BOOLEAN : Deliver(active)
  BY <1>2 DEF Work, ReceiverEnds, Write, StreamEnds, Time, Deliver, goroutines
<1>3. CASE Shutdown \/ UNCHANGED allVars
  BY <1>3 DEF Shutdown, goroutines, allVars
<1> QED
  BY <1>1, <1>2, <1>3 DEF LoopNext

LEMMA ScopeKept == ASSUME SessionInv, [LoopNext]_allVars PROVE SessionScoped'
<1> USE DEF SessionInv, LoopTypes, SessionScoped, InSession
<1>1. CASE NotRegistered \/ Connect \/ Stop \/ Retry \/ Dial \/ UNCHANGED allVars
  BY <1>1 DEF NotRegistered, Connect, Stop, Retry, Dial, goroutines, vars, envVars, allVars
<1>2. CASE Register \/ Select
  BY <1>2 DEF Register, Select
<1>3. CASE Close
  BY <1>3 DEF Close
<1>4. CASE Work \/ ReceiverEnds \/ Write \/ StreamEnds \/ \E active \in BOOLEAN : Deliver(active)
  <2>1. CASE ~InSession
    <3>1. ~Work /\ ~StreamEnds /\ ~(\E active \in BOOLEAN : Deliver(active))
      BY <2>1 DEF Work, StreamEnds, Deliver
    <3>2. ~ReceiverEnds /\ ~Write
      BY <2>1 DEF ReceiverEnds, Write
    <3> QED
      BY <1>4, <3>1, <3>2
  <2>2. loop' = loop
    BY <1>4 DEF Work, ReceiverEnds, Write, StreamEnds, Deliver
  <2> QED
    BY <2>1, <2>2
<1>5. CASE Shutdown
  BY <1>5 DEF Shutdown, goroutines
<1>6. CASE Time
  BY <1>6 DEF Time, Tick, goroutines
<1> QED
  BY <1>1, <1>2, <1>3, <1>4, <1>5, <1>6 DEF LoopNext, Loop

(* An error that is reported waits behind the ones before it.                *)
LEMMA ReportFacts ==
  ASSUME RefusedForCause, NEW e \in {"transient", "permanent"}, reportStreamError(e),
         e = "permanent" => refused
  PROVE  /\ errors' \in Seq({"transient", "permanent"})
         /\ \A i \in 1..Len(errors') : errors'[i] = "permanent" => refused
BY DEF RefusedForCause, reportStreamError

LEMMA CauseKept == ASSUME SessionInv, [LoopNext]_allVars PROVE RefusedForCause'
<1> USE DEF SessionInv
<1>1. CASE NotRegistered
  BY <1>1 DEF NotRegistered, RefusedForCause, goroutines
<1>2. CASE Connect \/ Register \/ Stop \/ Dial
  BY <1>2 DEF Connect, Register, Stop, Dial, RefusedForCause, goroutines
<1>3. CASE Select
  <2>1. UNCHANGED <<stream, receiver, refused>>
    BY <1>3 DEF Select
  <2>2. CASE errors # <<>> /\ result' = Head(errors) /\ errors' = Tail(errors)
    BY <2>1, <2>2 DEF RefusedForCause
  <2>3. CASE result' = "transient" /\ errors' = errors
    BY <2>1, <2>3 DEF RefusedForCause
  <2> QED
    BY <1>3, <2>2, <2>3 DEF Select
<1>4. CASE Close
  BY <1>4 DEF Close, RefusedForCause
<1>5. CASE Retry
  BY <1>5 DEF Retry, RefusedForCause, goroutines, SessionScoped, InSession
<1>6. CASE Work
  BY <1>6 DEF Work, RefusedForCause
<1>7. CASE ReceiverEnds
  <2>1. receiver' = "gone" /\ UNCHANGED <<stream, result, refused>>
    BY <1>7 DEF ReceiverEnds
  <2>2. PICK e \in {"transient", "permanent"} : reportStreamError(e) /\ (e = "permanent" => refused)
    BY <1>7 DEF ReceiverEnds, StatusOf, RefusedForCause
  <2> QED
    BY <2>1, <2>2, ReportFacts DEF RefusedForCause
<1>8. CASE Write
  <2>1. UNCHANGED <<stream, receiver, result, refused>>
    BY <1>8 DEF Write
  <2>2. CASE stream = "open"
    BY <1>8, <2>1, <2>2 DEF Write, RefusedForCause
  <2>3. CASE stream # "open"
    <3>1. reportStreamError("transient")
      BY <1>8, <2>3 DEF Write
    <3> QED
      BY <2>1, <3>1, ReportFacts DEF RefusedForCause
  <2> QED
    BY <2>2, <2>3
<1>9. CASE StreamEnds
  BY <1>9 DEF StreamEnds, RefusedForCause
<1>10. CASE Shutdown \/ Time \/ (\E active \in BOOLEAN : Deliver(active)) \/ UNCHANGED allVars
  BY <1>10 DEF Shutdown, Time, Deliver, RefusedForCause, goroutines, allVars
<1> QED
  BY <1>1, <1>2, <1>3, <1>4, <1>5, <1>6, <1>7, <1>8, <1>9, <1>10 DEF LoopNext, Loop

LEMMA DelayKept == ASSUME SessionInv, [LoopNext]_allVars PROVE DelayCapped'
<1> USE WorkerSessionAssumption DEF SessionInv, DelayCapped
<1>1. CASE NotRegistered \/ Connect \/ Select \/ Close \/ Stop \/ UNCHANGED allVars
  BY <1>1 DEF NotRegistered, Connect, Select, Close, Stop, retryVars, allVars
<1>2. CASE Register
  BY <1>2 DEF Register, Reset
<1>3. CASE Retry
  BY <1>3 DEF Retry
<1>4. CASE Dial
  BY <1>4 DEF Dial
<1>5. CASE Work \/ ReceiverEnds \/ Write \/ StreamEnds \/ Shutdown \/ Time
           \/ \E active \in BOOLEAN : Deliver(active)
  BY <1>5 DEF Work, ReceiverEnds, Write, StreamEnds, Shutdown, Time, Deliver, retryVars
<1> QED
  BY <1>1, <1>2, <1>3, <1>4, <1>5 DEF LoopNext, Loop

(* Retry doubles the delay or sets it to a maximum it had half reached; a    *)
(* registered session starts anew.                                           *)
LEMMA DoublingKept == ASSUME SessionInv, [LoopNext]_allVars PROVE DelayDoubles'
<1>0. DelayDoubles /\ DelayCapped
  BY DEF SessionInv
<1>1. CASE NotRegistered \/ Connect \/ Select \/ Close \/ Stop \/ UNCHANGED allVars
  BY <1>0, <1>1 DEF DelayDoubles, Reached, NotRegistered, Connect, Select, Close, Stop, retryVars, allVars
<1>2. CASE Register
  BY <1>2, WorkerSessionAssumption, DoubledFacts DEF DelayDoubles, Reached, Register, Reset
<1>3. CASE Retry
  <2> DEFINE n == failures
             half == MaxBackoff \div 2
             odd == MaxBackoff % 2
  <2>1. /\ n \in Nat /\ n \in 0..MaxFailures /\ MaxFailures \in Nat \ {0}
        /\ failures' = IF n + 1 <= MaxFailures THEN n + 1 ELSE MaxFailures
    BY <1>0, <1>3, WorkerSessionAssumption DEF DelayDoubles, Retry, Lesser
  <2>2. /\ MaxBackoff \in Nat /\ half \in Nat /\ odd \in 0..1 /\ MaxBackoff = 2 * half + odd
        /\ backoff \in 1..MaxBackoff
    BY <1>0, WorkerSessionAssumption DEF DelayCapped
  <2>3. /\ delay' \in 0..backoff /\ loop' = "retrying"
        /\ backoff' = IF backoff >= half THEN MaxBackoff ELSE 2 * backoff
    BY <1>3 DEF Retry
  <2> HIDE DEF half
  <2>4. CASE n + 1 < MaxFailures
    <3>1. failures' = n + 1 /\ failures' - 1 = n /\ failures' \in 0..MaxFailures
      BY <2>1, <2>4
    <3>2. Doubled[n] \in Nat /\ Doubled[n + 1] = 2 * Doubled[n]
      BY <2>1, DoubledFacts
    <3>3. backoff = Doubled[n] \/ (backoff = MaxBackoff /\ MaxBackoff <= Doubled[n] + odd)
      <4>1. n < MaxFailures
        BY <2>1, <2>4
      <4>2. Reached(n)
        BY <1>0, <4>1 DEF DelayDoubles
      <4> QED
        BY <4>2 DEF Reached
    <3> HIDE DEF odd
    <3>4. delay' <= Doubled[n] + odd
      BY <2>2, <2>3, <3>2, <3>3
    <3>5. \/ backoff' = Doubled[n + 1]
          \/ backoff' = MaxBackoff /\ MaxBackoff <= Doubled[n + 1] + odd
      BY <2>2, <2>3, <3>2, <3>3
    <3>6. Reached(failures)'
      BY <3>1, <3>5 DEF odd, Reached
    <3>7. failures' > 0 /\ delay' <= Doubled[failures' - 1] + (MaxBackoff % 2)
      BY <2>1, <3>1, <3>4 DEF odd
    <3> QED
      BY <3>1, <3>6, <3>7 DEF DelayDoubles
  <2>5. CASE ~(n + 1 < MaxFailures)
    BY <2>1, <2>3, <2>5 DEF DelayDoubles
  <2> QED
    BY <2>4, <2>5
<1>4. CASE Dial
  BY <1>0, <1>4 DEF DelayDoubles, Reached, Dial
<1>5. CASE Work \/ ReceiverEnds \/ Write \/ StreamEnds \/ Shutdown \/ Time
           \/ \E active \in BOOLEAN : Deliver(active)
  BY <1>0, <1>5 DEF DelayDoubles, Reached, Work, ReceiverEnds, Write, StreamEnds, Shutdown, Time, Deliver, retryVars
<1> QED
  BY <1>1, <1>2, <1>3, <1>4, <1>5 DEF LoopNext, Loop

(* Stop takes a permanent result for a refusal, and nothing that happens     *)
(* afterwards takes the refusal back.                                        *)
LEMMA StopKept == ASSUME SessionInv, [LoopNext]_allVars PROVE StopsOnlyWhenRefused'
<1> USE DEF SessionInv, StopsOnlyWhenRefused
<1>1. CASE Stop
  BY <1>1 DEF Stop, isPermanent, RefusedForCause
<1>2. CASE NotRegistered \/ Connect \/ Register \/ Select \/ Close \/ Retry \/ Dial
  BY <1>2 DEF NotRegistered, Connect, Register, Select, Close, Retry, Dial
<1>3. CASE Work \/ StreamEnds \/ \E active \in BOOLEAN : Deliver(active)
  BY <1>3 DEF Work, StreamEnds, Deliver
<1>4. CASE ReceiverEnds \/ Write \/ Time \/ Shutdown \/ UNCHANGED allVars
  BY <1>4 DEF ReceiverEnds, Write, Time, Shutdown, allVars
<1> QED
  BY <1>1, <1>2, <1>3, <1>4 DEF LoopNext, Loop

LEMMA SessionInvKept == SessionInv /\ [LoopNext]_allVars => SessionInv'
<1> SUFFICES ASSUME SessionInv, [LoopNext]_allVars PROVE SessionInv'
  OBVIOUS
<1>1. ControllerInv'
  BY StepsController, ControllerInvKept, RestartKept DEF SessionInv
<1> QED
  BY <1>1, LoopTypesKept, ScopeKept, CauseKept, DelayKept, DoublingKept, StopKept
     DEF SessionInv

----------------------------------------------------------------------------

(* The invariant of the connection loop.                                     *)
THEOREM SessionInvariance == LoopSpec => []SessionInv
BY InitSessionInv, SessionInvKept, PTL DEF LoopSpec

(* No error that a dying session's goroutines report about a lost stream     *)
(* makes the worker stop for good (isPermanent).                             *)
THEOREM StopsOnlyForCause == LoopSpec => []StopsOnlyWhenRefused
<1>1. SessionInv => StopsOnlyWhenRefused
  BY DEF SessionInv
<1> QED
  BY <1>1, SessionInvariance, PTL

(* Over any number of failures the retry delay at most doubles from one to   *)
(* the next and stays below the maximum; a registered session starts it      *)
(* anew (retryBackoff).                                                      *)
THEOREM DelaysAreBounded == LoopSpec => []RetryDelayBounded
<1>1. SessionInv => RetryDelayBounded
  BY WorkerSessionAssumption DEF SessionInv, DelayCapped, DelayDoubles, RetryDelayBounded
<1> QED
  BY <1>1, SessionInvariance, PTL

(* With streams that end and queues nobody writes from, each session's       *)
(* controller still reports its deadline and runs the load it was assigned.  *)
THEOREM SessionsKeepControllers == LoopSpec => [](TypeOK /\ DeadlineReported /\ LoadMatchesRevision)
<1>1. SessionInv => TypeOK /\ DeadlineReported /\ LoadMatchesRevision
  BY DEF SessionInv, ControllerInv, Scheduling, LoadMatchesRevision, isActiveLoad
<1> QED
  BY <1>1, SessionInvariance, PTL
=============================================================================
