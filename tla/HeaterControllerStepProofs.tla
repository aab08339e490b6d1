--------------------- MODULE HeaterControllerStepProofs ---------------------
(***************************************************************************)
(* What no step of HeaterController may do, for every value of its         *)
(* constants: let go of a session or a fence before the heater is off.     *)
(*                                                                         *)
(* Guards(s, t) says it of two states of the object.  It is transitive as  *)
(* long as no helper believes in an OFF that was not there before, so the  *)
(* proof follows the pipelines of step() and handle_frame() as the proof   *)
(* of the invariant does, and takes from there that every intermediate     *)
(* state is safe.                                                          *)
(***************************************************************************)
EXTENDS HeaterControllerProofs

(* Helpers withdraw a request but never make one, learn of a broken link   *)
(* but never of an OFF, and end what guards a run at OFF alone.            *)
Guards(s, t) ==
    /\ t.on => s.on
    /\ t.state \in {s.state, "unknown"}
    /\ s.session # None =>
          \/ t.session # None /\ t.session.id = s.session.id
          \/ t.session = None /\ s.state = "off" /\ ~t.on
    /\ s.session = None /\ ~s.on => t.session = None
    /\ s.restartBlocked /\ ~t.restartBlocked => s.state = "off" /\ ~t.on
    /\ s.latch # None /\ t.latch = None => s.state = "off" /\ ~t.on

(* What guards a run and what decides of it                                *)
SameGuard(s, t) ==
    /\ t.on = s.on
    /\ t.session = s.session
    /\ t.latch = s.latch
    /\ t.restartBlocked = s.restartBlocked

(* Both pipelines are closed under composition. *)
LEMMA GuardsChains ==
    ASSUME NEW s, NEW t, NEW u, Guards(s, t), Guards(t, u)
    PROVE  Guards(s, u)
<1>1. s.session # None =>
          \/ u.session # None /\ u.session.id = s.session.id
          \/ u.session = None /\ s.state = "off" /\ ~u.on
  BY DEF Guards
<1>2. s.session = None /\ ~s.on => u.session = None
  BY DEF Guards
<1>3. /\ s.restartBlocked /\ ~u.restartBlocked => s.state = "off" /\ ~u.on
      /\ s.latch # None /\ u.latch = None => s.state = "off" /\ ~u.on
  BY DEF Guards
<1> QED BY <1>1, <1>2, <1>3 DEF Guards

LEMMA SameGuards ==
    ASSUME NEW s, NEW t, SameGuard(s, t), t.state \in {s.state, "unknown"}
    PROVE  Guards(s, t)
BY DEF SameGuard, Guards

-----------------------------------------------------------------------------
(* The helpers.                                                            *)

(* A withdrawn request leaves everything else as it is. *)
LEMMA RequestStopGuards ==
    ASSUME NEW s, Safe(s)
    PROVE  LET t == RequestStop(s)
           IN /\ Guards(s, t) /\ ~t.on
              /\ t.session = s.session /\ t.latch = s.latch
              /\ t.restartBlocked = s.restartBlocked /\ t.state = s.state
<1> DEFINE t == RequestStop(s)
<1>1. /\ ~t.on /\ t.session = s.session /\ t.latch = s.latch
      /\ t.restartBlocked = s.restartBlocked /\ t.state = s.state
  BY DEF RequestStop, Safe, WellTyped, Fields
<1> QED BY <1>1 DEF Guards

LEMMA ScheduleControlGuards ==
    ASSUME NEW s, Safe(s), NEW delay
    PROVE  LET t == ScheduleControl(s, delay)
           IN SameGuard(s, t) /\ t.state = s.state
BY DEF ScheduleControl, SameGuard, Safe, WellTyped, Fields

LEMMA MarkGuards ==
    ASSUME NEW s, DOMAIN s = Fields
    PROVE  LET t == MarkCommunicationError(s)
           IN SameGuard(s, t) /\ t.state = "unknown" /\ DOMAIN t = Fields
<1>1. DOMAIN MarkCommunicationError(s) = DOMAIN s
  BY Zenon DEF MarkCommunicationError
<1> QED BY <1>1 DEF MarkCommunicationError, SameGuard, Fields

LEMMA CheckRequestedStartDeadlineGuards ==
    ASSUME NEW s, Safe(s)
    PROVE  Guards(s, CheckRequestedStartDeadline(s))
<1> DEFINE t == RequestStop(s)
           u == [t EXCEPT !.pendingDue = None]
<1>1. Safe(t) /\ Guards(s, t)
  BY RequestStopGuards, RequestStopSafe DEF Keeps
<1> HIDE DEF t
<1>2. SameGuard(t, u) /\ u.state = t.state
  BY <1>1 DEF SameGuard, Safe, WellTyped, Fields
<1>3. Guards(s, u)
  BY <1>1, <1>2, SameGuards, GuardsChains
<1>4. Guards(s, s)
  BY DEF Guards
<1> QED BY <1>3, <1>4 DEF CheckRequestedStartDeadline, t

LEMMA CheckResponseTimeoutGuards ==
    ASSUME NEW s, Safe(s)
    PROVE  Guards(s, CheckResponseTimeout(s))
<1>1. Guards(s, MarkCommunicationError(s))
  BY MarkGuards, SameGuards DEF Safe, WellTyped
<1>2. Guards(s, s)
  BY DEF Guards
<1> QED BY <1>1, <1>2 DEF CheckResponseTimeout

(* An expired session remains until the heater is off. *)
LEMMA CheckSessionExpiryGuards ==
    ASSUME NEW s, Safe(s)
    PROVE  Guards(s, CheckSessionExpiry(s))
<1>1. CASE SessionExpires(s)
  <2> DEFINE t == RequestStop(s)
             e == [s.session EXCEPT !.expired = TRUE]
             u == [t EXCEPT !.session = e, !.pendingDue = 0]
  <2>1. s.session \in SessionType
    BY <1>1 DEF SessionExpires, Safe, WellTyped, FieldsTyped
  <2>2. e \in SessionType /\ e.id = s.session.id
    BY <2>1 DEF SessionType
  <2>3. e # None
    BY <2>2, NoneSessionAssumption
  <2>4. /\ Safe(t) /\ ~t.on /\ t.latch = s.latch
        /\ t.restartBlocked = s.restartBlocked /\ t.state = s.state
    BY RequestStopGuards, RequestStopSafe DEF Keeps
  <2>5. CheckSessionExpiry(s) = u
    BY <1>1 DEF CheckSessionExpiry
  <2> HIDE DEF t, e
  <2>6. /\ ~u.on /\ u.latch = s.latch /\ u.session = e
        /\ u.restartBlocked = s.restartBlocked /\ u.state = s.state
    BY <2>4 DEF Safe, WellTyped, Fields
  <2> QED BY <1>1, <2>2, <2>3, <2>5, <2>6 DEF Guards, SessionExpires
<1>2. CASE ~SessionExpires(s)
  BY <1>2 DEF CheckSessionExpiry, Guards
<1> QED BY <1>1, <1>2

(* The policy latches; it does not unlatch. *)
LEMMA ApplySensorPolicyGuards ==
    ASSUME NEW s, Safe(s), NEW reading
    PROVE  Guards(s, ApplySensorPolicy(s, reading))
<1> DEFINE t == RequestStop(s)
           due == IF s.on \/ s.latch # s.session.id THEN 0 ELSE s.pendingDue
           latched == [t EXCEPT !.pendingDue = due, !.latch = s.session.id]
           dropped == [t EXCEPT !.pendingDue = None]
<1>1. \/ ApplySensorPolicy(s, reading) \in {s, dropped}
      \/ s.session # None /\ ApplySensorPolicy(s, reading) = latched
  BY DEF ApplySensorPolicy
<1>2. /\ Safe(t) /\ ~t.on /\ t.latch = s.latch /\ t.session = s.session
      /\ t.restartBlocked = s.restartBlocked /\ t.state = s.state
  BY RequestStopGuards, RequestStopSafe DEF Keeps
<1> HIDE DEF t, due
<1>3. Guards(s, s)
  BY DEF Guards
<1>4. Guards(s, dropped)
  <2>1. /\ ~dropped.on /\ dropped.latch = s.latch
        /\ dropped.session = s.session /\ dropped.state = s.state
        /\ dropped.restartBlocked = s.restartBlocked
    BY <1>2 DEF Safe, WellTyped, Fields
  <2> QED BY <2>1 DEF Guards
<1>5. ASSUME s.session # None PROVE Guards(s, latched)
  <2>1. s.session.id \in Nat
    BY <1>5 DEF Safe, WellTyped, FieldsTyped, SessionType
  <2>2. s.session.id # None
    BY <2>1, NoneAssumption
  <2>3. /\ ~latched.on /\ latched.latch = s.session.id
        /\ latched.session = s.session /\ latched.state = s.state
        /\ latched.restartBlocked = s.restartBlocked
    BY <1>2 DEF Safe, WellTyped, Fields
  <2> HIDE DEF latched
  <2> QED BY <1>5, <2>2, <2>3 DEF Guards
<1> QED BY <1>1, <1>3, <1>4, <1>5

(* A session is made for a request that is ON. *)
LEMMA StartSessionGuards ==
    ASSUME NEW s, DOMAIN s = Fields, s.on, NEW reading
    PROVE  LET t == StartSession(s, reading)
           IN /\ Guards(s, t) /\ DOMAIN t = Fields /\ t.on = s.on
<1> DEFINE t == StartSession(s, reading)
<1>1. DOMAIN t = DOMAIN s
  BY Zenon DEF StartSession
<1>2. /\ t.on = s.on /\ t.latch = s.latch /\ t.state = s.state
      /\ t.restartBlocked = s.restartBlocked
      /\ s.session # None => t.session = s.session
  BY DEF StartSession, Fields
<1> HIDE DEF t
<1> QED BY <1>1, <1>2 DEF Guards, t

LEMMA EnsureActiveSessionGuards ==
    ASSUME NEW s, Safe(s), NEW reading
    PROVE  Guards(s, EnsureActiveSession(s, reading))
<1> DEFINE t == RequestStop(s)
           stopped == [t EXCEPT !.pendingDue = 0]
           new == StartSession(s, reading)
           confirmed == [new EXCEPT !.session =
                            [new.session EXCEPT !.confirmed = TRUE]]
<1>1. \/ EnsureActiveSession(s, reading) \in {s, stopped}
      \/ /\ s.session = None /\ s.on
         /\ EnsureActiveSession(s, reading) = confirmed
  BY Zenon DEF EnsureActiveSession
<1>2. Guards(s, s)
  BY DEF Guards
<1>3. Guards(s, stopped)
  <2>1. Safe(t) /\ Guards(s, t)
    BY RequestStopGuards, RequestStopSafe DEF Keeps
  <2> HIDE DEF t
  <2>2. SameGuard(t, stopped) /\ stopped.state = t.state
    BY <2>1 DEF SameGuard, Safe, WellTyped, Fields
  <2> QED BY <2>1, <2>2, SameGuards, GuardsChains
<1>4. ASSUME s.session = None, s.on PROVE Guards(s, confirmed)
  <2>1. Guards(s, new) /\ DOMAIN new = Fields
    BY <1>4, StartSessionGuards DEF Safe, WellTyped
  <2> HIDE DEF new
  <2>2. /\ confirmed.on = new.on /\ confirmed.latch = new.latch
        /\ confirmed.state = new.state
        /\ confirmed.restartBlocked = new.restartBlocked
    BY <2>1 DEF Fields
  <2> HIDE DEF confirmed
  <2> QED BY <1>4, <2>1, <2>2 DEF Guards
<1> QED BY <1>1, <1>2, <1>3, <1>4

(* A session is dropped when the heater is off and not wanted. *)
LEMMA DiscardSessionGuards ==
    ASSUME NEW s, Safe(s), ~s.on, s.state = "off"
    PROVE  LET t == DiscardSession(s)
           IN Guards(s, t) /\ ~t.on /\ t.state = s.state
<1> DEFINE t == DiscardSession(s)
<1>1. /\ t.on = s.on /\ t.session = None /\ t.latch = s.latch
      /\ t.restartBlocked = s.restartBlocked /\ t.state = s.state
  BY DEF DiscardSession, Safe, WellTyped, Fields
<1> QED BY <1>1 DEF Guards

LEMMA CompleteSensorStopIfOffGuards ==
    ASSUME NEW s, Safe(s)
    PROVE  LET t == CompleteSensorStopIfOff(s)
           IN Guards(s, t) /\ t.state = s.state /\ t.on = s.on
<1> DEFINE t == [s EXCEPT !.latch = None]
<1>1. /\ t.on = s.on /\ t.session = s.session
      /\ t.restartBlocked = s.restartBlocked /\ t.state = s.state
  BY DEF Safe, WellTyped, Fields
<1> HIDE DEF t
<1>2. CASE s.state = "off" /\ ~s.on /\ s.session = None
  BY <1>1, <1>2 DEF CompleteSensorStopIfOff, Guards, t
<1>3. CASE ~(s.state = "off" /\ ~s.on /\ s.session = None)
  BY <1>3 DEF CompleteSensorStopIfOff, Guards
<1> QED BY <1>2, <1>3

(* What is done to the attempt alone touches nothing that guards a run. *)
LEMMA AttemptGuards ==
    ASSUME NEW s, DOMAIN s = Fields, NEW attempt
    PROVE  LET t == [s EXCEPT !.attempt = attempt]
           IN SameGuard(s, t) /\ t.state = s.state /\ DOMAIN t = Fields
<1>1. DOMAIN [s EXCEPT !.attempt = attempt] = DOMAIN s
  BY Zenon
<1> QED BY <1>1 DEF SameGuard, Fields

LEMMA FaultGuards ==
    ASSUME NEW s, DOMAIN s = Fields, NEW fault
    PROVE  LET t == [s EXCEPT !.fault = fault, !.phase = "error",
                              !.pendingDue = None]
           IN SameGuard(s, t) /\ t.state = s.state
BY DEF SameGuard, Fields

LEMMA CheckControlConfirmationGuards ==
    ASSUME NEW s, Safe(s)
    PROVE  Guards(s, CheckControlConfirmation(s))
<1> DEFINE t == [s EXCEPT !.attempt = None]
           delay == IF s.attempt.sendFailed THEN 0 ELSE ControlSettle
           ready == [s EXCEPT !.attempt = [s.attempt EXCEPT !.retryReady = TRUE]]
<1>1. \/ CheckControlConfirmation(s) \in
           {s, t, SetControlFault(s), ScheduleControl(ready, delay)}
      \/ /\ ~s.on /\ s.state = "off"
         /\ CheckControlConfirmation(s) = DiscardSession(t)
  BY Zenon DEF CheckControlConfirmation, AttemptWasCancelled
<1>2. Guards(s, s)
  BY DEF Guards
<1>3. SameGuard(s, t) /\ t.state = s.state /\ DOMAIN t = Fields
  BY AttemptGuards DEF Safe, WellTyped
<1> HIDE DEF t
<1>4. Guards(s, t)
  BY <1>3, SameGuards
<1>5. Guards(s, SetControlFault(s))
  BY FaultGuards, SameGuards DEF SetControlFault, Safe, WellTyped
<1>6. Guards(s, ScheduleControl(ready, delay))
  <2>1. SameGuard(s, ready) /\ ready.state = s.state /\ DOMAIN ready = Fields
    BY AttemptGuards DEF Safe, WellTyped
  <2> HIDE DEF ready, delay
  <2>2. LET u == ScheduleControl(ready, delay)
        IN SameGuard(ready, u) /\ u.state = ready.state
    BY <2>1 DEF ScheduleControl, SameGuard, Fields
  <2> QED BY <2>1, <2>2, SameGuards, GuardsChains
<1>7. ASSUME ~s.on, s.state = "off" PROVE Guards(s, DiscardSession(t))
  <2> DEFINE u == DiscardSession(t)
  <2>1. /\ u.on = t.on /\ u.session = None /\ u.latch = t.latch
        /\ u.restartBlocked = t.restartBlocked /\ u.state = t.state
    BY <1>3 DEF DiscardSession, Fields
  <2> HIDE DEF u
  <2> QED BY <1>3, <1>7, <2>1 DEF Guards, SameGuard, u
<1> QED BY <1>1, <1>2, <1>4, <1>5, <1>6, <1>7

(* Everything step() does before it decides *)
LEMMA SuperviseGuards ==
    ASSUME NEW s, Safe(s), NEW reading \in Readings
    PROVE  Guards(s, Supervise(s, reading))
<1> DEFINE s1 == CheckRequestedStartDeadline(s)
           s2 == CheckResponseTimeout(s1)
           s3 == CheckSessionExpiry(s2)
           s4 == ApplySensorPolicy(s3, reading)
           s5 == EnsureActiveSession(s4, reading)
           s6 == CheckControlConfirmation(s5)
           s7 == CompleteSensorStopIfOff(s6)
<1>1. Supervise(s, reading) = s7
  BY DEF Supervise
<1>2. Safe(s1) /\ Guards(s, s1)
  BY CheckRequestedStartDeadlineSafe, CheckRequestedStartDeadlineGuards DEF Keeps
<1> HIDE DEF s1
<1>3. Safe(s2) /\ Guards(s1, s2)
  BY <1>2, CheckResponseTimeoutSafe, CheckResponseTimeoutGuards DEF Keeps
<1> HIDE DEF s2
<1>4. Safe(s3) /\ Alive(s3) /\ Guards(s2, s3)
  BY <1>3, CheckSessionExpirySafe, CheckSessionExpiryGuards DEF Keeps
<1> HIDE DEF s3
<1>5. Safe(s4) /\ StartPossible(s4, reading) /\ Guards(s3, s4)
  BY <1>4, ApplySensorPolicySafe, ApplySensorPolicyGuards DEF Keeps
<1> HIDE DEF s4
<1>6. Safe(s5) /\ StartPossible(s5, reading) /\ Guards(s4, s5)
  BY <1>5, EnsureActiveSessionSafe, EnsureActiveSessionGuards DEF Keeps
<1> HIDE DEF s5
<1>7. Safe(s6) /\ Guards(s5, s6)
  BY <1>6, CheckControlConfirmationSafe, CheckControlConfirmationGuards DEF Keeps
<1> HIDE DEF s6
<1>8. Guards(s6, s7)
  BY <1>7, CompleteSensorStopIfOffGuards
<1> HIDE DEF s7
<1>9. Guards(s, s4)
  BY <1>2, <1>3, <1>4, <1>5, GuardsChains
<1>10. Guards(s4, s7)
  BY <1>6, <1>7, <1>8, GuardsChains
<1> QED BY <1>1, <1>9, <1>10, GuardsChains

-----------------------------------------------------------------------------
(* Sending.                                                                *)

LEMMA TransmitControlGuards ==
    ASSUME NEW s, DOMAIN s = Fields, NEW command \in Commands, NEW sendOk \in BOOLEAN
    PROVE  LET t == TransmitControl(s, command, sendOk)
           IN /\ SameGuard(s, t)
              /\ t.state \in {s.state, "unknown"}
              /\ t.op \in StartOps => command = "start"
<1>1. CASE sendOk
  BY <1>1 DEF TransmitControl, SameGuard, Fields, StartOps, Commands
<1>2. CASE ~sendOk
  <2> DEFINE broken == MarkCommunicationError(s)
             op == IF command = "start" THEN "start_error" ELSE "shutdown_error"
             a == [s.attempt EXCEPT !.sendFailed = TRUE]
             t == [broken EXCEPT !.attempt = a, !.op = op]
  <2>1. SameGuard(s, broken) /\ broken.state = "unknown" /\ DOMAIN broken = Fields
    BY MarkGuards
  <2>2. op \in StartOps => command = "start"
    BY DEF StartOps
  <2>3. TransmitControl(s, command, sendOk) = t
    BY <1>2 DEF TransmitControl
  <2> HIDE DEF broken, op, a
  <2>4. SameGuard(broken, t) /\ t.state = broken.state /\ t.op = op
    BY <2>1 DEF SameGuard, Fields
  <2> QED BY <2>1, <2>2, <2>3, <2>4 DEF SameGuard
<1> QED BY <1>1, <1>2

(* What a command that is sent leaves alone *)
SendGuards(s, t) == Guards(s, t) /\ (t.op \in StartOps => t.on)

(* A SHUTDOWN raises the fence. *)
LEMMA SendShutdownGuards ==
    ASSUME NEW s, DOMAIN s = Fields, NEW sendOk \in BOOLEAN
    PROVE  SendGuards(s, SendShutdown(s, sendOk))
<1> DEFINE t == OpenAttempt(s, "shutdown")
           u == [t EXCEPT !.restartBlocked = TRUE,
                          !.shutdownSentRev = t.attempt.revision]
           w == TransmitControl(u, "shutdown", sendOk)
<1>1. SendShutdown(s, sendOk) = w
  BY DEF SendShutdown
<1>2. SameGuard(s, t) /\ t.state = s.state /\ DOMAIN t = Fields
  BY AttemptGuards DEF OpenAttempt
<1> HIDE DEF t
<1>3. DOMAIN u = DOMAIN t
  BY Zenon
<1>4. /\ u.on = t.on /\ u.session = t.session /\ u.latch = t.latch
      /\ u.restartBlocked /\ u.state = t.state
  BY <1>2 DEF Fields
<1> HIDE DEF u
<1>5. /\ SameGuard(u, w) /\ w.state \in {u.state, "unknown"}
      /\ w.op \notin StartOps
  BY <1>2, <1>3, TransmitControlGuards DEF Commands
<1> HIDE DEF w
<1> QED BY <1>1, <1>2, <1>4, <1>5 DEF SendGuards, Guards, SameGuard

(* A START makes a session if there is none. *)
LEMMA SendStartGuards ==
    ASSUME NEW s, DOMAIN s = Fields, s.on, s.op = "none", NEW reading,
           NEW sendOk \in BOOLEAN
    PROVE  SendGuards(s, SendStart(s, reading, sendOk))
<1> DEFINE t == OpenAttempt(s, "start")
           refused == [t EXCEPT !.attempt = None, !.raised = TRUE]
           u == StartSession(t, reading)
           v == [u EXCEPT !.startSentRev = t.attempt.revision]
           w == TransmitControl(v, "start", sendOk)
<1>1. SendStart(s, reading, sendOk) \in {refused, w}
  BY Zenon DEF SendStart
<1>2. SameGuard(s, t) /\ t.state = s.state /\ DOMAIN t = Fields /\ t.op = s.op
  BY AttemptGuards DEF OpenAttempt, Fields
<1> HIDE DEF t
<1>3. SendGuards(s, refused)
  <2>1. SameGuard(t, refused) /\ refused.state = t.state /\ refused.op = t.op
    BY <1>2 DEF SameGuard, Fields
  <2> QED BY <1>2, <2>1, SameGuards, GuardsChains DEF SendGuards, SameGuard, StartOps
<1>4. Guards(t, u) /\ DOMAIN u = Fields /\ u.on
  BY <1>2, StartSessionGuards DEF SameGuard
<1> HIDE DEF u
<1>5. DOMAIN v = DOMAIN u
  BY Zenon
<1>6. SameGuard(u, v) /\ v.state = u.state
  BY <1>4 DEF SameGuard, Fields
<1> HIDE DEF v
<1>7. SameGuard(v, w) /\ w.state \in {v.state, "unknown"}
  BY <1>4, <1>5, TransmitControlGuards DEF Commands
<1> HIDE DEF w
<1>8. Guards(s, t) /\ Guards(u, v) /\ Guards(v, w)
  BY <1>2, <1>6, <1>7, SameGuards
<1>9. Guards(s, w) /\ w.on
  BY <1>4, <1>6, <1>7, <1>8, GuardsChains DEF SameGuard
<1> QED BY <1>1, <1>3, <1>9 DEF SendGuards

(* The decision, with no attempt open *)
LEMMA DecideGuards ==
    ASSUME NEW s, DOMAIN s = Fields, s.op = "none", NEW reading,
           NEW sendOk \in BOOLEAN
    PROVE  SendGuards(s, Decide(s, reading, sendOk))
<1>1. SendGuards(s, s)
  BY DEF SendGuards, Guards, StartOps
<1>2. ASSUME NEW command, NEW recover
      PROVE  SendGuards(s, SetPolicyFault(s, command, recover))
  <2> DEFINE fault == [command |-> command, recover |-> recover]
             t == [s EXCEPT !.fault = fault, !.phase = "error", !.pendingDue = None]
  <2>1. SetPolicyFault(s, command, recover) \in {s, t}
    BY DEF SetPolicyFault
  <2> HIDE DEF fault
  <2>2. SameGuard(s, t) /\ t.state = s.state /\ t.op = s.op
    BY FaultGuards DEF Fields
  <2> QED BY <1>1, <2>1, <2>2, SameGuards DEF SendGuards, StartOps
<1>3. SendGuards(s, DecideOff(s, reading, sendOk))
  BY <1>1, <1>2, SendStartGuards DEF DecideOff, SendControl
<1>4. SendGuards(s, DecideStarting(s))
  <2> DEFINE t == [s EXCEPT !.stoppingAge = 0]
  <2>1. SameGuard(s, t) /\ t.state = s.state /\ t.op = s.op
    BY DEF SameGuard, Fields
  <2>2. SendGuards(s, t)
    BY <2>1, SameGuards DEF SendGuards, StartOps
  <2> QED BY <1>1, <1>2, <2>2 DEF DecideStarting
<1>5. SendGuards(s, DecideRunning(s, reading, sendOk))
  BY <1>1, <1>2, SendShutdownGuards DEF DecideRunning, SendControl
<1> QED BY <1>1, <1>2, <1>3, <1>4, <1>5 DEF Decide

(* The decision of a step, whatever is open *)
LEMMA EvaluateControlGuards ==
    ASSUME NEW s, Safe(s), s.op = "none", NEW reading, NEW sendOk \in BOOLEAN
    PROVE  SendGuards(s, EvaluateControl(s, reading, sendOk))
<1> DEFINE t == [s EXCEPT !.pendingDue = None]
           age == IF t.state # "starting" \/ t.on THEN None ELSE t.stoppingAge
           u == [t EXCEPT !.stoppingAge = age]
<1>1. /\ DOMAIN t = Fields /\ SameGuard(s, t) /\ t.state = s.state
      /\ t.op = "none" /\ Safe(t)
  BY PendingDueSafe DEF SameCore, SameGuard, Keeps, Safe, WellTyped
<1>2. EvaluateControl(s, reading, sendOk) =
          IF ~ControlAllowed(t) THEN t
          ELSE IF t.attempt # None
          THEN IF t.attempt.retryReady /\ AttemptMatchesRequest(t)
               THEN SendControl(t, t.attempt.command, reading, sendOk)
               ELSE t
          ELSE Decide(u, reading, sendOk)
  BY DEF EvaluateControl
<1> HIDE DEF t
<1>3. Guards(s, t) /\ SendGuards(s, t)
  BY <1>1, SameGuards DEF SendGuards, StartOps
<1>4. \A v : SendGuards(t, v) => SendGuards(s, v)
  BY <1>3, GuardsChains DEF SendGuards
<1>5. ASSUME t.attempt # None, AttemptMatchesRequest(t)
      PROVE  SendGuards(t, SendControl(t, t.attempt.command, reading, sendOk))
  BY <1>1, <1>5, SendStartGuards, SendShutdownGuards
     DEF SendControl, AttemptMatchesRequest
<1>6. SendGuards(t, Decide(u, reading, sendOk))
  <2> HIDE DEF age
  <2>1. DOMAIN u = DOMAIN t
    BY Zenon
  <2>2. SameGuard(t, u) /\ u.state = t.state /\ u.op = t.op
    BY <1>1 DEF SameGuard, Fields
  <2> HIDE DEF u
  <2>3. SendGuards(u, Decide(u, reading, sendOk))
    BY <1>1, <2>1, <2>2, DecideGuards
  <2> QED BY <2>2, <2>3, SameGuards, GuardsChains DEF SendGuards
<1> HIDE DEF u
<1> QED BY <1>2, <1>3, <1>4, <1>5, <1>6

(* A poll guards what there is and is no START. *)
LEMMA PollIfDueGuards ==
    ASSUME NEW s, DOMAIN s = Fields, s.op = "none", NEW sendOk \in BOOLEAN
    PROVE  SendGuards(s, PollIfDue(s, sendOk))
<1> DEFINE command == IF s.initialized THEN "status" ELSE "initialization"
           phase == IF s.phase = "error" THEN "error"
                    ELSE IF s.initialized THEN "wait_status" ELSE "wait_init"
           waiting == [s EXCEPT !.nextDue = Heartbeat, !.phase = phase]
           errorOp == IF s.initialized THEN "status_error"
                      ELSE "initialization_error"
           broken == MarkCommunicationError(waiting)
           failed == [broken EXCEPT !.op = errorOp]
           again == [waiting EXCEPT !.op = command]
           first == [waiting EXCEPT !.op = command, !.expected = command,
                                    !.waitAge = 0]
<1>1. PollIfDue(s, sendOk) \in {s, failed, again, first}
  BY DEF PollIfDue, RequestSynchronization
<1>0. {"none", command, errorOp} \cap StartOps = {}
  BY DEF StartOps
<1> HIDE DEF phase, command, errorOp
<1>2. DOMAIN waiting = DOMAIN s
  BY Zenon
<1>3. SameGuard(s, waiting) /\ waiting.state = s.state
  BY DEF SameGuard, Fields
<1> HIDE DEF waiting
<1>4. SameGuard(waiting, broken) /\ broken.state = "unknown" /\ DOMAIN broken = Fields
  BY <1>2, MarkGuards
<1> HIDE DEF broken
<1>5. SameGuard(broken, failed) /\ failed.state = broken.state /\ failed.op = errorOp
  BY <1>4 DEF SameGuard, Fields
<1>6. SameGuard(waiting, again) /\ again.state = waiting.state /\ again.op = command
  BY <1>2 DEF SameGuard, Fields
<1>7. SameGuard(waiting, first) /\ first.state = waiting.state /\ first.op = command
  BY <1>2 DEF SameGuard, Fields
<1> HIDE DEF failed, again, first
<1>8. Guards(s, s)
  BY DEF Guards
<1>9. Guards(s, failed) /\ Guards(s, again) /\ Guards(s, first)
  BY <1>3, <1>4, <1>5, <1>6, <1>7, SameGuards DEF SameGuard
<1> QED BY <1>0, <1>1, <1>5, <1>6, <1>7, <1>8, <1>9 DEF SendGuards

(* step(), from supervision to the last poll *)
LEMMA StepControllerGuards ==
    ASSUME NEW s, Safe(s), Ready(s), s.op = "none",
           NEW reading \in Readings, NEW sendOk \in BOOLEAN
    PROVE  SendGuards(s, StepController(s, reading, sendOk))
<1> DEFINE t == Supervise(s, reading)
           u == EvaluateControl(t, reading, sendOk)
           due == IF t.expected = None THEN 0 ELSE t.nextDue
           stale == [t EXCEPT !.pendingDue = None, !.nextDue = due]
<1>1. StepController(s, reading, sendOk) \in
          {PollIfDue(t, sendOk), PollIfDue(stale, sendOk), u}
      \/ /\ StepController(s, reading, sendOk) = PollIfDue(u, sendOk)
         /\ u.op = "none"
  BY Zenon DEF StepController
<1>2. /\ Safe(t) /\ Ready(t) /\ Alive(t) /\ t.op = "none"
      /\ StartPossible(t, reading) /\ DOMAIN t = Fields
  BY SuperviseSafe DEF Keeps, Safe, WellTyped
<1>3. Guards(s, t)
  BY SuperviseGuards
<1> HIDE DEF t
<1>4. SendGuards(t, u) /\ DOMAIN u = Fields
  BY <1>2, EvaluateControlGuards, EvaluateControlSafe DEF SendGuards, Safe, WellTyped
<1> HIDE DEF u, due
<1>5. DOMAIN stale = DOMAIN t
  BY Zenon
<1>6. SameGuard(t, stale) /\ stale.state = t.state /\ stale.op = "none"
  BY <1>2 DEF SameGuard, Fields
<1> HIDE DEF stale
<1>7. Guards(t, stale)
  BY <1>6, SameGuards
<1>8. /\ SendGuards(t, PollIfDue(t, sendOk))
      /\ SendGuards(stale, PollIfDue(stale, sendOk))
      /\ u.op = "none" => SendGuards(u, PollIfDue(u, sendOk))
  BY <1>2, <1>4, <1>5, <1>6, PollIfDueGuards
<1> QED BY <1>1, <1>3, <1>4, <1>7, <1>8, GuardsChains DEF SendGuards

-----------------------------------------------------------------------------
(* Receiving.                                                              *)

(* The helpers of handle_frame() do not change what the heater reported,   *)
(* and make no session.                                                    *)
Answers(s, t) ==
    /\ Guards(s, t)
    /\ t.state = s.state
    /\ s.session = None => t.session = None

LEMMA AnswersChains ==
    ASSUME NEW s, NEW t, NEW u, Answers(s, t), Answers(t, u)
    PROVE  Answers(s, u)
BY GuardsChains DEF Answers

LEMMA CancelUnexpectedStopGuards ==
    ASSUME NEW s, Safe(s), NEW previous, NEW recovering
    PROVE  Answers(s, CancelUnexpectedStop(s, previous, recovering))
<1> DEFINE t == RequestStop(s)
<1>1. Safe(t) /\ ~t.on /\ Answers(s, t)
  BY RequestStopSafe, RequestStopGuards DEF Keeps, Answers
<1>2. Answers(s, s)
  BY DEF Answers, Guards
<1> HIDE DEF t
<1>3. ASSUME s.state = "off" PROVE Answers(t, DiscardSession(t))
  <2>1. DiscardSession(t).session = None
    BY <1>1 DEF DiscardSession, Safe, WellTyped, Fields
  <2> QED BY <1>1, <1>3, <2>1, DiscardSessionGuards DEF Answers
<1>4. s.state = "off" => Answers(s, DiscardSession(t))
  BY <1>1, <1>3, AnswersChains
<1> QED BY <1>2, <1>4 DEF CancelUnexpectedStop, UnexpectedStop, t

LEMMA SettleOffGuards ==
    ASSUME NEW s, Safe(s)
    PROVE  Answers(s, SettleOff(s))
<1> DEFINE stopped == RequestStop(s)
           fallen == [stopped EXCEPT !.restartBlocked = FALSE]
           unblocked == IF s.restartBlocked THEN fallen ELSE s
           settled == IF /\ ~unblocked.on
                         /\ s.attempt = None \/ s.attempt.command # "start"
                      THEN DiscardSession(unblocked)
                      ELSE unblocked
<1>1. SettleOff(s) = IF s.state # "off" THEN s
                     ELSE CompleteSensorStopIfOff(settled)
  BY DEF SettleOff
<1>2. Answers(s, s)
  BY DEF Answers, Guards
<1>3. CASE s.state = "off"
  <2>1. Safe(stopped) /\ ~stopped.on /\ Answers(s, stopped)
    BY RequestStopSafe, RequestStopGuards DEF Keeps, Answers
  <2> HIDE DEF stopped
  <2>2. DOMAIN fallen = DOMAIN stopped
    BY Zenon
  <2>3. /\ fallen.on = stopped.on /\ fallen.session = stopped.session
        /\ fallen.latch = stopped.latch /\ fallen.state = stopped.state
    BY <2>1 DEF Safe, WellTyped, Fields
  <2>4. DOMAIN fallen = Fields
    BY <2>1, <2>2 DEF Safe, WellTyped
  <2> HIDE DEF fallen
  <2>5. Answers(stopped, fallen)
    BY <1>3, <2>1, <2>3 DEF Answers, Guards
  <2>6. Answers(s, unblocked) /\ DOMAIN unblocked = Fields
    BY <1>2, <2>1, <2>4, <2>5, AnswersChains DEF Safe, WellTyped
  <2> HIDE DEF unblocked
  <2>7. ASSUME ~unblocked.on
        PROVE  Answers(unblocked, DiscardSession(unblocked))
    <3> DEFINE d == DiscardSession(unblocked)
    <3>1. /\ d.on = unblocked.on /\ d.session = None /\ d.latch = unblocked.latch
          /\ d.restartBlocked = unblocked.restartBlocked /\ d.state = unblocked.state
      BY <2>6 DEF DiscardSession, Fields
    <3>2. unblocked.state = "off"
      BY <1>3, <2>6 DEF Answers
    <3> HIDE DEF d
    <3>3. Answers(unblocked, d)
      BY <2>7, <3>1, <3>2 DEF Answers, Guards
    <3> QED BY <3>3 DEF d
  <2>8. Answers(s, settled) /\ DOMAIN settled = Fields
    <3>1. DOMAIN DiscardSession(unblocked) = DOMAIN unblocked
      BY Zenon DEF DiscardSession
    <3> QED BY <2>6, <2>7, <3>1, AnswersChains
  <2> HIDE DEF settled
  <2>9. Answers(settled, CompleteSensorStopIfOff(settled))
    <3> DEFINE l == [settled EXCEPT !.latch = None]
    <3>1. /\ l.on = settled.on /\ l.session = settled.session
          /\ l.restartBlocked = settled.restartBlocked /\ l.state = settled.state
      BY <2>8 DEF Fields
    <3> HIDE DEF l
    <3>2. settled.state = "off" /\ ~settled.on => Answers(settled, l)
      BY <3>1 DEF Answers, Guards
    <3>3. Answers(settled, settled)
      BY DEF Answers, Guards
    <3> QED BY <3>2, <3>3 DEF CompleteSensorStopIfOff, l
  <2> QED BY <1>1, <1>3, <2>8, <2>9, AnswersChains
<1> QED BY <1>1, <1>2, <1>3

LEMMA SettleFaultGuards ==
    ASSUME NEW s, Safe(s)
    PROVE  Answers(s, SettleFault(s))
<1> DEFINE t == ClearControlFault(s)
           d == DiscardSession(t)
<1>1. \/ SettleFault(s) \in {s, t}
      \/ ~s.on /\ s.state = "off" /\ SettleFault(s) = d
  BY Zenon DEF SettleFault
<1>2. Answers(s, s)
  BY DEF Answers, Guards
<1>3. DOMAIN t = DOMAIN s
  BY Zenon DEF ClearControlFault
<1>4. SameGuard(s, t) /\ t.state = s.state
  BY DEF ClearControlFault, SameGuard, Safe, WellTyped, Fields
<1> HIDE DEF t
<1>5. Answers(s, t)
  BY <1>4, SameGuards DEF Answers, SameGuard
<1>6. /\ d.on = t.on /\ d.session = None /\ d.latch = t.latch
      /\ d.restartBlocked = t.restartBlocked /\ d.state = t.state
  BY <1>3 DEF DiscardSession, Safe, WellTyped, Fields
<1> HIDE DEF d
<1>7. ~s.on /\ s.state = "off" => Answers(s, d)
  BY <1>4, <1>6 DEF Answers, Guards, SameGuard
<1> QED BY <1>1, <1>2, <1>5, <1>7

LEMMA SettleAttemptGuards ==
    ASSUME NEW s, Safe(s)
    PROVE  Answers(s, SettleAttempt(s))
<1> DEFINE a == [s.attempt EXCEPT !.statusAfterSend = TRUE]
<1>1. SettleAttempt(s) \in {s, [s EXCEPT !.attempt = None], [s EXCEPT !.attempt = a]}
  BY DEF SettleAttempt
<1>2. Answers(s, s)
  BY DEF Answers, Guards
<1>3. ASSUME NEW b PROVE Answers(s, [s EXCEPT !.attempt = b])
  <2> DEFINE t == [s EXCEPT !.attempt = b]
  <2>1. SameGuard(s, t) /\ t.state = s.state
    BY AttemptGuards DEF Safe, WellTyped
  <2> HIDE DEF t
  <2> QED BY <2>1, SameGuards DEF Answers, SameGuard, t
<1> QED BY <1>1, <1>2, <1>3

LEMMA ConfirmSessionGuards ==
    ASSUME NEW s, Safe(s)
    PROVE  Answers(s, ConfirmSession(s))
<1> DEFINE c == [s.session EXCEPT !.confirmed = TRUE]
           t == [s EXCEPT !.session = c]
<1>1. CASE s.session # None /\ s.state \in Active
  <2>1. s.session \in SessionType
    BY <1>1 DEF Safe, WellTyped, FieldsTyped
  <2>2. c \in SessionType /\ c.id = s.session.id
    BY <2>1 DEF SessionType
  <2>3. c # None
    BY <2>2, NoneSessionAssumption
  <2> HIDE DEF c
  <2>4. /\ t.on = s.on /\ t.latch = s.latch /\ t.session = c
        /\ t.restartBlocked = s.restartBlocked /\ t.state = s.state
    BY DEF Safe, WellTyped, Fields
  <2>5. ConfirmSession(s) = t
    BY <1>1 DEF ConfirmSession, c
  <2> HIDE DEF t
  <2> QED BY <1>1, <2>2, <2>3, <2>4, <2>5 DEF Answers, Guards
<1>2. CASE ~(s.session # None /\ s.state \in Active)
  BY <1>2 DEF ConfirmSession, Answers, Guards
<1> QED BY <1>1, <1>2

LEMMA ProcessControlConfirmationGuards ==
    ASSUME NEW s, Safe(s), NEW previous, NEW recovering
    PROVE  Answers(s, ProcessControlConfirmation(s, previous, recovering))
<1> DEFINE s1 == CancelUnexpectedStop(s, previous, recovering)
           s2 == SettleOff(s1)
           s3 == SettleFault(s2)
           s4 == SettleAttempt(s3)
           s5 == ConfirmSession(s4)
<1>1. ProcessControlConfirmation(s, previous, recovering) = s5
  BY DEF ProcessControlConfirmation
<1>2. Safe(s1) /\ Answers(s, s1)
  BY CancelUnexpectedStopSafe, CancelUnexpectedStopGuards DEF Settles
<1> HIDE DEF s1
<1>3. Safe(s2) /\ Answers(s1, s2)
  BY <1>2, SettleOffSafe, SettleOffGuards DEF Settles
<1> HIDE DEF s2
<1>4. Safe(s3) /\ Answers(s2, s3)
  BY <1>3, SettleFaultSafe, SettleFaultGuards DEF Settles
<1> HIDE DEF s3
<1>5. Safe(s4) /\ Answers(s3, s4)
  BY <1>4, SettleAttemptSafe, SettleAttemptGuards DEF Settles
<1> HIDE DEF s4
<1>6. Answers(s4, s5)
  BY <1>5, ConfirmSessionGuards
<1> HIDE DEF s5
<1> QED BY <1>1, <1>2, <1>3, <1>4, <1>5, <1>6, AnswersChains

LEMMA SettleSynchronizationGuards ==
    ASSUME NEW s, Safe(s)
    PROVE  Answers(s, SettleSynchronization(s))
<1> DEFINE u == ScheduleControl(s, ControlSettle)
           phase == IF s.fault = None THEN "ready" ELSE "error"
           synced == [u EXCEPT !.phase = phase, !.commFault = FALSE]
           waiting == [s EXCEPT !.phase = "wait_status", !.pendingDue = None]
<1>1. SettleSynchronization(s) \in {synced, waiting}
  BY DEF SettleSynchronization
<1>2. SameGuard(s, waiting) /\ waiting.state = s.state
  BY DEF SameGuard, Safe, WellTyped, Fields
<1>3. DOMAIN u = DOMAIN s
  <2>1. DOMAIN [s EXCEPT !.pendingDue = ControlSettle] = DOMAIN s
    BY Zenon
  <2> QED BY <2>1 DEF ScheduleControl
<1>4. SameGuard(s, u) /\ u.state = s.state
  BY ScheduleControlGuards
<1> HIDE DEF u, phase
<1>5. SameGuard(u, synced) /\ synced.state = u.state
  BY <1>3 DEF SameGuard, Safe, WellTyped, Fields
<1> HIDE DEF synced, waiting
<1> QED BY <1>1, <1>2, <1>4, <1>5, SameGuards DEF Answers, SameGuard

-----------------------------------------------------------------------------
(* The actions.                                                            *)

(* A step lets go of what guards a run at OFF alone.                       *)
LetsGoAtOff(s, t) ==
    /\ s.session # None =>
          \/ /\ t.session # None
             /\ t.session.id = s.session.id
          \/ /\ t.session = None
             /\ "off" \in {s.state, t.state}
             /\ ~t.on
    /\ \/ s.restartBlocked /\ ~t.restartBlocked
       \/ s.latch # None /\ t.latch = None
       => /\ "off" \in {s.state, t.state}
          /\ ~t.on
          /\ t.op \notin StartOps

LEMMA GuardsLetGo ==
    ASSUME NEW s, NEW t, Guards(s, t), t.op \in StartOps => t.on
    PROVE  LetsGoAtOff(s, t)
BY DEF Guards, LetsGoAtOff

LEMMA BeginGuards ==
    ASSUME IInv
    PROVE  LET s == Begin(ctl)
           IN /\ Safe(s) /\ Ready(s) /\ s.op = "none" /\ DOMAIN s = Fields
              /\ SameGuard(ctl, s) /\ s.state = ctl.state
<1>1. Begin(ctl).state = ctl.state
  BY DEF Begin, IInv, Safe, WellTyped, Fields
<1> QED BY <1>1, BeginSafe DEF IInv, SameCore, SameGuard, Safe, WellTyped

LEMMA StatusGuards ==
    ASSUME NEW s, Safe(s), NEW state \in HeaterStates, s.initialized
    PROVE  LET a == AcceptStatus(s, state)
               t == SettleSynchronization(
                       ProcessControlConfirmation(a, s.state, s.commFault))
           IN SameGuard(s, a) /\ Answers(a, t)
<1> DEFINE a == AcceptStatus(s, state)
           p == ProcessControlConfirmation(a, s.state, s.commFault)
<1>1. Safe(a)
  BY AcceptStatusSafe
<1>2. SameGuard(s, a)
  BY DEF AcceptStatus, SameGuard, Safe, WellTyped, Fields
<1> HIDE DEF a
<1>3. Safe(p) /\ Answers(a, p)
  BY <1>1, ProcessControlConfirmationSafe, ProcessControlConfirmationGuards DEF Settles
<1> HIDE DEF p
<1>4. Answers(p, SettleSynchronization(p))
  BY <1>3, SettleSynchronizationGuards
<1> QED BY <1>2, <1>3, <1>4, AnswersChains DEF a, p

LEMMA HandleFrameLetsGo ==
    ASSUME IInv, HandleFrame
    PROVE  LetsGoAtOff(ctl, ctl')
<1> DEFINE s == Begin(ctl)
<1>1. /\ Safe(s) /\ s.op = "none" /\ DOMAIN s = Fields
      /\ SameGuard(ctl, s) /\ s.state = ctl.state
  BY BeginGuards
<1>2. \/ ctl' = RecordInvalidFrame(s)
      \/ ctl' = MarkCommunicationError(RecordInvalidFrame(s))
      \/ ctl' = HandleInit(s)
      \/ \E state \in HeaterStates : ctl' = HandleStatus(s, state)
  BY DEF HandleFrame, InvalidFrame, RefusedFrame, InitFrame, StatusFrame
<1>0. ctl'.op \notin StartOps
  BY HandleFrameSafe DEF Quiet
<1> HIDE DEF s
<1>3. ASSUME SameGuard(s, ctl') PROVE LetsGoAtOff(ctl, ctl')
  BY <1>0, <1>1, <1>3 DEF SameGuard, LetsGoAtOff
<1>4. SameGuard(s, RecordInvalidFrame(s)) /\ DOMAIN RecordInvalidFrame(s) = Fields
  <2> DEFINE n == AtMost(s.strikes + 1, InvalidFrameThreshold)
             t == [s EXCEPT !.strikes = n, !.validStreak = 0, !.pendingDue = None]
  <2>1. RecordInvalidFrame(s) \in {t, MarkCommunicationError(t)}
    BY DEF RecordInvalidFrame
  <2> HIDE DEF n
  <2>2. DOMAIN t = DOMAIN s
    BY Zenon
  <2>3. SameGuard(s, t)
    BY <1>1 DEF SameGuard, Fields
  <2> HIDE DEF t
  <2>4. SameGuard(t, MarkCommunicationError(t))
        /\ DOMAIN MarkCommunicationError(t) = Fields
    BY <1>1, <2>2, MarkGuards
  <2> QED BY <1>1, <2>1, <2>2, <2>3, <2>4 DEF SameGuard
<1>5. SameGuard(s, MarkCommunicationError(RecordInvalidFrame(s)))
  BY <1>4, MarkGuards DEF SameGuard
<1>6. SameGuard(s, MarkCommunicationError(s)) /\ SameGuard(s, s)
  BY <1>1, MarkGuards DEF SameGuard
<1>7. SameGuard(s, HandleInit(s))
  BY <1>1, <1>6 DEF HandleInit, SameGuard, Fields
<1>8. ASSUME NEW state \in HeaterStates, ctl' = HandleStatus(s, state)
      PROVE  LetsGoAtOff(ctl, ctl')
  <2> DEFINE a == AcceptStatus(s, state)
             t == SettleSynchronization(
                     ProcessControlConfirmation(a, s.state, s.commFault))
  <2>1. \/ ctl' \in {s, MarkCommunicationError(s)}
        \/ s.initialized /\ ctl' = t
    BY <1>8, Zenon DEF HandleStatus
  <2>2. ASSUME s.initialized, ctl' = t PROVE LetsGoAtOff(ctl, ctl')
    <3>1. SameGuard(s, a) /\ Answers(a, ctl')
      BY <1>1, <1>8, <2>2, StatusGuards
    <3> HIDE DEF a
    <3>2. LetsGoAtOff(a, ctl') /\ ctl'.state = a.state
      BY <1>0, <3>1, GuardsLetGo DEF Answers
    <3> QED BY <1>1, <3>1, <3>2 DEF LetsGoAtOff, SameGuard
  <2> QED BY <1>3, <1>6, <2>1, <2>2
<1> QED BY <1>2, <1>3, <1>4, <1>5, <1>7, <1>8

LEMMA StepLetsGo ==
    ASSUME IInv, Step
    PROVE  LetsGoAtOff(ctl, ctl')
<1> DEFINE s == Begin(ctl)
<1>1. /\ Safe(s) /\ Ready(s) /\ s.op = "none"
      /\ SameGuard(ctl, s) /\ s.state = ctl.state
  BY BeginGuards
<1> HIDE DEF s
<1>2. SendGuards(s, ctl')
  BY <1>1, StepControllerGuards DEF Step, s
<1>3. Guards(ctl, ctl') /\ (ctl'.op \in StartOps => ctl'.on)
  BY <1>1, <1>2, SameGuards, GuardsChains DEF SendGuards
<1> QED BY <1>3, GuardsLetGo

(* Callers, retries and the clock let go of nothing but the request. *)
LEMMA CallsLetGo ==
    ASSUME IInv, \/ ReportCommunicationError \/ RequestStart \/ Stop
                 \/ UpdateActiveSession \/ RetryControlFault \/ Tick
    PROVE  LetsGoAtOff(ctl, ctl')
<1> DEFINE s == Begin(ctl)
<1>1. /\ Safe(s) /\ DOMAIN s = Fields /\ SameGuard(ctl, s)
  BY BeginGuards
<1> HIDE DEF s
<1>2. CASE ReportCommunicationError
  BY <1>1, <1>2, MarkGuards DEF ReportCommunicationError, SameGuard, LetsGoAtOff, s
<1>3. CASE RequestStart
  BY <1>3 DEF RequestStart, StartAccepted, LetsGoAtOff
<1>4. CASE Stop
  BY <1>1, <1>4, RequestStopGuards DEF Stop, SameGuard, LetsGoAtOff, s
<1>5. CASE UpdateActiveSession
  <2>1. /\ ctl.session # None /\ ctl.session \in SessionType
        /\ ctl.session.runtime = ctl.runtime
    BY <1>5 DEF UpdateActiveSession, SessionAdjustable, IInv, Safe, WellTyped, FieldsTyped
  <2>2. PICK target \in Targets, extend \in {0, ExtendBy} :
            /\ ExtensionAllowed(ctl, extend)
            /\ ctl' = [s EXCEPT
                !.target = target, !.runtime = ctl.runtime + extend,
                !.revision = ctl.revision + 1,
                !.session = AdjustSession(ctl.session, target, extend)]
    BY <1>5 DEF UpdateActiveSession, s
  <2> DEFINE adjusted == AdjustSession(ctl.session, target, extend)
  <2>3. adjusted.id = ctl.session.id
    BY <2>1 DEF AdjustSession, SessionType
  <2>4. ctl'.session = adjusted /\ ctl'.latch = s.latch
        /\ ctl'.restartBlocked = s.restartBlocked
    BY <1>1, <2>2 DEF Fields
  <2>5. adjusted \in SessionType
    <3>1. /\ ctl.session.runtime + extend \in 1..MaximumRuntime
          /\ ctl.session.remaining + extend \in Nat
      BY <2>1, <2>2, LimitAssumption DEF ExtensionAllowed, SessionType
    <3> QED BY <2>1, <2>2, <3>1 DEF AdjustSession, SessionType
  <2>6. ctl'.session # None
    BY <2>4, <2>5, NoneSessionAssumption
  <2> HIDE DEF adjusted
  <2> QED BY <1>1, <2>1, <2>3, <2>4, <2>6 DEF LetsGoAtOff, SameGuard
<1>6. CASE RetryControlFault
  <2>1. SameGuard(s, ctl')
    BY <1>1, <1>6 DEF RetryControlFault, SameGuard, Fields, s
  <2> QED BY <1>1, <2>1 DEF LetsGoAtOff, SameGuard
<1>7. CASE Tick
  <2>1. DOMAIN ctl = Fields /\ ctl.session \in SessionType \cup {None}
    BY DEF IInv, Safe, WellTyped, FieldsTyped
  <2>2. /\ ctl'.session = OlderSession(ctl.session) /\ ctl'.latch = ctl.latch
        /\ ctl'.restartBlocked = ctl.restartBlocked
    BY <1>7, <2>1 DEF Tick, Elapse, Fields
  <2>3. ctl.session # None => /\ ctl'.session # None
                             /\ ctl'.session.id = ctl.session.id
    BY <2>1, <2>2, OlderSessionTyped
  <2> QED BY <2>2, <2>3 DEF LetsGoAtOff
<1> QED BY <1>2, <1>3, <1>4, <1>5, <1>6, <1>7

(* Supervision outlives the heat, whatever the callers, the link and the   *)
(* heater do: a session and the fences behind it end at a reported OFF and *)
(* under a request that is OFF.                                            *)
THEOREM GuardsEndAtOff == Spec => EndsAtOff
<1>1. IInv /\ [Next]_vars => [LetsGoAtOff(ctl, ctl')]_vars
  BY HandleFrameLetsGo, StepLetsGo, CallsLetGo DEF Next
<1>2. [LetsGoAtOff(ctl, ctl')]_vars =>
        /\ [ctl.session # None =>
              \/ /\ ctl'.session # None
                 /\ ctl'.session.id = ctl.session.id
              \/ /\ ctl'.session = None
                 /\ "off" \in {ctl.state, ctl'.state}
                 /\ ~ctl'.on]_vars
        /\ [\/ ctl.restartBlocked /\ ~ctl'.restartBlocked
            \/ ctl.latch # None /\ ctl'.latch = None
            => /\ "off" \in {ctl.state, ctl'.state}
               /\ ~ctl'.on
               /\ ctl'.op \notin StartOps]_vars
  BY DEF LetsGoAtOff
<1> QED BY <1>1, <1>2, Invariance, PTL
        DEF Spec, EndsAtOff, SupervisionOutlivesHeat, FenceFallsAtOff

-----------------------------------------------------------------------------
(* Commands.                                                               *)

(* Nothing in step() makes a status younger or older before it is judged. *)
LEMMA SuperviseKeepsStatusAge ==
    ASSUME NEW s, Safe(s), NEW reading \in Readings
    PROVE  Supervise(s, reading).statusAge = s.statusAge
<1> DEFINE s1 == CheckRequestedStartDeadline(s)
           s2 == CheckResponseTimeout(s1)
           s3 == CheckSessionExpiry(s2)
           s4 == ApplySensorPolicy(s3, reading)
           s5 == EnsureActiveSession(s4, reading)
           s6 == CheckControlConfirmation(s5)
           s7 == CompleteSensorStopIfOff(s6)
<1>1. Supervise(s, reading) = s7
  BY DEF Supervise
<1>2. Safe(s1) /\ s1.statusAge = s.statusAge
  BY CheckRequestedStartDeadlineSafe
     DEF Keeps, CheckRequestedStartDeadline, RequestStop, Safe, WellTyped, Fields
<1> HIDE DEF s1
<1>3. Safe(s2) /\ s2.statusAge = s1.statusAge
  BY <1>2, CheckResponseTimeoutSafe
     DEF Keeps, CheckResponseTimeout, MarkCommunicationError, Safe, WellTyped, Fields
<1> HIDE DEF s2
<1>4. Safe(s3) /\ s3.statusAge = s2.statusAge
  BY <1>3, CheckSessionExpirySafe
     DEF Keeps, CheckSessionExpiry, RequestStop, Safe, WellTyped, Fields
<1> HIDE DEF s3
<1>5. Safe(s4) /\ StartPossible(s4, reading) /\ s4.statusAge = s3.statusAge
  <2>1. Safe(s4) /\ StartPossible(s4, reading)
    BY <1>4, CheckSessionExpirySafe, <1>3, ApplySensorPolicySafe DEF Keeps, s3
  <2>2. s4.statusAge = s3.statusAge
    BY <1>4 DEF ApplySensorPolicy, RequestStop, Safe, WellTyped, Fields
  <2> QED BY <2>1, <2>2
<1> HIDE DEF s4
<1>6. Safe(s5) /\ s5.statusAge = s4.statusAge
  <2>1. Safe(s5)
    BY <1>5, EnsureActiveSessionSafe DEF Keeps
  <2>2. s5.statusAge = s4.statusAge
    BY <1>5 DEF EnsureActiveSession, StartSession, RequestStop, Safe, WellTyped, Fields
  <2> QED BY <2>1, <2>2
<1> HIDE DEF s5
<1>7. s6.statusAge = s5.statusAge /\ DOMAIN s6 = Fields
  <2>1. DOMAIN s6 = Fields
    BY <1>5, <1>6, EnsureActiveSessionSafe, CheckControlConfirmationSafe
       DEF Keeps, Safe, WellTyped, s5
  <2>2. s6.statusAge = s5.statusAge
    BY <1>6 DEF CheckControlConfirmation, DiscardSession, SetControlFault,
       ScheduleControl, Safe, WellTyped, Fields
  <2> QED BY <2>1, <2>2
<1> HIDE DEF s6
<1>8. s7.statusAge = s6.statusAge
  BY <1>7 DEF CompleteSensorStopIfOff, Fields
<1> QED BY <1>1, <1>2, <1>3, <1>4, <1>5, <1>6, <1>7, <1>8

(* What is transmitted is the command that was decided on. *)
LEMMA TransmitControlOp ==
    ASSUME NEW s, DOMAIN s = Fields, NEW command \in Commands, NEW sendOk \in BOOLEAN
    PROVE  LET t == TransmitControl(s, command, sendOk)
           IN /\ t.op \in StartOps => command = "start"
              /\ t.op \in ShutdownOps => command = "shutdown"
<1>1. CASE sendOk
  BY <1>1 DEF TransmitControl, Fields, StartOps, ShutdownOps, Commands
<1>2. CASE ~sendOk
  <2> DEFINE broken == MarkCommunicationError(s)
             op == IF command = "start" THEN "start_error" ELSE "shutdown_error"
             a == [s.attempt EXCEPT !.sendFailed = TRUE]
             t == [broken EXCEPT !.attempt = a, !.op = op]
  <2>1. DOMAIN broken = Fields
    BY MarkGuards
  <2>2. /\ op \in StartOps => command = "start"
        /\ op \in ShutdownOps => command = "shutdown"
    BY DEF StartOps, ShutdownOps, Commands
  <2>3. TransmitControl(s, command, sendOk) = t
    BY <1>2 DEF TransmitControl
  <2> HIDE DEF broken, op, a
  <2>4. t.op = op
    BY <2>1 DEF Fields
  <2> QED BY <2>2, <2>3, <2>4
<1> QED BY <1>1, <1>2

LEMMA SendShutdownOp ==
    ASSUME NEW s, DOMAIN s = Fields, NEW sendOk \in BOOLEAN
    PROVE  SendShutdown(s, sendOk).op \notin StartOps
<1> DEFINE t == OpenAttempt(s, "shutdown")
           u == [t EXCEPT !.restartBlocked = TRUE,
                          !.shutdownSentRev = t.attempt.revision]
<1>1. SendShutdown(s, sendOk) = TransmitControl(u, "shutdown", sendOk)
  BY DEF SendShutdown
<1>2. DOMAIN t = Fields
  BY AttemptGuards DEF OpenAttempt
<1> HIDE DEF t
<1>3. DOMAIN u = DOMAIN t
  BY Zenon
<1> HIDE DEF u
<1> QED BY <1>1, <1>2, <1>3, TransmitControlOp DEF Commands

LEMMA SendStartOp ==
    ASSUME NEW s, DOMAIN s = Fields, s.op = "none", s.on, NEW reading,
           NEW sendOk \in BOOLEAN
    PROVE  SendStart(s, reading, sendOk).op \notin ShutdownOps
<1> DEFINE t == OpenAttempt(s, "start")
           refused == [t EXCEPT !.attempt = None, !.raised = TRUE]
           u == StartSession(t, reading)
           v == [u EXCEPT !.startSentRev = t.attempt.revision]
<1>1. SendStart(s, reading, sendOk) \in {refused, TransmitControl(v, "start", sendOk)}
  BY Zenon DEF SendStart
<1>2. DOMAIN t = Fields /\ t.op = "none" /\ t.on
  BY AttemptGuards DEF OpenAttempt, Fields, SameGuard
<1> HIDE DEF t
<1>3. refused.op = "none"
  BY <1>2 DEF Fields
<1>4. DOMAIN u = Fields
  BY <1>2, StartSessionGuards
<1> HIDE DEF u
<1>5. DOMAIN v = DOMAIN u
  BY Zenon
<1> HIDE DEF v
<1>6. TransmitControl(v, "start", sendOk).op \notin ShutdownOps
  BY <1>4, <1>5, TransmitControlOp DEF Commands
<1> QED BY <1>1, <1>3, <1>6 DEF ShutdownOps

(* What a decision to send is made on *)
Justified(s, t) ==
    /\ t.op \in StartOps => s.state = "off" /\ s.on
    /\ t.op \in ShutdownOps => s.state = "running" /\ ~s.on

LEMMA EvaluateControlJustified ==
    ASSUME NEW s, Safe(s), s.op = "none", NEW reading, NEW sendOk \in BOOLEAN
    PROVE  Justified(s, EvaluateControl(s, reading, sendOk))
<1> DEFINE t == [s EXCEPT !.pendingDue = None]
           age == IF t.state # "starting" \/ t.on THEN None ELSE t.stoppingAge
           u == [t EXCEPT !.stoppingAge = age]
<1>1. /\ DOMAIN t = Fields /\ t.on = s.on /\ t.state = s.state /\ t.op = "none"
  BY PendingDueSafe DEF SameCore, Keeps, Safe, WellTyped
<1>2. EvaluateControl(s, reading, sendOk) =
          IF ~ControlAllowed(t) THEN t
          ELSE IF t.attempt # None
          THEN IF t.attempt.retryReady /\ AttemptMatchesRequest(t)
               THEN SendControl(t, t.attempt.command, reading, sendOk)
               ELSE t
          ELSE Decide(u, reading, sendOk)
  BY DEF EvaluateControl
<1> HIDE DEF t
<1>3. \A v, w : w.op = "none" => Justified(v, w)
  BY DEF Justified, StartOps, ShutdownOps
<1>4. ASSUME NEW v, DOMAIN v = Fields, v.op = "none"
      PROVE  /\ v.on /\ v.state = "off" =>
                   Justified(v, SendStart(v, reading, sendOk))
             /\ ~v.on /\ v.state = "running" =>
                   Justified(v, SendShutdown(v, sendOk))
  BY <1>4, SendStartOp, SendShutdownOp DEF Justified
<1>5. ASSUME AttemptMatchesRequest(t)
      PROVE  Justified(t, SendControl(t, t.attempt.command, reading, sendOk))
  BY <1>1, <1>4, <1>5 DEF AttemptMatchesRequest, SendControl
<1>6. /\ DOMAIN u = Fields /\ u.on = t.on /\ u.state = t.state /\ u.op = "none"
  <2> HIDE DEF age
  <2>1. DOMAIN u = DOMAIN t
    BY Zenon
  <2> QED BY <1>1, <2>1 DEF Fields
<1> HIDE DEF u
<1>7. Justified(u, Decide(u, reading, sendOk))
  <2>1. ASSUME NEW command, NEW recover
        PROVE  SetPolicyFault(u, command, recover).op = "none"
    BY <1>6 DEF SetPolicyFault, Fields
  <2>2. u.state = "off" => Justified(u, DecideOff(u, reading, sendOk))
    BY <1>3, <1>4, <1>6, <2>1 DEF DecideOff, SendControl
  <2>3. Justified(u, DecideStarting(u))
    <3>1. [u EXCEPT !.stoppingAge = 0].op = "none"
      BY <1>6 DEF Fields
    <3> QED BY <1>3, <1>6, <2>1, <3>1 DEF DecideStarting
  <2>4. u.state = "running" => Justified(u, DecideRunning(u, reading, sendOk))
    BY <1>3, <1>4, <1>6, <2>1 DEF DecideRunning, SendControl
  <2> QED BY <1>3, <1>6, <2>1, <2>2, <2>3, <2>4 DEF Decide
<1> QED BY <1>1, <1>2, <1>3, <1>5, <1>6, <1>7 DEF Justified

(* What a poll transmits is no command. *)
LEMMA PollIfDueOp ==
    ASSUME NEW s, DOMAIN s = Fields, s.op = "none", NEW sendOk \in BOOLEAN
    PROVE  PollIfDue(s, sendOk).op \notin StartOps \cup ShutdownOps
<1> DEFINE command == IF s.initialized THEN "status" ELSE "initialization"
           phase == IF s.phase = "error" THEN "error"
                    ELSE IF s.initialized THEN "wait_status" ELSE "wait_init"
           waiting == [s EXCEPT !.nextDue = Heartbeat, !.phase = phase]
           errorOp == IF s.initialized THEN "status_error"
                      ELSE "initialization_error"
           broken == MarkCommunicationError(waiting)
           failed == [broken EXCEPT !.op = errorOp]
           again == [waiting EXCEPT !.op = command]
           first == [waiting EXCEPT !.op = command, !.expected = command,
                                    !.waitAge = 0]
<1>1. PollIfDue(s, sendOk) \in {s, failed, again, first}
  BY DEF PollIfDue, RequestSynchronization
<1>2. {"none", command, errorOp} \cap (StartOps \cup ShutdownOps) = {}
  BY DEF StartOps, ShutdownOps
<1> HIDE DEF phase, command, errorOp
<1>3. DOMAIN waiting = DOMAIN s
  BY Zenon
<1> HIDE DEF waiting
<1>4. DOMAIN broken = Fields
  BY <1>3, MarkGuards
<1> HIDE DEF broken
<1>5. failed.op = errorOp
  BY <1>4 DEF Fields
<1>6. again.op = command /\ first.op = command
  BY <1>3 DEF Fields
<1> HIDE DEF failed, again, first
<1> QED BY <1>1, <1>2, <1>5, <1>6

(* A command is what step() decided after its supervision, on a fresh status. *)
LEMMA StepControllerJustified ==
    ASSUME NEW s, Safe(s), Ready(s), s.op = "none",
           NEW reading \in Readings, NEW sendOk \in BOOLEAN
    PROVE  LET t == Supervise(s, reading)
               v == StepController(s, reading, sendOk)
           IN v.op \in StartOps \cup ShutdownOps =>
                 /\ Justified(t, v)
                 /\ SendGuards(t, v)
                 /\ StatusIsFresh(t)
<1> DEFINE t == Supervise(s, reading)
           u == EvaluateControl(t, reading, sendOk)
           due == IF t.expected = None THEN 0 ELSE t.nextDue
           stale == [t EXCEPT !.pendingDue = None, !.nextDue = due]
           v == StepController(s, reading, sendOk)
<1>1. \/ v = PollIfDue(t, sendOk)
      \/ v = PollIfDue(stale, sendOk)
      \/ v = u /\ StatusIsFresh(t)
      \/ v = PollIfDue(u, sendOk) /\ u.op = "none"
  BY Zenon DEF StepController
<1>2. /\ Safe(t) /\ Ready(t) /\ Alive(t) /\ t.op = "none"
      /\ StartPossible(t, reading) /\ DOMAIN t = Fields
  BY SuperviseSafe DEF Keeps, Safe, WellTyped
<1> HIDE DEF t, v
<1>3. /\ SendGuards(t, u) /\ Justified(t, u) /\ DOMAIN u = Fields
  BY <1>2, EvaluateControlGuards, EvaluateControlJustified, EvaluateControlSafe
     DEF Safe, WellTyped
<1> HIDE DEF u, due
<1>4. DOMAIN stale = DOMAIN t
  BY Zenon
<1>5. stale.op = "none"
  BY <1>2 DEF Fields
<1> HIDE DEF stale
<1>6. /\ PollIfDue(t, sendOk).op \notin StartOps \cup ShutdownOps
      /\ PollIfDue(stale, sendOk).op \notin StartOps \cup ShutdownOps
      /\ u.op = "none" => PollIfDue(u, sendOk).op \notin StartOps \cup ShutdownOps
  BY <1>2, <1>3, <1>4, <1>5, PollIfDueOp
<1> QED BY <1>1, <1>3, <1>6 DEF t, v

(* Only step() asks the protocol layer for a command. *)
LEMMA OnlyStepSends ==
    ASSUME IInv, Next, ~Step
    PROVE  ctl'.op = "none"
<1> DEFINE s == Begin(ctl)
<1>1. Safe(s) /\ Ready(s) /\ s.op = "none" /\ DOMAIN s = Fields
  BY BeginGuards
<1>2. CASE HandleFrame
  <2>1. \/ ctl' = RecordInvalidFrame(s)
        \/ ctl' = MarkCommunicationError(RecordInvalidFrame(s))
        \/ ctl' = HandleInit(s)
        \/ \E state \in HeaterStates : ctl' = HandleStatus(s, state)
    BY <1>2 DEF HandleFrame, InvalidFrame, RefusedFrame, InitFrame, StatusFrame
  <2> HIDE DEF s
  <2>2. Keeps(s, RecordInvalidFrame(s))
    BY <1>1, RecordInvalidFrameSafe
  <2>3. Keeps(RecordInvalidFrame(s), MarkCommunicationError(RecordInvalidFrame(s)))
    BY <2>2, MarkKeeps DEF Keeps
  <2> QED BY <1>1, <2>1, <2>2, <2>3, HandleInitSafe, HandleStatusSafe DEF Keeps
<1>3. CASE ReportCommunicationError
  BY <1>1, <1>3, MarkKeeps DEF ReportCommunicationError, Keeps
<1>4. CASE Stop
  BY <1>1, <1>4, RequestStopSafe DEF Stop, Keeps
<1> HIDE DEF s
<1>5. CASE RequestStart
  BY <1>1, <1>5 DEF RequestStart, Fields, s
<1>6. CASE UpdateActiveSession
  BY <1>1, <1>6 DEF UpdateActiveSession, Fields, s
<1>7. CASE RetryControlFault
  BY <1>1, <1>7 DEF RetryControlFault, Fields, s
<1>8. CASE Tick
  <2>1. DOMAIN ctl = Fields
    BY DEF IInv, Safe, WellTyped
  <2> QED BY <1>8, <2>1 DEF Tick, Elapse, Fields
<1> QED BY <1>2, <1>3, <1>4, <1>5, <1>6, <1>7, <1>8 DEF Next

(* Every command is sent for a reason the heater has just given, whatever  *)
(* the callers and the link do.                                            *)
THEOREM CommandsAreJustified == Spec => CommandJustified
<1> DEFINE A == /\ ctl'.op \in StartOps =>
                      /\ ctl.state = "off" /\ ctl.statusAge \in 0..Heartbeat - 1
                      /\ ctl.on /\ ~ctl.restartBlocked /\ ctl.latch = None
                /\ ctl'.op \in ShutdownOps =>
                      /\ ctl.state = "running" /\ ctl.statusAge \in 0..Heartbeat - 1
                      /\ ~ctl'.on
<1>1. ASSUME IInv, Step PROVE A
  <2> DEFINE s == Begin(ctl)
  <2>1. /\ Safe(s) /\ Ready(s) /\ s.op = "none"
        /\ SameGuard(ctl, s) /\ s.state = ctl.state
    BY <1>1, BeginGuards
  <2>2. s.statusAge = ctl.statusAge
    BY <1>1 DEF Begin, IInv, Safe, WellTyped, Fields
  <2>3. ctl.statusAge \in Ages(Heartbeat)
    BY <1>1 DEF IInv, Safe, WellTyped, FieldsTyped
  <2> HIDE DEF s
  <2>4. PICK reading \in Readings, sendOk \in BOOLEAN :
            ctl' = StepController(s, reading, sendOk)
    BY <1>1 DEF Step, s
  <2> DEFINE t == Supervise(s, reading)
  <2>5. Guards(s, t) /\ t.statusAge = s.statusAge /\ Safe(t)
    BY <2>1, SuperviseGuards, SuperviseKeepsStatusAge, SuperviseSafe DEF Keeps
  <2>6. ctl'.op \in StartOps \cup ShutdownOps =>
            Justified(t, ctl') /\ SendGuards(t, ctl') /\ StatusIsFresh(t)
    BY <2>1, <2>4, StepControllerJustified
  <2> HIDE DEF t
  <2>7. StatusIsFresh(t) => ctl.statusAge \in 0..Heartbeat - 1
    BY <2>2, <2>3, <2>5, TimingAssumption DEF StatusIsFresh, Ages
  <2>8. ASSUME ctl'.op \in StartOps PROVE A
    <3>1. t.state = "off" /\ t.on
      BY <2>6, <2>8 DEF Justified
    <3>2. t.latch = None /\ ~t.restartBlocked
      BY <2>5, <3>1 DEF Safe, Sound, AlmostSound, Fenced
    <3>3. s.state = "off" /\ s.on /\ s.latch = None /\ ~s.restartBlocked
      BY <2>5, <3>1, <3>2 DEF Guards
    <3>4. ctl'.op \notin ShutdownOps
      BY <2>8 DEF StartOps, ShutdownOps
    <3> QED BY <2>1, <2>6, <2>7, <2>8, <3>3, <3>4 DEF SameGuard
  <2>9. ASSUME ctl'.op \in ShutdownOps PROVE A
    <3>1. t.state = "running" /\ ~t.on
      BY <2>6, <2>9 DEF Justified
    <3>2. s.state = "running"
      BY <2>5, <3>1 DEF Guards
    <3>3. ~ctl'.on
      BY <2>6, <2>9, <3>1 DEF SendGuards, Guards
    <3>4. ctl'.op \notin StartOps
      BY <2>9 DEF StartOps, ShutdownOps
    <3> QED BY <2>1, <2>6, <2>7, <2>9, <3>2, <3>3, <3>4
  <2> QED BY <2>8, <2>9
<1>2. ASSUME IInv, Next, ~Step PROVE A
  BY <1>2, OnlyStepSends DEF StartOps, ShutdownOps
<1>3. IInv /\ [Next]_vars => [A]_vars
  BY <1>1, <1>2
<1> QED BY <1>3, Invariance, PTL DEF Spec, CommandJustified

-----------------------------------------------------------------------------
(* Series of commands.                                                     *)

(* What step() and handle_frame() make of the request: they withdraw it,   *)
(* at most once, and count that; they never change it otherwise.           *)
Revises(s, t) ==
    /\ DOMAIN t = Fields
    /\ t.mode = s.mode /\ t.target = s.target /\ t.runtime = s.runtime
    /\ \/ (t.on <=> s.on) /\ t.revision = s.revision
       \/ s.on /\ ~t.on /\ t.revision = s.revision + 1

(* What the supervision of a step makes of the open attempt: it ends it or *)
(* lets it go on; nothing is counted, and nothing is answered.             *)
Continues(s, t) ==
    /\ Revises(s, t)
    /\ t.startSentRev = s.startSentRev /\ t.shutdownSentRev = s.shutdownSentRev
    /\ t.attempt # None =>
         /\ s.attempt # None
         /\ t.attempt.command = s.attempt.command
         /\ t.attempt.attempts = s.attempt.attempts
         /\ t.attempt.statusAfterSend = s.attempt.statusAfterSend

SameRequest(s, t) ==
    /\ DOMAIN t = Fields
    /\ t.mode = s.mode /\ t.target = s.target /\ t.runtime = s.runtime
    /\ t.on = s.on /\ t.revision = s.revision

SameSeries(s, t) ==
    /\ SameRequest(s, t)
    /\ t.startSentRev = s.startSentRev /\ t.shutdownSentRev = s.shutdownSentRev
    /\ t.attempt = s.attempt

LEMMA SameRevises ==
    ASSUME NEW s, NEW t, SameRequest(s, t)
    PROVE  Revises(s, t)
BY DEF SameRequest, Revises

LEMMA SameContinues ==
    ASSUME NEW s, NEW t, SameSeries(s, t)
    PROVE  Continues(s, t)
BY SameRevises DEF SameSeries, Continues

LEMMA RevisesChains ==
    ASSUME NEW s, NEW t, NEW u, Revises(s, t), Revises(t, u)
    PROVE  Revises(s, u)
BY DEF Revises

LEMMA ContinuesChains ==
    ASSUME NEW s, NEW t, NEW u, Continues(s, t), Continues(t, u)
    PROVE  Continues(s, u)
BY RevisesChains DEF Continues

(* The helpers of both pipelines *)
LEMMA RequestStopContinues ==
    ASSUME NEW s, DOMAIN s = Fields
    PROVE  Continues(s, RequestStop(s))
<1> DEFINE t == RequestStop(s)
<1>1. DOMAIN t = DOMAIN s
  BY Zenon DEF RequestStop
<1>2. /\ t.mode = s.mode /\ t.target = s.target /\ t.runtime = s.runtime
      /\ t.on = FALSE /\ t.revision = (IF s.on THEN s.revision + 1 ELSE s.revision)
      /\ t.startSentRev = s.startSentRev /\ t.shutdownSentRev = s.shutdownSentRev
      /\ t.attempt = s.attempt
  BY DEF RequestStop, Fields
<1> HIDE DEF t
<1>3. Revises(s, t)
  BY <1>1, <1>2 DEF Revises
<1> QED BY <1>2, <1>3 DEF Continues, t

LEMMA PendingDueSeries ==
    ASSUME NEW s, DOMAIN s = Fields, NEW due
    PROVE  SameSeries(s, [s EXCEPT !.pendingDue = due])
<1> DEFINE t == [s EXCEPT !.pendingDue = due]
<1>1. DOMAIN t = DOMAIN s
  BY Zenon
<1> QED BY <1>1 DEF SameSeries, SameRequest, Fields

(* A request withdrawn, and control put off or brought forward *)
LEMMA StoppedContinues ==
    ASSUME NEW s, DOMAIN s = Fields, NEW due
    PROVE  Continues(s, [RequestStop(s) EXCEPT !.pendingDue = due])
<1> DEFINE t == RequestStop(s)
<1>1. Continues(s, t)
  BY RequestStopContinues
<1> HIDE DEF t
<1>2. SameSeries(t, [t EXCEPT !.pendingDue = due])
  BY <1>1, PendingDueSeries DEF Continues, Revises
<1> QED BY <1>1, <1>2, SameContinues, ContinuesChains DEF t

LEMMA MarkSeries ==
    ASSUME NEW s, DOMAIN s = Fields
    PROVE  SameSeries(s, MarkCommunicationError(s))
<1> DEFINE t == MarkCommunicationError(s)
<1>1. DOMAIN t = DOMAIN s
  BY Zenon DEF MarkCommunicationError
<1>2. /\ t.mode = s.mode /\ t.target = s.target /\ t.runtime = s.runtime
      /\ t.on = s.on /\ t.revision = s.revision
      /\ t.startSentRev = s.startSentRev /\ t.shutdownSentRev = s.shutdownSentRev
      /\ t.attempt = s.attempt
  BY DEF MarkCommunicationError, Fields
<1> QED BY <1>1, <1>2 DEF SameSeries, SameRequest

(* A session is no part of the request. *)
LEMMA SessionSeries ==
    ASSUME NEW s, DOMAIN s = Fields, NEW session
    PROVE  SameSeries(s, [s EXCEPT !.session = session])
<1> DEFINE t == [s EXCEPT !.session = session]
<1>1. DOMAIN t = DOMAIN s
  BY Zenon
<1> QED BY <1>1 DEF SameSeries, SameRequest, Fields

LEMMA StartSessionSeries ==
    ASSUME NEW s, DOMAIN s = Fields, NEW reading
    PROVE  SameSeries(s, StartSession(s, reading)) /\ StartSession(s, reading).op = s.op
<1> DEFINE t == StartSession(s, reading)
<1>1. DOMAIN t = DOMAIN s
  BY Zenon DEF StartSession
<1>2. /\ t.mode = s.mode /\ t.target = s.target /\ t.runtime = s.runtime
      /\ t.on = s.on /\ t.revision = s.revision /\ t.op = s.op
      /\ t.startSentRev = s.startSentRev /\ t.shutdownSentRev = s.shutdownSentRev
      /\ t.attempt = s.attempt
  BY DEF StartSession, Fields
<1> QED BY <1>1, <1>2 DEF SameSeries, SameRequest

LEMMA SelfContinues ==
    ASSUME NEW s, DOMAIN s = Fields
    PROVE  Continues(s, s)
BY DEF Continues, Revises

LEMMA CheckSessionExpiryContinues ==
    ASSUME NEW s, DOMAIN s = Fields
    PROVE  Continues(s, CheckSessionExpiry(s))
<1> DEFINE t == RequestStop(s)
           e == [s.session EXCEPT !.expired = TRUE]
           u == [t EXCEPT !.session = e, !.pendingDue = 0]
<1>1. CheckSessionExpiry(s) \in {s, u}
  BY Zenon DEF CheckSessionExpiry
<1>2. Continues(s, t) /\ DOMAIN t = Fields
  BY RequestStopContinues DEF Continues, Revises
<1> HIDE DEF t, e
<1>3. DOMAIN u = DOMAIN t
  BY Zenon
<1>4. SameSeries(t, u)
  BY <1>2, <1>3 DEF SameSeries, SameRequest, Fields
<1> HIDE DEF u
<1> QED BY <1>1, <1>2, <1>4, SelfContinues, SameContinues, ContinuesChains

LEMMA ApplySensorPolicyContinues ==
    ASSUME NEW s, DOMAIN s = Fields, NEW reading
    PROVE  Continues(s, ApplySensorPolicy(s, reading))
<1> DEFINE t == RequestStop(s)
           due == IF s.on \/ s.latch # s.session.id THEN 0 ELSE s.pendingDue
           latched == [t EXCEPT !.pendingDue = due, !.latch = s.session.id]
           dropped == [t EXCEPT !.pendingDue = None]
<1>1. ApplySensorPolicy(s, reading) \in {s, dropped, latched}
  BY DEF ApplySensorPolicy
<1>2. Continues(s, t) /\ DOMAIN t = Fields
  BY RequestStopContinues DEF Continues, Revises
<1>3. Continues(s, dropped)
  BY StoppedContinues
<1> HIDE DEF t, due, dropped
<1>4. DOMAIN latched = DOMAIN t
  BY Zenon
<1>5. SameSeries(t, latched)
  BY <1>2, <1>4 DEF SameSeries, SameRequest, Fields
<1> HIDE DEF latched
<1> QED BY <1>1, <1>2, <1>3, <1>5, SelfContinues, SameContinues, ContinuesChains

LEMMA EnsureActiveSessionContinues ==
    ASSUME NEW s, DOMAIN s = Fields, NEW reading
    PROVE  Continues(s, EnsureActiveSession(s, reading))
<1> DEFINE stopped == [RequestStop(s) EXCEPT !.pendingDue = 0]
           new == StartSession(s, reading)
           confirmed == [new EXCEPT !.session = [new.session EXCEPT !.confirmed = TRUE]]
<1>1. EnsureActiveSession(s, reading) \in {s, stopped, confirmed}
  BY Zenon DEF EnsureActiveSession
<1>2. Continues(s, stopped)
  BY StoppedContinues
<1>3. SameSeries(s, new)
  BY StartSessionSeries
<1> HIDE DEF new, stopped
<1>4. SameSeries(new, confirmed)
  BY <1>3, SessionSeries DEF SameSeries, SameRequest
<1> HIDE DEF confirmed
<1> QED BY <1>1, <1>2, <1>3, <1>4, SelfContinues, SameContinues, ContinuesChains

(* The attempt is dropped, or found ready for one more transmission. *)
LEMMA CheckControlConfirmationContinues ==
    ASSUME NEW s, Safe(s)
    PROVE  Continues(s, CheckControlConfirmation(s))
<1> DEFINE t == [s EXCEPT !.attempt = None]
           delay == IF s.attempt.sendFailed THEN 0 ELSE ControlSettle
           a == [s.attempt EXCEPT !.retryReady = TRUE]
           ready == [s EXCEPT !.attempt = a]
           fault == [command |-> s.attempt.command, recover |-> FALSE]
           faulted == [s EXCEPT !.fault = fault, !.phase = "error", !.pendingDue = None]
<1>0. DOMAIN s = Fields
  BY DEF Safe, WellTyped
<1>1. \/ CheckControlConfirmation(s) \in {s, t, DiscardSession(t), faulted}
      \/ s.attempt # None /\ CheckControlConfirmation(s) = ScheduleControl(ready, delay)
  BY Zenon DEF CheckControlConfirmation, SetControlFault
<1>2. DOMAIN t = DOMAIN s /\ DOMAIN ready = DOMAIN s /\ DOMAIN faulted = DOMAIN s
  BY Zenon
<1>3. SameRequest(s, t) /\ t.attempt = None
      /\ t.startSentRev = s.startSentRev /\ t.shutdownSentRev = s.shutdownSentRev
  BY <1>0, <1>2 DEF SameRequest, Fields
<1>4. SameSeries(s, faulted)
  BY <1>0, <1>2 DEF SameSeries, SameRequest, Fields
<1>5. SameRequest(s, ready) /\ ready.attempt = a
      /\ ready.startSentRev = s.startSentRev /\ ready.shutdownSentRev = s.shutdownSentRev
  BY <1>0, <1>2 DEF SameRequest, Fields
<1>6. ASSUME s.attempt # None
      PROVE  /\ a.command = s.attempt.command /\ a.attempts = s.attempt.attempts
             /\ a.statusAfterSend = s.attempt.statusAfterSend
  <2>1. s.attempt \in AttemptType
    BY <1>6 DEF Safe, WellTyped, FieldsTyped
  <2> QED BY <2>1 DEF AttemptType
<1> HIDE DEF t, ready, faulted, delay, a
<1>7. Continues(s, t)
  BY <1>3, SameRevises DEF Continues
<1>8. s.attempt # None => Continues(s, ready)
  BY <1>5, <1>6, SameRevises DEF Continues
<1>9. SameSeries(ready, ScheduleControl(ready, delay))
  <2>1. SameSeries(ready, ready)
    BY <1>5 DEF SameSeries, SameRequest
  <2>2. SameSeries(ready, [ready EXCEPT !.pendingDue = delay])
    BY <1>5, PendingDueSeries DEF SameRequest
  <2> QED BY <2>1, <2>2 DEF ScheduleControl
<1>10. SameSeries(t, DiscardSession(t))
  BY <1>3, SessionSeries DEF SameRequest, DiscardSession
<1>11. /\ Continues(s, s) /\ Continues(s, faulted) /\ Continues(s, DiscardSession(t))
       /\ s.attempt # None => Continues(s, ScheduleControl(ready, delay))
  BY <1>0, <1>4, <1>7, <1>8, <1>9, <1>10, SelfContinues, SameContinues, ContinuesChains
<1> QED BY <1>1, <1>7, <1>11

LEMMA CompleteSensorStopContinues ==
    ASSUME NEW s, DOMAIN s = Fields
    PROVE  Continues(s, CompleteSensorStopIfOff(s))
<1> DEFINE t == [s EXCEPT !.latch = None]
<1>1. DOMAIN t = DOMAIN s
  BY Zenon
<1>2. SameSeries(s, t)
  BY <1>1 DEF SameSeries, SameRequest, Fields
<1> HIDE DEF t
<1> QED BY <1>2, SelfContinues, SameContinues DEF CompleteSensorStopIfOff, t

LEMMA SuperviseContinues ==
    ASSUME NEW s, Safe(s), NEW reading \in Readings
    PROVE  Continues(s, Supervise(s, reading))
<1> DEFINE s1 == CheckRequestedStartDeadline(s)
           s2 == CheckResponseTimeout(s1)
           s3 == CheckSessionExpiry(s2)
           s4 == ApplySensorPolicy(s3, reading)
           s5 == EnsureActiveSession(s4, reading)
           s6 == CheckControlConfirmation(s5)
           s7 == CompleteSensorStopIfOff(s6)
<1>1. Supervise(s, reading) = s7
  BY DEF Supervise
<1>0. \A q : Safe(q) => DOMAIN q = Fields
  BY DEF Safe, WellTyped
<1>2. Safe(s1) /\ Continues(s, s1)
  BY <1>0, CheckRequestedStartDeadlineSafe, StoppedContinues, SelfContinues
     DEF Keeps, CheckRequestedStartDeadline
<1> HIDE DEF s1
<1>3. Safe(s2) /\ Continues(s1, s2)
  BY <1>0, <1>2, CheckResponseTimeoutSafe, MarkSeries, SameContinues, SelfContinues
     DEF Keeps, CheckResponseTimeout
<1> HIDE DEF s2
<1>4. Safe(s3) /\ Alive(s3) /\ Continues(s2, s3)
  BY <1>0, <1>3, CheckSessionExpirySafe, CheckSessionExpiryContinues DEF Keeps
<1> HIDE DEF s3
<1>5. Safe(s4) /\ StartPossible(s4, reading) /\ Continues(s3, s4)
  BY <1>0, <1>4, ApplySensorPolicySafe, ApplySensorPolicyContinues DEF Keeps
<1> HIDE DEF s4
<1>6. Safe(s5) /\ Continues(s4, s5)
  BY <1>0, <1>5, EnsureActiveSessionSafe, EnsureActiveSessionContinues DEF Keeps
<1> HIDE DEF s5
<1>7. Continues(s5, s6) /\ DOMAIN s6 = Fields
  BY <1>6, CheckControlConfirmationContinues DEF Continues, Revises
<1> HIDE DEF s6
<1>8. Continues(s6, s7)
  BY <1>7, CompleteSensorStopContinues
<1> HIDE DEF s7
<1>9. Continues(s, s4)
  BY <1>2, <1>3, <1>4, <1>5, ContinuesChains
<1>10. Continues(s4, s7)
  BY <1>6, <1>7, <1>8, ContinuesChains
<1> QED BY <1>1, <1>9, <1>10, ContinuesChains

(* Sending *)
LEMMA TransmitControlSeries ==
    ASSUME NEW s, DOMAIN s = Fields, "attempts" \in DOMAIN s.attempt,
           NEW command, NEW sendOk \in BOOLEAN
    PROVE  LET t == TransmitControl(s, command, sendOk)
           IN /\ SameRequest(s, t)
              /\ t.startSentRev = s.startSentRev
              /\ t.shutdownSentRev = s.shutdownSentRev
              /\ t.attempt.attempts = s.attempt.attempts
<1>1. CASE sendOk
  <2> DEFINE t == [s EXCEPT !.op = command, !.nextDue = Heartbeat]
  <2>1. DOMAIN t = DOMAIN s /\ TransmitControl(s, command, sendOk) = t
    BY <1>1, Zenon DEF TransmitControl
  <2>2. /\ SameRequest(s, t) /\ t.startSentRev = s.startSentRev
        /\ t.shutdownSentRev = s.shutdownSentRev /\ t.attempt = s.attempt
    BY <2>1 DEF SameRequest, Fields
  <2> HIDE DEF t
  <2> QED BY <2>1, <2>2
<1>2. CASE ~sendOk
  <2> DEFINE broken == MarkCommunicationError(s)
             op == IF command = "start" THEN "start_error" ELSE "shutdown_error"
             a == [s.attempt EXCEPT !.sendFailed = TRUE]
             t == [broken EXCEPT !.attempt = a, !.op = op]
  <2>1. SameSeries(s, broken)
    BY MarkSeries
  <2>2. TransmitControl(s, command, sendOk) = t
    BY <1>2 DEF TransmitControl
  <2>3. a.attempts = s.attempt.attempts
    OBVIOUS
  <2> HIDE DEF broken, op, a
  <2>4. DOMAIN t = DOMAIN broken
    BY Zenon
  <2>5. /\ SameRequest(broken, t) /\ t.startSentRev = broken.startSentRev
        /\ t.shutdownSentRev = broken.shutdownSentRev /\ t.attempt = a
    BY <2>1, <2>4 DEF SameSeries, SameRequest, Fields
  <2> HIDE DEF t
  <2> QED BY <2>1, <2>2, <2>3, <2>5 DEF SameSeries, SameRequest
<1> QED BY <1>1, <1>2

(* The attempt that is sent: the one that was open, or one for the present request *)
LEMMA OpenAttemptSeries ==
    ASSUME NEW s, DOMAIN s = Fields, NEW command
    PROVE  LET t == OpenAttempt(s, command)
           IN /\ SameRequest(s, t) /\ t.op = s.op
              /\ t.startSentRev = s.startSentRev
              /\ t.shutdownSentRev = s.shutdownSentRev
              /\ "attempts" \in DOMAIN t.attempt
              /\ s.attempt = None => t.attempt.revision = s.revision
              /\ s.attempt # None => t.attempt.attempts = s.attempt.attempts + 1
<1> DEFINE fresh == [command |-> command, attempts |-> 0,
                     revision |-> s.revision,
                     parameters |-> IF command = "start" THEN Parameters(s)
                                    ELSE None]
           open == IF s.attempt = None THEN fresh ELSE s.attempt
           a == [command |-> open.command, attempts |-> open.attempts + 1,
                 revision |-> open.revision, parameters |-> open.parameters,
                 age |-> 0, statusAfterSend |-> FALSE, sendFailed |-> FALSE,
                 retryReady |-> FALSE]
           t == [s EXCEPT !.attempt = a]
<1>1. OpenAttempt(s, command) = t
  BY DEF OpenAttempt
<1>2. /\ "attempts" \in DOMAIN a
      /\ s.attempt = None => a.revision = s.revision
      /\ s.attempt # None => a.attempts = s.attempt.attempts + 1
  OBVIOUS
<1> HIDE DEF a
<1>3. DOMAIN t = DOMAIN s
  BY Zenon
<1>4. /\ SameRequest(s, t) /\ t.op = s.op /\ t.startSentRev = s.startSentRev
      /\ t.shutdownSentRev = s.shutdownSentRev /\ t.attempt = a
  BY <1>3 DEF SameRequest, Fields
<1> HIDE DEF t
<1> QED BY <1>1, <1>2, <1>4

LEMMA SendShutdownSeries ==
    ASSUME NEW s, DOMAIN s = Fields, NEW sendOk \in BOOLEAN
    PROVE  LET w == SendShutdown(s, sendOk)
           IN /\ Revises(s, w)
              /\ s.attempt = None => w.shutdownSentRev = s.revision
              /\ s.attempt # None => w.attempt.attempts = s.attempt.attempts + 1
<1> DEFINE t == OpenAttempt(s, "shutdown")
           u == [t EXCEPT !.restartBlocked = TRUE,
                          !.shutdownSentRev = t.attempt.revision]
           w == TransmitControl(u, "shutdown", sendOk)
<1>1. SendShutdown(s, sendOk) = w
  BY DEF SendShutdown
<1>2. /\ SameRequest(s, t) /\ "attempts" \in DOMAIN t.attempt
      /\ s.attempt = None => t.attempt.revision = s.revision
      /\ s.attempt # None => t.attempt.attempts = s.attempt.attempts + 1
  BY OpenAttemptSeries
<1> HIDE DEF t
<1>3. DOMAIN u = DOMAIN t
  BY Zenon
<1>4. /\ SameRequest(t, u) /\ u.attempt = t.attempt
      /\ u.shutdownSentRev = t.attempt.revision
  BY <1>2, <1>3 DEF SameRequest, Fields
<1> HIDE DEF u
<1>5. /\ SameRequest(u, w) /\ w.shutdownSentRev = u.shutdownSentRev
      /\ w.attempt.attempts = u.attempt.attempts
  BY <1>2, <1>4, TransmitControlSeries DEF SameRequest
<1> HIDE DEF w
<1>6. Revises(s, w)
  BY <1>2, <1>4, <1>5, SameRevises DEF SameRequest
<1> QED BY <1>1, <1>2, <1>4, <1>5, <1>6

LEMMA SendStartSeries ==
    ASSUME NEW s, DOMAIN s = Fields, s.op = "none", NEW reading, NEW sendOk \in BOOLEAN
    PROVE  LET w == SendStart(s, reading, sendOk)
           IN /\ Revises(s, w)
              /\ w.op \in StartOps =>
                   /\ s.attempt = None => w.startSentRev = s.revision
                   /\ s.attempt # None => w.attempt.attempts = s.attempt.attempts + 1
<1> DEFINE t == OpenAttempt(s, "start")
           refused == [t EXCEPT !.attempt = None, !.raised = TRUE]
           u == StartSession(t, reading)
           v == [u EXCEPT !.startSentRev = t.attempt.revision]
           w == TransmitControl(v, "start", sendOk)
<1>1. SendStart(s, reading, sendOk) \in {refused, w}
  BY Zenon DEF SendStart
<1>2. /\ SameRequest(s, t) /\ "attempts" \in DOMAIN t.attempt /\ t.op = "none"
      /\ s.attempt = None => t.attempt.revision = s.revision
      /\ s.attempt # None => t.attempt.attempts = s.attempt.attempts + 1
  BY OpenAttemptSeries
<1> HIDE DEF t
<1>3. DOMAIN refused = DOMAIN t
  BY Zenon
<1>4. SameRequest(t, refused) /\ refused.op = "none"
  BY <1>2, <1>3 DEF SameRequest, Fields
<1>5. SameSeries(t, u)
  BY <1>2, StartSessionSeries DEF SameRequest
<1> HIDE DEF u, refused
<1>6. DOMAIN v = DOMAIN u
  BY Zenon
<1>7. /\ SameRequest(u, v) /\ v.attempt = u.attempt
      /\ v.startSentRev = t.attempt.revision
  BY <1>5, <1>6 DEF SameSeries, SameRequest, Fields
<1> HIDE DEF v
<1>8. /\ SameRequest(v, w) /\ w.startSentRev = v.startSentRev
      /\ w.attempt.attempts = v.attempt.attempts
  BY <1>2, <1>5, <1>7, TransmitControlSeries DEF SameSeries, SameRequest
<1> HIDE DEF w
<1>9. Revises(s, w) /\ Revises(s, refused)
  BY <1>2, <1>4, <1>5, <1>7, <1>8, SameRevises DEF SameSeries, SameRequest
<1> QED BY <1>1, <1>2, <1>4, <1>5, <1>7, <1>8, <1>9 DEF SameSeries, StartOps

(* A command is the first of its generation, or one more of the attempt that is open *)
Counted(s, t) ==
    \/ /\ t.op \in StartOps => s.startSentRev # t.startSentRev
       /\ t.op \in ShutdownOps => s.shutdownSentRev # t.shutdownSentRev
    \/ /\ s.attempt # None
       /\ s.attempt.command = (IF t.op \in StartOps THEN "start" ELSE "shutdown")
       /\ s.attempt.statusAfterSend
       /\ s.attempt.attempts < MaxControlAttempts
       /\ t.attempt.attempts = s.attempt.attempts + 1

LEMMA DecideCounted ==
    ASSUME NEW s, DOMAIN s = Fields, s.op = "none", s.attempt = None,
           NEW reading, NEW sendOk \in BOOLEAN
    PROVE  LET v == Decide(s, reading, sendOk)
           IN Revises(s, v) /\ Counted(s, v)
<1>0. \A v : v.op \notin StartOps \cup ShutdownOps => Counted(s, v)
  BY DEF Counted
<1>1. Revises(s, s) /\ Counted(s, s)
  BY <1>0 DEF Revises, StartOps, ShutdownOps
<1>2. ASSUME NEW command, NEW recover
      PROVE  LET v == SetPolicyFault(s, command, recover)
             IN Revises(s, v) /\ Counted(s, v)
  <2> DEFINE fault == [command |-> command, recover |-> recover]
             t == [s EXCEPT !.fault = fault, !.phase = "error", !.pendingDue = None]
  <2>1. SetPolicyFault(s, command, recover) \in {s, t}
    BY DEF SetPolicyFault
  <2> HIDE DEF fault
  <2>2. DOMAIN t = DOMAIN s
    BY Zenon
  <2>3. SameRequest(s, t) /\ t.op = "none"
    BY <2>2 DEF SameRequest, Fields
  <2> HIDE DEF t
  <2> QED BY <1>0, <1>1, <2>1, <2>3, SameRevises DEF StartOps, ShutdownOps
<1>3. LET v == DecideOff(s, reading, sendOk) IN Revises(s, v) /\ Counted(s, v)
  <2> DEFINE w == SendStart(s, reading, sendOk)
  <2>1. ASSUME s.on, s.startSentRev # s.revision PROVE Revises(s, w) /\ Counted(s, w)
    <3>1. w.op \notin ShutdownOps
      BY <2>1, SendStartOp
    <3>2. Revises(s, w) /\ (w.op \in StartOps => w.startSentRev = s.revision)
      BY SendStartSeries
    <3> HIDE DEF w
    <3> QED BY <2>1, <3>1, <3>2 DEF Counted
  <2> HIDE DEF w
  <2>2. DecideOff(s, reading, sendOk) =
            IF ~s.on \/ s.restartBlocked THEN s
            ELSE IF s.startSentRev = s.revision THEN SetPolicyFault(s, "start", FALSE)
            ELSE w
    BY DEF DecideOff, SendControl, w
  <2> QED BY <1>1, <1>2, <2>1, <2>2
<1>4. LET v == DecideStarting(s) IN Revises(s, v) /\ Counted(s, v)
  <2> DEFINE t == [s EXCEPT !.stoppingAge = 0]
  <2>1. DOMAIN t = DOMAIN s
    BY Zenon
  <2>2. SameRequest(s, t) /\ t.op = "none"
    BY <2>1 DEF SameRequest, Fields
  <2>3. Revises(s, t) /\ Counted(s, t)
    <3> HIDE DEF t
    <3> QED BY <1>0, <2>2, SameRevises DEF StartOps, ShutdownOps
  <2>4. \/ DecideStarting(s) \in {s, t}
        \/ DecideStarting(s) = SetPolicyFault(s, "shutdown", TRUE)
    BY DEF DecideStarting
  <2> HIDE DEF t
  <2> QED BY <1>1, <1>2, <2>3, <2>4
<1>5. LET v == DecideRunning(s, reading, sendOk) IN Revises(s, v) /\ Counted(s, v)
  <2> DEFINE w == SendShutdown(s, sendOk)
  <2>1. ASSUME s.shutdownSentRev # s.revision PROVE Revises(s, w) /\ Counted(s, w)
    <3>1. w.op \notin StartOps
      BY SendShutdownOp
    <3>2. Revises(s, w) /\ w.shutdownSentRev = s.revision
      BY SendShutdownSeries
    <3> HIDE DEF w
    <3> QED BY <2>1, <3>1, <3>2 DEF Counted
  <2> HIDE DEF w
  <2>2. DecideRunning(s, reading, sendOk) =
            IF s.on THEN s
            ELSE IF s.shutdownSentRev = s.revision
            THEN SetPolicyFault(s, "shutdown", FALSE)
            ELSE w
    BY DEF DecideRunning, SendControl, w
  <2> QED BY <1>1, <1>2, <2>1, <2>2
<1> QED BY <1>1, <1>2, <1>3, <1>4, <1>5 DEF Decide

LEMMA EvaluateControlCounted ==
    ASSUME NEW s, Safe(s), s.op = "none", NEW reading, NEW sendOk \in BOOLEAN
    PROVE  LET v == EvaluateControl(s, reading, sendOk)
           IN Revises(s, v) /\ Counted(s, v)
<1> DEFINE t == [s EXCEPT !.pendingDue = None]
           age == IF t.state # "starting" \/ t.on THEN None ELSE t.stoppingAge
           u == [t EXCEPT !.stoppingAge = age]
<1>1. /\ SameSeries(s, t) /\ DOMAIN t = Fields /\ t.op = "none"
  BY PendingDueSafe, PendingDueSeries DEF SameSeries, SameRequest, Keeps, Safe, WellTyped
<1>2. EvaluateControl(s, reading, sendOk) =
          IF ~ControlAllowed(t) THEN t
          ELSE IF t.attempt # None
          THEN IF t.attempt.retryReady /\ AttemptMatchesRequest(t)
               THEN SendControl(t, t.attempt.command, reading, sendOk)
               ELSE t
          ELSE Decide(u, reading, sendOk)
  BY DEF EvaluateControl
<1> HIDE DEF t
<1>3. \A v : v.op \notin StartOps \cup ShutdownOps => Counted(s, v)
  BY DEF Counted
<1>4. \A v : Revises(t, v) => Revises(s, v)
  BY <1>1, SameRevises, RevisesChains DEF SameSeries
<1>5. \A v : Counted(t, v) => Counted(s, v)
  BY <1>1 DEF SameSeries, Counted
<1>6. Revises(s, t) /\ Counted(s, t)
  BY <1>1, <1>3, SameRevises DEF SameSeries, StartOps, ShutdownOps
<1>7. ASSUME t.attempt # None, t.attempt.retryReady, AttemptMatchesRequest(t)
      PROVE  LET v == SendControl(t, t.attempt.command, reading, sendOk)
             IN Revises(t, v) /\ Counted(t, v)
  <2>1. t.attempt.attempts < MaxControlAttempts /\ t.attempt.statusAfterSend
        /\ t.attempt.command \in {"start", "shutdown"}
    BY <1>1, <1>7 DEF SameSeries, Safe, WellTyped, FieldsTyped, AttemptType, Commands,
                      Sound, AlmostSound, RetryBounded
  <2>2. CASE t.attempt.command = "start"
    <3> DEFINE w == SendStart(t, reading, sendOk)
    <3>1. t.on /\ SendControl(t, t.attempt.command, reading, sendOk) = w
      BY <1>7, <2>2 DEF AttemptMatchesRequest, SendControl
    <3>2. w.op \notin ShutdownOps
      BY <1>1, <3>1, SendStartOp
    <3>3. Revises(t, w) /\ (w.op \in StartOps => w.attempt.attempts = t.attempt.attempts + 1)
      BY <1>1, <1>7, SendStartSeries
    <3> HIDE DEF w
    <3>4. Counted(t, w)
      BY <1>7, <2>1, <2>2, <3>2, <3>3 DEF Counted
    <3> QED BY <3>1, <3>3, <3>4
  <2>3. CASE t.attempt.command = "shutdown"
    <3> DEFINE w == SendShutdown(t, sendOk)
    <3>1. SendControl(t, t.attempt.command, reading, sendOk) = w
      BY <2>3 DEF SendControl
    <3>2. w.op \notin StartOps
      BY <1>1, SendShutdownOp
    <3>3. Revises(t, w) /\ w.attempt.attempts = t.attempt.attempts + 1
      BY <1>1, <1>7, SendShutdownSeries
    <3> HIDE DEF w
    <3>4. Counted(t, w)
      BY <1>7, <2>1, <2>3, <3>2, <3>3 DEF Counted
    <3> QED BY <3>1, <3>3, <3>4
  <2> QED BY <2>1, <2>2, <2>3
<1>8. ASSUME t.attempt = None
      PROVE  LET v == Decide(u, reading, sendOk) IN Revises(t, v) /\ Counted(t, v)
  <2> HIDE DEF age
  <2>1. DOMAIN u = DOMAIN t
    BY Zenon
  <2>2. SameSeries(t, u) /\ u.op = "none"
    BY <1>1, <2>1 DEF SameSeries, SameRequest, Fields
  <2> HIDE DEF u
  <2> DEFINE v == Decide(u, reading, sendOk)
  <2>3. Revises(u, v) /\ Counted(u, v)
    BY <1>1, <1>8, <2>1, <2>2, DecideCounted DEF SameSeries
  <2> HIDE DEF v
  <2>4. Revises(t, v)
    BY <2>2, <2>3, SameRevises, RevisesChains DEF SameSeries
  <2>5. Counted(t, v)
    BY <2>2, <2>3 DEF SameSeries, Counted
  <2> QED BY <2>4, <2>5 DEF v
<1> HIDE DEF u
<1> QED BY <1>2, <1>4, <1>5, <1>6, <1>7, <1>8

LEMMA PollIfDueRevises ==
    ASSUME NEW s, DOMAIN s = Fields, NEW sendOk \in BOOLEAN
    PROVE  Revises(s, PollIfDue(s, sendOk))
<1> DEFINE command == IF s.initialized THEN "status" ELSE "initialization"
           phase == IF s.phase = "error" THEN "error"
                    ELSE IF s.initialized THEN "wait_status" ELSE "wait_init"
           waiting == [s EXCEPT !.nextDue = Heartbeat, !.phase = phase]
           errorOp == IF s.initialized THEN "status_error"
                      ELSE "initialization_error"
           broken == MarkCommunicationError(waiting)
           failed == [broken EXCEPT !.op = errorOp]
           again == [waiting EXCEPT !.op = command]
           first == [waiting EXCEPT !.op = command, !.expected = command,
                                    !.waitAge = 0]
<1>1. PollIfDue(s, sendOk) \in {s, failed, again, first}
  BY DEF PollIfDue, RequestSynchronization
<1> HIDE DEF phase, command, errorOp
<1>2. DOMAIN waiting = DOMAIN s
  BY Zenon
<1>3. SameRequest(s, waiting)
  BY <1>2 DEF SameRequest, Fields
<1> HIDE DEF waiting
<1>4. SameRequest(waiting, broken)
  BY <1>3, MarkSeries DEF SameSeries, SameRequest
<1> HIDE DEF broken
<1>5. DOMAIN failed = DOMAIN broken /\ DOMAIN again = DOMAIN waiting
      /\ DOMAIN first = DOMAIN waiting
  BY Zenon
<1>6. SameRequest(broken, failed)
  BY <1>4, <1>5 DEF SameRequest, Fields
<1>7. SameRequest(waiting, again) /\ SameRequest(waiting, first)
  BY <1>3, <1>5 DEF SameRequest, Fields
<1> HIDE DEF failed, again, first
<1>8. SameRequest(s, s)
  BY DEF SameRequest
<1>9. SameRequest(s, failed) /\ SameRequest(s, again) /\ SameRequest(s, first)
  BY <1>3, <1>4, <1>6, <1>7 DEF SameRequest
<1> QED BY <1>1, <1>8, <1>9, SameRevises

(* A START whose latest time is over is withdrawn before anything else. *)
LEMMA OverdueIsWithdrawn ==
    ASSUME NEW s, Safe(s), NEW reading \in Readings,
           s.session = None, s.deadline # None, s.deadline < 0
    PROVE  ~Supervise(s, reading).on
<1> DEFINE t == CheckRequestedStartDeadline(s)
<1>1. Safe(t)
  BY CheckRequestedStartDeadlineSafe DEF Keeps
<1>2. ~t.on
  <2>1. CASE s.on
    <3> DEFINE r == RequestStop(s)
    <3>1. Safe(r) /\ ~r.on
      BY RequestStopSafe DEF Keeps
    <3> HIDE DEF r
    <3>2. ~[r EXCEPT !.pendingDue = None].on
      BY <3>1 DEF Safe, WellTyped, Fields
    <3> QED BY <2>1, <3>2 DEF CheckRequestedStartDeadline, r
  <2>2. CASE ~s.on
    BY <2>2 DEF CheckRequestedStartDeadline
  <2> QED BY <2>1, <2>2
<1>3. CheckRequestedStartDeadline(t) = t
  BY <1>2 DEF CheckRequestedStartDeadline
<1>4. Supervise(s, reading) = Supervise(t, reading)
  BY <1>3 DEF Supervise
<1> HIDE DEF t
<1>5. Guards(t, Supervise(t, reading))
  BY <1>1, SuperviseGuards
<1> QED BY <1>2, <1>4, <1>5 DEF Guards

(* What one generation may send, of two states of the object *)
Bounds(s, t) ==
    /\ Counted(s, t)
    /\ t.op \in StartOps /\ s.session = None => s.deadline = None \/ s.deadline >= 0

(* step() *)
LEMMA StepControllerBounds ==
    ASSUME NEW s, Safe(s), Ready(s), s.op = "none",
           NEW reading \in Readings, NEW sendOk \in BOOLEAN
    PROVE  LET v == StepController(s, reading, sendOk)
           IN Revises(s, v) /\ Bounds(s, v)
<1> DEFINE t == Supervise(s, reading)
           u == EvaluateControl(t, reading, sendOk)
           due == IF t.expected = None THEN 0 ELSE t.nextDue
           stale == [t EXCEPT !.pendingDue = None, !.nextDue = due]
           v == StepController(s, reading, sendOk)
<1>1. \/ v = PollIfDue(t, sendOk)
      \/ v = PollIfDue(stale, sendOk)
      \/ v = u
      \/ v = PollIfDue(u, sendOk) /\ u.op = "none"
  BY Zenon DEF StepController
<1>2. Safe(t) /\ Continues(s, t) /\ t.op = "none" /\ DOMAIN t = Fields
  BY SuperviseSafe, SuperviseContinues DEF Keeps, Safe, WellTyped
<1>3. s.session = None /\ s.deadline # None /\ s.deadline < 0 => ~t.on
  BY OverdueIsWithdrawn
<1>4. v.op \in StartOps \cup ShutdownOps => Justified(t, v)
  BY StepControllerJustified
<1> HIDE DEF t, v
<1>5. Revises(t, u) /\ Counted(t, u)
  BY <1>2, EvaluateControlCounted
<1> HIDE DEF u, due
<1>6. DOMAIN stale = DOMAIN t
  BY Zenon
<1>7. SameRequest(t, stale) /\ stale.op = "none"
  BY <1>2, <1>6 DEF SameRequest, Fields
<1> HIDE DEF stale
<1>8. DOMAIN u = Fields /\ DOMAIN stale = Fields
  BY <1>2, <1>5, <1>6 DEF Revises
<1>9. /\ Revises(t, PollIfDue(t, sendOk))
      /\ Revises(t, PollIfDue(stale, sendOk))
      /\ Revises(t, PollIfDue(u, sendOk))
  BY <1>2, <1>5, <1>7, <1>8, PollIfDueRevises, SameRevises, RevisesChains
<1>10. /\ PollIfDue(t, sendOk).op \notin StartOps \cup ShutdownOps
       /\ PollIfDue(stale, sendOk).op \notin StartOps \cup ShutdownOps
       /\ u.op = "none" => PollIfDue(u, sendOk).op \notin StartOps \cup ShutdownOps
  BY <1>2, <1>7, <1>8, PollIfDueOp
<1>11. Revises(t, v)
  BY <1>1, <1>5, <1>9
<1>12. Revises(s, v)
  BY <1>2, <1>11, RevisesChains DEF Continues
<1>13. Counted(t, v)
  BY <1>1, <1>5, <1>10 DEF Counted
<1>14. Counted(s, v)
  BY <1>2, <1>13 DEF Continues, Counted
<1>15. s.deadline \in Int \cup {None}
  BY DEF Safe, WellTyped, FieldsTyped
<1>16. v.op \in StartOps /\ s.session = None => s.deadline = None \/ s.deadline >= 0
  BY <1>3, <1>4, <1>15 DEF Justified
<1> QED BY <1>12, <1>14, <1>16 DEF Bounds, v


(* What a frame makes of the request *)
LEMMA DiscardSessionRevises ==
    ASSUME NEW s, DOMAIN s = Fields
    PROVE  Revises(s, DiscardSession(s))
BY SessionSeries, SameRevises DEF DiscardSession, SameSeries

LEMMA CancelUnexpectedStopRevises ==
    ASSUME NEW s, DOMAIN s = Fields, NEW previous, NEW recovering
    PROVE  Revises(s, CancelUnexpectedStop(s, previous, recovering))
<1> DEFINE t == RequestStop(s)
<1>1. Revises(s, t) /\ Revises(s, s)
  BY RequestStopContinues, SelfContinues DEF Continues
<1>2. CancelUnexpectedStop(s, previous, recovering) \in {s, DiscardSession(t)}
  BY DEF CancelUnexpectedStop
<1> HIDE DEF t
<1>3. Revises(t, DiscardSession(t))
  BY <1>1, DiscardSessionRevises DEF Revises
<1> QED BY <1>1, <1>2, <1>3, RevisesChains

LEMMA SettleOffRevises ==
    ASSUME NEW s, DOMAIN s = Fields
    PROVE  Revises(s, SettleOff(s))
<1> DEFINE r == RequestStop(s)
           lifted == [r EXCEPT !.restartBlocked = FALSE]
           unblocked == IF s.restartBlocked THEN lifted ELSE s
           settled == IF /\ ~unblocked.on
                         /\ s.attempt = None \/ s.attempt.command # "start"
                      THEN DiscardSession(unblocked)
                      ELSE unblocked
<1>1. Revises(s, r) /\ Revises(s, s)
  BY RequestStopContinues, SelfContinues DEF Continues
<1>2. SettleOff(s) = s \/ SettleOff(s) = CompleteSensorStopIfOff(settled)
  BY DEF SettleOff
<1> HIDE DEF r
<1>3. DOMAIN lifted = DOMAIN r
  BY Zenon
<1>4. SameRequest(r, lifted)
  BY <1>1, <1>3 DEF Revises, SameRequest, Fields
<1> HIDE DEF lifted
<1>5. Revises(s, unblocked)
  BY <1>1, <1>4, SameRevises, RevisesChains
<1> HIDE DEF unblocked
<1>6. Revises(unblocked, DiscardSession(unblocked))
  BY <1>5, DiscardSessionRevises DEF Revises
<1>7. Revises(s, settled)
  BY <1>5, <1>6, RevisesChains
<1> HIDE DEF settled
<1>8. Revises(settled, CompleteSensorStopIfOff(settled))
  BY <1>7, CompleteSensorStopContinues DEF Revises, Continues
<1> QED BY <1>1, <1>2, <1>7, <1>8, RevisesChains

LEMMA SettleFaultRevises ==
    ASSUME NEW s, DOMAIN s = Fields
    PROVE  Revises(s, SettleFault(s))
<1> DEFINE t == [s EXCEPT !.fault = None, !.attempt = None]
<1>1. SettleFault(s) \in {s, t, DiscardSession(t)}
  BY DEF SettleFault, ClearControlFault
<1>2. DOMAIN t = DOMAIN s
  BY Zenon
<1>3. SameRequest(s, t)
  BY <1>2 DEF SameRequest, Fields
<1> HIDE DEF t
<1>4. Revises(s, t) /\ Revises(s, s)
  BY <1>3, SameRevises, SelfContinues DEF Continues
<1>5. Revises(t, DiscardSession(t))
  BY <1>4, DiscardSessionRevises DEF Revises
<1> QED BY <1>1, <1>4, <1>5, RevisesChains

LEMMA AttemptRevises ==
    ASSUME NEW s, DOMAIN s = Fields, NEW attempt
    PROVE  Revises(s, [s EXCEPT !.attempt = attempt])
<1> DEFINE t == [s EXCEPT !.attempt = attempt]
<1>1. DOMAIN t = DOMAIN s
  BY Zenon
<1> QED BY <1>1, SameRevises DEF SameRequest, Fields

LEMMA ProcessControlConfirmationRevises ==
    ASSUME NEW s, DOMAIN s = Fields, NEW previous, NEW recovering
    PROVE  Revises(s, ProcessControlConfirmation(s, previous, recovering))
<1> DEFINE s1 == CancelUnexpectedStop(s, previous, recovering)
           s2 == SettleOff(s1)
           s3 == SettleFault(s2)
           s4 == SettleAttempt(s3)
           s5 == ConfirmSession(s4)
<1>0. \A q, r : Revises(q, r) => DOMAIN r = Fields
  BY DEF Revises
<1>1. Revises(s, s1)
  BY CancelUnexpectedStopRevises
<1> HIDE DEF s1
<1>2. Revises(s1, s2)
  BY <1>0, <1>1, SettleOffRevises
<1> HIDE DEF s2
<1>3. Revises(s2, s3)
  BY <1>0, <1>2, SettleFaultRevises
<1> HIDE DEF s3
<1>4. Revises(s3, s4)
  <2> DEFINE a == [s3.attempt EXCEPT !.statusAfterSend = TRUE]
  <2>1. DOMAIN s3 = Fields
    BY <1>0, <1>3
  <2>2. s4 \in {s3, [s3 EXCEPT !.attempt = None], [s3 EXCEPT !.attempt = a]}
    BY DEF SettleAttempt
  <2> HIDE DEF a
  <2> QED BY <2>1, <2>2, AttemptRevises, SelfContinues DEF Continues
<1> HIDE DEF s4
<1>5. Revises(s4, s5)
  <2> DEFINE c == [s4.session EXCEPT !.confirmed = TRUE]
  <2>1. DOMAIN s4 = Fields
    BY <1>0, <1>4
  <2>2. s5 \in {s4, [s4 EXCEPT !.session = c]}
    BY DEF ConfirmSession
  <2> HIDE DEF c
  <2> QED BY <2>1, <2>2, SessionSeries, SameRevises, SelfContinues DEF Continues, SameSeries
<1> HIDE DEF s5
<1>6. Revises(s, s3) /\ Revises(s3, s5)
  BY <1>1, <1>2, <1>3, <1>4, <1>5, RevisesChains
<1>7. ProcessControlConfirmation(s, previous, recovering) = s5
  BY DEF ProcessControlConfirmation, s1, s2, s3, s4, s5
<1> QED BY <1>6, <1>7, RevisesChains

LEMMA HandleStatusRevises ==
    ASSUME NEW s, DOMAIN s = Fields, NEW state
    PROVE  Revises(s, HandleStatus(s, state))
<1> DEFINE s1 == AcceptStatus(s, state)
           s2 == ProcessControlConfirmation(s1, s.state, s.commFault)
           s3 == SettleSynchronization(s2)
<1>1. HandleStatus(s, state) \in {s, MarkCommunicationError(s), s3}
  BY Zenon DEF HandleStatus
<1>2. Revises(s, s) /\ Revises(s, MarkCommunicationError(s))
  BY SelfContinues, MarkSeries, SameRevises DEF Continues, SameSeries
<1>3. SameRequest(s, s1)
  <2>1. DOMAIN s1 = DOMAIN s
    BY Zenon DEF AcceptStatus
  <2> QED BY <2>1 DEF AcceptStatus, SameRequest, Fields
<1> HIDE DEF s1
<1>4. Revises(s1, s2) /\ DOMAIN s2 = Fields
  BY <1>3, ProcessControlConfirmationRevises DEF SameRequest, Revises
<1> HIDE DEF s2
<1>5. SameRequest(s2, s3)
  <2> DEFINE sc == ScheduleControl(s2, ControlSettle)
             phase == IF sc.fault = None THEN "ready" ELSE "error"
             p == IF s2.fault = None THEN "ready" ELSE "error"
             synced == [sc EXCEPT !.phase = p, !.commFault = FALSE]
             waiting == [s2 EXCEPT !.phase = "wait_status", !.pendingDue = None]
  <2>1. s3 \in {synced, waiting}
    BY DEF SettleSynchronization
  <2>2. SameRequest(s2, sc)
    <3>1. SameRequest(s2, s2)
      BY <1>4 DEF SameRequest
    <3>2. SameRequest(s2, [s2 EXCEPT !.pendingDue = ControlSettle])
      BY <1>4, PendingDueSeries DEF SameSeries
    <3> QED BY <3>1, <3>2 DEF ScheduleControl
  <2> HIDE DEF sc, p
  <2>3. DOMAIN synced = DOMAIN sc /\ DOMAIN waiting = DOMAIN s2
    BY Zenon
  <2>4. SameRequest(sc, synced) /\ SameRequest(s2, waiting)
    BY <1>4, <2>2, <2>3 DEF SameRequest, Fields
  <2> HIDE DEF synced, waiting
  <2> QED BY <2>1, <2>2, <2>4 DEF SameRequest
<1> HIDE DEF s3
<1>6. Revises(s, s3)
  BY <1>3, <1>4, <1>5, SameRevises, RevisesChains
<1> QED BY <1>1, <1>2, <1>6

(* A frame of whatever kind, and the report of a broken link *)
LEMMA HandleFrameRevises ==
    ASSUME IInv, HandleFrame
    PROVE  Revises(Begin(ctl), ctl')
<1> DEFINE s == Begin(ctl)
           t == [s EXCEPT !.strikes = AtMost(s.strikes + 1, InvalidFrameThreshold),
                          !.validStreak = 0, !.pendingDue = None]
           r == RecordInvalidFrame(s)
<1>1. DOMAIN s = Fields
  BY BeginGuards
<1>2. \/ ctl' = r
      \/ ctl' = MarkCommunicationError(r)
      \/ ctl' = HandleInit(s)
      \/ \E state \in HeaterStates : ctl' = HandleStatus(s, state)
  BY DEF HandleFrame, InvalidFrame, RefusedFrame, InitFrame, StatusFrame
<1>3. r \in {t, MarkCommunicationError(t)}
  BY DEF RecordInvalidFrame
<1> HIDE DEF s
<1>4. \A q : DOMAIN q = Fields => Revises(q, MarkCommunicationError(q))
  BY MarkSeries, SameRevises DEF SameSeries
<1>5. Revises(s, t)
  <2>1. DOMAIN t = DOMAIN s
    BY Zenon
  <2>2. SameRequest(s, t)
    BY <1>1, <2>1 DEF SameRequest, Fields
  <2> HIDE DEF t
  <2> QED BY <2>2, SameRevises
<1> HIDE DEF t
<1>6. Revises(s, r)
  BY <1>3, <1>4, <1>5, RevisesChains DEF Revises
<1> HIDE DEF r
<1>7. Revises(s, MarkCommunicationError(r))
  BY <1>4, <1>6, RevisesChains DEF Revises
<1>8. Revises(s, HandleInit(s))
  <2> DEFINE u == [s EXCEPT !.comm = "ok",
                       !.initialized = TRUE, !.synchronized = FALSE,
                       !.state = "unknown", !.phase = "wait_status",
                       !.expected = None, !.waitAge = None,
                       !.nextDue = 0, !.pendingDue = None]
  <2>1. HandleInit(s) \in {s, MarkCommunicationError(s), u}
    BY Zenon DEF HandleInit
  <2>2. DOMAIN u = DOMAIN s
    BY Zenon
  <2>3. SameRequest(s, u)
    BY <1>1, <2>2 DEF SameRequest, Fields
  <2> HIDE DEF u
  <2> QED BY <1>1, <1>4, <2>1, <2>3, SameRevises, SelfContinues DEF Continues
<1> QED BY <1>1, <1>2, <1>6, <1>7, <1>8, HandleStatusRevises DEF s

(* No call changes a field before it has read it. *)
LEMMA BeginSeries ==
    ASSUME IInv
    PROVE  LET s == Begin(ctl)
           IN /\ SameSeries(ctl, s) /\ s.session = ctl.session /\ s.deadline = ctl.deadline
<1> DEFINE s == Begin(ctl)
<1>1. DOMAIN ctl = Fields /\ DOMAIN s = Fields
  BY BeginGuards DEF IInv, Safe, WellTyped
<1> QED BY <1>1 DEF Begin, SameSeries, SameRequest, Fields

(* What the three parts of SeriesAreBounded say of one step *)
StepBounds ==
    /\ Bounds(ctl, ctl')
    /\ \/ Revises(ctl, ctl')
       \/ DOMAIN ctl' = Fields /\ ctl'.revision = ctl.revision + 1

LEMMA StepIsBounded ==
    ASSUME IInv, Step
    PROVE  StepBounds
<1> DEFINE s == Begin(ctl)
<1>1. /\ Safe(s) /\ Ready(s) /\ s.op = "none"
      /\ SameSeries(ctl, s) /\ s.session = ctl.session /\ s.deadline = ctl.deadline
  BY BeginGuards, BeginSeries
<1> HIDE DEF s
<1>2. PICK reading \in Readings, sendOk \in BOOLEAN :
          ctl' = StepController(s, reading, sendOk)
  BY DEF Step, s
<1>3. Revises(s, ctl') /\ Bounds(s, ctl')
  BY <1>1, <1>2, StepControllerBounds
<1>4. Revises(ctl, ctl')
  BY <1>1, <1>3, SameRevises, RevisesChains DEF SameSeries
<1>5. Bounds(ctl, ctl')
  BY <1>1, <1>3 DEF SameSeries, Bounds, Counted
<1> QED BY <1>4, <1>5 DEF StepBounds

LEMMA CallIsBounded ==
    ASSUME IInv, Next, ~Step
    PROVE  StepBounds
<1> DEFINE s == Begin(ctl)
<1>1. DOMAIN ctl = Fields /\ DOMAIN s = Fields /\ SameSeries(ctl, s)
  BY BeginGuards, BeginSeries DEF IInv, Safe, WellTyped
<1>2. Bounds(ctl, ctl')
  BY OnlyStepSends DEF Bounds, Counted, StartOps, ShutdownOps
<1>3. \A t : Revises(s, t) => Revises(ctl, t)
  BY <1>1, SameRevises, RevisesChains DEF SameSeries
<1>4. CASE HandleFrame
  BY <1>2, <1>3, <1>4, HandleFrameRevises DEF StepBounds
<1>5. CASE ReportCommunicationError
  BY <1>1, <1>2, <1>3, <1>5, MarkSeries, SameRevises
     DEF ReportCommunicationError, SameSeries, StepBounds
<1>6. CASE Stop
  BY <1>1, <1>2, <1>3, <1>6, RequestStopContinues DEF Stop, Continues, StepBounds
<1> HIDE DEF s
<1>7. CASE RequestStart
  <2>1. PICK mode \in Modes, target \in Targets, runtime \in Runtimes,
             deadline \in Deadlines :
          ctl' = [s EXCEPT !.on = TRUE, !.mode = mode, !.target = target,
                           !.runtime = runtime, !.deadline = deadline,
                           !.revision = ctl.revision + 1]
    BY <1>7 DEF RequestStart, s
  <2>2. DOMAIN ctl' = DOMAIN s
    BY <2>1, Zenon
  <2>3. ctl'.revision = ctl.revision + 1
    BY <1>1, <2>1 DEF Fields
  <2> QED BY <1>1, <1>2, <2>2, <2>3 DEF StepBounds
<1>8. CASE UpdateActiveSession
  <2>1. PICK target \in Targets, extend \in {0, ExtendBy} :
          ctl' = [s EXCEPT !.target = target, !.runtime = ctl.runtime + extend,
                           !.revision = ctl.revision + 1,
                           !.session = AdjustSession(ctl.session, target, extend)]
    BY <1>8 DEF UpdateActiveSession, s
  <2>2. DOMAIN ctl' = DOMAIN s
    BY <2>1, Zenon
  <2>3. ctl'.revision = ctl.revision + 1
    BY <1>1, <2>1 DEF Fields
  <2> QED BY <1>1, <1>2, <2>2, <2>3 DEF StepBounds
<1>9. CASE RetryControlFault
  <2> DEFINE due == IF ctl.expected = None THEN 0 ELSE ctl.nextDue
  <2>1. ctl' = [s EXCEPT !.revision = ctl.revision + 1,
                         !.fault = None, !.attempt = None, !.pendingDue = None,
                         !.phase = "wait_status", !.nextDue = due]
    BY <1>9 DEF RetryControlFault, s
  <2> HIDE DEF due
  <2>2. DOMAIN ctl' = DOMAIN s
    BY <2>1, Zenon
  <2>3. ctl'.revision = ctl.revision + 1
    BY <1>1, <2>1 DEF Fields
  <2> QED BY <1>1, <1>2, <2>2, <2>3 DEF StepBounds
<1>10. CASE Tick
  <2>1. DOMAIN ctl' = DOMAIN ctl
    BY <1>10, Zenon DEF Tick, Elapse
  <2>2. SameRequest(ctl, ctl')
    BY <1>1, <1>10, <2>1 DEF Tick, Elapse, SameRequest, Fields
  <2> QED BY <1>2, <2>2, SameRevises DEF StepBounds
<1> QED BY <1>4, <1>5, <1>6, <1>7, <1>8, <1>9, <1>10 DEF Next

(* One generation of the request sends a bounded series: step() sends the  *)
(* first command of a revision once and repeats it only as the retry of    *)
(* the open attempt (_send_control), a START whose latest time is over is  *)
(* withdrawn before it could be sent (_check_requested_start_deadline),    *)
(* and every change of the Requested State takes a new revision.           *)
THEOREM SeriesStayBounded == Spec => SeriesAreBounded
<1> DEFINE A == \/ /\ ctl'.op \in StartOps => ctl.startSentRev # ctl'.startSentRev
                   /\ ctl'.op \in ShutdownOps =>
                        ctl.shutdownSentRev # ctl'.shutdownSentRev
                \/ /\ ctl.attempt # None
                   /\ ctl.attempt.command = (IF ctl'.op \in StartOps THEN "start"
                                             ELSE "shutdown")
                   /\ ctl.attempt.statusAfterSend
                   /\ ctl.attempt.attempts < MaxControlAttempts
                   /\ ctl'.attempt.attempts = ctl.attempt.attempts + 1
           B == ctl'.op \in StartOps /\ ctl.session = None =>
                    ctl.deadline = None \/ ctl.deadline >= 0
           C == /\ ctl'.revision \in {ctl.revision, ctl.revision + 1}
                /\ ctl'.revision = ctl.revision =>
                     /\ ctl'.on = ctl.on
                     /\ Parameters(ctl') = Parameters(ctl)
                     /\ ctl'.runtime = ctl.runtime
<1>1. ASSUME IInv, IInv', Next PROVE A /\ B /\ C
  <2>1. StepBounds
    BY <1>1, StepIsBounded, CallIsBounded
  <2>2. A /\ B
    BY <2>1 DEF StepBounds, Bounds, Counted
  <2>3. /\ ctl.on \in BOOLEAN /\ ctl'.on \in BOOLEAN /\ ctl.revision \in Nat
    BY <1>1 DEF IInv, Safe, WellTyped, FieldsTyped
  <2>4. C
    BY <2>1, <2>3 DEF StepBounds, Revises, Parameters
  <2> QED BY <2>2, <2>4
<1>2. IInv /\ IInv' /\ [Next]_vars => [A]_vars /\ [B]_vars /\ [C]_vars
  BY <1>1
<1> QED BY <1>2, Invariance, PTL
        DEF Spec, SeriesAreBounded, BoundedRepetition, DeadlineHonoured, RevisionCountsChanges

=============================================================================
