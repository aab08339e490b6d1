------------------------- MODULE HeaterSystemProofs -------------------------
(***************************************************************************)
(* Theorems about HeaterSystem, the controller together with the line and  *)
(* the heater: a START leaves only when the heater is off, a believed OFF  *)
(* is true, and the loop implements SupervisedHeat.                        *)
(*                                                                         *)
(* The heart of the argument is Trusted(s), an OFF that no START in flight *)
(* can make a lie.  No helper of step() makes the controller trust what it *)
(* did not trust before, or drop a session otherwise; only a STATUS answer *)
(* OFF does.  So whatever the controller trusts goes back to an answer,    *)
(* and an answer is true when at most one frame is under way: that the     *)
(* heater takes each command before the next is written (MaxQueue = 1) is  *)
(* the hypothesis of every theorem here, and without it they are false.    *)
(***************************************************************************)
EXTENDS HeaterSystem, HeaterControllerStepProofs

-----------------------------------------------------------------------------
(* What the controller trusts.                                             *)

OpenStart(s) ==
    /\ s.attempt # None
    /\ s.attempt.command = "start"
    /\ ~s.attempt.statusAfterSend

Trusted(s) == s.state = "off" /\ ~OpenStart(s)

(* From s to t no trust is gained, no session is dropped without it, and   *)
(* none is made but for a request that is ON.                              *)
Trusts(s, t) ==
    /\ Trusted(t) => Trusted(s)
    /\ s.session # None /\ t.session = None => Trusted(s)
    /\ s.session = None /\ t.session # None => t.on

(* A helper that changes neither request, attempt nor session but knows    *)
(* less of the heater, perhaps; the request may be withdrawn.              *)
Steady(s, t) ==
    /\ t.attempt = s.attempt
    /\ t.state \in {s.state, "unknown"}
    /\ t.session = None <=> s.session = None

LEMMA SteadyTrusts ==
    ASSUME NEW s, NEW t, Steady(s, t)
    PROVE  Trusts(s, t)
BY DEF Steady, Trusts, Trusted, OpenStart

LEMMA SteadyChains ==
    ASSUME NEW s, NEW t, NEW u, Steady(s, t), Steady(t, u)
    PROVE  Steady(s, u)
BY DEF Steady

(* Trust is handed on through a helper that makes no session, ...          *)
LEMMA SteadyThenTrusts ==
    ASSUME NEW s, NEW t, NEW u, Steady(s, t), Trusts(t, u)
    PROVE  Trusts(s, u)
BY DEF Steady, Trusts, Trusted, OpenStart

(* ... and through one that leaves the request alone.                      *)
LEMMA TrustsChains ==
    ASSUME NEW s, NEW t, NEW u, Trusts(s, t), Trusts(t, u), u.on = t.on
    PROVE  Trusts(s, u)
<1>1. Trusted(u) => Trusted(s)
  BY DEF Trusts
<1>2. s.session # None /\ u.session = None => Trusted(s)
  BY DEF Trusts
<1>3. s.session = None /\ u.session # None => u.on
  BY DEF Trusts
<1> QED BY <1>1, <1>2, <1>3 DEF Trusts

-----------------------------------------------------------------------------
(* The helpers of step().                                                  *)

LEMMA MarkSteady ==
    ASSUME NEW s, DOMAIN s = Fields
    PROVE  /\ Steady(s, MarkCommunicationError(s))
           /\ MarkCommunicationError(s).on = s.on
BY DEF MarkCommunicationError, Steady, Fields

(* Before a session is made, supervision only withdraws the request. *)
LEMMA WithdrawalsSteady ==
    ASSUME NEW s, Safe(s), NEW reading \in Readings
    PROVE  LET t == ApplySensorPolicy(CheckSessionExpiry(
                        CheckResponseTimeout(CheckRequestedStartDeadline(s))),
                        reading)
           IN Safe(t) /\ Steady(s, t) /\ StartPossible(t, reading)
<1> DEFINE s1 == CheckRequestedStartDeadline(s)
           s2 == CheckResponseTimeout(s1)
           s3 == CheckSessionExpiry(s2)
           s4 == ApplySensorPolicy(s3, reading)
<1>1. Safe(s1) /\ Steady(s, s1)
  <2>1. Safe(s1)
    BY CheckRequestedStartDeadlineSafe DEF Keeps
  <2>2. Steady(s, s1)
    BY DEF Steady, CheckRequestedStartDeadline, RequestStop, Safe, WellTyped,
       Fields
  <2> QED BY <2>1, <2>2
<1> HIDE DEF s1
<1>2. Safe(s2) /\ Steady(s1, s2)
  <2>1. Safe(s2)
    BY <1>1, CheckResponseTimeoutSafe DEF Keeps
  <2>2. Steady(s1, s1)
    BY DEF Steady
  <2>3. Steady(s1, s2)
    BY <1>1, <2>2, MarkSteady DEF CheckResponseTimeout, Safe, WellTyped
  <2> QED BY <2>1, <2>3
<1> HIDE DEF s2
<1>3. Safe(s3) /\ Alive(s3) /\ Steady(s2, s3)
  <2>1. Safe(s3) /\ Alive(s3)
    BY <1>2, CheckSessionExpirySafe DEF Keeps
  <2>2. ASSUME SessionExpires(s2) PROVE Steady(s2, s3)
    <3> DEFINE e == [s2.session EXCEPT !.expired = TRUE]
    <3>1. s2.session \in SessionType
      BY <1>2, <2>2 DEF SessionExpires, Safe, WellTyped, FieldsTyped
    <3>2. e \in SessionType
      BY <3>1 DEF SessionType
    <3>3. e # None
      BY <3>2, NoneSessionAssumption
    <3>4. s3.session = e /\ s3.attempt = s2.attempt /\ s3.state = s2.state
      BY <1>2, <2>2 DEF CheckSessionExpiry, RequestStop, Safe, WellTyped,
         Fields
    <3> HIDE DEF e
    <3> QED BY <2>2, <3>3, <3>4 DEF Steady, SessionExpires
  <2>3. ASSUME ~SessionExpires(s2) PROVE Steady(s2, s3)
    BY <2>3 DEF CheckSessionExpiry, Steady
  <2> QED BY <2>1, <2>2, <2>3
<1> HIDE DEF s3
<1>4. Safe(s4) /\ StartPossible(s4, reading) /\ Steady(s3, s4)
  <2>1. Safe(s4) /\ StartPossible(s4, reading)
    BY <1>3, ApplySensorPolicySafe DEF Keeps
  <2>2. Steady(s3, s4)
    BY <1>3 DEF Steady, ApplySensorPolicy, RequestStop, Safe, WellTyped,
       Fields
  <2> QED BY <2>1, <2>2
<1> HIDE DEF s4
<1>5. Steady(s, s4)
  BY <1>1, <1>2, <1>3, <1>4, SteadyChains
<1> QED BY <1>4, <1>5 DEF s1, s2, s3, s4

(* A session is made for a request that is ON, and marked confirmed. *)
LEMMA EnsureActiveSessionTrusts ==
    ASSUME NEW s, Safe(s), NEW reading
    PROVE  Trusts(s, EnsureActiveSession(s, reading))
<1> DEFINE t == EnsureActiveSession(s, reading)
<1>1. /\ t.attempt = s.attempt /\ t.state = s.state
      /\ t.session # s.session => s.session = None /\ t.on
  BY DEF EnsureActiveSession, StartSession, RequestStop, Safe, WellTyped,
     Fields
<1> HIDE DEF t
<1> QED BY <1>1 DEF Trusts, Trusted, OpenStart, t

(* Only an answered attempt is settled: the OFF that drops one was         *)
(* reported after the START.                                               *)
LEMMA CheckControlConfirmationTrusts ==
    ASSUME NEW s, Safe(s)
    PROVE  LET t == CheckControlConfirmation(s)
           IN Trusts(s, t) /\ t.on = s.on
<1> DEFINE ready == [s.attempt EXCEPT !.retryReady = TRUE]
           t == CheckControlConfirmation(s)
<1>1. CASE s.attempt = None \/ s.fault # None \/ ~s.attempt.statusAfterSend
  BY <1>1 DEF CheckControlConfirmation, Trusts
<1>2. CASE s.attempt # None /\ s.fault = None /\ s.attempt.statusAfterSend
  <2>1. /\ t.on = s.on /\ t.state = s.state
        /\ t.session # s.session => t.session = None /\ s.state = "off"
    BY <1>2 DEF CheckControlConfirmation, DiscardSession, SetControlFault,
       ScheduleControl, Safe, WellTyped, Fields
  <2> HIDE DEF t
  <2> QED BY <1>2, <2>1 DEF Trusts, Trusted, OpenStart, t
<1> QED BY <1>1, <1>2

(* All that step() does before it decides *)
LEMMA SuperviseTrusts ==
    ASSUME NEW s, Safe(s), NEW reading \in Readings
    PROVE  Trusts(s, Supervise(s, reading))
<1> DEFINE s4 == ApplySensorPolicy(CheckSessionExpiry(
                     CheckResponseTimeout(CheckRequestedStartDeadline(s))),
                     reading)
           s5 == EnsureActiveSession(s4, reading)
           s6 == CheckControlConfirmation(s5)
           s7 == CompleteSensorStopIfOff(s6)
<1>1. Supervise(s, reading) = s7
  BY DEF Supervise
<1>2. Safe(s4) /\ StartPossible(s4, reading) /\ Steady(s, s4)
  BY WithdrawalsSteady
<1> HIDE DEF s4
<1>3. Safe(s5) /\ StartPossible(s5, reading) /\ Trusts(s4, s5)
  BY <1>2, EnsureActiveSessionSafe, EnsureActiveSessionTrusts DEF Keeps
<1> HIDE DEF s5
<1>4. Safe(s6) /\ Trusts(s5, s6) /\ s6.on = s5.on
  BY <1>3, CheckControlConfirmationSafe, CheckControlConfirmationTrusts
     DEF Keeps
<1> HIDE DEF s6
<1>5. Steady(s6, s7) /\ s7.on = s6.on
  BY <1>4 DEF CompleteSensorStopIfOff, Steady, Safe, WellTyped, Fields
<1> HIDE DEF s7
<1>6. Trusts(s4, s7)
  BY <1>3, <1>4, <1>5, SteadyTrusts, TrustsChains
<1> QED BY <1>1, <1>2, <1>6, SteadyThenTrusts

-----------------------------------------------------------------------------
(* Sending.                                                                *)

(* A START leaves only on trust, and ends it.                              *)
Sends(s, t) ==
    /\ Trusts(s, t) /\ t.on = s.on
    /\ t.op \in StartOps => Trusted(s) /\ ~Trusted(t)

LEMMA SteadySends ==
    ASSUME NEW s, NEW t, Steady(s, t), t.on = s.on, t.op \notin StartOps
    PROVE  Sends(s, t)
BY SteadyTrusts DEF Sends

LEMMA SendsChains ==
    ASSUME NEW s, NEW t, NEW u, Steady(s, t), t.on = s.on, Sends(t, u)
    PROVE  Sends(s, u)
BY SteadyThenTrusts DEF Sends, Steady, Trusted, OpenStart

(* A frame that could not be written leaves the heater's state unknown. *)
LEMMA TransmitControlTrusts ==
    ASSUME NEW s, DOMAIN s = Fields, NEW command, NEW sendOk \in BOOLEAN
    PROVE  LET t == TransmitControl(s, command, sendOk)
           IN \/ t.state = "unknown"
              \/ t.state = s.state /\ t.attempt = s.attempt
<1>1. CASE sendOk
  BY <1>1 DEF TransmitControl, Fields
<1>2. CASE ~sendOk
  <2> DEFINE broken == MarkCommunicationError(s)
             op == IF command = "start" THEN "start_error"
                   ELSE "shutdown_error"
             a == [s.attempt EXCEPT !.sendFailed = TRUE]
             t == [broken EXCEPT !.attempt = a, !.op = op]
  <2>1. broken.state = "unknown" /\ DOMAIN broken = Fields
    BY MarkGuards
  <2>2. TransmitControl(s, command, sendOk) = t
    BY <1>2 DEF TransmitControl
  <2> HIDE DEF broken, op, a
  <2>3. t.state = "unknown"
    BY <2>1 DEF Fields
  <2> QED BY <2>2, <2>3
<1> QED BY <1>1, <1>2

(* The START that leaves is open until a status answers it. *)
LEMMA SendStartSends ==
    ASSUME NEW s, Safe(s), MayOpen(s, "start"), s.op = "none", Trusted(s),
           NEW reading, NEW sendOk \in BOOLEAN
    PROVE  Sends(s, SendStart(s, reading, sendOk))
<1> DEFINE t == OpenAttempt(s, "start")
           refused == [t EXCEPT !.attempt = None, !.raised = TRUE]
           u == StartSession(t, reading)
           v == [u EXCEPT !.startSentRev = t.attempt.revision]
           w == TransmitControl(v, "start", sendOk)
<1>1. SendStart(s, reading, sendOk) \in {refused, w}
  BY Zenon DEF SendStart
<1>2. /\ DOMAIN t = Fields /\ t.op = "none" /\ t.on = s.on /\ s.on
      /\ t.session = s.session /\ t.state = s.state /\ OpenStart(t)
  BY OpenAttemptSafe DEF MayOpen, Commands, WellTyped, OpenStart
<1> HIDE DEF t
<1>3. Sends(s, refused)
  <2>1. /\ refused.op = "none" /\ refused.on = s.on
        /\ refused.session = s.session
    BY <1>2 DEF Fields
  <2> HIDE DEF refused
  <2> QED BY <2>1 DEF Sends, Trusts, StartOps
<1>4. /\ DOMAIN u = Fields /\ u.on = s.on /\ u.attempt = t.attempt
      /\ s.session # None => u.session = s.session
  <2>1. DOMAIN u = Fields
    BY <1>2, StartSessionGuards
  <2> QED BY <1>2, <2>1 DEF StartSession, Fields
<1> HIDE DEF u
<1>5. /\ DOMAIN v = Fields /\ v.on = s.on /\ v.attempt = t.attempt
      /\ v.session = u.session
  <2>1. DOMAIN v = DOMAIN u
    BY Zenon
  <2> QED BY <1>4, <2>1 DEF Fields
<1> HIDE DEF v
<1>6. /\ w.on = s.on /\ w.session = u.session
      /\ w.state = "unknown" \/ w.attempt = t.attempt
  BY <1>5, TransmitControlGuards, TransmitControlTrusts
     DEF SameGuard, Commands
<1> HIDE DEF w
<1>7. ~Trusted(w)
  BY <1>2, <1>6 DEF Trusted, OpenStart
<1>8. Sends(s, w)
  BY <1>2, <1>4, <1>6, <1>7 DEF Sends, Trusts
<1> QED BY <1>1, <1>3, <1>8

(* A SHUTDOWN is sent to a heater that runs. *)
LEMMA SendShutdownSends ==
    ASSUME NEW s, DOMAIN s = Fields, s.state = "running", NEW sendOk \in BOOLEAN
    PROVE  Sends(s, SendShutdown(s, sendOk))
<1> DEFINE t == OpenAttempt(s, "shutdown")
           u == [t EXCEPT !.restartBlocked = TRUE,
                          !.shutdownSentRev = t.attempt.revision]
           w == TransmitControl(u, "shutdown", sendOk)
<1>1. SendShutdown(s, sendOk) = w
  BY DEF SendShutdown
<1>2. SameGuard(s, t) /\ t.state = s.state /\ DOMAIN t = Fields
  BY AttemptGuards DEF OpenAttempt
<1> HIDE DEF t
<1>3. DOMAIN u = DOMAIN t
  BY Zenon
<1>4. u.on = t.on /\ u.session = t.session /\ u.state = t.state
  BY <1>2 DEF Fields
<1> HIDE DEF u
<1>5. /\ SameGuard(u, w) /\ w.state \in {u.state, "unknown"}
      /\ w.op \notin StartOps
  BY <1>2, <1>3, TransmitControlGuards DEF Commands
<1> HIDE DEF w
<1> QED BY <1>1, <1>2, <1>4, <1>5 DEF Sends, Trusts, Trusted, SameGuard

LEMMA SetPolicyFaultSends ==
    ASSUME NEW s, DOMAIN s = Fields, s.op = "none", NEW command, NEW recover
    PROVE  Sends(s, SetPolicyFault(s, command, recover))
<1> DEFINE t == SetPolicyFault(s, command, recover)
<1>1. /\ t.attempt = s.attempt /\ t.state = s.state /\ t.on = s.on
      /\ t.session = s.session /\ t.op = "none"
  BY DEF SetPolicyFault, Fields
<1> HIDE DEF t
<1>2. Steady(s, t) /\ t.op \notin StartOps
  BY <1>1 DEF Steady, StartOps
<1>3. Sends(s, t)
  BY <1>1, <1>2, SteadySends
<1> QED BY <1>3 DEF t

(* The decision, with no attempt open *)
LEMMA DecideSends ==
    ASSUME NEW s, Safe(s), s.op = "none", s.attempt = None, NEW reading,
           NEW sendOk \in BOOLEAN
    PROVE  Sends(s, Decide(s, reading, sendOk))
<1>1. DOMAIN s = Fields
  BY DEF Safe, WellTyped
<1>2. Sends(s, s)
  BY SteadySends DEF Steady, StartOps
<1>3. s.state = "off" => Sends(s, DecideOff(s, reading, sendOk))
  <2>1. s.on => MayOpen(s, "start")
    BY DEF MayOpen
  <2>2. s.state = "off" => Trusted(s)
    BY DEF Trusted, OpenStart
  <2> QED BY <1>1, <1>2, <2>1, <2>2, SetPolicyFaultSends, SendStartSends
          DEF DecideOff, SendControl
<1>4. Sends(s, DecideStarting(s))
  <2> DEFINE t == [s EXCEPT !.stoppingAge = 0]
  <2>1. Steady(s, t) /\ t.on = s.on /\ t.op = "none"
    BY <1>1 DEF Steady, Fields
  <2> HIDE DEF t
  <2>2. Sends(s, t)
    BY <2>1, SteadySends DEF StartOps
  <2> QED BY <1>1, <1>2, <2>2, SetPolicyFaultSends DEF DecideStarting, t
<1>5. s.state = "running" => Sends(s, DecideRunning(s, reading, sendOk))
  BY <1>1, <1>2, SetPolicyFaultSends, SendShutdownSends
     DEF DecideRunning, SendControl
<1> QED BY <1>1, <1>2, <1>3, <1>4, <1>5, SetPolicyFaultSends DEF Decide

(* A START is repeated only after a status has answered the last one. *)
LEMMA EvaluateControlSends ==
    ASSUME NEW s, Safe(s), s.op = "none", NEW reading, NEW sendOk \in BOOLEAN
    PROVE  Sends(s, EvaluateControl(s, reading, sendOk))
<1> DEFINE t == [s EXCEPT !.pendingDue = None]
           age == IF t.state # "starting" \/ t.on THEN None ELSE t.stoppingAge
           u == [t EXCEPT !.stoppingAge = age]
<1>1. EvaluateControl(s, reading, sendOk) =
          IF ~ControlAllowed(t) THEN t
          ELSE IF t.attempt # None
          THEN IF t.attempt.retryReady /\ AttemptMatchesRequest(t)
               THEN SendControl(t, t.attempt.command, reading, sendOk)
               ELSE t
          ELSE Decide(u, reading, sendOk)
  BY DEF EvaluateControl
<1>2. /\ Safe(t) /\ DOMAIN t = Fields /\ t.op = "none"
      /\ Steady(s, t) /\ t.on = s.on
  <2>1. Safe(t) /\ t.op = "none"
    BY PendingDueSafe DEF Keeps
  <2>2. t.attempt = s.attempt /\ t.state = s.state /\ t.on = s.on
        /\ t.session = s.session
    BY DEF Safe, WellTyped, Fields
  <2> HIDE DEF t
  <2> QED BY <2>1, <2>2 DEF Steady, Safe, WellTyped
<1> HIDE DEF t
<1>3. Sends(t, t)
  BY <1>2, SteadySends DEF Steady, StartOps
<1>4. ASSUME t.attempt # None, t.attempt.retryReady, AttemptMatchesRequest(t)
      PROVE  Sends(t, SendControl(t, t.attempt.command, reading, sendOk))
  <2>1. t.attempt.command \in Commands /\ t.attempt.statusAfterSend
    BY <1>2, <1>4 DEF Safe, WellTyped, FieldsTyped, AttemptType, Sound,
       AlmostSound, RetryBounded
  <2>2. CASE t.attempt.command = "start"
    <3>1. MayOpen(t, "start") /\ Trusted(t)
      BY <1>4, <2>1, <2>2 DEF MayOpen, AttemptMatchesRequest, Trusted,
         OpenStart
    <3> QED BY <1>2, <2>2, <3>1, SendStartSends DEF SendControl
  <2>3. CASE t.attempt.command = "shutdown"
    <3>1. t.state = "running"
      BY <1>4, <2>3 DEF AttemptMatchesRequest
    <3> QED BY <1>2, <2>3, <3>1, SendShutdownSends DEF SendControl
  <2> QED BY <2>1, <2>2, <2>3 DEF Commands
<1>5. ASSUME t.attempt = None
      PROVE  Sends(t, Decide(u, reading, sendOk))
  <2>1. age \in Ages(StartingStopTimeout)
    BY <1>2 DEF Safe, WellTyped, FieldsTyped, Ages
  <2> HIDE DEF age
  <2>2. Safe(u) /\ u.op = "none" /\ SameCore(t, u)
    BY <1>2, <2>1, StoppingAgeSafe DEF Keeps
  <2>3. u.state = t.state
    BY <1>2 DEF Fields
  <2> HIDE DEF u
  <2>4. Steady(t, u) /\ u.on = t.on /\ u.attempt = None
    BY <1>5, <2>2, <2>3 DEF SameCore, Steady
  <2> QED BY <2>2, <2>4, DecideSends, SendsChains
<1> HIDE DEF u
<1>6. Sends(t, EvaluateControl(s, reading, sendOk))
  BY <1>1, <1>3, <1>4, <1>5
<1> QED BY <1>2, <1>6, SendsChains

(* A poll is no START and tells nothing of the heater. *)
LEMMA PollIfDueSends ==
    ASSUME NEW s, DOMAIN s = Fields, s.op = "none", NEW sendOk \in BOOLEAN
    PROVE  Sends(s, PollIfDue(s, sendOk))
<1> DEFINE t == PollIfDue(s, sendOk)
<1>1. t.op \notin StartOps
  BY PollIfDueOp
<1>2. Steady(s, t) /\ t.on = s.on
  BY DEF PollIfDue, RequestSynchronization, MarkCommunicationError, Steady,
     Fields
<1> HIDE DEF t
<1> QED BY <1>1, <1>2, SteadySends DEF t

(* What a round does to trust, request and session: a START that leaves is *)
(* sent on the trust of the state before and leaves none.                  *)
LEMMA StepControllerTrusts ==
    ASSUME NEW s, Safe(s), Ready(s), s.op = "none",
           NEW reading \in Readings, NEW sendOk \in BOOLEAN
    PROVE  LET v == StepController(s, reading, sendOk)
           IN /\ Trusts(s, v)
              /\ v.op \in StartOps => Trusted(s) /\ ~Trusted(v)
<1> DEFINE t == Supervise(s, reading)
           u == EvaluateControl(t, reading, sendOk)
           due == IF t.expected = None THEN 0 ELSE t.nextDue
           stale == [t EXCEPT !.pendingDue = None, !.nextDue = due]
           v == StepController(s, reading, sendOk)
<1>1. \/ v \in {PollIfDue(t, sendOk), PollIfDue(stale, sendOk), u}
      \/ v = PollIfDue(u, sendOk) /\ u.op = "none"
  BY Zenon DEF StepController
<1>2. /\ Safe(t) /\ Ready(t) /\ Alive(t) /\ t.op = "none"
      /\ StartPossible(t, reading) /\ DOMAIN t = Fields
  BY SuperviseSafe DEF Keeps, Safe, WellTyped
<1>3. Trusts(s, t)
  BY SuperviseTrusts
<1> HIDE DEF t, v
<1>4. Sends(t, u) /\ DOMAIN u = Fields
  BY <1>2, EvaluateControlSends, EvaluateControlSafe DEF Safe, WellTyped
<1> HIDE DEF u, due
<1>5. DOMAIN stale = DOMAIN t
  BY Zenon
<1>6. Steady(t, stale) /\ stale.on = t.on /\ stale.op = "none"
  BY <1>2 DEF Steady, Fields
<1> HIDE DEF stale
<1>7. Sends(t, PollIfDue(t, sendOk)) /\ Sends(t, PollIfDue(stale, sendOk))
  BY <1>2, <1>5, <1>6, PollIfDueSends, SendsChains
<1>8. ASSUME u.op = "none" PROVE Sends(t, PollIfDue(u, sendOk))
  <2> DEFINE w == PollIfDue(u, sendOk)
  <2>1. Sends(u, w) /\ w.op \notin StartOps
    BY <1>4, <1>8, PollIfDueSends, PollIfDueOp
  <2> HIDE DEF w
  <2>2. Trusts(t, w)
    BY <1>4, <2>1, TrustsChains DEF Sends
  <2>3. Sends(t, w)
    BY <1>4, <2>1, <2>2 DEF Sends
  <2> QED BY <2>3 DEF w
<1>9. Sends(t, v)
  BY <1>1, <1>4, <1>7, <1>8
<1>10. Trusts(s, v)
  BY <1>3, <1>9, TrustsChains DEF Sends
<1>11. v.op \in StartOps => Trusted(s) /\ ~Trusted(v)
  BY <1>3, <1>9 DEF Sends, Trusts
<1> QED BY <1>10, <1>11 DEF v

-----------------------------------------------------------------------------
(* Receiving.                                                              *)

(* What may be received: only an answer OFF makes trust.                   *)
Receives(s, t) ==
    /\ t.on => s.on
    /\ s.session = None => t.session = None
    /\ s.session # None /\ t.session = None => ~t.on
    /\ rx = <<"off">> \/ Trusts(s, t)

LEMMA SteadyReceives ==
    ASSUME NEW s, NEW t, Steady(s, t), t.on = s.on
    PROVE  Receives(s, t)
BY SteadyTrusts DEF Receives, Steady

LEMMA HandleStatusReceives ==
    ASSUME NEW s, Safe(s), NEW state \in KnownStates, rx = <<state>>
    PROVE  Receives(s, HandleStatus(s, state))
<1> DEFINE a == AcceptStatus(s, state)
           t == SettleSynchronization(
                    ProcessControlConfirmation(a, s.state, s.commFault))
<1>1. \/ HandleStatus(s, state) \in {s, MarkCommunicationError(s)}
      \/ s.initialized /\ HandleStatus(s, state) = t
  BY Zenon DEF HandleStatus
<1>2. Receives(s, s) /\ Receives(s, MarkCommunicationError(s))
  BY SteadyReceives, MarkSteady DEF Steady, Safe, WellTyped
<1>3. ASSUME s.initialized PROVE Receives(s, t)
  <2>1. SameGuard(s, a) /\ Answers(a, t)
    BY <1>3, StatusGuards DEF HeaterStates
  <2>2. a.state = state
    BY DEF AcceptStatus, Safe, WellTyped, Fields
  <2> HIDE DEF a, t
  <2>3. state = "off" => rx = <<"off">>
    OBVIOUS
  <2>4. state # "off" => ~Trusted(t)
    BY <2>1, <2>2 DEF Answers, Trusted
  <2>5. /\ t.on => s.on
        /\ s.session = None => t.session = None
        /\ s.session # None /\ t.session = None => a.state = "off" /\ ~t.on
    BY <2>1 DEF Answers, Guards, SameGuard
  <2> QED BY <2>2, <2>3, <2>4, <2>5 DEF Receives, Trusts
<1> QED BY <1>1, <1>2, <1>3

LEMMA HandleInitReceives ==
    ASSUME NEW s, Safe(s)
    PROVE  Receives(s, HandleInit(s))
<1> DEFINE t == HandleInit(s)
<1>1. Steady(s, t) /\ t.on = s.on
  BY DEF HandleInit, MarkCommunicationError, Steady, Safe, WellTyped, Fields
<1> HIDE DEF t
<1> QED BY <1>1, SteadyReceives DEF t

LEMMA RecordInvalidFrameReceives ==
    ASSUME NEW s, Safe(s)
    PROVE  Receives(s, RecordInvalidFrame(s))
<1> DEFINE n == AtMost(s.strikes + 1, InvalidFrameThreshold)
           t == [s EXCEPT !.strikes = n, !.validStreak = 0,
                          !.pendingDue = None]
<1>1. RecordInvalidFrame(s) \in {t, MarkCommunicationError(t)}
  BY DEF RecordInvalidFrame
<1> HIDE DEF n
<1>2. DOMAIN t = DOMAIN s
  BY Zenon
<1>3. Steady(s, t) /\ t.on = s.on
  BY DEF Steady, Safe, WellTyped, Fields
<1> HIDE DEF t
<1>4. Steady(t, MarkCommunicationError(t))
      /\ MarkCommunicationError(t).on = t.on
  BY <1>2, MarkSteady DEF Safe, WellTyped
<1> QED BY <1>1, <1>3, <1>4, SteadyChains, SteadyReceives

LEMMA InboundFrames ==
    ASSUME NEW s, ~rxFaulted, Len(rx) \in {0, 1}
    PROVE  Inbound(s) = IF Len(rx) = 0 THEN s ELSE HandleParsed(s, rx[1])
<1> DEFINE Handles(h) == h = [n \in 0..Len(rx) |-> IF n = 0 THEN s ELSE HandleParsed(h[n - 1], rx[n])]
           f == CHOOSE h : Handles(h)
           w == [n \in 0..Len(rx) |-> IF n = 0 THEN s ELSE HandleParsed(s, rx[n])]
<1>1. Inbound(s) = f[Len(rx)]
  BY Zenon DEF Inbound
<1>2. Handles(w)
  <2>1. \A n \in 0..Len(rx) : n # 0 => n - 1 = 0 /\ 0 \in 0..Len(rx)
    OBVIOUS
  <2>2. \A n \in 0..Len(rx) : (IF n = 0 THEN s ELSE HandleParsed(w[n - 1], rx[n])) = w[n]
    BY <2>1
  <2> QED BY <2>2, Zenon
<1>3. Handles(f)
  BY <1>2, Zenon
<1> HIDE DEF f
<1>4. f[0] = s
  BY <1>3
<1>5. Len(rx) = 1 => f[1] = HandleParsed(f[0], rx[1])
  BY <1>3
<1> QED BY <1>1, <1>4, <1>5
-----------------------------------------------------------------------------
(* The line and the heater.                                                *)

WireCommands == {"initialization", "status", "start", "shutdown"}

(* A round answers the frame before and writes one command; the heater     *)
(* turns the command into at most one frame.                               *)
OneFrame ==
    \/ wire = <<>> /\ rx = <<>>
    \/ wire = <<>> /\ \E f \in Frames : rx = <<f>>
    \/ rx = <<>> /\ \E c \in WireCommands : wire = <<c>>

(* What the controller trusts is true, a START meets a heater that is off  *)
(* and a session that supervises it, and so does an answer OFF.            *)
HeaterAgrees ==
    /\ Trusted(ctl) => heater = "off" /\ ~StartUnderway
    /\ StartUnderway => heater = "off" /\ ctl.session # None
    /\ rx = <<"off">> => heater = "off"

SystemIInv ==
    /\ IInv
    /\ heater \in KnownStates /\ OneFrame /\ HeaterAgrees

(* One step with an empty, a faulted or a single-frame receiver *)
LEMMA InboundSafe ==
    ASSUME OneFrame, NEW s, Safe(s), Ready(s)
    PROVE  LET t == Inbound(s)
           IN Safe(t) /\ Ready(t) /\ t.op = s.op /\ Receives(s, t)
<1>1. CASE rxFaulted
  <2>1. Inbound(s) = MarkCommunicationError(s)
    BY <1>1 DEF Inbound
  <2>2. Receives(s, MarkCommunicationError(s))
    BY MarkSteady, SteadyReceives DEF Safe, WellTyped
  <2> QED BY <2>1, <2>2, MarkKeeps DEF Keeps
<1>2. CASE ~rxFaulted /\ rx = <<>>
  <2>1. Inbound(s) = s
    BY <1>2, InboundFrames
  <2>2. Receives(s, s)
    BY SteadyReceives DEF Steady
  <2> QED BY <2>1, <2>2
<1>3. ASSUME ~rxFaulted, NEW f \in Frames, rx = <<f>>
      PROVE  LET t == HandleParsed(s, f)
             IN Safe(t) /\ Ready(t) /\ t.op = s.op /\ Receives(s, t)
  <2>1. CASE f = "init"
    BY <2>1, HandleInitSafe, HandleInitReceives DEF HandleParsed
  <2>2. CASE f = "garbage"
    BY <2>2, RecordInvalidFrameSafe, RecordInvalidFrameReceives
       DEF HandleParsed, Keeps
  <2>3. CASE f \in KnownStates
    <3>1. f \notin {"init", "garbage"}
      BY <2>3 DEF KnownStates, Active
    <3>2. HandleParsed(s, f) = HandleStatus(s, f)
      BY <3>1 DEF HandleParsed
    <3> QED BY <1>3, <2>3, <3>2, HandleStatusSafe, HandleStatusReceives
            DEF HeaterStates
  <2> QED BY <2>1, <2>2, <2>3 DEF Frames
<1>4. ASSUME ~rxFaulted, NEW f \in Frames, rx = <<f>>
      PROVE  Inbound(s) = HandleParsed(s, f)
  <2>1. Len(rx) = 1 /\ rx[1] = f
    BY <1>4
  <2> QED BY <1>4, <2>1, InboundFrames
<1>5. rx = <<>> \/ \E f \in Frames : rx = <<f>>
  BY DEF OneFrame
<1> QED BY <1>1, <1>2, <1>3, <1>4, <1>5

(* Time alone changes nothing that is trusted. *)
LEMMA ElapseSteady ==
    ASSUME NEW s, Safe(s)
    PROVE  /\ Trusts(s, Elapse(s)) /\ Elapse(s).on = s.on
           /\ Elapse(s).session = None <=> s.session = None
<1> DEFINE t == Elapse(s)
<1>1. /\ t.on = s.on /\ t.state = s.state
      /\ t.attempt = OlderAttempt(s.attempt)
      /\ t.session = OlderSession(s.session)
  BY DEF Elapse, Safe, WellTyped, Fields
<1>2. s.attempt \in AttemptType \cup {None}
      /\ s.session \in SessionType \cup {None}
  BY DEF Safe, WellTyped, FieldsTyped
<1>3. t.session = None <=> s.session = None
  BY <1>1, <1>2, OlderSessionTyped
<1>4. OpenStart(t) <=> OpenStart(s)
  BY <1>1, <1>2, OlderAttemptTyped DEF OpenStart, SameAttempt
<1> HIDE DEF t
<1>5. Trusts(s, t)
  BY <1>1, <1>3, <1>4 DEF Trusts, Trusted
<1> QED BY <1>1, <1>3, <1>5 DEF t

(* A round of the loop, from the tick to the last poll *)
LEMMA RoundSafe ==
    ASSUME OneFrame, NEW s, Safe(s), Ready(s),
           NEW reading \in Readings, NEW sendOk \in BOOLEAN
    PROVE  LET v == StepController(Inbound(Elapse(s)), reading, sendOk)
           IN /\ Safe(v) /\ Ready(v) /\ StartIsSupervised(v)
              /\ v.op \in Operations
              /\ v.on => s.on
              /\ s.session = None /\ v.session # None => v.on
              /\ s.session # None /\ v.session = None => ~v.on
              /\ \/ rx = <<"off">>
                 \/ /\ Trusts(s, v)
                    /\ v.op \in StartOps => Trusted(s)
              /\ v.op \in StartOps => ~Trusted(v)
<1> DEFINE e == Elapse(s)
           i == Inbound(e)
           v == StepController(i, reading, sendOk)
<1>1. /\ Safe(e) /\ Ready(e) /\ e.op = "none"
      /\ Trusts(s, e) /\ e.on = s.on
      /\ e.session = None <=> s.session = None
  BY ElapseSafe, ElapseSteady DEF Quiet
<1> HIDE DEF e
<1>2. Safe(i) /\ Ready(i) /\ i.op = "none" /\ Receives(e, i)
  BY <1>1, InboundSafe
<1> HIDE DEF i
<1>3. /\ Safe(v) /\ Ready(v) /\ StartIsSupervised(v) /\ Trusts(i, v)
      /\ Guards(i, v)
      /\ v.op \in StartOps => Trusted(i) /\ ~Trusted(v)
  BY <1>2, StepControllerSafe, StepControllerTrusts, StepControllerGuards
     DEF SendGuards
<1> HIDE DEF v
<1>4. v.op \in Operations
  BY <1>3 DEF Safe, WellTyped, FieldsTyped
<1>5. /\ v.on => s.on
      /\ s.session = None /\ v.session # None => v.on
      /\ s.session # None /\ v.session = None => ~v.on
  <2>1. v.on => i.on
    BY <1>3 DEF Guards
  <2>2. i.session # None /\ v.session = None => ~v.on
    BY <1>3 DEF Guards
  <2>3. i.session = None /\ v.session # None => v.on
    BY <1>3 DEF Trusts
  <2> QED BY <1>1, <1>2, <2>1, <2>2, <2>3 DEF Receives
<1>6. ASSUME rx # <<"off">>
      PROVE  /\ Trusts(s, v)
             /\ v.op \in StartOps => Trusted(s)
  <2>1. Trusts(s, i) /\ (s.session = None => i.session = None)
    BY <1>1, <1>2, <1>6 DEF Receives, Trusts
  <2> QED BY <1>3, <2>1 DEF Trusts
<1> QED BY <1>3, <1>4, <1>5, <1>6 DEF v, i, e

-----------------------------------------------------------------------------
(* The actions.                                                            *)

LEMMA UnderwayMeans ==
    /\ OneFrame => (StartUnderway <=> wire = <<"start">>)
    /\ OneFrame' => (StartUnderway' <=> wire' = <<"start">>)
<1>1. OneFrame => (StartUnderway <=> wire = <<"start">>)
  BY DEF OneFrame, StartUnderway
<1>2. OneFrame' => (StartUnderway' <=> wire' = <<"start">>)
  BY DEF OneFrame, StartUnderway
<1> QED BY <1>1, <1>2

(* What an operation puts on the wire *)
LEMMA CommandMeans ==
    ASSUME NEW op \in Operations, op # "none"
    PROVE  /\ Command(op) \in WireCommands
           /\ Command(op) = "start" <=> op \in StartOps
BY DEF Command, Operations, WireCommands, StartOps, ShutdownOps

(* A line that holds one frame takes the next command only when it is free. *)
LEMMA OutboundMeans ==
    ASSUME OneFrame, NEW op \in Operations, NEW w \in Outbound(op),
           Len(w) <= 1
    PROVE  \/ w = wire
           \/ op # "none" /\ w = <<Command(op)>>
<1> DEFINE c == Command(op)
<1>1. w = wire \/ (op # "none" /\ w = Append(wire, c))
  BY Zenon DEF Outbound
<1> HIDE DEF c
<1>2. wire = <<>> \/ \E d \in WireCommands : wire = <<d>>
  BY DEF OneFrame
<1>3. CASE wire = <<>>
  BY <1>1, <1>3 DEF c
<1>4. ASSUME NEW d \in WireCommands, wire = <<d>>, w = Append(wire, c)
      PROVE  FALSE
  BY <1>4
<1> QED BY <1>1, <1>2, <1>3, <1>4

(* A round of the loop on s, the controller or what is left of it when it  *)
(* is told to stop.                                                        *)
LEMMA HeaterStepAgrees ==
    ASSUME SystemIInv, MaxQueue = 1,
           NEW s, Safe(s), Ready(s), s.state = ctl.state,
           s.attempt = ctl.attempt, s.session = ctl.session,
           HeaterStep(s), heater' = heater
    PROVE  /\ SystemIInv'
           /\ ctl'.on => s.on
           /\ ctl.session = None /\ ctl'.session # None => ctl'.on
           /\ ctl.session # None /\ ctl'.session = None =>
                 ~ctl'.on /\ heater = "off"
<1>1. /\ Safe(ctl') /\ Ready(ctl') /\ StartIsSupervised(ctl')
      /\ ctl'.op \in Operations
      /\ ctl'.on => s.on
      /\ ctl.session = None /\ ctl'.session # None => ctl'.on
      /\ ctl.session # None /\ ctl'.session = None => ~ctl'.on
      /\ \/ rx = <<"off">>
         \/ /\ Trusts(s, ctl')
            /\ ctl'.op \in StartOps => Trusted(s)
      /\ ctl'.op \in StartOps => ~Trusted(ctl')
  BY RoundSafe DEF HeaterStep, SystemIInv
<1>2. wire' \in Outbound(ctl'.op) /\ Len(wire') <= 1 /\ rx' = <<>>
  BY DEF HeaterStep
<1>3. \/ wire' = wire
      \/ ctl'.op # "none" /\ wire' = <<Command(ctl'.op)>>
  BY <1>1, <1>2, OutboundMeans DEF SystemIInv
<1>4. Trusted(s) <=> Trusted(ctl)
  BY DEF Trusted, OpenStart
<1>5. OneFrame'
  BY <1>1, <1>2, <1>3, CommandMeans DEF SystemIInv, OneFrame
<1>6. rx = <<"off">> => heater = "off" /\ ~StartUnderway
  <2>1. rx = <<"off">> => wire = <<>>
    BY DEF SystemIInv, OneFrame
  <2> QED BY <2>1, UnderwayMeans DEF SystemIInv, HeaterAgrees
<1>7. /\ Trusted(ctl') => heater = "off" /\ ~StartUnderway
      /\ ctl'.op \in StartOps => heater = "off"
      /\ ctl.session # None /\ ctl'.session = None =>
             heater = "off" /\ ~StartUnderway
  BY <1>1, <1>4, <1>6 DEF SystemIInv, HeaterAgrees, Trusts
<1>8. StartUnderway' => StartUnderway \/ ctl'.op \in StartOps
  BY <1>1, <1>3, <1>5, UnderwayMeans, CommandMeans DEF SystemIInv
<1>9. Trusted(ctl') => heater' = "off" /\ ~StartUnderway'
  BY <1>1, <1>7, <1>8
<1>10. StartUnderway' => heater' = "off" /\ ctl'.session # None
  <2>1. ctl'.op \in StartOps => ctl'.session # None
    BY <1>1 DEF StartIsSupervised
  <2> QED BY <1>7, <1>8, <2>1 DEF SystemIInv, HeaterAgrees
<1>11. (rx = <<"off">> => heater = "off")'
  BY <1>2
<1>12. Trusted(ctl)' <=> Trusted(ctl')
  BY DEF Trusted, OpenStart
<1>13. HeaterAgrees'
  BY <1>9, <1>10, <1>11, <1>12 DEF HeaterAgrees
<1>14. IInv'
  BY <1>1 DEF IInv
<1> QED BY <1>1, <1>5, <1>7, <1>13, <1>14 DEF SystemIInv

(* The heater takes the command: a START only from a heater that is off, so *)
(* that no trust is betrayed, and answers with what it is.                  *)
LEMMA ReceiveAgrees ==
    ASSUME SystemIInv, Receive
    PROVE  /\ SystemIInv'
           /\ heater' # "off" => heater # "off" \/ ctl.session # None
<1>1. PICK c \in WireCommands : wire = <<c>> /\ rx = <<>>
  BY DEF SystemIInv, OneFrame, Receive
<1>2. /\ heater' = Obeys(heater, c) /\ wire' = <<>> /\ ctl' = ctl
      /\ rx' = IF rxFaulted THEN <<>> ELSE <<>> \o Answer(c, heater)
  BY <1>1 DEF Receive
<1>3. heater \in KnownStates
  BY DEF SystemIInv
<1>4. /\ c # "start" /\ heater = "off" => heater' = "off"
      /\ heater' \in KnownStates
  BY <1>2, <1>3 DEF Obeys, KnownStates, Active
<1>5. rx' \in {<<>>, <<"init">>, <<heater>>} /\ (rx' = <<heater>> => c = "status")
  <2>1. Answer(c, heater) \in {<<>>, <<"init">>, <<heater>>}
        /\ (Answer(c, heater) = <<heater>> => c = "status")
    BY <1>3 DEF Answer, KnownStates, Active
  <2>2. <<>> \o Answer(c, heater) = Answer(c, heater)
    BY <2>1
  <2> QED BY <1>2, <2>1, <2>2
<1>6. OneFrame'
  BY <1>2, <1>3, <1>5 DEF OneFrame, Frames
<1>7. ~StartUnderway'
  BY <1>2, <1>6, UnderwayMeans
<1>8. c = "start" <=> StartUnderway
  BY <1>1, UnderwayMeans DEF SystemIInv
<1>9. HeaterAgrees'
  <2>1. Trusted(ctl) => c # "start" /\ heater = "off"
    BY <1>8 DEF SystemIInv, HeaterAgrees
  <2>2. rx' = <<"off">> => heater = "off" /\ c = "status"
    BY <1>5
  <2>3. Trusted(ctl)' <=> Trusted(ctl)
    BY <1>2 DEF Trusted, OpenStart
  <2> QED BY <1>4, <1>7, <2>1, <2>2, <2>3 DEF HeaterAgrees
<1>10. heater' # "off" => heater # "off" \/ ctl.session # None
  BY <1>4, <1>8 DEF SystemIInv, HeaterAgrees
<1>11. IInv'
  BY <1>2 DEF SystemIInv, IInv
<1> QED BY <1>4, <1>6, <1>9, <1>10, <1>11 DEF SystemIInv

(* A heater that is off stays off by itself. *)
LEMMA HeaterMovesAgrees ==
    ASSUME SystemIInv, HeaterMoves
    PROVE  SystemIInv' /\ heater # "off"
<1>1. heater' \in Moves[heater] /\ UNCHANGED <<ctl, wire, rx>>
  BY DEF HeaterMoves, line
<1>2. heater # "off" /\ heater' \in KnownStates
  BY <1>1 DEF SystemIInv, Moves, KnownStates, Active
<1>3. OneFrame' /\ IInv'
  BY <1>1 DEF SystemIInv, OneFrame, IInv
<1>4. ~StartUnderway /\ ~Trusted(ctl) /\ rx # <<"off">>
  BY <1>2 DEF SystemIInv, HeaterAgrees
<1>5. ~StartUnderway' /\ ~Trusted(ctl)' /\ rx' # <<"off">>
  BY <1>1, <1>4 DEF StartUnderway, Trusted, OpenStart
<1> QED BY <1>2, <1>3, <1>5 DEF SystemIInv, HeaterAgrees

(* What goes wrong on the line takes frames away or spoils them. *)
LEMMA AnomalyAgrees ==
    ASSUME SystemIInv, LoseCommand \/ LoseAnswer \/ GarbleAnswer \/ FaultReceiver
    PROVE  SystemIInv'
<1>1. /\ ctl' = ctl /\ heater' = heater
      /\ wire' \in {wire, <<>>} /\ rx' \in {rx, <<>>, <<"garbage">>}
  <2>1. CASE LoseCommand
    <3>1. PICK c \in WireCommands : wire = <<c>>
      BY <2>1 DEF SystemIInv, OneFrame, LoseCommand
    <3> QED BY <2>1, <3>1 DEF LoseCommand
  <2>2. CASE LoseAnswer \/ GarbleAnswer
    <3>1. PICK f \in Frames : rx = <<f>>
      BY <2>2 DEF SystemIInv, OneFrame, LoseAnswer, GarbleAnswer
    <3> QED BY <2>2, <3>1 DEF LoseAnswer, GarbleAnswer
  <2>3. CASE FaultReceiver
    BY <2>3 DEF FaultReceiver
  <2> QED BY <2>1, <2>2, <2>3
<1>2. OneFrame'
  <2>1. rx' = <<"garbage">> => wire' = <<>> \/ rx' = rx
    <3>1. GarbleAnswer => wire = <<>>
      BY DEF GarbleAnswer, SystemIInv, OneFrame
    <3>2. CASE GarbleAnswer
      BY <3>1, <3>2 DEF GarbleAnswer
    <3>3. CASE LoseAnswer
      <4>1. PICK f \in Frames : rx = <<f>>
        BY <3>3 DEF SystemIInv, OneFrame, LoseAnswer
      <4> QED BY <3>3, <4>1 DEF LoseAnswer
    <3>4. CASE LoseCommand \/ FaultReceiver
      BY <3>4 DEF LoseCommand, FaultReceiver
    <3> QED BY <3>2, <3>3, <3>4
  <2> QED BY <1>1, <2>1 DEF SystemIInv, OneFrame, Frames
<1>3. StartUnderway' => StartUnderway
  BY <1>1, <1>2, UnderwayMeans DEF SystemIInv
<1>4. rx' = <<"off">> => rx = <<"off">>
  BY <1>1
<1>5. Trusted(ctl)' <=> Trusted(ctl)
  BY <1>1 DEF Trusted, OpenStart
<1>6. HeaterAgrees'
  BY <1>1, <1>3, <1>4, <1>5 DEF SystemIInv, HeaterAgrees
<1>7. IInv'
  BY <1>1 DEF SystemIInv, IInv
<1> QED BY <1>1, <1>2, <1>6, <1>7 DEF SystemIInv

(* A call changes what is wanted, and nothing that is known. *)
LEMMA UserCallAgrees ==
    ASSUME SystemIInv, UserCall
    PROVE  /\ SystemIInv'
           /\ UNCHANGED heater
           /\ ctl'.session = None <=> ctl.session = None
           /\ ctl'.on /\ ~ctl.on => ctl.session = None
<1>1. UNCHANGED <<heater, wire, rx>>
  BY DEF UserCall, line
<1>2. IInv
  BY DEF SystemIInv
<1>3. /\ Begin(ctl).attempt = ctl.attempt /\ Begin(ctl).state = ctl.state
      /\ Begin(ctl).session = ctl.session /\ Begin(ctl).on = ctl.on
      /\ Safe(Begin(ctl)) /\ DOMAIN Begin(ctl) = Fields
  <2>1. DOMAIN ctl = Fields
    BY <1>2 DEF IInv, Safe, WellTyped
  <2>2. /\ Begin(ctl).attempt = ctl.attempt /\ Begin(ctl).state = ctl.state
        /\ Begin(ctl).session = ctl.session /\ Begin(ctl).on = ctl.on
    BY <2>1 DEF Begin, Fields
  <2> QED BY <1>2, <2>2, BeginGuards
<1>4. /\ Quiet(ctl')
      /\ ctl'.attempt = ctl.attempt /\ ctl'.state = ctl.state
      /\ ctl'.session = None <=> ctl.session = None
      /\ ctl'.on /\ ~ctl.on => ctl.session = None
  <2> DEFINE s == Begin(ctl)
  <2>1. CASE RequestStart
    <3>1. Quiet(ctl')
      BY <1>2, <2>1, RequestStartSafe
    <3> HIDE DEF s
    <3>2. /\ ctl'.attempt = s.attempt /\ ctl'.state = s.state
          /\ ctl'.session = s.session
      BY <1>3, <2>1 DEF RequestStart, Fields, s
    <3>3. ctl.session = None
      BY <2>1 DEF RequestStart, StartAccepted
    <3> QED BY <1>3, <3>1, <3>2, <3>3 DEF s
  <2>2. CASE Stop
    <3>1. Quiet(ctl')
      BY <1>2, <2>2, StopSafe
    <3> HIDE DEF s
    <3>2. /\ ctl'.attempt = s.attempt /\ ctl'.state = s.state
          /\ ctl'.session = s.session /\ ~ctl'.on
      BY <1>3, <2>2 DEF Stop, RequestStop, Fields, s
    <3> QED BY <1>3, <3>1, <3>2 DEF s
  <2>3. CASE UpdateActiveSession
    <3>1. Quiet(ctl')
      BY <1>2, <2>3, UpdateActiveSessionSafe
    <3> HIDE DEF s
    <3>2. /\ ctl'.attempt = s.attempt /\ ctl'.state = s.state
      BY <1>3, <2>3 DEF UpdateActiveSession, Fields, s
    <3>3. ctl.session # None /\ ctl.on /\ ctl'.session # None
      <4>1. LetsGoAtOff(ctl, ctl')
        BY <1>2, <2>3, CallsLetGo
      <4>2. ctl.session # None /\ ctl.on
        BY <2>3 DEF UpdateActiveSession, SessionAdjustable
      <4>3. ctl'.on
        BY <1>3, <2>3, <4>2 DEF UpdateActiveSession, Fields, s
      <4> QED BY <4>1, <4>2, <4>3 DEF LetsGoAtOff
    <3> QED BY <1>3, <3>1, <3>2, <3>3 DEF s
  <2> QED BY <2>1, <2>2, <2>3 DEF UserCall
<1>5. IInv'
  BY <1>4 DEF IInv, Quiet, StartIsSupervised
<1>6. OneFrame' /\ (StartUnderway' <=> StartUnderway)
      /\ (Trusted(ctl)' <=> Trusted(ctl))
  BY <1>1, <1>4 DEF SystemIInv, OneFrame, StartUnderway, Trusted, OpenStart
<1>7. HeaterAgrees'
  BY <1>1, <1>4, <1>6 DEF SystemIInv, HeaterAgrees
<1> QED BY <1>1, <1>4, <1>5, <1>6, <1>7 DEF SystemIInv


-----------------------------------------------------------------------------
(* The theorems.                                                           *)

LEMMA SystemInitSafe == SystemInit => SystemIInv
<1> SUFFICES ASSUME SystemInit PROVE SystemIInv
  OBVIOUS
<1>1. IInv
  BY InitSafe DEF SystemInit
<1>2. ctl.state = "unknown"
  BY DEF SystemInit, Init, InitialController
<1>3. ~Trusted(ctl) /\ OneFrame /\ ~StartUnderway /\ heater \in KnownStates
  BY <1>2 DEF SystemInit, Trusted, OneFrame, StartUnderway
<1> QED BY <1>1, <1>3 DEF SystemIInv, HeaterAgrees, SystemInit

(* A round of the runtime, and one under a withdrawn request *)
LEMMA RoundAgrees ==
    ASSUME SystemIInv, MaxQueue = 1, RuntimeStep \/ ShutdownStep
    PROVE  /\ SystemIInv'
           /\ UNCHANGED heater
           /\ ctl'.on => ctl.on
           /\ ctl.session = None /\ ctl'.session # None => ctl'.on
           /\ ctl.session # None /\ ctl'.session = None =>
                 ~ctl'.on /\ heater = "off"
<1>1. IInv /\ Safe(ctl) /\ Ready(ctl)
  BY DEF SystemIInv, IInv
<1>2. CASE RuntimeStep
  BY <1>1, <1>2, HeaterStepAgrees DEF RuntimeStep
<1>3. CASE ShutdownStep
  <2> DEFINE s == RequestStop(ctl)
  <2>1. /\ Safe(s) /\ Ready(s) /\ ~s.on
        /\ s.session = ctl.session /\ s.state = ctl.state
    BY <1>1, RequestStopSafe DEF Keeps
  <2>2. s.attempt = ctl.attempt
    BY <1>1 DEF RequestStop, Safe, WellTyped, Fields
  <2>3. HeaterStep(s) /\ heater' = heater
    BY <1>3 DEF ShutdownStep
  <2> HIDE DEF s
  <2> QED BY <2>1, <2>2, <2>3, HeaterStepAgrees
<1> QED BY <1>2, <1>3

LEMMA InterruptAgrees ==
    ASSUME SystemIInv, UNCHANGED <<ctl, heater, line>>
    PROVE  SystemIInv'
BY DEF SystemIInv, IInv, OneFrame, HeaterAgrees, StartUnderway, Trusted,
       OpenStart, line

LEMMA SystemNextSafe ==
    ASSUME SystemIInv, MaxQueue = 1, [SystemNext]_sysVars
    PROVE  SystemIInv'
<1>1. CASE UNCHANGED sysVars
  BY <1>1, InterruptAgrees DEF sysVars
<1>2. CASE Interrupt
  BY <1>2, InterruptAgrees DEF Interrupt
<1> QED BY <1>1, <1>2, ReceiveAgrees, HeaterMovesAgrees, AnomalyAgrees,
           RoundAgrees, UserCallAgrees DEF SystemNext

(* The invariant of the loop: what the controller trusts is true. *)
THEOREM SystemInvariance ==
    ASSUME MaxQueue = 1
    PROVE  SystemSpec => []SystemIInv
<1>1. SystemIInv /\ [SystemNext]_sysVars => SystemIInv'
  BY SystemNextSafe
<1> QED BY <1>1, SystemInitSafe, PTL DEF SystemSpec

(* "Actual STARTING + Requested ON -> no duplicate Start", for every       *)
(* timing of the controller and whatever the line loses, spoils or fails   *)
(* to take, as long as the heater takes each command before the next.      *)
THEOREM StartsAlwaysMeetOff ==
    ASSUME MaxQueue = 1
    PROVE  SystemSpec => []StartsMeetOff
<1>1. SystemIInv => StartsMeetOff
  BY DEF SystemIInv, HeaterAgrees, StartsMeetOff
<1> QED BY <1>1, SystemInvariance, PTL

(* A synchronized OFF with no open START is the truth about the heater.    *)
THEOREM OffIsTrue ==
    ASSUME MaxQueue = 1
    PROVE  SystemSpec => []OffIsTrustworthy
<1>1. SystemIInv => OffIsTrustworthy
  BY DEF SystemIInv, HeaterAgrees, OffIsTrustworthy, Trusted, OpenStart
<1> QED BY <1>1, SystemInvariance, PTL

(* Every step of the loop is one of SupervisedHeat or a stutter. *)
LEMMA SystemStepsSupervise ==
    ASSUME SystemIInv, MaxQueue = 1, [SystemNext]_sysVars
    PROVE  [Heat!HeatNext]_(Heat!heatVars)
<1>0. Helpless' \in BOOLEAN
  BY DEF Helpless
<1>1. ctl.on \in BOOLEAN /\ ctl'.on \in BOOLEAN
  BY SystemNextSafe DEF SystemIInv, IInv, Safe, WellTyped, FieldsTyped
<1>2. CASE UNCHANGED sysVars
  BY <1>2 DEF sysVars, line, Heat!heatVars, Helpless
<1>3. CASE UNCHANGED <<ctl, heater>>
  BY <1>0, <1>3 DEF Heat!HeatNext
<1>4. CASE Receive
  <2>1. ctl' = ctl /\ (heater' # "off" => heater # "off" \/ ctl.session # None)
    BY <1>4, ReceiveAgrees DEF Receive
  <2> QED BY <1>0, <2>1 DEF Heat!HeatNext, Heat!Light, Heat!Extinguish
<1>5. CASE HeaterMoves
  <2>1. ctl' = ctl /\ heater # "off"
    BY <1>5, HeaterMovesAgrees DEF HeaterMoves
  <2> QED BY <1>0, <2>1 DEF Heat!HeatNext, Heat!Extinguish
<1>6. CASE RuntimeStep \/ ShutdownStep
  <2>1. /\ heater' = heater
        /\ ctl'.on => ctl.on
        /\ ctl.session = None /\ ctl'.session # None => ctl'.on
        /\ ctl.session # None /\ ctl'.session = None =>
              ~ctl'.on /\ heater = "off"
    BY <1>6, RoundAgrees
  <2> QED BY <1>0, <1>1, <2>1 DEF Heat!HeatNext, Heat!Cease, Heat!Supervise,
             Heat!Release
<1>7. CASE UserCall
  <2>1. /\ heater' = heater
        /\ ctl'.session = None <=> ctl.session = None
        /\ ctl'.on /\ ~ctl.on => ctl.session = None
    BY <1>7, UserCallAgrees
  <2> QED BY <1>0, <1>1, <2>1 DEF Heat!HeatNext, Heat!Want, Heat!Cease
<1>8. CASE LoseCommand \/ LoseAnswer \/ GarbleAnswer \/ FaultReceiver
           \/ Interrupt
  <2>1. UNCHANGED <<ctl, heater>>
    BY <1>8 DEF LoseCommand, LoseAnswer, GarbleAnswer, FaultReceiver, Interrupt
  <2> QED BY <1>3, <2>1
<1> QED BY <1>2, <1>4, <1>5, <1>6, <1>7, <1>8 DEF SystemNext

(* The loop implements SupervisedHeat: the heater is lit only under a      *)
(* session, and a session is released only when the heater is off.         *)
THEOREM HeatIsSupervised ==
    ASSUME MaxQueue = 1
    PROVE  SystemSpec => HeatPromise
<1>1. SystemInit => Heat!HeatInit
  BY DEF SystemInit, Init, InitialController, Heat!HeatInit, Helpless
<1>2. SystemIInv /\ [SystemNext]_sysVars => [Heat!HeatNext]_(Heat!heatVars)
  BY SystemStepsSupervise
<1> QED BY <1>1, <1>2, SystemInvariance, PTL
        DEF SystemSpec, HeatPromise, Heat!HeatSafety

=============================================================================
