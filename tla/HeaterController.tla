-------------------------- MODULE HeaterController --------------------------
(***************************************************************************)
(* The control authority of the Landy Heater (app/heater_controller.py     *)
(* with the state objects of app/application_state.py): the only component *)
(* that may ask the protocol layer for an INIT, STATUS, START or SHUTDOWN  *)
(* transmission.                                                           *)
(*                                                                         *)
(* The object is one record, ctl.  Its methods run to completion in a      *)
(* single cooperative thread, so each public method is one action, and     *)
(* each private method is an operator from a record to a record; step()    *)
(* composes them in the order of the code.                                 *)
(*                                                                         *)
(* An operator whose comment says "Faulty" is a variant that replaces the  *)
(* operator after it in a mutation run and is used nowhere else.           *)
(*                                                                         *)
(* A tick stamp of the code is kept relative to the present: an age (now - *)
(* stamp, capped where the code only compares it with a threshold) or a    *)
(* remaining time (deadline - now, floored at the value that means "due"). *)
(* None is Python's None.                                                  *)
(***************************************************************************)
EXTENDS Integers

CONSTANTS
    None,                 \* Python's None
    Heartbeat,            \* heartbeat_ms
    ResponseTimeout,      \* response_timeout_ms
    ControlSettle,        \* control_settle_ms
    ConfirmationTimeout,  \* control_confirmation_timeout_ms
    MaxControlAttempts,   \* max_control_attempts
    MaximumRuntime,       \* maximum_runtime_minutes
    StartingStopTimeout,  \* starting_stop_policy_timeout_ms
    InvalidFrameThreshold,\* invalid_frame_threshold
    ExtendBy,             \* the only extension update_active_session accepts
    Runtimes,             \* runtimes a request may carry
    Deadlines,            \* not_after_ms - now_ms of a request, or None
    Targets,              \* target temperatures and power levels
    Modes,                \* control modes in use
    Bindings,             \* sensor identities (ROM, assignment, failure gen.)
    MaxRevision           \* bound of the model on request_revision

ASSUME NoneAssumption == /\ None \notin Int
                         /\ None \notin STRING
                         /\ None \notin Targets
                         /\ None \notin Bindings
ASSUME TimingAssumption ==
    /\ Heartbeat \in Nat \ {0}
    /\ ResponseTimeout \in Nat
    /\ ResponseTimeout > Heartbeat
    /\ ControlSettle \in Nat \ {0}
    /\ ConfirmationTimeout \in Nat \ {0}
    /\ StartingStopTimeout \in Nat \ {0}
ASSUME LimitAssumption ==
    /\ MaxControlAttempts \in Nat \ {0}
    /\ MaximumRuntime \in Nat \ {0}
    /\ InvalidFrameThreshold \in Nat \ {0}
    /\ ExtendBy \in Nat \ {0}
    /\ Runtimes \subseteq 1..MaximumRuntime /\ Runtimes # {}
    /\ Deadlines \subseteq Nat \cup {None}
    /\ Modes \subseteq {"power", "temperature"} /\ Modes # {}
    /\ Targets # {}
    /\ MaxRevision \in Nat

VARIABLE ctl

vars == <<ctl>>

-----------------------------------------------------------------------------
(* The values the state objects may hold.                                  *)

Phases == {"unsynchronized", "wait_init", "wait_status", "ready", "error"}
Active == {"starting", "running", "temp_monitoring"}
KnownStates == Active \cup {"off", "shutting_down"}
HeaterStates == KnownStates \cup {"unknown"}
Commands == {"start", "shutdown"}
Operations == {"none", "initialization", "initialization_error", "status",
               "status_error", "start", "start_error", "shutdown",
               "shutdown_error"}

(* What sensor_snapshot() may say of the active role's sensor.  Failed,     *)
(* missing and contradictory snapshots are handled alike.                  *)
Unusable == [health |-> "unusable", present |-> FALSE, binding |-> None]
Readings == [health : {"ok", "stale"}, present : BOOLEAN, binding : Bindings]
            \cup {Unusable}

Parameters(s) == [mode |-> s.mode, target |-> s.target]

InitialController ==
    [op |-> "none", raised |-> FALSE,
     phase |-> "unsynchronized",
     on |-> FALSE, mode |-> CHOOSE m \in Modes : TRUE,
     target |-> CHOOSE t \in Targets : TRUE,
     runtime |-> CHOOSE n \in Runtimes : TRUE,
     deadline |-> None, revision |-> 0,
     comm |-> "unknown", initialized |-> FALSE, synchronized |-> FALSE,
     state |-> "unknown", statusAge |-> None,
     nextDue |-> None, pendingDue |-> None, expected |-> None,
     waitAge |-> None, commFault |-> FALSE,
     strikes |-> 0, validStreak |-> 0,
     attempt |-> None, fault |-> None, restartBlocked |-> FALSE,
     startSentRev |-> None, shutdownSentRev |-> None, stoppingAge |-> None,
     latch |-> None, session |-> None, nextSessionId |-> 1]

-----------------------------------------------------------------------------
(* Requested State and communication health.                               *)

AtMost(n, cap) == IF n < cap THEN n ELSE cap

RequestStop(s) ==
    [s EXCEPT !.on = FALSE, !.deadline = None,
              !.revision = IF s.on THEN s.revision + 1 ELSE s.revision]

ScheduleControl(s, delay) ==
    IF s.pendingDue # None THEN s ELSE [s EXCEPT !.pendingDue = delay]

MarkCommunicationError(s) ==
    [s EXCEPT !.comm = "error", !.initialized = FALSE, !.synchronized = FALSE,
              !.state = "unknown", !.commFault = TRUE, !.phase = "error",
              !.pendingDue = None, !.expected = None, !.waitAge = None,
              !.nextDue = IF s.nextDue = None THEN 0 ELSE s.nextDue]

RecordInvalidFrame(s) ==
    LET t == [s EXCEPT !.strikes = AtMost(s.strikes + 1, InvalidFrameThreshold),
                       !.validStreak = 0, !.pendingDue = None]
    IN IF t.strikes >= InvalidFrameThreshold
       THEN MarkCommunicationError(t)
       ELSE t

(* A failing protocol call fails closed: the caller's state s is kept and  *)
(* the link is declared broken.                                            *)
RequestSynchronization(s, sendOk) ==
    LET command == IF s.initialized THEN "status" ELSE "initialization"
        waiting == [s EXCEPT
            !.nextDue = Heartbeat,
            !.phase = IF s.phase = "error" THEN "error"
                      ELSE IF s.initialized THEN "wait_status"
                      ELSE "wait_init"]
    IN IF ~sendOk
       THEN [MarkCommunicationError(waiting) EXCEPT
                !.op = IF s.initialized THEN "status_error"
                       ELSE "initialization_error"]
       ELSE IF s.expected = command
       THEN [waiting EXCEPT !.op = command]
       ELSE [waiting EXCEPT !.op = command, !.expected = command,
                            !.waitAge = 0]

CheckResponseTimeout(s) ==
    IF s.expected # None /\ s.waitAge # None /\ s.waitAge >= ResponseTimeout
    THEN MarkCommunicationError(s)
    ELSE s

-----------------------------------------------------------------------------
(* Sessions.                                                               *)

DiscardSession(s) == [s EXCEPT !.session = None]

(* _start_session() refuses to bind a temperature session to anything but  *)
(* a usable sensor, and to start a cold heater on a sensor that is not     *)
(* fresh and present.                                                      *)
SessionCanStart(s, reading) ==
    \/ s.mode = "power"
    \/ /\ reading.health \in {"ok", "stale"}
       /\ s.state = "off" => reading.health = "ok" /\ reading.present

StartSession(s, reading) ==
    IF s.session # None THEN s
    ELSE [s EXCEPT
            !.session = [id |-> s.nextSessionId, mode |-> s.mode,
                         target |-> s.target, runtime |-> s.runtime,
                         age |-> 0, remaining |-> s.runtime,
                         confirmed |-> FALSE, expired |-> FALSE,
                         binding |-> IF s.mode = "power" THEN None
                                     ELSE reading.binding],
            !.deadline = None,
            !.nextSessionId = s.nextSessionId + 1]

CheckRequestedStartDeadline(s) ==
    IF /\ s.on
       /\ s.session = None
       /\ s.deadline # None
       /\ s.deadline < 0
    THEN [RequestStop(s) EXCEPT !.pendingDue = None]
    ELSE s

SessionExpires(s) ==
    /\ s.session # None
    /\ ~s.session.expired
    /\ s.session.remaining = 0

(* Faulty: the expired session is marked, the request stays ON. *)
CheckSessionExpiryMarksOnly(s) ==
    IF SessionExpires(s)
    THEN [s EXCEPT !.session = [s.session EXCEPT !.expired = TRUE],
                   !.pendingDue = 0]
    ELSE s

CheckSessionExpiry(s) ==
    IF SessionExpires(s)
    THEN [RequestStop(s) EXCEPT
            !.session = [s.session EXCEPT !.expired = TRUE],
            !.pendingDue = 0]
    ELSE s

EnsureActiveSession(s, reading) ==
    IF s.session # None \/ ~s.on \/ s.state \notin Active
    THEN s
    ELSE IF ~SessionCanStart(s, reading)
    THEN [RequestStop(s) EXCEPT !.pendingDue = 0]
    ELSE LET t == StartSession(s, reading)
         IN [t EXCEPT !.session = [t.session EXCEPT !.confirmed = TRUE]]

-----------------------------------------------------------------------------
(* The sensor policy, applied before any control operation.                *)

SensorSupervised(s) ==
    IF s.session # None THEN s.session.mode = "temperature"
    ELSE s.on /\ s.mode = "temperature"

(* Faulty: a stale reading is good enough to begin. *)
SensorAcceptableStale(s, reading) ==
    /\ s.session # None => reading.binding = s.session.binding
    /\ reading.health \in {"ok", "stale"}

(* A session survives only on the sensor it was bound to; a stale reading  *)
(* is good enough to continue a confirmed session, never to begin one.     *)
SensorAcceptable(s, reading) ==
    LET confirmed == s.session # None /\ s.session.confirmed
    IN /\ s.session # None => reading.binding = s.session.binding
       /\ \/ reading.health = "ok" /\ (confirmed \/ reading.present)
          \/ reading.health = "stale" /\ confirmed

ApplySensorPolicy(s, reading) ==
    IF ~SensorSupervised(s) \/ SensorAcceptable(s, reading)
    THEN s
    ELSE IF s.session # None
    THEN [RequestStop(s) EXCEPT
            !.pendingDue = IF s.on \/ s.latch # s.session.id THEN 0
                           ELSE s.pendingDue,
            !.latch = s.session.id]
    ELSE [RequestStop(s) EXCEPT !.pendingDue = None]

(* Faulty: the latch falls without a reported OFF. *)
CompleteSensorStopUnconfirmed(s) ==
    IF ~s.on /\ s.session = None THEN [s EXCEPT !.latch = None] ELSE s

CompleteSensorStopIfOff(s) ==
    IF s.state = "off" /\ ~s.on /\ s.session = None
    THEN [s EXCEPT !.latch = None]
    ELSE s

-----------------------------------------------------------------------------
(* What a synchronized STATUS says of the open attempt, the latched fault, *)
(* the session and the restart block.                                      *)

Confirms(state, command) ==
    IF command = "start" THEN state \in Active
    ELSE state \in {"shutting_down", "off"}

(* Faulty: any status that is not active counts as OFF. *)
UnexpectedStopNotActive(s, previous, recovering) ==
    /\ s.state \notin Active
    /\ previous \in Active
    /\ s.on
    /\ ~s.restartBlocked

UnexpectedStop(s, previous, recovering) ==
    /\ s.state = "off"
    /\ \/ previous \in Active
       \/ recovering /\ s.session # None /\ s.session.confirmed
    /\ s.on
    /\ ~s.restartBlocked
    /\ s.attempt = None \/ s.attempt.command # "shutdown"

CancelUnexpectedStop(s, previous, recovering) ==
    IF UnexpectedStop(s, previous, recovering)
    THEN DiscardSession(RequestStop(s))
    ELSE s

(* Faulty: OFF does not lift the restart block. *)
SettleOffKeepsBlock(s) ==
    IF s.state # "off" THEN s
    ELSE CompleteSensorStopIfOff(
            IF s.on \/ s.restartBlocked THEN s ELSE DiscardSession(s))

SettleOff(s) ==
    IF s.state # "off" THEN s
    ELSE LET unblocked == IF s.restartBlocked
                          THEN [RequestStop(s) EXCEPT !.restartBlocked = FALSE]
                          ELSE s
             settled == IF /\ ~unblocked.on
                           /\ s.attempt = None \/ s.attempt.command # "start"
                        THEN DiscardSession(unblocked)
                        ELSE unblocked
         IN CompleteSensorStopIfOff(settled)

ClearControlFault(s) == [s EXCEPT !.fault = None, !.attempt = None]

SettleFault(s) ==
    IF s.fault = None THEN s
    ELSE IF \/ Confirms(s.state, s.fault.command)
            \/ /\ s.fault.command = "shutdown"
               /\ s.state = "running"
               /\ s.on \/ s.fault.recover
    THEN ClearControlFault(s)
    ELSE IF s.fault.command = "start" /\ ~s.on /\ s.state = "off"
    THEN DiscardSession(ClearControlFault(s))
    ELSE s

(* Faulty: a status that does not confirm the command leaves no trace. *)
SettleAttemptForgets(s) ==
    IF s.attempt # None /\ Confirms(s.state, s.attempt.command)
    THEN [s EXCEPT !.attempt = None]
    ELSE s

SettleAttempt(s) ==
    IF s.attempt = None THEN s
    ELSE IF Confirms(s.state, s.attempt.command)
    THEN [s EXCEPT !.attempt = None]
    ELSE [s EXCEPT !.attempt = [s.attempt EXCEPT !.statusAfterSend = TRUE]]

ConfirmSession(s) ==
    IF s.session # None /\ s.state \in Active
    THEN [s EXCEPT !.session = [s.session EXCEPT !.confirmed = TRUE]]
    ELSE s

ProcessControlConfirmation(s, previous, recovering) ==
    ConfirmSession(SettleAttempt(SettleFault(SettleOff(
        CancelUnexpectedStop(s, previous, recovering)))))

-----------------------------------------------------------------------------
(* Inbound frames, after the protocol layer has parsed them.               *)

Late(s) == s.waitAge >= ResponseTimeout

HandleInit(s) ==
    IF s.expected # "initialization" \/ s.waitAge = None THEN s
    ELSE IF Late(s) THEN MarkCommunicationError(s)
    ELSE [s EXCEPT !.comm = "ok",
                   !.initialized = TRUE, !.synchronized = FALSE,
                   !.state = "unknown", !.phase = "wait_status",
                   !.expected = None, !.waitAge = None,
                   !.nextDue = 0, !.pendingDue = None]

AcceptStatus(s, state) ==
    LET streak == IF s.commFault THEN 1
                  ELSE AtMost(s.validStreak + 1, InvalidFrameThreshold)
    IN [s EXCEPT
          !.comm = "ok", !.state = state,
          !.synchronized = s.initialized /\ state # "unknown",
          !.statusAge = 0,
          !.expected = None, !.waitAge = None, !.nextDue = Heartbeat,
          !.validStreak = streak,
          !.strikes = IF s.commFault \/ streak >= InvalidFrameThreshold
                      THEN 0 ELSE s.strikes]

(* Faulty: control is scheduled only while a start is requested. *)
SettleSynchronizationWhenOn(s) ==
    IF s.synchronized
    THEN [(IF s.on THEN ScheduleControl(s, ControlSettle) ELSE s) EXCEPT
            !.phase = IF s.fault = None THEN "ready" ELSE "error",
            !.commFault = FALSE]
    ELSE [s EXCEPT !.phase = "wait_status", !.pendingDue = None]

SettleSynchronization(s) ==
    IF s.synchronized
    THEN [ScheduleControl(s, ControlSettle) EXCEPT
            !.phase = IF s.fault = None THEN "ready" ELSE "error",
            !.commFault = FALSE]
    ELSE [s EXCEPT !.phase = "wait_status", !.pendingDue = None]

HandleStatus(s, state) ==
    IF ~s.initialized \/ s.expected # "status" \/ s.waitAge = None THEN s
    ELSE IF Late(s) THEN MarkCommunicationError(s)
    ELSE SettleSynchronization(ProcessControlConfirmation(
            AcceptStatus(s, state), s.state, s.commFault))

-----------------------------------------------------------------------------
(* Control attempts: one START or SHUTDOWN command, sent again at most     *)
(* MaxControlAttempts times while the heater does not confirm it.          *)

SetControlFault(s) ==
    [s EXCEPT !.fault = [command |-> s.attempt.command, recover |-> FALSE],
              !.phase = "error", !.pendingDue = None]

SetPolicyFault(s, command, recover) ==
    IF s.fault # None THEN s
    ELSE [s EXCEPT !.fault = [command |-> command, recover |-> recover],
                   !.phase = "error", !.pendingDue = None]

(* Faulty: the heater's state is not looked at again before a retry. *)
AttemptMatchesRevisionOnly(s) ==
    /\ s.attempt.revision = s.revision
    /\ s.attempt.command = "start" <=> s.on

AttemptMatchesRequest(s) ==
    /\ s.attempt.revision = s.revision
    /\ IF s.attempt.command = "start"
       THEN s.on /\ s.state = "off"
       ELSE ~s.on /\ s.state = "running"

AttemptWasCancelled(s) ==
    IF s.attempt.command = "start"
    THEN ~s.on /\ s.state = "off"
    ELSE s.on /\ s.state = "running"

(* Faulty: one attempt too many. *)
AttemptsExhaustedLate(s) == s.attempt.attempts > MaxControlAttempts

AttemptsExhausted(s) == s.attempt.attempts >= MaxControlAttempts

CheckControlConfirmation(s) ==
    IF s.attempt = None \/ s.fault # None THEN s
    ELSE IF ~s.attempt.statusAfterSend THEN s
    ELSE IF Confirms(s.state, s.attempt.command)
    THEN [s EXCEPT !.attempt = None]
    ELSE IF ~s.attempt.sendFailed /\ s.attempt.age < ConfirmationTimeout
    THEN s
    ELSE IF AttemptWasCancelled(s)
    THEN LET t == [s EXCEPT !.attempt = None]
         IN IF s.attempt.command = "start" /\ s.state = "off"
            THEN DiscardSession(t) ELSE t
    ELSE IF ~AttemptMatchesRequest(s)
    THEN [s EXCEPT !.attempt = None]
    ELSE IF AttemptsExhausted(s)
    THEN SetControlFault(s)
    ELSE ScheduleControl(
            [s EXCEPT !.attempt = [s.attempt EXCEPT !.retryReady = TRUE]],
            IF s.attempt.sendFailed THEN 0 ELSE ControlSettle)

(* A new attempt fixes the revision and the parameters it was opened for;  *)
(* a retry counts up the open one.                                         *)
OpenAttempt(s, command) ==
    LET fresh == [command |-> command, attempts |-> 0,
                  revision |-> s.revision,
                  parameters |-> IF command = "start" THEN Parameters(s)
                                 ELSE None]
        open == IF s.attempt = None THEN fresh ELSE s.attempt
    IN [s EXCEPT !.attempt =
          [command |-> open.command, attempts |-> open.attempts + 1,
           revision |-> open.revision, parameters |-> open.parameters,
           age |-> 0, statusAfterSend |-> FALSE, sendFailed |-> FALSE,
           retryReady |-> FALSE]]

(* Faulty: a failed write is taken for a command not sent. *)
TransmitControlNotSent(s, command, sendOk) ==
    IF sendOk
    THEN [s EXCEPT !.op = command, !.nextDue = Heartbeat]
    ELSE [s EXCEPT !.attempt = None,
                   !.op = IF command = "start" THEN "start_error"
                          ELSE "shutdown_error"]

(* The call of the protocol port: refused or failed, it breaks the link    *)
(* and leaves open whether the frame reached the heater.                   *)
TransmitControl(s, command, sendOk) ==
    IF sendOk
    THEN [s EXCEPT !.op = command, !.nextDue = Heartbeat]
    ELSE [MarkCommunicationError(s) EXCEPT
            !.attempt = [s.attempt EXCEPT !.sendFailed = TRUE],
            !.op = IF command = "start" THEN "start_error"
                   ELSE "shutdown_error"]

SendShutdown(s, sendOk) ==
    LET t == OpenAttempt(s, "shutdown")
    IN TransmitControl([t EXCEPT !.restartBlocked = TRUE,
                                 !.shutdownSentRev = t.attempt.revision],
                       "shutdown", sendOk)

(* The session that supervises a START exists before the START leaves; if  *)
(* it cannot, the attempt is dropped and the exception leaves step().      *)
SendStart(s, reading, sendOk) ==
    LET t == OpenAttempt(s, "start")
    IN IF t.session = None /\ ~SessionCanStart(t, reading)
       THEN [t EXCEPT !.attempt = None, !.raised = TRUE]
       ELSE TransmitControl(
                [StartSession(t, reading) EXCEPT
                    !.startSentRev = t.attempt.revision],
                "start", sendOk)

SendControl(s, command, reading, sendOk) ==
    IF command = "start" THEN SendStart(s, reading, sendOk)
    ELSE SendShutdown(s, sendOk)

-----------------------------------------------------------------------------
(* The decision: compare Requested State with Actual State.                *)

ControlAllowed(s) ==
    /\ s.phase = "ready"
    /\ s.comm = "ok"
    /\ s.initialized
    /\ s.synchronized
    /\ s.fault = None

(* Faulty: OFF after a START of this generation sends the next one. *)
DecideOffRepeating(s, reading, sendOk) ==
    IF ~s.on \/ s.restartBlocked THEN s
    ELSE SendControl(s, "start", reading, sendOk)

DecideOff(s, reading, sendOk) ==
    IF ~s.on \/ s.restartBlocked THEN s
    ELSE IF s.startSentRev = s.revision THEN SetPolicyFault(s, "start", FALSE)
    ELSE SendControl(s, "start", reading, sendOk)

(* The heater takes a SHUTDOWN only once it is RUNNING: the stop waits,    *)
(* for a bounded time.                                                     *)
DecideStarting(s) ==
    IF s.on THEN s
    ELSE IF s.stoppingAge = None THEN [s EXCEPT !.stoppingAge = 0]
    ELSE IF s.stoppingAge >= StartingStopTimeout
    THEN SetPolicyFault(s, "shutdown", TRUE)
    ELSE s

DecideRunning(s, reading, sendOk) ==
    IF s.on THEN s
    ELSE IF s.shutdownSentRev = s.revision
    THEN SetPolicyFault(s, "shutdown", FALSE)
    ELSE SendControl(s, "shutdown", reading, sendOk)

Decide(s, reading, sendOk) ==
    CASE s.state = "off" -> DecideOff(s, reading, sendOk)
      [] s.state = "starting" -> DecideStarting(s)
      [] s.state = "running" -> DecideRunning(s, reading, sendOk)
      [] s.state = "temp_monitoring" ->
            IF s.on THEN s ELSE SetPolicyFault(s, "shutdown", TRUE)
      [] OTHER -> s

EvaluateControl(s, reading, sendOk) ==
    LET t == [s EXCEPT !.pendingDue = None]
    IN IF ~ControlAllowed(t) THEN t
       ELSE IF t.attempt # None
       THEN IF t.attempt.retryReady /\ AttemptMatchesRequest(t)
            THEN SendControl(t, t.attempt.command, reading, sendOk)
            ELSE t
       ELSE Decide([t EXCEPT !.stoppingAge =
                        IF t.state # "starting" \/ t.on THEN None
                        ELSE t.stoppingAge],
                   reading, sendOk)

(* Faulty: off by one. *)
StatusIsFreshAtHeartbeat(s) == s.statusAge # None /\ s.statusAge <= Heartbeat

StatusIsFresh(s) == s.statusAge # None /\ s.statusAge < Heartbeat

(* The part of step() that sends nothing: deadlines, timeouts, expiry, the *)
(* sensor policy and the bookkeeping of the open attempt.                  *)
Supervise(s, reading) ==
    CompleteSensorStopIfOff(CheckControlConfirmation(
        EnsureActiveSession(ApplySensorPolicy(CheckSessionExpiry(
            CheckResponseTimeout(CheckRequestedStartDeadline(s))),
            reading), reading)))

PollIfDue(s, sendOk) ==
    IF s.nextDue = None \/ s.nextDue = 0
    THEN RequestSynchronization(s, sendOk)
    ELSE s

StepController(s, reading, sendOk) ==
    LET t == Supervise(s, reading)
        u == EvaluateControl(t, reading, sendOk)
    IN IF t.pendingDue = None \/ t.pendingDue > 0 THEN PollIfDue(t, sendOk)
       ELSE IF ~StatusIsFresh(t)
       THEN PollIfDue([t EXCEPT
                !.pendingDue = None,
                !.nextDue = IF t.expected = None THEN 0 ELSE t.nextDue],
              sendOk)
       ELSE IF u.op # "none" \/ u.raised THEN u
       ELSE PollIfDue(u, sendOk)

-----------------------------------------------------------------------------
(* The public methods.                                                     *)

Begin(s) == [s EXCEPT !.op = "none"]

Init == ctl = InitialController

InvalidFrame == ctl' = RecordInvalidFrame(Begin(ctl))

(* The protocol layer refuses the frame: a strike and a broken link.       *)
RefusedFrame == ctl' = MarkCommunicationError(RecordInvalidFrame(Begin(ctl)))

InitFrame == ctl' = HandleInit(Begin(ctl))

StatusFrame == \E state \in HeaterStates : ctl' = HandleStatus(Begin(ctl), state)

HandleFrame == InvalidFrame \/ RefusedFrame \/ InitFrame \/ StatusFrame

ReportCommunicationError == ctl' = MarkCommunicationError(Begin(ctl))

(* Faulty: no restart block in the guard. *)
StartAcceptedDespiteBlock(s) ==
    s.latch = None /\ s.attempt = None /\ s.session = None /\ ~s.on

StartAccepted(s) ==
    /\ s.latch = None
    /\ s.attempt = None
    /\ ~s.restartBlocked
    /\ s.session = None
    /\ ~s.on

RequestStart ==
    /\ StartAccepted(ctl)
    /\ ctl.revision < MaxRevision
    /\ \E mode \in Modes, target \in Targets, runtime \in Runtimes,
          deadline \in Deadlines :
         ctl' = [Begin(ctl) EXCEPT
                    !.on = TRUE, !.mode = mode, !.target = target,
                    !.runtime = runtime, !.deadline = deadline,
                    !.revision = ctl.revision + 1]

Stop == ctl' = RequestStop(Begin(ctl))

SessionAdjustable(s) ==
    /\ s.on
    /\ s.session # None
    /\ s.session.confirmed /\ ~s.session.expired
    /\ s.attempt = None /\ s.fault = None /\ ~s.restartBlocked
    /\ s.session.mode = s.mode
    /\ s.session.target = s.target
    /\ s.session.runtime = s.runtime
    /\ s.session.remaining > 0

ExtensionAllowed(s, extend) == s.runtime + extend <= MaximumRuntime

(* Faulty: the session runs longer under its old runtime. *)
AdjustSessionDeadlineOnly(session, target, extend) ==
    [session EXCEPT !.target = target,
                    !.remaining = session.remaining + extend]

AdjustSession(session, target, extend) ==
    [session EXCEPT !.target = target,
                    !.runtime = session.runtime + extend,
                    !.remaining = session.remaining + extend]

(* A new target, fifteen more minutes, or both; the caller holds the       *)
(* current revision.  A session on a power level has no target to change.  *)
UpdateActiveSession ==
    /\ SessionAdjustable(ctl)
    /\ ctl.revision < MaxRevision
    /\ \E target \in Targets, extend \in {0, ExtendBy} :
         /\ ctl.mode = "power" => target = ctl.target
         /\ ExtensionAllowed(ctl, extend)
         /\ target # ctl.target \/ extend > 0
         /\ ctl' = [Begin(ctl) EXCEPT
                !.target = target, !.runtime = ctl.runtime + extend,
                !.revision = ctl.revision + 1,
                !.session = AdjustSession(ctl.session, target, extend)]

RetryControlFault ==
    /\ ctl.fault # None
    /\ ctl.comm = "ok" /\ ctl.initialized /\ ctl.synchronized
    /\ ctl.revision < MaxRevision
    /\ ctl' = [Begin(ctl) EXCEPT
            !.revision = ctl.revision + 1,
            !.fault = None, !.attempt = None, !.pendingDue = None,
            !.phase = "wait_status",
            !.nextDue = IF ctl.expected = None THEN 0 ELSE ctl.nextDue]

Step ==
    \E reading \in Readings, sendOk \in BOOLEAN :
        ctl' = StepController(Begin(ctl), reading, sendOk)

-----------------------------------------------------------------------------
(* Time passes.                                                            *)

Older(age, cap) == IF age = None THEN None ELSE AtMost(age + 1, cap)
Sooner(rest) == IF rest = None THEN None ELSE IF rest > 0 THEN rest - 1 ELSE 0
DeadlineSooner(rest) ==
    IF rest = None THEN None ELSE IF rest >= 0 THEN rest - 1 ELSE -1

OlderSession(session) ==
    IF session = None \/ session.remaining = 0 THEN session
    ELSE [session EXCEPT !.age = session.age + 1,
                         !.remaining = session.remaining - 1]

OlderAttempt(attempt) ==
    IF attempt = None THEN None
    ELSE [attempt EXCEPT !.age = AtMost(attempt.age + 1, ConfirmationTimeout)]

Elapse(s) ==
    [s EXCEPT
        !.op = "none",
        !.deadline = DeadlineSooner(s.deadline),
        !.statusAge = Older(s.statusAge, Heartbeat),
        !.nextDue = Sooner(s.nextDue),
        !.pendingDue = Sooner(s.pendingDue),
        !.waitAge = Older(s.waitAge, ResponseTimeout),
        !.attempt = OlderAttempt(s.attempt),
        !.stoppingAge = Older(s.stoppingAge, StartingStopTimeout),
        !.session = OlderSession(s.session)]

Tick == ctl' = Elapse(ctl)

Next ==
    \/ HandleFrame
    \/ ReportCommunicationError
    \/ RequestStart
    \/ Stop
    \/ UpdateActiveSession
    \/ RetryControlFault
    \/ Step
    \/ Tick

Spec == Init /\ [][Next]_vars

-----------------------------------------------------------------------------
(* Types.                                                                  *)

Ages(cap) == 0..cap \cup {None}

SessionType ==
    [id : Nat \ {0}, mode : Modes, target : Targets,
     runtime : 1..MaximumRuntime, age : Nat, remaining : Nat,
     confirmed : BOOLEAN, expired : BOOLEAN, binding : Bindings \cup {None}]

ParameterType == [mode : Modes, target : Targets]

AttemptType ==
    [command : Commands, attempts : 1..MaxControlAttempts, revision : Nat,
     parameters : ParameterType \cup {None}, age : 0..ConfirmationTimeout,
     statusAfterSend : BOOLEAN, sendFailed : BOOLEAN, retryReady : BOOLEAN]

ASSUME NoneSessionAssumption == None \notin SessionType
ASSUME NoneAttemptAssumption == None \notin AttemptType

FaultType == [command : Commands, recover : BOOLEAN]

Fields ==
    {"op", "raised", "phase", "on", "mode", "target", "runtime", "deadline",
     "revision", "comm", "initialized", "synchronized", "state", "statusAge",
     "nextDue", "pendingDue", "expected", "waitAge", "commFault", "strikes",
     "validStreak", "attempt", "fault", "restartBlocked", "startSentRev",
     "shutdownSentRev", "stoppingAge", "latch", "session", "nextSessionId"}

FieldsTyped(s) ==
    /\ s.op \in Operations /\ s.raised \in BOOLEAN /\ s.phase \in Phases
    /\ s.on \in BOOLEAN /\ s.mode \in Modes /\ s.target \in Targets
    /\ s.runtime \in 1..MaximumRuntime /\ s.deadline \in Int \cup {None}
    /\ s.revision \in Nat
    /\ s.comm \in {"unknown", "ok", "error"}
    /\ s.initialized \in BOOLEAN /\ s.synchronized \in BOOLEAN
    /\ s.state \in HeaterStates /\ s.statusAge \in Ages(Heartbeat)
    /\ s.nextDue \in Nat \cup {None} /\ s.pendingDue \in Nat \cup {None}
    /\ s.expected \in {"initialization", "status", None}
    /\ s.waitAge \in Ages(ResponseTimeout) /\ s.commFault \in BOOLEAN
    /\ s.strikes \in 0..InvalidFrameThreshold
    /\ s.validStreak \in 0..InvalidFrameThreshold
    /\ s.attempt \in AttemptType \cup {None}
    /\ s.fault \in FaultType \cup {None}
    /\ s.restartBlocked \in BOOLEAN
    /\ s.startSentRev \in Nat \cup {None}
    /\ s.shutdownSentRev \in Nat \cup {None}
    /\ s.stoppingAge \in Ages(StartingStopTimeout)
    /\ s.latch \in Nat \cup {None}
    /\ s.session \in SessionType \cup {None}
    /\ s.nextSessionId \in Nat \ {0}

WellTyped(s) == DOMAIN s = Fields /\ FieldsTyped(s)

(* Every field of the controller keeps its type; in particular no command  *)
(* is attempted more often than MaxControlAttempts and no session runs     *)
(* longer than MaximumRuntime.                                             *)
TypeOK == WellTyped(ctl)

-----------------------------------------------------------------------------
(* Safety.                                                                 *)

StartOps == {"start", "start_error"}
ShutdownOps == {"shutdown", "shutdown_error"}

(* A START never reaches the protocol port without a session that bounds   *)
(* it: the session exists, is neither expired nor out of time, and belongs *)
(* to the parameters that were sent - whatever happened between the        *)
(* request and the transmission, or between two transmissions.             *)
SupervisedStart ==
    ctl.op \in StartOps =>
        /\ ctl.session # None
        /\ ~ctl.session.expired /\ ctl.session.remaining > 0
        /\ ctl.attempt # None
        /\ ctl.attempt.parameters = [mode |-> ctl.session.mode,
                                     target |-> ctl.session.target]

(* While a session is expired, a sensor stop is latched or a SHUTDOWN is   *)
(* unanswered, Requested State is OFF and no START is open to be retried   *)
(* for the current request: nothing can start the heater again.            *)
StoppingIsFinal ==
    \/ ctl.session # None /\ ctl.session.expired
    \/ ctl.latch # None
    \/ ctl.restartBlocked
    => /\ ~ctl.on
       /\ \/ ctl.attempt = None
          \/ ctl.attempt.command = "start" => ctl.attempt.revision # ctl.revision

(* While the request is ON, the session and the open START agree with it   *)
(* (update_active_session() refuses to adjust a session that differs).     *)
SessionMatchesRequest ==
    ctl.on =>
        /\ ctl.session # None =>
              /\ Parameters(ctl) = [mode |-> ctl.session.mode,
                                    target |-> ctl.session.target]
              /\ ctl.runtime = ctl.session.runtime
        /\ ctl.attempt # None /\ ctl.attempt.command = "start" =>
              /\ ctl.session # None
              /\ ctl.attempt.parameters = Parameters(ctl)

(* A latched sensor stop belongs to the session that is being stopped,     *)
(* never to an earlier one.                                                *)
LatchOwned ==
    ctl.latch # None /\ ctl.session # None => ctl.latch = ctl.session.id

(* The sensor policy of a step has always refused the request before       *)
(* _start_session() could: step() lets no exception out.                   *)
NoStepRaises == ~ctl.raised

(* A session's clock is exact: the minutes it has run and the minutes it   *)
(* has left add up to its runtime, so that no sequence of extensions lets  *)
(* the heater run longer than the configured maximum.                      *)
SessionClock ==
    ctl.session # None =>
        /\ ctl.session.age + ctl.session.remaining = ctl.session.runtime
        /\ ctl.session.runtime <= MaximumRuntime

(* What a session is, agrees in all of its parts: with the request and the *)
(* open START, with the sensor stop that is latched for it, and with its   *)
(* own clock - however starts, adjustments, extensions and sensor failures *)
(* fall between the steps.                                                 *)
SessionAgreement == SessionMatchesRequest /\ LatchOwned /\ SessionClock

(* READY means what evaluate_control() and the gateways take it for: a     *)
(* live, synchronized link, a known heater state and no latched fault.     *)
ReadyIsSynchronized ==
    ctl.phase = "ready" =>
        /\ ctl.comm = "ok" /\ ctl.initialized /\ ctl.synchronized
        /\ ctl.state \in KnownStates
        /\ ctl.fault = None
        /\ ~ctl.commFault

-----------------------------------------------------------------------------
(* What no step may do.                                                    *)

(* A command is sent only for a reason the heater itself has just given: a *)
(* START to a heater that reported OFF, a SHUTDOWN to one that reported    *)
(* RUNNING, in a status younger than one heartbeat.                        *)
CommandJustified ==
    [][/\ ctl'.op \in StartOps =>
            /\ ctl.state = "off" /\ ctl.statusAge \in 0..Heartbeat - 1
            /\ ctl.on /\ ~ctl.restartBlocked /\ ctl.latch = None
       /\ ctl'.op \in ShutdownOps =>
            /\ ctl.state = "running" /\ ctl.statusAge \in 0..Heartbeat - 1
            /\ ~ctl'.on]_vars

(* A command is repeated for one request generation only as the retry of   *)
(* the attempt still open, after a status that is younger than the last    *)
(* transmission and a bounded number of times.                             *)
BoundedRepetition ==
    [][\/ /\ ctl'.op \in StartOps => ctl.startSentRev # ctl'.startSentRev
          /\ ctl'.op \in ShutdownOps =>
               ctl.shutdownSentRev # ctl'.shutdownSentRev
       \/ /\ ctl.attempt # None
          /\ ctl.attempt.command = (IF ctl'.op \in StartOps THEN "start"
                                    ELSE "shutdown")
          /\ ctl.attempt.statusAfterSend
          /\ ctl.attempt.attempts < MaxControlAttempts
          /\ ctl'.attempt.attempts = ctl.attempt.attempts + 1]_vars

(* A session is dropped only when the heater has reported OFF and the      *)
(* request is OFF: supervision outlives the heat.                          *)
SupervisionOutlivesHeat ==
    [][ctl.session # None =>
          \/ /\ ctl'.session # None
             /\ ctl'.session.id = ctl.session.id
          \/ /\ ctl'.session = None
             /\ "off" \in {ctl.state, ctl'.state}
             /\ ~ctl'.on]_vars

(* The restart fence and the sensor latch fall only at a reported OFF, and *)
(* never with a request or a START waiting behind them.                    *)
FenceFallsAtOff ==
    [][\/ ctl.restartBlocked /\ ~ctl'.restartBlocked
       \/ ctl.latch # None /\ ctl'.latch = None
       => /\ "off" \in {ctl.state, ctl'.state}
          /\ ~ctl'.on
          /\ ctl'.op \notin StartOps]_vars

(* Nothing that guards a run is let go before the heater has reported OFF: *)
(* neither the session nor the fences behind it.                           *)
EndsAtOff == SupervisionOutlivesHeat /\ FenceFallsAtOff

(* A request that names a latest start is never started after it.          *)
DeadlineHonoured ==
    [][ctl'.op \in StartOps /\ ctl.session = None =>
          ctl.deadline = None \/ ctl.deadline >= 0]_vars

(* The revision is a sound token for compare-and-set: it never decreases,  *)
(* and every change of Requested State changes it.                         *)
RevisionCountsChanges ==
    [][/\ ctl'.revision \in {ctl.revision, ctl.revision + 1}
       /\ ctl'.revision = ctl.revision =>
            /\ ctl'.on = ctl.on
            /\ Parameters(ctl') = Parameters(ctl)
            /\ ctl'.runtime = ctl.runtime]_vars

(* What one generation of the request may send is bounded in number and in *)
(* time, and a generation is one request: retries, extensions and late     *)
(* answers do not mix two of them.                                         *)
SeriesAreBounded ==
    BoundedRepetition /\ DeadlineHonoured /\ RevisionCountsChanges

(* README: after an unexpected OFF no new series of commands starts by     *)
(* itself.  A session that was confirmed active therefore never sees       *)
(* another START.                                                          *)
NoAutomaticRestart ==
    [][ctl'.op \in StartOps =>
          ctl.session = None \/ ~ctl.session.confirmed]_vars

=============================================================================
