----------------------- MODULE HeaterControllerProofs -----------------------
(***************************************************************************)
(* Theorems about HeaterController, for every value of its constants.      *)
(*                                                                         *)
(* None of the safety invariants is inductive alone: that a stop is final  *)
(* rests on the revision of the open attempt, that a START is supervised   *)
(* on the session agreeing with the request, and so on.  Safe(s) is their  *)
(* common strengthening.  Since every method of the class is an operator   *)
(* from a record to a record, the proof has one lemma per operator, which  *)
(* says what the operator keeps, and the actions only compose them.        *)
(***************************************************************************)
EXTENDS HeaterController, TLAPS

-----------------------------------------------------------------------------
(* The strengthening.                                                      *)

(* A request that is ON has nothing that forbids it behind it.             *)
Fenced(s) ==
    s.on => /\ s.latch = None
            /\ ~s.restartBlocked
            /\ s.session # None => ~s.session.expired

StartOpen(s) ==
    /\ s.attempt # None
    /\ s.attempt.command = "start"

(* An open START of the current revision is still wanted.                  *)
OpenStartWanted(s) ==
    /\ s.attempt # None => s.attempt.revision <= s.revision
    /\ StartOpen(s) /\ s.attempt.revision = s.revision => s.on

StartAgrees(s) ==
    s.on /\ StartOpen(s) => s.attempt.parameters = Parameters(s)

StartOwned(s) ==
    s.on /\ StartOpen(s) => s.session # None

SessionAgrees(s) ==
    s.on /\ s.session # None =>
        /\ s.session.mode = s.mode
        /\ s.session.target = s.target
        /\ s.session.runtime = s.runtime

LatchAgrees(s) ==
    s.latch # None /\ s.session # None => s.latch = s.session.id

ClockExact(s) ==
    s.session # None => s.session.age + s.session.remaining = s.session.runtime

RetryBounded(s) ==
    s.attempt # None /\ s.attempt.retryReady =>
        /\ s.attempt.attempts < MaxControlAttempts
        /\ s.attempt.statusAfterSend

(* All of it but StartOwned, which fails between the two halves of         *)
(* _send_control().                                                        *)
AlmostSound(s) ==
    /\ Fenced(s) /\ OpenStartWanted(s) /\ StartAgrees(s) /\ SessionAgrees(s)
    /\ LatchAgrees(s) /\ ClockExact(s) /\ RetryBounded(s) /\ ~s.raised

Sound(s) == AlmostSound(s) /\ StartOwned(s)

Safe(s) == WellTyped(s) /\ Sound(s)

Ready(s) ==
    s.phase = "ready" =>
        /\ s.comm = "ok" /\ s.initialized /\ s.synchronized
        /\ s.state \in KnownStates
        /\ s.fault = None
        /\ ~s.commFault

(* What handle_frame() has established when it settles the consequences of *)
(* a status.                                                               *)
LinkUp(s) ==
    /\ s.comm = "ok" /\ s.initialized
    /\ s.synchronized => s.state \in KnownStates

(* What step() has established when it decides.                            *)
Alive(s) == s.on /\ s.session # None => s.session.remaining > 0

StartPossible(s, reading) ==
    s.on /\ s.session = None => SessionCanStart(s, reading)

StartIsSupervised(s) ==
    s.op \in StartOps =>
        /\ s.session # None
        /\ ~s.session.expired /\ s.session.remaining > 0
        /\ s.attempt # None
        /\ s.attempt.parameters = [mode |-> s.session.mode,
                                   target |-> s.session.target]

(* The fields Sound() speaks of.                                           *)
SameCore(s, t) ==
    /\ t.on = s.on /\ t.mode = s.mode /\ t.target = s.target
    /\ t.runtime = s.runtime /\ t.revision = s.revision
    /\ t.attempt = s.attempt /\ t.restartBlocked = s.restartBlocked
    /\ t.latch = s.latch /\ t.session = s.session /\ t.raised = s.raised

(* What a helper of step() keeps.                                          *)
Keeps(s, t) ==
    /\ Safe(t)
    /\ Ready(s) => Ready(t)
    /\ Alive(s) => Alive(t)
    /\ t.op = s.op

(* What a helper of handle_frame() keeps.                                  *)
Settles(s, t) ==
    /\ Safe(t)
    /\ LinkUp(s) => LinkUp(t)
    /\ t.op = s.op

-----------------------------------------------------------------------------
(* The helpers.                                                            *)

(* Sound() depends on the core fields only. *)
LEMMA CoreDecides ==
    ASSUME NEW s, NEW t, SameCore(s, t)
    PROVE  /\ Sound(s) => Sound(t)
           /\ AlmostSound(s) => AlmostSound(t)
           /\ Alive(s) => Alive(t)
BY DEF SameCore, Sound, AlmostSound, Fenced, OpenStartWanted, StartOpen,
       StartAgrees, StartOwned, SessionAgrees, LatchAgrees, ClockExact,
       RetryBounded, Parameters, Alive

(* Both pipelines are closed under composition. *)
LEMMA KeepsChains ==
    ASSUME NEW s, NEW t, NEW u, Keeps(s, t), Keeps(t, u)
    PROVE  Keeps(s, u)
BY Zenon DEF Keeps

(* The same for the helpers of handle_frame(). *)
LEMMA SettlesChains ==
    ASSUME NEW s, NEW t, NEW u, Settles(s, t), Settles(t, u)
    PROVE  Settles(s, u)
BY Zenon DEF Settles

(* request_stop() leaves an open START of an older revision behind. *)
LEMMA RequestStopSafe ==
    ASSUME NEW s, Safe(s)
    PROVE  /\ Keeps(s, RequestStop(s)) /\ Settles(s, RequestStop(s))
           /\ ~RequestStop(s).on
           /\ RequestStop(s).session = s.session
           /\ RequestStop(s).state = s.state
<1> DEFINE t == RequestStop(s)
<1>1. DOMAIN t = DOMAIN s
  BY Zenon DEF RequestStop
<1>2. FieldsTyped(t)
  BY DEF Safe, WellTyped, Fields, FieldsTyped, RequestStop
<1>3. /\ ~t.on /\ t.session = s.session /\ t.state = s.state /\ t.op = s.op
      /\ t.attempt = s.attempt /\ t.raised = s.raised /\ t.latch = s.latch
      /\ t.revision = (IF s.on THEN s.revision + 1 ELSE s.revision)
      /\ t.phase = s.phase /\ t.comm = s.comm /\ t.fault = s.fault
      /\ t.initialized = s.initialized /\ t.synchronized = s.synchronized
      /\ t.commFault = s.commFault
  BY DEF Safe, WellTyped, Fields, RequestStop
<1> HIDE DEF t
<1>4. s.revision \in Nat /\ (s.attempt # None => s.attempt.revision \in Nat)
  BY DEF Safe, WellTyped, FieldsTyped, AttemptType
<1>5. Sound(t)
  BY <1>3, <1>4 DEF Safe, Sound, AlmostSound, Fenced, OpenStartWanted,
     StartOpen, StartAgrees, StartOwned, SessionAgrees, LatchAgrees,
     ClockExact, RetryBounded
<1>6. /\ Ready(s) => Ready(t)
      /\ LinkUp(s) => LinkUp(t)
      /\ Alive(t)
  BY <1>3 DEF Ready, LinkUp, Alive
<1> QED BY <1>1, <1>2, <1>3, <1>5, <1>6
        DEF Safe, WellTyped, Keeps, Settles, t

(* A delay of control touches neither request nor session. *)
LEMMA ScheduleControlSafe ==
    ASSUME NEW s, Safe(s), NEW delay \in Nat
    PROVE  /\ Keeps(s, ScheduleControl(s, delay))
           /\ Settles(s, ScheduleControl(s, delay))
<1> DEFINE t == ScheduleControl(s, delay)
<1>1. CASE s.pendingDue # None
  BY <1>1 DEF ScheduleControl, Keeps, Settles
<1>2. CASE s.pendingDue = None
  <2> DEFINE u == [s EXCEPT !.pendingDue = delay]
  <2>1. t = u
    BY <1>2 DEF ScheduleControl
  <2>2. DOMAIN u = DOMAIN s
    BY Zenon
  <2>3. FieldsTyped(u)
    BY DEF Safe, WellTyped, Fields, FieldsTyped
  <2>4. SameCore(s, u)
    BY DEF SameCore, Safe, WellTyped, Fields
  <2>5. /\ Ready(s) => Ready(u)
        /\ LinkUp(s) => LinkUp(u)
        /\ u.op = s.op
    BY DEF Ready, LinkUp, Safe, WellTyped, Fields
  <2> HIDE DEF t, u
  <2> QED BY <2>1, <2>2, <2>3, <2>4, <2>5, CoreDecides
          DEF Safe, WellTyped, Keeps, Settles, t
<1> QED BY <1>1, <1>2

(* A broken link leaves Requested State, session and attempt in place. *)
LEMMA MarkCommunicationErrorSafe ==
    ASSUME NEW s, WellTyped(s), AlmostSound(s)
    PROVE  LET t == MarkCommunicationError(s)
           IN /\ WellTyped(t) /\ AlmostSound(t) /\ Ready(t)
              /\ SameCore(s, t) /\ t.op = s.op
<1> DEFINE t == MarkCommunicationError(s)
<1>1. DOMAIN t = DOMAIN s
  BY Zenon DEF MarkCommunicationError
<1>2. FieldsTyped(t)
  BY DEF WellTyped, Fields, FieldsTyped, MarkCommunicationError, Phases,
         HeaterStates, Ages
<1>3. SameCore(s, t) /\ t.op = s.op
  BY DEF SameCore, WellTyped, Fields, MarkCommunicationError
<1>4. Ready(t)
  BY DEF WellTyped, Fields, MarkCommunicationError, Ready
<1> QED BY <1>1, <1>2, <1>3, <1>4, CoreDecides DEF WellTyped

(* A broken link is never READY. *)
LEMMA MarkKeeps ==
    ASSUME NEW s, Safe(s)
    PROVE  /\ Keeps(s, MarkCommunicationError(s))
           /\ Ready(MarkCommunicationError(s))
BY MarkCommunicationErrorSafe, CoreDecides DEF Safe, Sound, Keeps

(* A strike, with or without the threshold. *)
LEMMA RecordInvalidFrameSafe ==
    ASSUME NEW s, Safe(s)
    PROVE  Keeps(s, RecordInvalidFrame(s))
<1> DEFINE n == AtMost(s.strikes + 1, InvalidFrameThreshold)
           t == [s EXCEPT !.strikes = n, !.validStreak = 0,
                          !.pendingDue = None]
<1>1. n \in 0..InvalidFrameThreshold
  BY LimitAssumption DEF Safe, WellTyped, FieldsTyped, AtMost
<1>2. RecordInvalidFrame(s) = IF t.strikes >= InvalidFrameThreshold
                              THEN MarkCommunicationError(t) ELSE t
  BY DEF RecordInvalidFrame
<1> HIDE DEF n
<1>3. DOMAIN t = DOMAIN s
  BY Zenon
<1>4. FieldsTyped(t)
  BY <1>1, LimitAssumption DEF Safe, WellTyped, Fields, FieldsTyped
<1>5. SameCore(s, t)
  BY DEF SameCore, Safe, WellTyped, Fields
<1>6. (Ready(s) => Ready(t)) /\ t.op = s.op
  BY DEF Ready, Safe, WellTyped, Fields
<1> HIDE DEF t
<1>7. Keeps(s, t)
  BY <1>3, <1>4, <1>5, <1>6, CoreDecides DEF Safe, WellTyped, Keeps
<1>8. Keeps(s, MarkCommunicationError(t))
  BY <1>7, MarkKeeps, KeepsChains DEF Keeps
<1> QED BY <1>2, <1>7, <1>8

(* A missing answer breaks the link, and nothing else. *)
LEMMA CheckResponseTimeoutSafe ==
    ASSUME NEW s, Safe(s)
    PROVE  Keeps(s, CheckResponseTimeout(s))
BY MarkKeeps DEF CheckResponseTimeout, Keeps

(* Asking for INIT or STATUS: the request goes out, or the link breaks. *)
LEMMA RequestSynchronizationSafe ==
    ASSUME NEW s, Safe(s), Ready(s), NEW sendOk \in BOOLEAN
    PROVE  LET t == RequestSynchronization(s, sendOk)
           IN Safe(t) /\ Ready(t) /\ t.op \notin StartOps
<1> DEFINE command == IF s.initialized THEN "status" ELSE "initialization"
           phase == IF s.phase = "error" THEN "error"
                    ELSE IF s.initialized THEN "wait_status" ELSE "wait_init"
           waiting == [s EXCEPT !.nextDue = Heartbeat, !.phase = phase]
           errorOp == IF s.initialized THEN "status_error"
                      ELSE "initialization_error"
           broken == MarkCommunicationError(waiting)
           failed == [broken EXCEPT !.op = errorOp]
           again == [waiting EXCEPT !.op = command]
           first == [waiting EXCEPT !.op = command, !.expected = command,
                                    !.waitAge = 0]
<1>1. RequestSynchronization(s, sendOk) \in {failed, again, first}
  BY DEF RequestSynchronization
<1>2. /\ phase \in Phases \ {"ready"}
      /\ command \in {"status", "initialization"}
      /\ errorOp \in {"status_error", "initialization_error"}
  BY DEF Phases
<1> HIDE DEF phase, command, errorOp
<1>3. Safe(waiting) /\ waiting.phase = phase
  <2>1. DOMAIN waiting = DOMAIN s
    BY Zenon
  <2>2. FieldsTyped(waiting)
    BY <1>2, TimingAssumption DEF Safe, WellTyped, Fields, FieldsTyped
  <2>3. SameCore(s, waiting) /\ waiting.phase = phase
    BY DEF SameCore, Safe, WellTyped, Fields
  <2> HIDE DEF waiting
  <2> QED BY <2>1, <2>2, <2>3, CoreDecides DEF Safe, WellTyped
<1> HIDE DEF waiting
<1>4. Safe(broken) /\ Ready(broken)
  BY <1>3, MarkKeeps DEF Keeps
<1> HIDE DEF broken
<1>5. Safe(failed) /\ Ready(failed) /\ failed.op \notin StartOps
  <2>1. DOMAIN failed = DOMAIN broken
    BY Zenon
  <2>2. FieldsTyped(failed)
    BY <1>2, <1>4 DEF Safe, WellTyped, Fields, FieldsTyped, Operations
  <2>3. SameCore(broken, failed)
    BY <1>4 DEF SameCore, Safe, WellTyped, Fields
  <2>4. Ready(failed) /\ failed.op \notin StartOps
    BY <1>2, <1>4 DEF Ready, Safe, WellTyped, Fields, StartOps
  <2> HIDE DEF failed
  <2> QED BY <1>4, <2>1, <2>2, <2>3, <2>4, CoreDecides DEF Safe, WellTyped
<1>6. Safe(again) /\ Ready(again) /\ again.op \notin StartOps
  <2>1. DOMAIN again = DOMAIN waiting
    BY Zenon
  <2>2. FieldsTyped(again)
    BY <1>2, <1>3 DEF Safe, WellTyped, Fields, FieldsTyped, Operations
  <2>3. SameCore(waiting, again)
    BY <1>3 DEF SameCore, Safe, WellTyped, Fields
  <2>4. Ready(again) /\ again.op \notin StartOps
    BY <1>2, <1>3 DEF Ready, Safe, WellTyped, Fields, StartOps
  <2> HIDE DEF again
  <2> QED BY <1>3, <2>1, <2>2, <2>3, <2>4, CoreDecides DEF Safe, WellTyped
<1>7. Safe(first) /\ Ready(first) /\ first.op \notin StartOps
  <2>1. DOMAIN first = DOMAIN waiting
    BY Zenon
  <2>2. FieldsTyped(first)
    BY <1>2, <1>3, TimingAssumption
       DEF Safe, WellTyped, Fields, FieldsTyped, Operations, Ages
  <2>3. SameCore(waiting, first)
    BY <1>3 DEF SameCore, Safe, WellTyped, Fields
  <2>4. Ready(first) /\ first.op \notin StartOps
    BY <1>2, <1>3 DEF Ready, Safe, WellTyped, Fields, StartOps
  <2> HIDE DEF first
  <2> QED BY <1>3, <2>1, <2>2, <2>3, <2>4, CoreDecides DEF Safe, WellTyped
<1> HIDE DEF failed, again, first
<1> QED BY <1>1, <1>5, <1>6, <1>7

(* A poll sends INIT or STATUS, never a START. *)
LEMMA PollIfDueSafe ==
    ASSUME NEW s, Safe(s), Ready(s), NEW sendOk \in BOOLEAN,
           s.op \notin StartOps
    PROVE  LET t == PollIfDue(s, sendOk)
           IN Safe(t) /\ Ready(t) /\ t.op \notin StartOps
BY RequestSynchronizationSafe DEF PollIfDue

(* _discard_session() is harmless once Requested State is OFF. *)
LEMMA DiscardSessionSafe ==
    ASSUME NEW s, Safe(s), ~s.on
    PROVE  /\ Keeps(s, DiscardSession(s)) /\ Settles(s, DiscardSession(s))
           /\ ~DiscardSession(s).on
<1> DEFINE t == DiscardSession(s)
<1>1. DOMAIN t = DOMAIN s
  BY Zenon DEF DiscardSession
<1>2. FieldsTyped(t)
  BY DEF Safe, WellTyped, Fields, FieldsTyped, DiscardSession
<1>3. /\ t.session = None /\ t.on = s.on /\ t.op = s.op
      /\ t.attempt = s.attempt /\ t.revision = s.revision
      /\ t.raised = s.raised
  BY DEF Safe, WellTyped, Fields, DiscardSession
<1>4. /\ Ready(s) => Ready(t)
      /\ LinkUp(s) => LinkUp(t)
  BY DEF Ready, LinkUp, Safe, WellTyped, Fields, DiscardSession
<1> HIDE DEF t
<1>5. Sound(t) /\ Alive(t)
  BY <1>3 DEF Safe, Sound, AlmostSound, Fenced, OpenStartWanted, StartOpen,
     StartAgrees, StartOwned, SessionAgrees, LatchAgrees, ClockExact,
     RetryBounded, Alive
<1> QED BY <1>1, <1>2, <1>3, <1>4, <1>5
        DEF Safe, WellTyped, Keeps, Settles, t

(* A session is bound to the request it supervises, with a clock at zero.  *)
(* Only AlmostSound(s) is assumed: _send_control() opens the START first.  *)
LEMMA StartSessionSafe ==
    ASSUME NEW s, WellTyped(s), AlmostSound(s), s.on,
           NEW reading \in Readings, SessionCanStart(s, reading)
    PROVE  LET t == StartSession(s, reading)
           IN /\ Safe(t)
              /\ Ready(s) => Ready(t)
              /\ Alive(s) => Alive(t)
              /\ t.session # None
              /\ t.op = s.op /\ t.attempt = s.attempt /\ t.state = s.state
              /\ t.on /\ Parameters(t) = Parameters(s)
<1>1. CASE s.session # None
  BY <1>1 DEF StartSession, StartOwned, Sound, Safe
<1>2. CASE s.session = None
  <2> DEFINE new == [id |-> s.nextSessionId, mode |-> s.mode,
                     target |-> s.target, runtime |-> s.runtime,
                     age |-> 0, remaining |-> s.runtime,
                     confirmed |-> FALSE, expired |-> FALSE,
                     binding |-> IF s.mode = "power" THEN None
                                 ELSE reading.binding]
             next == s.nextSessionId + 1
             t == [s EXCEPT !.session = new, !.deadline = None,
                            !.nextSessionId = next]
  <2>1. new \in SessionType
    BY LimitAssumption DEF SessionType, WellTyped, FieldsTyped, Readings,
       Unusable
  <2>2. new # None
    BY <2>1, NoneSessionAssumption
  <2>3. /\ new.mode = s.mode /\ new.target = s.target
        /\ new.runtime = s.runtime /\ new.age = 0
        /\ new.remaining = s.runtime /\ ~new.expired
    OBVIOUS
  <2>4. StartSession(s, reading) = t
    BY <1>2 DEF StartSession
  <2> HIDE DEF new
  <2>5. DOMAIN t = DOMAIN s
    BY Zenon
  <2>6. next \in Nat \ {0}
    BY DEF WellTyped, FieldsTyped
  <2> HIDE DEF next
  <2>7. FieldsTyped(t)
    BY <2>1, <2>6 DEF WellTyped, Fields, FieldsTyped
  <2>8. /\ t.on = s.on /\ t.latch = s.latch /\ t.attempt = s.attempt
        /\ t.restartBlocked = s.restartBlocked /\ t.revision = s.revision
        /\ t.mode = s.mode /\ t.target = s.target /\ t.runtime = s.runtime
        /\ t.raised = s.raised /\ t.op = s.op /\ t.state = s.state
        /\ t.session = new
    BY DEF WellTyped, Fields
  <2>9. Ready(s) => Ready(t)
    BY DEF WellTyped, Fields, Ready
  <2> HIDE DEF t
  <2>10. Sound(t)
    <3>1. Fenced(t) /\ LatchAgrees(t) /\ ~t.raised
      BY <2>3, <2>8 DEF AlmostSound, Fenced, LatchAgrees
    <3>2. OpenStartWanted(t) /\ RetryBounded(t)
      BY <2>8 DEF AlmostSound, OpenStartWanted, StartOpen, RetryBounded
    <3>3. StartOwned(t) /\ StartAgrees(t)
      BY <2>2, <2>8 DEF AlmostSound, StartOwned, StartOpen, StartAgrees,
         Parameters
    <3>4. SessionAgrees(t)
      BY <2>3, <2>8 DEF SessionAgrees
    <3>5. ClockExact(t)
      BY <2>3, <2>8 DEF ClockExact, WellTyped, FieldsTyped
    <3> QED BY <3>1, <3>2, <3>3, <3>4, <3>5 DEF Sound, AlmostSound
  <2>11. Alive(t)
    BY <2>3, <2>8 DEF Alive, WellTyped, FieldsTyped
  <2> QED BY <2>2, <2>4, <2>5, <2>7, <2>8, <2>9, <2>10, <2>11
          DEF Safe, WellTyped, Parameters
<1> QED BY <1>1, <1>2

(* Dropping a scheduled control changes nothing Safe() speaks of. *)
LEMMA PendingDueSafe ==
    ASSUME NEW s, Safe(s), NEW due \in Nat \cup {None}
    PROVE  LET t == [s EXCEPT !.pendingDue = due]
           IN Keeps(s, t) /\ SameCore(s, t) /\ t.state = s.state
<1> DEFINE t == [s EXCEPT !.pendingDue = due]
<1>1. DOMAIN t = DOMAIN s
  BY Zenon
<1>2. FieldsTyped(t)
  BY DEF Safe, WellTyped, Fields, FieldsTyped
<1>3. SameCore(s, t) /\ t.state = s.state /\ t.op = s.op
  BY DEF SameCore, Safe, WellTyped, Fields
<1>4. Ready(s) => Ready(t)
  BY DEF Ready, Safe, WellTyped, Fields
<1> HIDE DEF t
<1>5. Keeps(s, t)
  BY <1>1, <1>2, <1>3, <1>4, CoreDecides DEF Safe, WellTyped, Keeps
<1> QED BY <1>3, <1>5 DEF t

(* A request past its latest start is withdrawn. *)
LEMMA CheckRequestedStartDeadlineSafe ==
    ASSUME NEW s, Safe(s)
    PROVE  Keeps(s, CheckRequestedStartDeadline(s))
<1> DEFINE t == RequestStop(s)
<1>1. Keeps(s, t)
  BY RequestStopSafe
<1>2. Keeps(s, [t EXCEPT !.pendingDue = None])
  BY <1>1, PendingDueSafe, KeepsChains DEF Keeps
<1>3. Keeps(s, s)
  BY DEF Keeps
<1> QED BY <1>2, <1>3 DEF CheckRequestedStartDeadline

(* After the expiry check no session of a wanted request is out of time. *)
LEMMA CheckSessionExpirySafe ==
    ASSUME NEW s, Safe(s)
    PROVE  /\ Keeps(s, CheckSessionExpiry(s))
           /\ Alive(CheckSessionExpiry(s))
<1>1. CASE ~SessionExpires(s)
  BY <1>1 DEF CheckSessionExpiry, Keeps, SessionExpires, Alive, Safe, Sound,
     AlmostSound, Fenced, WellTyped, FieldsTyped, SessionType
<1>2. CASE SessionExpires(s)
  <2> DEFINE stopped == RequestStop(s)
             marked == [s.session EXCEPT !.expired = TRUE]
             t == [stopped EXCEPT !.session = marked, !.pendingDue = 0]
  <2>1. /\ Keeps(s, stopped) /\ ~stopped.on
        /\ stopped.session = s.session
    BY RequestStopSafe
  <2>2. s.session \in SessionType /\ s.session # None
    BY <1>2 DEF SessionExpires, Safe, WellTyped, FieldsTyped
  <2>3. marked \in SessionType
    BY <2>2 DEF SessionType
  <2>4. /\ marked.id = s.session.id /\ marked.age = s.session.age
        /\ marked.remaining = s.session.remaining
        /\ marked.runtime = s.session.runtime
    BY <2>2 DEF SessionType
  <2>5. CheckSessionExpiry(s) = t
    BY <1>2 DEF CheckSessionExpiry
  <2> HIDE DEF stopped, marked
  <2>6. DOMAIN t = DOMAIN stopped
    BY Zenon
  <2>7. FieldsTyped(t)
    BY <2>1, <2>3 DEF Keeps, Safe, WellTyped, Fields, FieldsTyped
  <2>8. /\ t.on = stopped.on /\ t.latch = stopped.latch
        /\ t.attempt = stopped.attempt /\ t.revision = stopped.revision
        /\ t.raised = stopped.raised /\ t.op = stopped.op
        /\ t.session = marked
    BY <2>1 DEF Keeps, Safe, WellTyped, Fields
  <2>9. Ready(stopped) => Ready(t)
    BY <2>1 DEF Keeps, Safe, WellTyped, Fields, Ready
  <2> HIDE DEF t
  <2>10. Sound(t) /\ Alive(t)
    BY <2>1, <2>2, <2>4, <2>8 DEF Keeps, Safe, Sound, AlmostSound, Fenced,
       OpenStartWanted, StartOpen, StartAgrees, StartOwned, SessionAgrees,
       LatchAgrees, ClockExact, RetryBounded, Alive
  <2> QED BY <2>1, <2>5, <2>6, <2>7, <2>8, <2>9, <2>10
          DEF Keeps, Safe, WellTyped
<1> QED BY <1>1, <1>2

(* The sensor policy refuses, and latches, everything _start_session()     *)
(* would raise an exception for.                                           *)
LEMMA ApplySensorPolicySafe ==
    ASSUME NEW s, Safe(s), NEW reading \in Readings
    PROVE  /\ Keeps(s, ApplySensorPolicy(s, reading))
           /\ StartPossible(ApplySensorPolicy(s, reading), reading)
<1> DEFINE stopped == RequestStop(s)
<1>1. CASE ~SensorSupervised(s) \/ SensorAcceptable(s, reading)
  <2>1. ApplySensorPolicy(s, reading) = s
    BY <1>1 DEF ApplySensorPolicy
  <2>2. s.mode \in {"power", "temperature"}
    BY LimitAssumption DEF Safe, WellTyped, FieldsTyped
  <2>3. StartPossible(s, reading)
    BY <1>1, <2>2 DEF StartPossible, SessionCanStart, SensorSupervised,
       SensorAcceptable
  <2> QED BY <2>1, <2>3 DEF Keeps
<1>2. CASE /\ ~(~SensorSupervised(s) \/ SensorAcceptable(s, reading))
           /\ s.session # None
  <2> DEFINE due == IF s.on \/ s.latch # s.session.id THEN 0 ELSE s.pendingDue
             id == s.session.id
             t == [stopped EXCEPT !.pendingDue = due, !.latch = id]
  <2>1. ApplySensorPolicy(s, reading) = t
    BY <1>2 DEF ApplySensorPolicy
  <2>2. Keeps(s, stopped) /\ ~stopped.on /\ stopped.session = s.session
    BY RequestStopSafe
  <2>3. due \in Nat \cup {None} /\ id \in Nat
    BY <1>2 DEF Safe, WellTyped, FieldsTyped, SessionType
  <2>4. id = s.session.id
    OBVIOUS
  <2> HIDE DEF stopped, due, id
  <2>5. DOMAIN t = DOMAIN stopped
    BY Zenon
  <2>6. FieldsTyped(t)
    BY <2>2, <2>3 DEF Keeps, Safe, WellTyped, Fields, FieldsTyped
  <2>7. /\ t.on = stopped.on /\ t.latch = id /\ t.op = stopped.op
        /\ t.attempt = stopped.attempt /\ t.revision = stopped.revision
        /\ t.raised = stopped.raised /\ t.session = stopped.session
    BY <2>2 DEF Keeps, Safe, WellTyped, Fields
  <2>8. Ready(stopped) => Ready(t)
    BY <2>2 DEF Keeps, Safe, WellTyped, Fields, Ready
  <2> HIDE DEF t
  <2>9. Sound(t) /\ Alive(t) /\ StartPossible(t, reading)
    BY <2>2, <2>4, <2>7 DEF Keeps, Safe, Sound, AlmostSound, Fenced,
       OpenStartWanted, StartOpen, StartAgrees, StartOwned, SessionAgrees,
       LatchAgrees, ClockExact, RetryBounded, Alive, StartPossible
  <2> QED BY <2>1, <2>2, <2>5, <2>6, <2>7, <2>8, <2>9
          DEF Keeps, Safe, WellTyped
<1>3. CASE /\ ~(~SensorSupervised(s) \/ SensorAcceptable(s, reading))
           /\ s.session = None
  <2> DEFINE t == [stopped EXCEPT !.pendingDue = None]
  <2>1. ApplySensorPolicy(s, reading) = t
    BY <1>3 DEF ApplySensorPolicy
  <2>2. Keeps(s, stopped) /\ ~stopped.on
    BY RequestStopSafe
  <2> HIDE DEF stopped
  <2>3. Keeps(stopped, t) /\ SameCore(stopped, t)
    BY <2>2, PendingDueSafe DEF Keeps
  <2> HIDE DEF t
  <2> QED BY <2>1, <2>2, <2>3, KeepsChains DEF StartPossible, SameCore
<1> QED BY <1>1, <1>2, <1>3

(* A heater found active gets a session, or a stop. *)
LEMMA EnsureActiveSessionSafe ==
    ASSUME NEW s, Safe(s), NEW reading \in Readings, StartPossible(s, reading)
    PROVE  /\ Keeps(s, EnsureActiveSession(s, reading))
           /\ StartPossible(EnsureActiveSession(s, reading), reading)
<1>1. CASE s.session # None \/ ~s.on \/ s.state \notin Active
  BY <1>1 DEF EnsureActiveSession, Keeps
<1>2. CASE ~(s.session # None \/ ~s.on \/ s.state \notin Active)
  <2> DEFINE t == StartSession(s, reading)
             confirmed == [t.session EXCEPT !.confirmed = TRUE]
             u == [t EXCEPT !.session = confirmed]
  <2>1. SessionCanStart(s, reading)
    BY <1>2 DEF StartPossible
  <2>2. EnsureActiveSession(s, reading) = u
    BY <1>2, <2>1 DEF EnsureActiveSession
  <2>3. Keeps(s, t) /\ WellTyped(t) /\ t.session # None /\ t.on
    BY <1>2, <2>1, StartSessionSafe DEF Safe, Sound, Keeps
  <2> HIDE DEF t
  <2>4. t.session \in SessionType
    BY <2>3 DEF Keeps, Safe, WellTyped, FieldsTyped
  <2>5. confirmed \in SessionType
    BY <2>4 DEF SessionType
  <2>6. /\ confirmed.id = t.session.id /\ confirmed.mode = t.session.mode
        /\ confirmed.target = t.session.target
        /\ confirmed.runtime = t.session.runtime
        /\ confirmed.age = t.session.age
        /\ confirmed.remaining = t.session.remaining
        /\ confirmed.expired = t.session.expired
    BY <2>4 DEF SessionType
  <2>7. confirmed # None
    BY <2>5, NoneSessionAssumption
  <2> HIDE DEF confirmed
  <2>8. DOMAIN u = DOMAIN t
    BY Zenon
  <2>9. FieldsTyped(u)
    BY <2>3, <2>5 DEF WellTyped, Fields, FieldsTyped
  <2>10. /\ u.on = t.on /\ u.latch = t.latch /\ u.op = t.op
         /\ u.restartBlocked = t.restartBlocked
         /\ u.attempt = t.attempt /\ u.revision = t.revision
         /\ u.mode = t.mode /\ u.target = t.target /\ u.runtime = t.runtime
         /\ u.raised = t.raised /\ u.session = confirmed
    BY <2>3 DEF Keeps, Safe, WellTyped, Fields
  <2>11. Ready(t) => Ready(u)
    BY <2>3 DEF Keeps, Safe, WellTyped, Fields, Ready
  <2> HIDE DEF u
  <2>12. Sound(u) /\ (Alive(t) => Alive(u))
    BY <2>3, <2>6, <2>7, <2>10 DEF Keeps, Safe, Sound, AlmostSound, Fenced,
       OpenStartWanted, StartOpen, StartAgrees, StartOwned, SessionAgrees,
       LatchAgrees, ClockExact, RetryBounded, Alive, Parameters
  <2> QED BY <2>2, <2>3, <2>7, <2>8, <2>9, <2>10, <2>11, <2>12
          DEF Keeps, Safe, WellTyped, StartPossible
<1> QED BY <1>1, <1>2

(* The latch falls only where nothing is left to stop. *)
LEMMA CompleteSensorStopIfOffSafe ==
    ASSUME NEW s, Safe(s)
    PROVE  LET t == CompleteSensorStopIfOff(s)
           IN /\ Keeps(s, t) /\ Settles(s, t)
              /\ t.on = s.on /\ t.session = s.session /\ t.state = s.state
              /\ t.mode = s.mode
<1>1. CASE ~(s.state = "off" /\ ~s.on /\ s.session = None)
  BY <1>1 DEF CompleteSensorStopIfOff, Keeps, Settles
<1>2. CASE s.state = "off" /\ ~s.on /\ s.session = None
  <2> DEFINE t == [s EXCEPT !.latch = None]
  <2>1. CompleteSensorStopIfOff(s) = t
    BY <1>2 DEF CompleteSensorStopIfOff
  <2>2. DOMAIN t = DOMAIN s
    BY Zenon
  <2>3. FieldsTyped(t)
    BY DEF Safe, WellTyped, Fields, FieldsTyped
  <2>4. /\ t.on = s.on /\ t.latch = None /\ t.op = s.op
        /\ t.attempt = s.attempt /\ t.revision = s.revision
        /\ t.raised = s.raised /\ t.session = s.session
        /\ t.state = s.state /\ t.mode = s.mode
    BY DEF Safe, WellTyped, Fields
  <2>5. /\ Ready(s) => Ready(t)
        /\ LinkUp(s) => LinkUp(t)
    BY DEF Safe, WellTyped, Fields, Ready, LinkUp
  <2> HIDE DEF t
  <2>6. Sound(t) /\ Alive(t)
    BY <1>2, <2>4 DEF Safe, Sound, AlmostSound, Fenced, OpenStartWanted,
       StartOpen, StartAgrees, StartOwned, SessionAgrees, LatchAgrees,
       ClockExact, RetryBounded, Alive
  <2> QED BY <2>1, <2>2, <2>3, <2>4, <2>5, <2>6
          DEF Keeps, Settles, Safe, WellTyped
<1> QED BY <1>1, <1>2

(* An attempt that is over leaves no START open. *)
LEMMA DropAttemptSafe ==
    ASSUME NEW s, Safe(s)
    PROVE  LET t == [s EXCEPT !.attempt = None]
           IN /\ Keeps(s, t) /\ Settles(s, t)
              /\ t.on = s.on /\ t.session = s.session /\ t.state = s.state
              /\ t.mode = s.mode
<1> DEFINE t == [s EXCEPT !.attempt = None]
<1>1. DOMAIN t = DOMAIN s
  BY Zenon
<1>2. FieldsTyped(t)
  BY DEF Safe, WellTyped, Fields, FieldsTyped
<1>3. /\ t.on = s.on /\ t.latch = s.latch /\ t.op = s.op
      /\ t.restartBlocked = s.restartBlocked /\ t.revision = s.revision
      /\ t.mode = s.mode /\ t.target = s.target /\ t.runtime = s.runtime
      /\ t.raised = s.raised /\ t.session = s.session /\ t.state = s.state
      /\ t.attempt = None
  BY DEF Safe, WellTyped, Fields
<1>4. /\ Ready(s) => Ready(t)
      /\ LinkUp(s) => LinkUp(t)
  BY DEF Safe, WellTyped, Fields, Ready, LinkUp
<1> HIDE DEF t
<1>5. Sound(t) /\ (Alive(s) => Alive(t))
  BY <1>3 DEF Safe, Sound, AlmostSound, Fenced, OpenStartWanted, StartOpen,
     StartAgrees, StartOwned, SessionAgrees, LatchAgrees, ClockExact,
     RetryBounded, Alive
<1> QED BY <1>1, <1>2, <1>3, <1>4, <1>5
        DEF Keeps, Settles, Safe, WellTyped, t

(* What may change in an open attempt without touching the rest. *)
SameAttempt(a, b) ==
    /\ b.command = a.command /\ b.attempts = a.attempts
    /\ b.revision = a.revision /\ b.parameters = a.parameters

(* Marks on the open attempt: answered, failed, ready to be retried. *)
LEMMA MarkAttemptSafe ==
    ASSUME NEW s, Safe(s), s.attempt # None,
           NEW a \in AttemptType, SameAttempt(s.attempt, a),
           a.retryReady => /\ a.attempts < MaxControlAttempts
                           /\ a.statusAfterSend
    PROVE  LET t == [s EXCEPT !.attempt = a]
           IN /\ Keeps(s, t) /\ Settles(s, t)
              /\ t.on = s.on /\ t.session = s.session /\ t.state = s.state
              /\ t.mode = s.mode /\ t.target = s.target /\ t.attempt = a
              /\ Ready(s) => Ready(t)
<1> DEFINE t == [s EXCEPT !.attempt = a]
<1>1. DOMAIN t = DOMAIN s
  BY Zenon
<1>2. FieldsTyped(t)
  BY DEF Safe, WellTyped, Fields, FieldsTyped
<1>3. /\ t.on = s.on /\ t.latch = s.latch /\ t.op = s.op
      /\ t.restartBlocked = s.restartBlocked /\ t.revision = s.revision
      /\ t.mode = s.mode /\ t.target = s.target /\ t.runtime = s.runtime
      /\ t.raised = s.raised /\ t.session = s.session /\ t.state = s.state
      /\ t.attempt = a
  BY DEF Safe, WellTyped, Fields
<1>4. /\ Ready(s) => Ready(t)
      /\ LinkUp(s) => LinkUp(t)
  BY DEF Safe, WellTyped, Fields, Ready, LinkUp
<1> HIDE DEF t
<1>5. Sound(t) /\ (Alive(s) => Alive(t))
  BY <1>3 DEF Safe, Sound, AlmostSound, Fenced, OpenStartWanted, StartOpen,
     StartAgrees, StartOwned, SessionAgrees, LatchAgrees, ClockExact,
     RetryBounded, Alive, Parameters, SameAttempt
<1> QED BY <1>1, <1>2, <1>3, <1>4, <1>5
        DEF Keeps, Settles, Safe, WellTyped, t

(* A fault leaves request, session and attempt in place. *)
LEMMA SetPolicyFaultSafe ==
    ASSUME NEW s, Safe(s), NEW command \in Commands, NEW recover \in BOOLEAN
    PROVE  LET t == SetPolicyFault(s, command, recover)
           IN Keeps(s, t) /\ SameCore(s, t) /\ t.state = s.state
<1>1. CASE s.fault # None
  BY <1>1 DEF SetPolicyFault, Keeps, SameCore
<1>2. CASE s.fault = None
  <2> DEFINE fault == [command |-> command, recover |-> recover]
             t == [s EXCEPT !.fault = fault, !.phase = "error",
                            !.pendingDue = None]
  <2>1. SetPolicyFault(s, command, recover) = t
    BY <1>2 DEF SetPolicyFault
  <2>2. fault \in FaultType
    BY DEF FaultType
  <2> HIDE DEF fault
  <2>3. DOMAIN t = DOMAIN s
    BY Zenon
  <2>4. FieldsTyped(t)
    BY <2>2 DEF Safe, WellTyped, Fields, FieldsTyped, Phases
  <2>5. SameCore(s, t) /\ t.state = s.state /\ t.op = s.op /\ Ready(t)
    BY DEF SameCore, Ready, Safe, WellTyped, Fields
  <2> HIDE DEF t
  <2> QED BY <2>1, <2>3, <2>4, <2>5, CoreDecides DEF Keeps, Safe, WellTyped
<1> QED BY <1>1, <1>2

(* An exhausted attempt stays open behind its fault. *)
LEMMA SetControlFaultSafe ==
    ASSUME NEW s, Safe(s), s.attempt # None, s.fault = None
    PROVE  LET t == SetControlFault(s)
           IN Keeps(s, t) /\ SameCore(s, t) /\ t.state = s.state
<1>1. s.attempt.command \in Commands
  BY DEF Safe, WellTyped, FieldsTyped, AttemptType
<1>2. SetControlFault(s) = SetPolicyFault(s, s.attempt.command, FALSE)
  BY DEF SetControlFault, SetPolicyFault
<1> QED BY <1>1, <1>2, SetPolicyFaultSafe

(* The open attempt is settled, dropped, made ready or turned into a fault; *)
(* what may be started stays as it is.                                      *)
LEMMA CheckControlConfirmationSafe ==
    ASSUME NEW s, Safe(s), NEW reading \in Readings, StartPossible(s, reading)
    PROVE  /\ Keeps(s, CheckControlConfirmation(s))
           /\ StartPossible(CheckControlConfirmation(s), reading)
<1> DEFINE t == CheckControlConfirmation(s)
           dropped == [s EXCEPT !.attempt = None]
           ready == [s.attempt EXCEPT !.retryReady = TRUE]
           retried == [s EXCEPT !.attempt = ready]
           delay == IF s.attempt.sendFailed THEN 0 ELSE ControlSettle
<1>1. /\ Keeps(s, dropped) /\ Safe(dropped) /\ StartPossible(dropped, reading)
      /\ dropped.on = s.on
  BY DropAttemptSafe DEF StartPossible, SessionCanStart, Keeps
<1>2. CASE t = s
  BY <1>2 DEF Keeps
<1>3. CASE t = dropped
  BY <1>1, <1>3
<1>4. CASE t = DiscardSession(dropped) /\ ~s.on
  <2>1. Keeps(dropped, t) /\ ~t.on
    BY <1>1, <1>4, DiscardSessionSafe
  <2> HIDE DEF t, dropped
  <2>2. Keeps(s, t) /\ StartPossible(t, reading)
    BY <1>1, <2>1, KeepsChains DEF StartPossible
  <2> QED BY <2>2 DEF t
<1>5. CASE t = SetControlFault(s) /\ s.attempt # None /\ s.fault = None
  BY <1>5, SetControlFaultSafe
     DEF StartPossible, SessionCanStart, SameCore
<1>6. CASE /\ t = ScheduleControl(retried, delay)
           /\ s.attempt # None /\ s.attempt.statusAfterSend
           /\ ~AttemptsExhausted(s)
  <2>1. s.attempt \in AttemptType
    BY <1>6 DEF Safe, WellTyped, FieldsTyped
  <2>2. ready \in AttemptType /\ SameAttempt(s.attempt, ready)
    BY <2>1 DEF AttemptType, SameAttempt
  <2>3. ready.attempts < MaxControlAttempts /\ ready.statusAfterSend
    BY <1>6, <2>1, <2>2, LimitAssumption
       DEF AttemptsExhausted, SameAttempt, AttemptType
  <2> HIDE DEF ready
  <2>4. /\ Keeps(s, retried) /\ Safe(retried)
        /\ retried.on = s.on /\ retried.session = s.session
        /\ retried.state = s.state /\ retried.mode = s.mode
    BY <1>6, <2>2, <2>3, MarkAttemptSafe DEF Keeps
  <2>5. delay \in Nat
    BY TimingAssumption
  <2> HIDE DEF retried, delay
  <2>6. Keeps(retried, t)
    BY <1>6, <2>4, <2>5, ScheduleControlSafe
  <2>7. t = retried \/ t = [retried EXCEPT !.pendingDue = delay]
    BY <1>6 DEF ScheduleControl
  <2> HIDE DEF t
  <2>8. SameCore(retried, t) /\ t.state = retried.state
    <3> DEFINE u == [retried EXCEPT !.pendingDue = delay]
    <3>1. SameCore(retried, u) /\ u.state = retried.state
      BY <2>4, <2>5, PendingDueSafe
    <3>2. SameCore(retried, retried)
      BY DEF SameCore
    <3> HIDE DEF u
    <3>3. t = retried \/ t = u
      BY <2>7 DEF u
    <3> QED BY <3>1, <3>2, <3>3
  <2>9. Keeps(s, t) /\ StartPossible(t, reading)
    BY <2>4, <2>6, <2>8, KeepsChains
       DEF StartPossible, SessionCanStart, SameCore
  <2> QED BY <2>9 DEF t
<1>7. \/ t = s \/ t = dropped
      \/ t = DiscardSession(dropped) /\ ~s.on
      \/ t = SetControlFault(s) /\ s.attempt # None /\ s.fault = None
      \/ /\ t = ScheduleControl(retried, delay)
         /\ s.attempt # None /\ s.attempt.statusAfterSend
         /\ ~AttemptsExhausted(s)
  BY Zenon DEF CheckControlConfirmation, AttemptWasCancelled
<1> QED BY <1>2, <1>3, <1>4, <1>5, <1>6, <1>7

(* All that step() does before it decides. *)
LEMMA SuperviseSafe ==
    ASSUME NEW s, Safe(s), NEW reading \in Readings
    PROVE  LET t == Supervise(s, reading)
           IN Keeps(s, t) /\ Alive(t) /\ StartPossible(t, reading)
<1> DEFINE s1 == CheckRequestedStartDeadline(s)
           s2 == CheckResponseTimeout(s1)
           s3 == CheckSessionExpiry(s2)
           s4 == ApplySensorPolicy(s3, reading)
           s5 == EnsureActiveSession(s4, reading)
           s6 == CheckControlConfirmation(s5)
           s7 == CompleteSensorStopIfOff(s6)
<1>1. Supervise(s, reading) = s7
  BY DEF Supervise
<1>2. Keeps(s, s1)
  BY CheckRequestedStartDeadlineSafe
<1> HIDE DEF s1
<1>3. Keeps(s1, s2)
  BY <1>2, CheckResponseTimeoutSafe DEF Keeps
<1> HIDE DEF s2
<1>4. Keeps(s2, s3) /\ Alive(s3)
  BY <1>3, CheckSessionExpirySafe DEF Keeps
<1> HIDE DEF s3
<1>5. Keeps(s3, s4) /\ StartPossible(s4, reading)
  BY <1>4, ApplySensorPolicySafe DEF Keeps
<1> HIDE DEF s4
<1>6. Keeps(s4, s5) /\ StartPossible(s5, reading)
  BY <1>5, EnsureActiveSessionSafe DEF Keeps
<1> HIDE DEF s5
<1>7. Keeps(s5, s6) /\ StartPossible(s6, reading)
  BY <1>6, CheckControlConfirmationSafe DEF Keeps
<1> HIDE DEF s6
<1>8. Keeps(s6, s7) /\ StartPossible(s7, reading)
  BY <1>7, CompleteSensorStopIfOffSafe
     DEF Keeps, StartPossible, SessionCanStart
<1> HIDE DEF s7
<1>9. Keeps(s3, s7)
  BY <1>5, <1>6, <1>7, <1>8, KeepsChains
<1>10. Keeps(s, s7)
  BY <1>2, <1>3, <1>4, <1>9, KeepsChains
<1> QED BY <1>1, <1>4, <1>8, <1>9, <1>10 DEF Keeps

-----------------------------------------------------------------------------
(* Sending.                                                                *)

(* A command may be opened if none is, or repeated if it is the open one. *)
MayOpen(s, command) ==
    /\ command = "start" => s.on
    /\ s.attempt # None =>
          /\ s.attempt.command = command /\ s.attempt.revision = s.revision
          /\ s.attempt.retryReady

(* The counted attempt belongs to the current revision and, if it is a     *)
(* START, to the current parameters; a session may still be missing.       *)
LEMMA OpenAttemptSafe ==
    ASSUME NEW s, Safe(s), NEW command \in Commands, MayOpen(s, command)
    PROVE  LET t == OpenAttempt(s, command)
           IN /\ WellTyped(t) /\ AlmostSound(t)
              /\ Ready(s) => Ready(t)
              /\ Alive(s) => Alive(t)
              /\ t.op = s.op /\ t.on = s.on /\ t.session = s.session
              /\ t.state = s.state /\ t.mode = s.mode
              /\ Parameters(t) = Parameters(s)
              /\ t.attempt # None /\ t.attempt.command = command
              /\ t.attempt.revision = s.revision
              /\ ~t.attempt.statusAfterSend
<1> DEFINE fresh == [command |-> command, attempts |-> 0,
                     revision |-> s.revision,
                     parameters |-> IF command = "start" THEN Parameters(s)
                                    ELSE None]
           open == IF s.attempt = None THEN fresh ELSE s.attempt
           a == [command |-> open.command, attempts |-> open.attempts + 1,
                 revision |-> open.revision, parameters |-> open.parameters,
                 age |-> 0, statusAfterSend |-> FALSE, sendFailed |-> FALSE,
                 retryReady |-> FALSE]
           t == [s EXCEPT !.attempt = a]
<1>1. OpenAttempt(s, command) = t
  BY DEF OpenAttempt
<1>2. Parameters(s) \in ParameterType /\ s.revision \in Nat
  BY DEF Safe, WellTyped, FieldsTyped, Parameters, ParameterType
<1>3. /\ open.command = command /\ open.revision = s.revision
      /\ open.attempts + 1 \in 1..MaxControlAttempts
      /\ open.parameters \in ParameterType \cup {None}
      /\ command = "start" => open.parameters = Parameters(s)
  <2>1. CASE s.attempt = None
    <3>1. open = fresh
      BY <2>1
    <3>2. 0 + 1 \in 1..MaxControlAttempts
      BY LimitAssumption
    <3> HIDE DEF open
    <3> QED BY <1>2, <3>1, <3>2
  <2>2. CASE s.attempt # None
    <3>1. open = s.attempt /\ s.attempt \in AttemptType
      BY <2>2 DEF Safe, WellTyped, FieldsTyped
    <3>2. s.attempt.attempts < MaxControlAttempts
      BY <2>2 DEF Safe, Sound, AlmostSound, RetryBounded, MayOpen
    <3>3. /\ s.attempt.command = command /\ s.attempt.revision = s.revision
          /\ command = "start" => s.on
      BY <2>2 DEF MayOpen
    <3>4. command = "start" => s.attempt.parameters = Parameters(s)
      BY <2>2, <3>3 DEF Safe, Sound, AlmostSound, StartAgrees, StartOpen
    <3> HIDE DEF open
    <3> QED BY <3>1, <3>2, <3>3, <3>4, LimitAssumption DEF AttemptType
  <2> QED BY <2>1, <2>2
<1> HIDE DEF fresh, open
<1>4. /\ a \in AttemptType /\ a.command = command /\ a.revision = s.revision
      /\ a.parameters = open.parameters /\ ~a.retryReady
      /\ ~a.statusAfterSend
  BY <1>2, <1>3, TimingAssumption DEF AttemptType
<1>5. a # None
  BY <1>4, NoneAttemptAssumption
<1> HIDE DEF a
<1>6. DOMAIN t = DOMAIN s
  BY Zenon
<1>7. FieldsTyped(t)
  BY <1>4 DEF Safe, WellTyped, Fields, FieldsTyped
<1>8. /\ t.on = s.on /\ t.latch = s.latch /\ t.op = s.op
      /\ t.restartBlocked = s.restartBlocked /\ t.revision = s.revision
      /\ t.mode = s.mode /\ t.target = s.target /\ t.runtime = s.runtime
      /\ t.raised = s.raised /\ t.session = s.session /\ t.state = s.state
      /\ t.attempt = a
  BY DEF Safe, WellTyped, Fields
<1>9. Ready(s) => Ready(t)
  BY DEF Safe, WellTyped, Fields, Ready
<1> HIDE DEF t
<1>10. AlmostSound(t) /\ (Alive(s) => Alive(t))
  BY <1>2, <1>3, <1>4, <1>8 DEF Safe, Sound, AlmostSound, Fenced, MayOpen,
     OpenStartWanted, StartOpen, StartAgrees, SessionAgrees, LatchAgrees,
     ClockExact, RetryBounded, Alive, Parameters
<1>11. WellTyped(t)
  BY <1>6, <1>7 DEF Safe, WellTyped
<1>12. Parameters(t) = Parameters(s)
  BY <1>8 DEF Parameters
<1> QED BY <1>1, <1>4, <1>5, <1>8, <1>9, <1>10, <1>11, <1>12

(* Sent or not, the attempt and the session stay what they were. *)
LEMMA TransmitControlSafe ==
    ASSUME NEW s, Safe(s), Ready(s), s.attempt # None,
           NEW command \in Commands, NEW sendOk \in BOOLEAN
    PROVE  LET t == TransmitControl(s, command, sendOk)
           IN /\ Safe(t) /\ Ready(t)
              /\ t.op \in StartOps => command = "start"
              /\ t.on = s.on /\ t.session = s.session
              /\ Parameters(t) = Parameters(s)
              /\ t.attempt # None
              /\ t.attempt.parameters = s.attempt.parameters
<1>1. CASE sendOk
  <2> DEFINE t == [s EXCEPT !.op = command, !.nextDue = Heartbeat]
  <2>1. TransmitControl(s, command, sendOk) = t
    BY <1>1 DEF TransmitControl
  <2>2. DOMAIN t = DOMAIN s
    BY Zenon
  <2>3. FieldsTyped(t)
    BY TimingAssumption DEF Safe, WellTyped, Fields, FieldsTyped, Operations,
       Commands
  <2>4. SameCore(s, t) /\ t.op = command
    BY DEF SameCore, Safe, WellTyped, Fields
  <2>5. Ready(t)
    BY DEF Ready, Safe, WellTyped, Fields
  <2> HIDE DEF t
  <2>6. Safe(t)
    BY <2>2, <2>3, <2>4, CoreDecides DEF Safe, WellTyped
  <2> QED BY <2>1, <2>4, <2>5, <2>6
          DEF SameCore, Parameters, StartOps, Commands
<1>2. CASE ~sendOk
  <2> DEFINE broken == MarkCommunicationError(s)
             a == [s.attempt EXCEPT !.sendFailed = TRUE]
             op == IF command = "start" THEN "start_error"
                   ELSE "shutdown_error"
             failed == [broken EXCEPT !.attempt = a]
             t == [broken EXCEPT !.attempt = a, !.op = op]
  <2>1. TransmitControl(s, command, sendOk) = t
    BY <1>2 DEF TransmitControl
  <2>2. s.attempt \in AttemptType
    BY DEF Safe, WellTyped, FieldsTyped
  <2>3. a \in AttemptType /\ SameAttempt(s.attempt, a)
        /\ a.retryReady = s.attempt.retryReady
        /\ a.statusAfterSend = s.attempt.statusAfterSend
    BY <2>2 DEF AttemptType, SameAttempt
  <2>4. a # None
    BY <2>3, NoneAttemptAssumption
  <2>5. a.retryReady => a.attempts < MaxControlAttempts /\ a.statusAfterSend
    BY <2>3 DEF Safe, Sound, AlmostSound, RetryBounded, SameAttempt
  <2>6. Safe(broken) /\ Ready(broken) /\ SameCore(s, broken)
    BY MarkKeeps, MarkCommunicationErrorSafe DEF Keeps, Safe, Sound
  <2>7. op \in {"start_error", "shutdown_error"}
        /\ (op \in StartOps => command = "start")
    BY DEF StartOps
  <2> HIDE DEF a, broken, op
  <2>8. /\ Safe(failed) /\ Ready(failed) /\ failed.attempt = a
        /\ failed.on = broken.on /\ failed.session = broken.session
        /\ failed.mode = broken.mode /\ failed.target = broken.target
    BY <2>3, <2>5, <2>6, MarkAttemptSafe DEF SameCore, Keeps
  <2>9. t = [failed EXCEPT !.op = op]
    OBVIOUS
  <2> HIDE DEF failed
  <2>10. DOMAIN t = DOMAIN failed
    BY <2>9, Zenon
  <2>11. FieldsTyped(t)
    <3>1. WellTyped(failed)
      BY <2>8 DEF Safe
    <3> HIDE DEF t
    <3> QED BY <2>7, <2>9, <3>1 DEF WellTyped, Fields, FieldsTyped, Operations
  <2>12. SameCore(failed, t) /\ Ready(t) /\ t.op = op
    BY <2>8, <2>9 DEF SameCore, Ready, Safe, WellTyped, Fields
  <2> HIDE DEF t
  <2>13. Safe(t)
    BY <2>8, <2>10, <2>11, <2>12, CoreDecides DEF Safe, WellTyped
  <2> QED BY <2>1, <2>3, <2>4, <2>6, <2>7, <2>8, <2>12, <2>13
          DEF SameCore, Parameters, SameAttempt
<1> QED BY <1>1, <1>2

(* A SHUTDOWN closes the fence behind itself. *)
LEMMA SendShutdownSafe ==
    ASSUME NEW s, Safe(s), Ready(s), MayOpen(s, "shutdown"), ~s.on,
           NEW sendOk \in BOOLEAN
    PROVE  LET t == SendShutdown(s, sendOk)
           IN Safe(t) /\ Ready(t) /\ t.op \notin StartOps
<1> DEFINE t == OpenAttempt(s, "shutdown")
           revision == t.attempt.revision
           u == [t EXCEPT !.restartBlocked = TRUE,
                          !.shutdownSentRev = revision]
<1>1. SendShutdown(s, sendOk) = TransmitControl(u, "shutdown", sendOk)
  BY DEF SendShutdown
<1>2. /\ WellTyped(t) /\ AlmostSound(t) /\ Ready(t) /\ ~t.on
      /\ t.attempt # None /\ t.attempt.command = "shutdown"
      /\ t.attempt.revision = s.revision
  BY OpenAttemptSafe DEF Commands
<1>3. revision \in Nat
  BY <1>2 DEF Safe, WellTyped, FieldsTyped
<1> HIDE DEF t, revision
<1>4. DOMAIN u = DOMAIN t
  BY Zenon
<1>5. FieldsTyped(u)
  BY <1>2, <1>3 DEF WellTyped, Fields, FieldsTyped
<1>6. /\ u.on = t.on /\ u.latch = t.latch /\ u.attempt = t.attempt
      /\ u.revision = t.revision /\ u.raised = t.raised
      /\ u.session = t.session
  BY <1>2 DEF WellTyped, Fields
<1>7. Ready(u)
  BY <1>2 DEF WellTyped, Fields, Ready
<1> HIDE DEF u
<1>8. Sound(u)
  BY <1>2, <1>6 DEF Sound, AlmostSound, Fenced, OpenStartWanted, StartOpen,
     StartAgrees, StartOwned, SessionAgrees, LatchAgrees, ClockExact,
     RetryBounded
<1>9. Safe(u)
  BY <1>2, <1>4, <1>5, <1>8 DEF Safe, WellTyped
<1> QED BY <1>1, <1>2, <1>6, <1>7, <1>9, TransmitControlSafe DEF Commands

(* A START leaves only with a live session that has its parameters. *)
LEMMA SendStartSafe ==
    ASSUME NEW s, Safe(s), Ready(s), Alive(s), MayOpen(s, "start"), s.on,
           NEW reading \in Readings, StartPossible(s, reading),
           NEW sendOk \in BOOLEAN
    PROVE  LET t == SendStart(s, reading, sendOk)
           IN Safe(t) /\ Ready(t) /\ StartIsSupervised(t)
<1> DEFINE t == OpenAttempt(s, "start")
           u == StartSession(t, reading)
           revision == t.attempt.revision
           v == [u EXCEPT !.startSentRev = revision]
           w == TransmitControl(v, "start", sendOk)
<1>1. /\ WellTyped(t) /\ AlmostSound(t) /\ Ready(t) /\ Alive(t) /\ t.on
      /\ t.session = s.session /\ t.state = s.state /\ t.mode = s.mode
      /\ t.attempt # None /\ t.attempt.command = "start"
      /\ t.attempt.revision = s.revision
      /\ Parameters(t) = Parameters(s)
  BY OpenAttemptSafe DEF Commands
<1>2. t.session = None => SessionCanStart(t, reading)
  BY <1>1 DEF StartPossible, SessionCanStart
<1>3. SendStart(s, reading, sendOk) = w
  BY <1>2 DEF SendStart
<1>4. revision \in Nat
  BY <1>1 DEF Safe, WellTyped, FieldsTyped
<1> HIDE DEF t, revision
<1>5. /\ Safe(u) /\ Ready(u) /\ Alive(u) /\ u.on /\ u.session # None
      /\ u.attempt = t.attempt
  <2>1. CASE t.session = None
    BY <1>1, <1>2, <2>1, StartSessionSafe
  <2>2. CASE t.session # None
    BY <1>1, <2>2 DEF StartSession, Safe, Sound, StartOwned
  <2> QED BY <2>1, <2>2
<1> HIDE DEF u
<1>6. /\ Safe(v) /\ Ready(v) /\ SameCore(u, v)
  <2>1. DOMAIN v = DOMAIN u
    BY Zenon
  <2>2. WellTyped(u)
    BY <1>5 DEF Safe
  <2>3. FieldsTyped(v)
    BY <1>4, <2>2 DEF WellTyped, Fields, FieldsTyped
  <2>4. SameCore(u, v)
    BY <2>2 DEF SameCore, WellTyped, Fields
  <2>5. Ready(v)
    BY <1>5, <2>2 DEF Ready, WellTyped, Fields
  <2> HIDE DEF v
  <2> QED BY <1>5, <2>1, <2>2, <2>3, <2>4, <2>5, CoreDecides
          DEF Safe, WellTyped
<1> HIDE DEF v
<1>7. /\ Safe(w) /\ Ready(w)
      /\ w.on = v.on /\ w.session = v.session
      /\ w.attempt # None /\ w.attempt.parameters = v.attempt.parameters
      /\ Parameters(w) = Parameters(v)
  BY <1>1, <1>5, <1>6, TransmitControlSafe DEF SameCore, Commands
<1> HIDE DEF w
<1>8. /\ v.on /\ v.session # None /\ StartOpen(v) /\ Alive(v)
  BY <1>1, <1>5, <1>6 DEF SameCore, Alive, StartOpen
<1>9. /\ v.attempt.parameters = Parameters(v)
      /\ ~v.session.expired /\ v.session.remaining > 0
      /\ v.session.mode = v.mode /\ v.session.target = v.target
  BY <1>6, <1>8 DEF Safe, Sound, AlmostSound, StartAgrees, Fenced, Alive,
     SessionAgrees
<1>10. StartIsSupervised(w)
  BY <1>7, <1>8, <1>9 DEF StartIsSupervised, Parameters
<1> QED BY <1>3, <1>7, <1>10

(* What evaluate_control() sets aside before it decides. *)
LEMMA StoppingAgeSafe ==
    ASSUME NEW s, Safe(s), NEW age \in Ages(StartingStopTimeout)
    PROVE  LET t == [s EXCEPT !.stoppingAge = age]
           IN Keeps(s, t) /\ SameCore(s, t) /\ t.state = s.state
<1> DEFINE t == [s EXCEPT !.stoppingAge = age]
<1>1. DOMAIN t = DOMAIN s
  BY Zenon
<1>2. FieldsTyped(t)
  BY DEF Safe, WellTyped, Fields, FieldsTyped
<1>3. SameCore(s, t) /\ t.state = s.state /\ t.op = s.op
  BY DEF SameCore, Safe, WellTyped, Fields
<1>4. Ready(s) => Ready(t)
  BY DEF Ready, Safe, WellTyped, Fields
<1> HIDE DEF t
<1>5. Keeps(s, t)
  BY <1>1, <1>2, <1>3, <1>4, CoreDecides DEF Safe, WellTyped, Keeps
<1> QED BY <1>3, <1>5 DEF t

(* The decision, with no attempt open. *)
LEMMA DecideSafe ==
    ASSUME NEW s, Safe(s), Ready(s), Alive(s), s.op = "none",
           s.attempt = None, NEW reading \in Readings,
           StartPossible(s, reading), NEW sendOk \in BOOLEAN
    PROVE  LET t == Decide(s, reading, sendOk)
           IN Safe(t) /\ Ready(t) /\ StartIsSupervised(t)
<1>1. StartIsSupervised(s)
  BY DEF StartIsSupervised, StartOps
<1>2. MayOpen(s, "shutdown") /\ (s.on => MayOpen(s, "start"))
  BY DEF MayOpen
<1>3. \A command \in Commands, recover \in BOOLEAN :
          LET t == SetPolicyFault(s, command, recover)
          IN Safe(t) /\ Ready(t) /\ t.op = "none"
  BY SetPolicyFaultSafe DEF Keeps
<1>4. \A t : t.op = "none" => StartIsSupervised(t)
  BY DEF StartIsSupervised, StartOps
<1>5. LET t == DecideOff(s, reading, sendOk)
      IN Safe(t) /\ Ready(t) /\ StartIsSupervised(t)
  BY <1>1, <1>2, <1>3, <1>4, SendStartSafe
     DEF DecideOff, SendControl, Commands
<1>6. LET t == DecideStarting(s)
      IN Safe(t) /\ Ready(t) /\ StartIsSupervised(t)
  <2>1. 0 \in Ages(StartingStopTimeout)
    BY TimingAssumption DEF Ages
  <2>2. LET t == [s EXCEPT !.stoppingAge = 0]
        IN Safe(t) /\ Ready(t) /\ t.op = "none"
    BY <2>1, StoppingAgeSafe DEF Keeps
  <2> QED BY <1>1, <1>3, <1>4, <2>2 DEF DecideStarting, Commands
<1>7. LET t == DecideRunning(s, reading, sendOk)
      IN Safe(t) /\ Ready(t) /\ StartIsSupervised(t)
  <2>1. ~s.on => LET t == SendShutdown(s, sendOk)
                 IN Safe(t) /\ Ready(t) /\ t.op \notin StartOps
    BY <1>2, SendShutdownSafe
  <2>2. \A t : t.op \notin StartOps => StartIsSupervised(t)
    BY DEF StartIsSupervised
  <2>3. SendControl(s, "shutdown", reading, sendOk) = SendShutdown(s, sendOk)
    BY DEF SendControl
  <2> QED BY <1>1, <1>3, <1>4, <2>1, <2>2, <2>3 DEF DecideRunning, Commands
<1>8. /\ "shutdown" \in Commands
      /\ s.state \in HeaterStates
  BY DEF Commands, Safe, WellTyped, FieldsTyped
<1> QED BY <1>1, <1>3, <1>4, <1>5, <1>6, <1>7, <1>8 DEF Decide

(* The decision of a step, whatever is open. *)
LEMMA EvaluateControlSafe ==
    ASSUME NEW s, Safe(s), Ready(s), Alive(s), s.op = "none",
           NEW reading \in Readings, StartPossible(s, reading),
           NEW sendOk \in BOOLEAN
    PROVE  LET t == EvaluateControl(s, reading, sendOk)
           IN Safe(t) /\ Ready(t) /\ StartIsSupervised(t)
<1> DEFINE t == [s EXCEPT !.pendingDue = None]
           age == IF t.state # "starting" \/ t.on THEN None ELSE t.stoppingAge
           u == [t EXCEPT !.stoppingAge = age]
<1>1. /\ Safe(t) /\ Ready(t) /\ Alive(t) /\ t.op = "none"
      /\ StartPossible(t, reading)
  BY PendingDueSafe DEF Keeps, StartPossible, SessionCanStart, SameCore
<1>2. EvaluateControl(s, reading, sendOk) =
          IF ~ControlAllowed(t) THEN t
          ELSE IF t.attempt # None
          THEN IF t.attempt.retryReady /\ AttemptMatchesRequest(t)
               THEN SendControl(t, t.attempt.command, reading, sendOk)
               ELSE t
          ELSE Decide(u, reading, sendOk)
  BY DEF EvaluateControl
<1> HIDE DEF t
<1>3. StartIsSupervised(t)
  BY <1>1 DEF StartIsSupervised, StartOps
<1>4. ASSUME t.attempt # None, t.attempt.retryReady,
             AttemptMatchesRequest(t)
      PROVE  LET w == SendControl(t, t.attempt.command, reading, sendOk)
             IN Safe(w) /\ Ready(w) /\ StartIsSupervised(w)
  <2>1. t.attempt.command \in Commands
    BY <1>1, <1>4 DEF Safe, WellTyped, FieldsTyped, AttemptType
  <2>2. CASE t.attempt.command = "start"
    <3>1. MayOpen(t, "start") /\ t.on
      BY <1>4, <2>2 DEF MayOpen, AttemptMatchesRequest
    <3> QED BY <1>1, <2>2, <3>1, SendStartSafe DEF SendControl
  <2>3. CASE t.attempt.command = "shutdown"
    <3>1. MayOpen(t, "shutdown") /\ ~t.on
      BY <1>4, <2>3 DEF MayOpen, AttemptMatchesRequest
    <3>2. LET w == SendShutdown(t, sendOk)
          IN Safe(w) /\ Ready(w) /\ w.op \notin StartOps
      BY <1>1, <3>1, SendShutdownSafe
    <3> QED BY <2>3, <3>2 DEF SendControl, StartIsSupervised
  <2> QED BY <2>1, <2>2, <2>3 DEF Commands
<1>5. ASSUME t.attempt = None
      PROVE  LET w == Decide(u, reading, sendOk)
             IN Safe(w) /\ Ready(w) /\ StartIsSupervised(w)
  <2>1. age \in Ages(StartingStopTimeout)
    BY <1>1 DEF Safe, WellTyped, FieldsTyped, Ages
  <2> HIDE DEF age
  <2>2. /\ Safe(u) /\ Ready(u) /\ Alive(u) /\ u.op = "none"
        /\ u.attempt = None /\ StartPossible(u, reading)
    BY <1>1, <1>5, <2>1, StoppingAgeSafe
       DEF Keeps, StartPossible, SessionCanStart, SameCore
  <2> HIDE DEF u
  <2> QED BY <2>2, DecideSafe
<1> HIDE DEF u
<1> QED BY <1>1, <1>2, <1>3, <1>4, <1>5

(* step(), from supervision to the last poll. *)
LEMMA StepControllerSafe ==
    ASSUME NEW s, Safe(s), Ready(s), s.op = "none",
           NEW reading \in Readings, NEW sendOk \in BOOLEAN
    PROVE  LET t == StepController(s, reading, sendOk)
           IN Safe(t) /\ Ready(t) /\ StartIsSupervised(t)
<1> DEFINE t == Supervise(s, reading)
           u == EvaluateControl(t, reading, sendOk)
           due == IF t.expected = None THEN 0 ELSE t.nextDue
           stale == [t EXCEPT !.pendingDue = None, !.nextDue = due]
<1>1. StepController(s, reading, sendOk) \in
          {PollIfDue(t, sendOk), PollIfDue(stale, sendOk), u}
      \/ /\ StepController(s, reading, sendOk) = PollIfDue(u, sendOk)
         /\ u.op = "none"
  BY Zenon DEF StepController
<1>2. /\ Safe(t) /\ Ready(t) /\ Alive(t) /\ t.op = "none"
      /\ StartPossible(t, reading)
  BY SuperviseSafe DEF Keeps
<1> HIDE DEF t
<1>3. Safe(u) /\ Ready(u) /\ StartIsSupervised(u)
  BY <1>2, EvaluateControlSafe
<1> HIDE DEF u
<1>4. Safe(stale) /\ Ready(stale) /\ stale.op = "none"
  <2>1. due \in Nat \cup {None}
    BY <1>2 DEF Safe, WellTyped, FieldsTyped
  <2> HIDE DEF due
  <2>2. DOMAIN stale = DOMAIN t
    BY Zenon
  <2>3. FieldsTyped(stale)
    BY <1>2, <2>1 DEF Safe, WellTyped, Fields, FieldsTyped
  <2>4. SameCore(t, stale) /\ stale.op = t.op
    BY <1>2 DEF SameCore, Safe, WellTyped, Fields
  <2>5. Ready(stale)
    BY <1>2 DEF Ready, Safe, WellTyped, Fields
  <2> HIDE DEF stale
  <2> QED BY <1>2, <2>2, <2>3, <2>4, <2>5, CoreDecides DEF Safe, WellTyped
<1> HIDE DEF stale
<1>5. "none" \notin StartOps
      /\ \A v : v.op \notin StartOps => StartIsSupervised(v)
  BY DEF StartOps, StartIsSupervised
<1>6. LET v == PollIfDue(t, sendOk)
      IN Safe(v) /\ Ready(v) /\ StartIsSupervised(v)
  BY <1>2, <1>5, PollIfDueSafe
<1>7. LET v == PollIfDue(stale, sendOk)
      IN Safe(v) /\ Ready(v) /\ StartIsSupervised(v)
  BY <1>4, <1>5, PollIfDueSafe
<1>8. u.op = "none" => LET v == PollIfDue(u, sendOk)
                       IN Safe(v) /\ Ready(v) /\ StartIsSupervised(v)
  BY <1>3, <1>5, PollIfDueSafe
<1> QED BY <1>1, <1>3, <1>6, <1>7, <1>8

-----------------------------------------------------------------------------
(* Receiving.                                                              *)

(* An unexpected stop withdraws the request, then drops the session. *)
LEMMA CancelUnexpectedStopSafe ==
    ASSUME NEW s, Safe(s), NEW previous, NEW recovering
    PROVE  Settles(s, CancelUnexpectedStop(s, previous, recovering))
<1>1. Settles(s, s)
  BY DEF Settles
<1>2. Settles(s, RequestStop(s)) /\ ~RequestStop(s).on
  BY RequestStopSafe
<1>3. Settles(RequestStop(s), DiscardSession(RequestStop(s)))
  BY <1>2, DiscardSessionSafe DEF Settles
<1> QED BY <1>1, <1>2, <1>3, SettlesChains DEF CancelUnexpectedStop

(* OFF answers the shutdown, drops the session and the latch. *)
LEMMA SettleOffSafe ==
    ASSUME NEW s, Safe(s)
    PROVE  Settles(s, SettleOff(s))
<1> DEFINE stopped == RequestStop(s)
           open == [stopped EXCEPT !.restartBlocked = FALSE]
           unblocked == IF s.restartBlocked THEN open ELSE s
           settled == IF /\ ~unblocked.on
                         /\ \/ unblocked.attempt = None
                            \/ unblocked.attempt.command # "start"
                      THEN DiscardSession(unblocked) ELSE unblocked
<1>1. SettleOff(s) = s \/ SettleOff(s) = CompleteSensorStopIfOff(settled)
  <2>1. unblocked.attempt = s.attempt
    BY RequestStopSafe DEF RequestStop, Safe, WellTyped, Fields
  <2> QED BY <2>1 DEF SettleOff
<1>2. Settles(s, stopped) /\ ~stopped.on
  BY RequestStopSafe
<1> HIDE DEF stopped
<1>3. Settles(s, open)
  <2>1. DOMAIN open = DOMAIN stopped
    BY Zenon
  <2>2. WellTyped(stopped) /\ Sound(stopped)
    BY <1>2 DEF Settles, Safe
  <2>3. FieldsTyped(open)
    BY <2>2 DEF WellTyped, Fields, FieldsTyped
  <2>4. /\ open.on = stopped.on /\ open.latch = stopped.latch
        /\ open.attempt = stopped.attempt /\ open.revision = stopped.revision
        /\ open.raised = stopped.raised /\ open.session = stopped.session
        /\ open.op = stopped.op
    BY <2>2 DEF WellTyped, Fields
  <2>5. LinkUp(stopped) => LinkUp(open)
    BY <2>2 DEF WellTyped, Fields, LinkUp
  <2> HIDE DEF open
  <2>6. Sound(open)
    BY <1>2, <2>2, <2>4 DEF Sound, AlmostSound, Fenced, OpenStartWanted,
       StartOpen, StartAgrees, StartOwned, SessionAgrees, LatchAgrees,
       ClockExact, RetryBounded
  <2>7. Settles(stopped, open)
    BY <2>1, <2>2, <2>3, <2>4, <2>5, <2>6 DEF Settles, Safe, WellTyped
  <2> QED BY <1>2, <2>7, SettlesChains
<1> HIDE DEF open
<1>4. Settles(s, unblocked) /\ Safe(unblocked)
  BY <1>3 DEF Settles
<1> HIDE DEF unblocked
<1>5. Settles(s, settled) /\ Safe(settled)
  BY <1>4, DiscardSessionSafe, SettlesChains DEF Settles
<1> HIDE DEF settled
<1>6. Settles(s, CompleteSensorStopIfOff(settled))
  BY <1>5, CompleteSensorStopIfOffSafe, SettlesChains
<1>7. Settles(s, s)
  BY DEF Settles
<1> QED BY <1>1, <1>6, <1>7

(* A cleared fault takes the open attempt with it. *)
LEMMA ClearControlFaultSafe ==
    ASSUME NEW s, Safe(s)
    PROVE  /\ Settles(s, ClearControlFault(s))
           /\ ClearControlFault(s).on = s.on
<1> DEFINE cleared == [s EXCEPT !.fault = None]
           t == [cleared EXCEPT !.attempt = None]
<1>1. ClearControlFault(s) = t
  BY DEF ClearControlFault
<1>2. Settles(s, cleared) /\ cleared.on = s.on
  <2>1. DOMAIN cleared = DOMAIN s
    BY Zenon
  <2>2. FieldsTyped(cleared)
    BY DEF Safe, WellTyped, Fields, FieldsTyped
  <2>3. SameCore(s, cleared) /\ cleared.op = s.op
    BY DEF SameCore, Safe, WellTyped, Fields
  <2>4. LinkUp(s) => LinkUp(cleared)
    BY DEF LinkUp, Safe, WellTyped, Fields
  <2> HIDE DEF cleared
  <2> QED BY <2>1, <2>2, <2>3, <2>4, CoreDecides
          DEF Settles, Safe, WellTyped, SameCore
<1> HIDE DEF cleared
<1>3. Settles(cleared, t) /\ t.on = cleared.on
  BY <1>2, DropAttemptSafe DEF Settles
<1> HIDE DEF t
<1> QED BY <1>1, <1>2, <1>3, SettlesChains

(* A fault is cleared by what the heater reports. *)
LEMMA SettleFaultSafe ==
    ASSUME NEW s, Safe(s)
    PROVE  Settles(s, SettleFault(s))
<1> DEFINE t == ClearControlFault(s)
<1>1. Settles(s, t) /\ Safe(t) /\ t.on = s.on
  BY ClearControlFaultSafe DEF Settles
<1>2. Settles(s, s)
  BY DEF Settles
<1>3. \/ SettleFault(s) = s \/ SettleFault(s) = t
      \/ SettleFault(s) = DiscardSession(t) /\ ~s.on
  BY DEF SettleFault
<1> HIDE DEF t
<1>4. ~s.on => Settles(s, DiscardSession(t))
  BY <1>1, DiscardSessionSafe, SettlesChains
<1> QED BY <1>1, <1>2, <1>3, <1>4

(* An open attempt is confirmed, or marked as answered. *)
LEMMA SettleAttemptSafe ==
    ASSUME NEW s, Safe(s)
    PROVE  Settles(s, SettleAttempt(s))
<1> DEFINE a == [s.attempt EXCEPT !.statusAfterSend = TRUE]
           dropped == [s EXCEPT !.attempt = None]
           marked == [s EXCEPT !.attempt = a]
<1>1. Settles(s, s)
  BY DEF Settles
<1>2. Settles(s, dropped)
  BY DropAttemptSafe
<1>3. CASE s.attempt # None
  <2>1. s.attempt \in AttemptType
    BY <1>3 DEF Safe, WellTyped, FieldsTyped
  <2>2. /\ a \in AttemptType /\ SameAttempt(s.attempt, a)
        /\ a.retryReady = s.attempt.retryReady /\ a.statusAfterSend
    BY <2>1 DEF AttemptType, SameAttempt
  <2>3. a.retryReady => a.attempts < MaxControlAttempts /\ a.statusAfterSend
    BY <1>3, <2>2 DEF Safe, Sound, AlmostSound, RetryBounded, SameAttempt
  <2>4. SettleAttempt(s) \in {dropped, marked}
    BY <1>3 DEF SettleAttempt
  <2> HIDE DEF a
  <2>5. Settles(s, marked)
    BY <1>3, <2>2, <2>3, MarkAttemptSafe
  <2> HIDE DEF dropped, marked
  <2> QED BY <1>2, <2>4, <2>5
<1>4. CASE s.attempt = None
  BY <1>1, <1>4 DEF SettleAttempt
<1> QED BY <1>3, <1>4

(* An active heater confirms the session. *)
LEMMA ConfirmSessionSafe ==
    ASSUME NEW s, Safe(s)
    PROVE  Settles(s, ConfirmSession(s))
<1>1. CASE ~(s.session # None /\ s.state \in Active)
  BY <1>1 DEF ConfirmSession, Settles
<1>2. CASE s.session # None /\ s.state \in Active
  <2> DEFINE confirmed == [s.session EXCEPT !.confirmed = TRUE]
             t == [s EXCEPT !.session = confirmed]
  <2>1. ConfirmSession(s) = t
    BY <1>2 DEF ConfirmSession
  <2>2. s.session \in SessionType
    BY <1>2 DEF Safe, WellTyped, FieldsTyped
  <2>3. confirmed \in SessionType
    BY <2>2 DEF SessionType
  <2>4. /\ confirmed.id = s.session.id /\ confirmed.mode = s.session.mode
        /\ confirmed.target = s.session.target
        /\ confirmed.runtime = s.session.runtime
        /\ confirmed.age = s.session.age
        /\ confirmed.remaining = s.session.remaining
        /\ confirmed.expired = s.session.expired
    BY <2>2 DEF SessionType
  <2>5. confirmed # None
    BY <2>3, NoneSessionAssumption
  <2> HIDE DEF confirmed
  <2>6. DOMAIN t = DOMAIN s
    BY Zenon
  <2>7. FieldsTyped(t)
    BY <2>3 DEF Safe, WellTyped, Fields, FieldsTyped
  <2>8. /\ t.on = s.on /\ t.latch = s.latch /\ t.op = s.op
        /\ t.restartBlocked = s.restartBlocked /\ t.attempt = s.attempt
        /\ t.revision = s.revision /\ t.mode = s.mode
        /\ t.target = s.target /\ t.runtime = s.runtime
        /\ t.raised = s.raised /\ t.session = confirmed
    BY DEF Safe, WellTyped, Fields
  <2>9. LinkUp(s) => LinkUp(t)
    BY DEF LinkUp, Safe, WellTyped, Fields
  <2> HIDE DEF t
  <2>10. Sound(t)
    BY <1>2, <2>4, <2>5, <2>8 DEF Safe, Sound, AlmostSound, Fenced,
       OpenStartWanted, StartOpen, StartAgrees, StartOwned, SessionAgrees,
       LatchAgrees, ClockExact, RetryBounded, Parameters
  <2> QED BY <2>1, <2>6, <2>7, <2>8, <2>9, <2>10
          DEF Settles, Safe, WellTyped
<1> QED BY <1>1, <1>2

(* All consequences of a status, in the order of the code. *)
LEMMA ProcessControlConfirmationSafe ==
    ASSUME NEW s, Safe(s), NEW previous, NEW recovering
    PROVE  Settles(s, ProcessControlConfirmation(s, previous, recovering))
<1> DEFINE s1 == CancelUnexpectedStop(s, previous, recovering)
           s2 == SettleOff(s1)
           s3 == SettleFault(s2)
           s4 == SettleAttempt(s3)
           s5 == ConfirmSession(s4)
<1>1. Settles(s, s1)
  BY CancelUnexpectedStopSafe
<1>2. ProcessControlConfirmation(s, previous, recovering) = s5
  BY DEF ProcessControlConfirmation
<1> HIDE DEF s1
<1>3. Settles(s1, s2)
  BY <1>1, SettleOffSafe DEF Settles
<1> HIDE DEF s2
<1>4. Settles(s2, s3)
  BY <1>3, SettleFaultSafe DEF Settles
<1> HIDE DEF s3
<1>5. Settles(s3, s4)
  BY <1>4, SettleAttemptSafe DEF Settles
<1> HIDE DEF s4
<1>6. Settles(s4, s5)
  BY <1>5, ConfirmSessionSafe DEF Settles
<1> HIDE DEF s5
<1> QED BY <1>1, <1>2, <1>3, <1>4, <1>5, <1>6, SettlesChains

(* An INIT answer opens the link anew. *)
LEMMA HandleInitSafe ==
    ASSUME NEW s, Safe(s), Ready(s)
    PROVE  LET t == HandleInit(s)
           IN Safe(t) /\ Ready(t) /\ t.op = s.op
<1> DEFINE t == [s EXCEPT !.comm = "ok",
                   !.initialized = TRUE, !.synchronized = FALSE,
                   !.state = "unknown", !.phase = "wait_status",
                   !.expected = None, !.waitAge = None,
                   !.nextDue = 0, !.pendingDue = None]
<1>1. HandleInit(s) \in {s, MarkCommunicationError(s), t}
  BY Zenon DEF HandleInit
<1>2. DOMAIN t = DOMAIN s
  BY Zenon
<1>3. FieldsTyped(t)
  BY DEF Safe, WellTyped, Fields, FieldsTyped, Phases, HeaterStates, Ages
<1>4. SameCore(s, t) /\ t.op = s.op
  BY DEF SameCore, Safe, WellTyped, Fields
<1>5. Ready(t)
  BY DEF Ready, Safe, WellTyped, Fields
<1> HIDE DEF t
<1>6. Safe(t)
  BY <1>2, <1>3, <1>4, CoreDecides DEF Safe, WellTyped
<1> QED BY <1>1, <1>4, <1>5, <1>6, MarkKeeps DEF Keeps

(* The fields a STATUS writes, apart from how their values are found. *)
LEMMA StatusFieldsTyped ==
    ASSUME NEW s, WellTyped(s), NEW state \in HeaterStates,
           NEW sync \in BOOLEAN, NEW streak \in 0..InvalidFrameThreshold,
           NEW strikes \in 0..InvalidFrameThreshold,
           NEW age \in Ages(Heartbeat), NEW due \in Nat,
           None \in Ages(ResponseTimeout)
    PROVE  FieldsTyped([s EXCEPT
                  !.comm = "ok", !.state = state, !.synchronized = sync,
                  !.statusAge = age,
                  !.expected = None, !.waitAge = None, !.nextDue = due,
                  !.validStreak = streak, !.strikes = strikes])
BY DEF WellTyped, Fields, FieldsTyped

(* A STATUS answer makes the link live. *)
LEMMA AcceptStatusSafe ==
    ASSUME NEW s, Safe(s), s.initialized, NEW state \in HeaterStates
    PROVE  LET t == AcceptStatus(s, state)
           IN Safe(t) /\ LinkUp(t) /\ t.op = s.op
<1> DEFINE streak == IF s.commFault THEN 1
                     ELSE AtMost(s.validStreak + 1, InvalidFrameThreshold)
           strikes == IF s.commFault \/ streak >= InvalidFrameThreshold
                      THEN 0 ELSE s.strikes
           sync == s.initialized /\ state # "unknown"
           t == [s EXCEPT
                  !.comm = "ok", !.state = state, !.synchronized = sync,
                  !.statusAge = 0,
                  !.expected = None, !.waitAge = None, !.nextDue = Heartbeat,
                  !.validStreak = streak, !.strikes = strikes]
<1>1. AcceptStatus(s, state) = t
  BY DEF AcceptStatus
<1>2. /\ streak \in 0..InvalidFrameThreshold
      /\ strikes \in 0..InvalidFrameThreshold
  BY LimitAssumption DEF AtMost, Safe, WellTyped, FieldsTyped
<1>3. sync \in BOOLEAN /\ (sync => state \in KnownStates)
  BY DEF HeaterStates
<1> HIDE DEF streak, strikes, sync
<1>4. DOMAIN t = DOMAIN s
  BY Zenon
<1>5. FieldsTyped(t)
  <2>1. /\ 0 \in Ages(Heartbeat) /\ None \in Ages(ResponseTimeout)
        /\ Heartbeat \in Nat
    BY TimingAssumption DEF Ages
  <2>2. WellTyped(s)
    BY DEF Safe
  <2> QED BY <1>2, <1>3, <2>1, <2>2, StatusFieldsTyped
<1>6. SameCore(s, t) /\ t.op = s.op
  BY DEF SameCore, Safe, WellTyped, Fields
<1>7. LinkUp(t)
  BY <1>3 DEF LinkUp, Safe, WellTyped, Fields
<1> HIDE DEF t
<1> QED BY <1>1, <1>4, <1>5, <1>6, <1>7, CoreDecides DEF Safe, WellTyped

(* READY is declared on a live link only. *)
LEMMA SettleSynchronizationSafe ==
    ASSUME NEW s, Safe(s), LinkUp(s)
    PROVE  LET t == SettleSynchronization(s)
           IN Safe(t) /\ Ready(t) /\ t.op = s.op
<1> DEFINE u == ScheduleControl(s, ControlSettle)
           phase == IF u.fault = None THEN "ready" ELSE "error"
           synced == [u EXCEPT !.phase = phase, !.commFault = FALSE]
           waiting == [s EXCEPT !.phase = "wait_status", !.pendingDue = None]
<1>1. /\ Settles(s, u) /\ u.synchronized = s.synchronized
      /\ u.fault = s.fault
  BY ScheduleControlSafe, TimingAssumption
     DEF ScheduleControl, Safe, WellTyped, Fields
<1>2. SettleSynchronization(s) = (IF s.synchronized THEN synced ELSE waiting)
  BY <1>1 DEF SettleSynchronization
<1>3. CASE s.synchronized
  <2>1. /\ phase \in Phases
        /\ phase = "ready" => u.fault = None
    BY DEF Phases
  <2> HIDE DEF u, phase
  <2>2. Safe(u) /\ WellTyped(u) /\ LinkUp(u) /\ u.synchronized
    BY <1>1, <1>3 DEF Settles, Safe
  <2>3. DOMAIN synced = DOMAIN u
    BY Zenon
  <2>4. FieldsTyped(synced)
    <3>1. WellTyped(u) /\ phase \in Phases
      BY <2>1, <2>2
    <3> QED BY <3>1 DEF WellTyped, Fields, FieldsTyped
  <2>5. SameCore(u, synced) /\ synced.op = u.op
    BY <2>2 DEF SameCore, WellTyped, Fields
  <2>6. Ready(synced)
    BY <2>1, <2>2 DEF Ready, LinkUp, WellTyped, Fields
  <2> HIDE DEF synced
  <2> QED BY <1>1, <1>2, <1>3, <2>2, <2>3, <2>4, <2>5, <2>6, CoreDecides
          DEF Settles, Safe, WellTyped
<1>4. CASE ~s.synchronized
  <2>1. DOMAIN waiting = DOMAIN s
    BY Zenon
  <2>2. FieldsTyped(waiting)
    BY DEF Safe, WellTyped, Fields, FieldsTyped, Phases
  <2>3. SameCore(s, waiting) /\ waiting.op = s.op /\ Ready(waiting)
    BY DEF SameCore, Ready, Safe, WellTyped, Fields
  <2> HIDE DEF waiting
  <2> QED BY <1>2, <1>4, <2>1, <2>2, <2>3, CoreDecides DEF Safe, WellTyped
<1> QED BY <1>3, <1>4

(* A STATUS answer, from its acceptance to READY. *)
LEMMA HandleStatusSafe ==
    ASSUME NEW s, Safe(s), Ready(s), NEW state \in HeaterStates
    PROVE  LET t == HandleStatus(s, state)
           IN Safe(t) /\ Ready(t) /\ t.op = s.op
<1> DEFINE s1 == AcceptStatus(s, state)
           s2 == ProcessControlConfirmation(s1, s.state, s.commFault)
           s3 == SettleSynchronization(s2)
<1>1. \/ HandleStatus(s, state) \in {s, MarkCommunicationError(s)}
      \/ s.initialized /\ HandleStatus(s, state) = s3
  BY Zenon DEF HandleStatus
<1>2. CASE s.initialized
  <2>1. Safe(s1) /\ LinkUp(s1) /\ s1.op = s.op
    BY <1>2, AcceptStatusSafe
  <2> HIDE DEF s1
  <2>2. Safe(s2) /\ LinkUp(s2) /\ s2.op = s1.op
    BY <2>1, ProcessControlConfirmationSafe DEF Settles
  <2> HIDE DEF s2
  <2>3. Safe(s3) /\ Ready(s3) /\ s3.op = s2.op
    BY <2>2, SettleSynchronizationSafe
  <2> QED BY <1>1, <2>1, <2>2, <2>3, MarkKeeps DEF Keeps
<1>3. CASE ~s.initialized
  BY <1>1, <1>3, MarkKeeps DEF Keeps
<1> QED BY <1>2, <1>3

-----------------------------------------------------------------------------
(* The actions.                                                            *)

(* Each method first forgets the operation of the one before. *)
LEMMA BeginSafe ==
    ASSUME NEW s, Safe(s), Ready(s)
    PROVE  LET t == Begin(s)
           IN Safe(t) /\ Ready(t) /\ t.op = "none" /\ SameCore(s, t)
<1> DEFINE t == Begin(s)
<1>1. DOMAIN t = DOMAIN s
  BY Zenon DEF Begin
<1>2. FieldsTyped(t)
  BY DEF Begin, Safe, WellTyped, Fields, FieldsTyped, Operations
<1>3. SameCore(s, t) /\ t.op = "none"
  BY DEF Begin, SameCore, Safe, WellTyped, Fields
<1>4. Ready(t)
  BY DEF Begin, Ready, Safe, WellTyped, Fields
<1> HIDE DEF t
<1>5. Safe(t)
  BY <1>1, <1>2, <1>3, CoreDecides DEF Safe, WellTyped
<1> QED BY <1>3, <1>4, <1>5 DEF t

(* The inductive invariant: Safe(), Ready() and the supervision of the     *)
(* operation just made.                                                    *)
IInv == Safe(ctl) /\ Ready(ctl) /\ StartIsSupervised(ctl)

(* The state an action leaves behind without having sent a START. *)
Quiet(t) == Safe(t) /\ Ready(t) /\ t.op \notin StartOps

(* The object is safe as it is constructed. *)
LEMMA InitSafe == Init => IInv
<1> SUFFICES ASSUME Init PROVE IInv
  OBVIOUS
<1> DEFINE mode == CHOOSE m \in Modes : TRUE
           target == CHOOSE t \in Targets : TRUE
           runtime == CHOOSE n \in Runtimes : TRUE
<1>1. mode \in Modes /\ target \in Targets /\ runtime \in 1..MaximumRuntime
  BY LimitAssumption
<1>2. ctl = InitialController
  BY DEF Init
<1> HIDE DEF mode, target, runtime
<1>3. DOMAIN ctl = Fields
  BY <1>2 DEF InitialController, Fields
<1>4. FieldsTyped(ctl)
  BY <1>1, <1>2, LimitAssumption DEF InitialController, FieldsTyped,
     Operations, Phases, HeaterStates, Ages, mode, target, runtime
<1>5. Sound(ctl)
  BY <1>2 DEF InitialController, Sound, AlmostSound, Fenced, OpenStartWanted,
     StartOpen, StartAgrees, StartOwned, SessionAgrees, LatchAgrees,
     ClockExact, RetryBounded
<1>6. Ready(ctl) /\ StartIsSupervised(ctl)
  BY <1>2 DEF InitialController, Ready, StartIsSupervised, StartOps
<1> QED BY <1>3, <1>4, <1>5, <1>6 DEF IInv, Safe, WellTyped

(* A frame of whatever kind sends nothing. *)
LEMMA HandleFrameSafe ==
    ASSUME IInv, HandleFrame
    PROVE  Quiet(ctl')
<1> DEFINE s == Begin(ctl)
<1>1. Safe(s) /\ Ready(s) /\ s.op = "none"
  BY BeginSafe DEF IInv
<1>2. \/ ctl' = RecordInvalidFrame(s)
      \/ ctl' = MarkCommunicationError(RecordInvalidFrame(s))
      \/ ctl' = HandleInit(s)
      \/ \E state \in HeaterStates : ctl' = HandleStatus(s, state)
  BY DEF HandleFrame, InvalidFrame, RefusedFrame, InitFrame, StatusFrame
<1> HIDE DEF s
<1>3. "none" \notin StartOps
  BY DEF StartOps
<1>4. Keeps(s, RecordInvalidFrame(s))
  BY <1>1, RecordInvalidFrameSafe
<1>5. Keeps(s, MarkCommunicationError(RecordInvalidFrame(s)))
  BY <1>4, MarkKeeps, KeepsChains DEF Keeps
<1>6. LET t == HandleInit(s) IN Safe(t) /\ Ready(t) /\ t.op = s.op
  BY <1>1, HandleInitSafe
<1>7. \A state \in HeaterStates :
          LET t == HandleStatus(s, state)
          IN Safe(t) /\ Ready(t) /\ t.op = s.op
  BY <1>1, HandleStatusSafe
<1> QED BY <1>1, <1>2, <1>3, <1>4, <1>5, <1>6, <1>7 DEF Quiet, Keeps

(* The public report of a broken link. *)
LEMMA ReportCommunicationErrorSafe ==
    ASSUME IInv, ReportCommunicationError
    PROVE  Quiet(ctl')
BY BeginSafe, MarkKeeps
   DEF IInv, ReportCommunicationError, Quiet, Keeps, StartOps

(* The public request_stop(). *)
LEMMA StopSafe ==
    ASSUME IInv, Stop
    PROVE  Quiet(ctl')
BY BeginSafe, RequestStopSafe DEF IInv, Stop, Quiet, Keeps, StartOps

(* A request is accepted with nothing left of the one before. *)
LEMMA RequestStartSafe ==
    ASSUME IInv, RequestStart
    PROVE  Quiet(ctl')
<1> DEFINE s == Begin(ctl)
<1>1. Safe(s) /\ Ready(s) /\ s.op = "none" /\ SameCore(ctl, s)
  BY BeginSafe DEF IInv
<1>2. PICK mode \in Modes, target \in Targets, runtime \in Runtimes,
           deadline \in Deadlines :
        ctl' = [s EXCEPT !.on = TRUE, !.mode = mode, !.target = target,
                         !.runtime = runtime, !.deadline = deadline,
                         !.revision = ctl.revision + 1]
  BY DEF RequestStart
<1>3. /\ s.latch = None /\ s.attempt = None /\ ~s.restartBlocked
      /\ s.session = None
  BY <1>1 DEF RequestStart, StartAccepted, SameCore
<1> DEFINE revision == ctl.revision + 1
           t == [s EXCEPT !.on = TRUE, !.mode = mode, !.target = target,
                          !.runtime = runtime, !.deadline = deadline,
                          !.revision = revision]
<1>4. ctl' = t
  BY <1>2
<1>5. /\ revision \in Nat /\ runtime \in 1..MaximumRuntime
      /\ deadline \in Int \cup {None}
  BY LimitAssumption DEF IInv, Safe, WellTyped, FieldsTyped
<1> HIDE DEF s, revision
<1>6. DOMAIN t = DOMAIN s
  BY Zenon
<1>7. WellTyped(s)
  BY <1>1 DEF Safe
<1>8. FieldsTyped(t)
  BY <1>5, <1>7 DEF WellTyped, Fields, FieldsTyped
<1>9. /\ t.latch = s.latch /\ t.restartBlocked = s.restartBlocked
      /\ t.attempt = s.attempt /\ t.session = s.session
      /\ t.raised = s.raised /\ t.op = s.op
  BY <1>7 DEF WellTyped, Fields
<1>10. Ready(t)
  BY <1>1, <1>7 DEF Ready, WellTyped, Fields
<1> HIDE DEF t
<1>11. Sound(t)
  BY <1>1, <1>3, <1>9 DEF Safe, Sound, AlmostSound, Fenced,
     OpenStartWanted, StartOpen, StartAgrees, StartOwned, SessionAgrees,
     LatchAgrees, ClockExact, RetryBounded
<1> QED BY <1>1, <1>4, <1>6, <1>7, <1>8, <1>9, <1>10, <1>11
        DEF Quiet, Safe, WellTyped, StartOps

(* An adjusted session stays the session of the adjusted request. *)
LEMMA UpdateActiveSessionSafe ==
    ASSUME IInv, UpdateActiveSession
    PROVE  Quiet(ctl')
<1> DEFINE s == Begin(ctl)
<1>1. Safe(s) /\ Ready(s) /\ s.op = "none" /\ SameCore(ctl, s)
  BY BeginSafe DEF IInv
<1>2. PICK target \in Targets, extend \in {0, ExtendBy} :
        /\ ExtensionAllowed(ctl, extend)
        /\ ctl' = [s EXCEPT
                !.target = target, !.runtime = ctl.runtime + extend,
                !.revision = ctl.revision + 1,
                !.session = AdjustSession(ctl.session, target, extend)]
  BY DEF UpdateActiveSession
<1>3. /\ s.session # None /\ s.attempt = None
      /\ s.session.mode = s.mode /\ s.session.runtime = s.runtime
      /\ s.session = ctl.session /\ s.runtime = ctl.runtime
      /\ s.revision = ctl.revision
  BY <1>1 DEF UpdateActiveSession, SessionAdjustable, SameCore
<1> DEFINE revision == ctl.revision + 1
           runtime == ctl.runtime + extend
           session == AdjustSession(ctl.session, target, extend)
           t == [s EXCEPT !.target = target, !.runtime = runtime,
                          !.revision = revision, !.session = session]
<1>4. ctl' = t
  BY <1>2
<1>5. WellTyped(s) /\ s.session \in SessionType /\ extend \in Nat
  BY <1>1, <1>3, LimitAssumption DEF Safe, WellTyped, FieldsTyped
<1>6. /\ revision \in Nat
      /\ runtime \in 1..MaximumRuntime
  BY <1>2, <1>3, <1>5, LimitAssumption
     DEF ExtensionAllowed, WellTyped, FieldsTyped
<1>7. /\ session.id = s.session.id /\ session.mode = s.session.mode
      /\ session.target = target /\ session.runtime = runtime
      /\ session.age = s.session.age
      /\ session.remaining = s.session.remaining + extend
      /\ session.confirmed = s.session.confirmed
      /\ session.expired = s.session.expired
  BY <1>3, <1>5 DEF AdjustSession, SessionType
<1>8. session \in SessionType
  <2>1. runtime = s.session.runtime + extend
    BY <1>3
  <2>2. s.session.runtime + extend \in 1..MaximumRuntime
    BY <1>6, <2>1
  <2> DEFINE a == s.session
             r == a.runtime + extend
             m == a.remaining + extend
             a1 == [a EXCEPT !.target = target]
             a2 == [a1 EXCEPT !.runtime = r]
             a3 == [a2 EXCEPT !.remaining = m]
  <2>3. session = a3
    BY <1>3 DEF AdjustSession
  <2>4. a \in SessionType /\ r \in 1..MaximumRuntime /\ m \in Nat
    BY <1>5, <2>2 DEF SessionType
  <2> HIDE DEF session, a, r, m
  <2>5. a1 \in SessionType
    BY <2>4 DEF SessionType
  <2> HIDE DEF a1
  <2>6. a2 \in SessionType
    BY <2>4, <2>5 DEF SessionType
  <2> HIDE DEF a2
  <2>7. a3 \in SessionType
    BY <2>4, <2>6 DEF SessionType
  <2> QED BY <2>3, <2>7
<1>9. session # None
  BY <1>8, NoneSessionAssumption
<1> HIDE DEF s, revision, runtime, session
<1>10. DOMAIN t = DOMAIN s
  BY Zenon
<1>11. FieldsTyped(t)
  BY <1>5, <1>6, <1>8 DEF WellTyped, Fields, FieldsTyped
<1>12. /\ t.on = s.on /\ t.latch = s.latch
       /\ t.restartBlocked = s.restartBlocked
       /\ t.attempt = s.attempt /\ t.mode = s.mode
       /\ t.target = target /\ t.runtime = runtime /\ t.session = session
       /\ t.raised = s.raised /\ t.op = s.op
  BY <1>5 DEF WellTyped, Fields
<1>13. Ready(t)
  BY <1>1, <1>5 DEF Ready, WellTyped, Fields
<1> HIDE DEF t
<1>14. Fenced(t) /\ LatchAgrees(t) /\ ~t.raised
  BY <1>1, <1>3, <1>7, <1>12
     DEF Safe, Sound, AlmostSound, Fenced, LatchAgrees
<1>15. OpenStartWanted(t) /\ StartAgrees(t) /\ StartOwned(t)
       /\ RetryBounded(t)
  BY <1>3, <1>12
     DEF OpenStartWanted, StartOpen, StartAgrees, StartOwned, RetryBounded
<1>16. SessionAgrees(t)
  BY <1>3, <1>7, <1>12 DEF SessionAgrees
<1>17. ClockExact(t)
  <2>1. s.session.age + s.session.remaining = s.session.runtime
    BY <1>1, <1>3 DEF Safe, Sound, AlmostSound, ClockExact
  <2>2. runtime = s.session.runtime + extend
    BY <1>3 DEF runtime
  <2>3. s.session.age \in Nat /\ s.session.remaining \in Nat
    BY <1>5 DEF SessionType
  <2> QED BY <1>5, <1>7, <1>12, <2>1, <2>2, <2>3 DEF ClockExact
<1> QED BY <1>1, <1>4, <1>5, <1>10, <1>11, <1>12, <1>13, <1>14, <1>15,
           <1>16, <1>17
        DEF Quiet, Safe, Sound, AlmostSound, WellTyped, StartOps

(* A retry opens a new revision and drops the failed attempt. *)
LEMMA RetryControlFaultSafe ==
    ASSUME IInv, RetryControlFault
    PROVE  Quiet(ctl')
<1> DEFINE s == Begin(ctl)
           revision == ctl.revision + 1
           due == IF ctl.expected = None THEN 0 ELSE ctl.nextDue
           t == [s EXCEPT !.revision = revision,
                    !.fault = None, !.attempt = None, !.pendingDue = None,
                    !.phase = "wait_status", !.nextDue = due]
<1>1. Safe(s) /\ s.op = "none"
  BY BeginSafe DEF IInv
<1>2. ctl' = t
  BY DEF RetryControlFault
<1>3. revision \in Nat /\ due \in Nat \cup {None}
  BY DEF IInv, Safe, WellTyped, FieldsTyped
<1> HIDE DEF s, revision, due
<1>4. DOMAIN t = DOMAIN s
  BY Zenon
<1>5. WellTyped(s)
  BY <1>1 DEF Safe
<1>6. FieldsTyped(t)
  BY <1>3, <1>5 DEF WellTyped, Fields, FieldsTyped, Phases
<1>7. /\ t.on = s.on /\ t.latch = s.latch /\ t.op = s.op
      /\ t.restartBlocked = s.restartBlocked
      /\ t.mode = s.mode /\ t.target = s.target /\ t.runtime = s.runtime
      /\ t.raised = s.raised /\ t.session = s.session
      /\ t.attempt = None
  BY <1>5 DEF WellTyped, Fields
<1>8. Ready(t)
  BY <1>5 DEF Ready, WellTyped, Fields
<1> HIDE DEF t
<1>9. Sound(t)
  BY <1>1, <1>7 DEF Safe, Sound, AlmostSound, Fenced, OpenStartWanted,
     StartOpen, StartAgrees, StartOwned, SessionAgrees, LatchAgrees,
     ClockExact, RetryBounded
<1> QED BY <1>1, <1>2, <1>4, <1>5, <1>6, <1>7, <1>8, <1>9
        DEF Quiet, Safe, WellTyped, StartOps

(* One step of the main loop. *)
LEMMA StepSafe ==
    ASSUME IInv, Step
    PROVE  IInv'
<1> DEFINE s == Begin(ctl)
<1>1. Safe(s) /\ Ready(s) /\ s.op = "none"
  BY BeginSafe DEF IInv
<1>2. PICK reading \in Readings, sendOk \in BOOLEAN :
        ctl' = StepController(s, reading, sendOk)
  BY DEF Step
<1> HIDE DEF s
<1> QED BY <1>1, <1>2, StepControllerSafe DEF IInv

(* What time makes of each kind of stamp. *)
LEMMA OlderTyped ==
    ASSUME NEW cap \in Nat, NEW age \in Ages(cap)
    PROVE  Older(age, cap) \in Ages(cap)
BY NoneAssumption DEF Older, Ages, AtMost

(* An attempt ages; its command, count and revision stay. *)
LEMMA OlderAttemptTyped ==
    ASSUME NEW a \in AttemptType \cup {None}
    PROVE  /\ OlderAttempt(a) \in AttemptType \cup {None}
           /\ OlderAttempt(a) = None <=> a = None
           /\ a # None => /\ SameAttempt(a, OlderAttempt(a))
                          /\ OlderAttempt(a).retryReady = a.retryReady
                          /\ OlderAttempt(a).statusAfterSend
                                = a.statusAfterSend
<1>1. CASE a = None
  BY <1>1 DEF OlderAttempt
<1>2. CASE a # None
  <2> DEFINE age == AtMost(a.age + 1, ConfirmationTimeout)
             b == [a EXCEPT !.age = age]
  <2>1. OlderAttempt(a) = b
    BY <1>2 DEF OlderAttempt
  <2>2. age \in 0..ConfirmationTimeout
    BY <1>2, TimingAssumption DEF AttemptType, AtMost
  <2> HIDE DEF age
  <2>3. /\ b \in AttemptType /\ SameAttempt(a, b)
        /\ b.retryReady = a.retryReady /\ b.statusAfterSend = a.statusAfterSend
    BY <1>2, <2>2 DEF AttemptType, SameAttempt
  <2>4. b # None
    BY <2>3, NoneAttemptAssumption
  <2> QED BY <1>2, <2>1, <2>3, <2>4
<1> QED BY <1>1, <1>2

(* A session's clock runs down by exactly what it runs up. *)
LEMMA OlderSessionTyped ==
    ASSUME NEW a \in SessionType \cup {None}
    PROVE  LET b == OlderSession(a)
           IN /\ b \in SessionType \cup {None}
              /\ b = None <=> a = None
              /\ a # None =>
                    /\ b.id = a.id /\ b.mode = a.mode /\ b.target = a.target
                    /\ b.runtime = a.runtime /\ b.expired = a.expired
                    /\ b.age + b.remaining = a.age + a.remaining
<1>1. CASE a = None \/ a.remaining = 0
  BY <1>1 DEF OlderSession
<1>2. CASE a # None /\ a.remaining # 0
  <2> DEFINE age == a.age + 1
             remaining == a.remaining - 1
             b == [a EXCEPT !.age = age, !.remaining = remaining]
  <2>1. OlderSession(a) = b
    BY <1>2 DEF OlderSession
  <2>2. /\ age \in Nat /\ remaining \in Nat
        /\ age + remaining = a.age + a.remaining
    BY <1>2 DEF SessionType
  <2> HIDE DEF age, remaining
  <2>3. /\ b \in SessionType
        /\ b.id = a.id /\ b.mode = a.mode /\ b.target = a.target
        /\ b.runtime = a.runtime /\ b.expired = a.expired
        /\ b.age = age /\ b.remaining = remaining
    BY <1>2, <2>2 DEF SessionType
  <2>4. b # None
    BY <2>3, NoneSessionAssumption
  <2> HIDE DEF b
  <2> QED BY <1>2, <2>1, <2>2, <2>3, <2>4
<1> QED BY <1>1, <1>2

(* Time alone changes no command. *)
LEMMA ElapseSafe ==
    ASSUME NEW s, Safe(s), Ready(s)
    PROVE  Quiet(Elapse(s)) /\ Elapse(s).op = "none"
<1> DEFINE deadline == DeadlineSooner(s.deadline)
           statusAge == Older(s.statusAge, Heartbeat)
           nextDue == Sooner(s.nextDue)
           pendingDue == Sooner(s.pendingDue)
           waitAge == Older(s.waitAge, ResponseTimeout)
           attempt == OlderAttempt(s.attempt)
           stoppingAge == Older(s.stoppingAge, StartingStopTimeout)
           session == OlderSession(s.session)
           t == [s EXCEPT !.op = "none", !.deadline = deadline,
                    !.statusAge = statusAge, !.nextDue = nextDue,
                    !.pendingDue = pendingDue, !.waitAge = waitAge,
                    !.attempt = attempt, !.stoppingAge = stoppingAge,
                    !.session = session]
<1>1. Elapse(s) = t
  BY DEF Elapse
<1>2. WellTyped(s) /\ FieldsTyped(s)
  BY DEF Safe, WellTyped
<1>3. s.attempt \in AttemptType \cup {None}
      /\ s.session \in SessionType \cup {None}
  BY <1>2 DEF FieldsTyped
<1>4. /\ deadline \in Int \cup {None}
      /\ nextDue \in Nat \cup {None} /\ pendingDue \in Nat \cup {None}
  BY <1>2 DEF FieldsTyped, DeadlineSooner, Sooner
<1>5. /\ statusAge \in Ages(Heartbeat) /\ waitAge \in Ages(ResponseTimeout)
      /\ stoppingAge \in Ages(StartingStopTimeout)
  BY <1>2, OlderTyped, TimingAssumption DEF FieldsTyped
<1>6. /\ attempt \in AttemptType \cup {None}
      /\ attempt = None <=> s.attempt = None
      /\ s.attempt # None =>
            /\ SameAttempt(s.attempt, attempt)
            /\ attempt.retryReady = s.attempt.retryReady
            /\ attempt.statusAfterSend = s.attempt.statusAfterSend
  BY <1>3, OlderAttemptTyped
<1>7. /\ session \in SessionType \cup {None}
      /\ session = None <=> s.session = None
      /\ s.session # None =>
            /\ session.id = s.session.id /\ session.mode = s.session.mode
            /\ session.target = s.session.target
            /\ session.runtime = s.session.runtime
            /\ session.expired = s.session.expired
            /\ session.age + session.remaining =
                   s.session.age + s.session.remaining
  BY <1>3, OlderSessionTyped
<1> HIDE DEF deadline, statusAge, nextDue, pendingDue, waitAge, attempt,
             stoppingAge, session
<1>8. DOMAIN t = DOMAIN s
  BY Zenon
<1>10. FieldsTyped(t)
  <2>1. attempt \in AttemptType \cup {None}
    BY <1>6
  <2>2. session \in SessionType \cup {None}
    BY <1>7
  <2> QED BY <1>2, <1>4, <1>5, <2>1, <2>2
          DEF WellTyped, Fields, FieldsTyped, Operations
<1>11. /\ t.on = s.on /\ t.latch = s.latch
       /\ t.restartBlocked = s.restartBlocked
       /\ t.revision = s.revision /\ t.mode = s.mode
       /\ t.target = s.target /\ t.runtime = s.runtime
       /\ t.raised = s.raised /\ t.op = "none"
       /\ t.attempt = attempt /\ t.session = session
  BY <1>2 DEF WellTyped, Fields
<1>12. Ready(t)
  BY <1>2 DEF Ready, WellTyped, Fields
<1> HIDE DEF t
<1>13. Fenced(t) /\ LatchAgrees(t) /\ SessionAgrees(t) /\ ClockExact(t)
       /\ ~t.raised
  BY <1>7, <1>11 DEF Safe, Sound, AlmostSound, Fenced, LatchAgrees,
     SessionAgrees, ClockExact
<1>14. OpenStartWanted(t) /\ StartAgrees(t) /\ StartOwned(t)
       /\ RetryBounded(t)
  BY <1>6, <1>7, <1>11 DEF Safe, Sound, AlmostSound, OpenStartWanted,
     StartOpen, StartAgrees, StartOwned, RetryBounded, SameAttempt,
     Parameters
<1> QED BY <1>1, <1>2, <1>8, <1>10, <1>11, <1>12, <1>13, <1>14
        DEF Quiet, Safe, Sound, AlmostSound, WellTyped, StartOps

(* The same for the clock as an action. *)
LEMMA TickSafe ==
    ASSUME IInv, Tick
    PROVE  Quiet(ctl')
BY ElapseSafe DEF IInv, Tick

-----------------------------------------------------------------------------
(* The theorems.                                                           *)

(* Every action keeps the strengthening. *)
LEMMA NextSafe == IInv /\ [Next]_vars => IInv'
<1> SUFFICES ASSUME IInv, [Next]_vars
             PROVE  IInv'
  OBVIOUS
<1>1. Quiet(ctl') => IInv'
  BY DEF Quiet, IInv, StartIsSupervised
<1>2. CASE UNCHANGED vars
  BY <1>2 DEF vars, IInv
<1>3. CASE Step
  BY <1>3, StepSafe
<1>4. CASE HandleFrame
  BY <1>1, <1>4, HandleFrameSafe
<1>5. CASE ReportCommunicationError
  BY <1>1, <1>5, ReportCommunicationErrorSafe
<1>6. CASE RequestStart
  BY <1>1, <1>6, RequestStartSafe
<1>7. CASE Stop
  BY <1>1, <1>7, StopSafe
<1>8. CASE UpdateActiveSession
  BY <1>1, <1>8, UpdateActiveSessionSafe
<1>9. CASE RetryControlFault
  BY <1>1, <1>9, RetryControlFaultSafe
<1>10. CASE Tick
  BY <1>1, <1>10, TickSafe
<1> QED BY <1>2, <1>3, <1>4, <1>5, <1>6, <1>7, <1>8, <1>9, <1>10 DEF Next

(* The strengthening holds in every reachable state. *)
THEOREM Invariance == Spec => []IInv
<1>1. IInv /\ [Next]_vars => IInv'
  BY NextSafe
<1> QED BY InitSafe, <1>1, PTL DEF Spec

(* Every field of the controller keeps its type, whatever the callers, the *)
(* link and the heater do: no command is attempted more often than         *)
(* MaxControlAttempts and no session outlasts MaximumRuntime.              *)
THEOREM TypeCorrect == Spec => []TypeOK
<1>1. IInv => TypeOK
  BY DEF IInv, Safe, TypeOK
<1> QED BY Invariance, <1>1, PTL

(* A START leaves step() only under the supervision of a live session with *)
(* the parameters that were sent.                                          *)
THEOREM StartsAreSupervised == Spec => []SupervisedStart
<1>1. IInv => SupervisedStart
  BY DEF IInv, StartIsSupervised, SupervisedStart
<1> QED BY Invariance, <1>1, PTL

(* Behind an expired session, a latched sensor stop or an unanswered       *)
(* SHUTDOWN there is no request and no START to be retried.                *)
THEOREM StopsAreFinal == Spec => []StoppingIsFinal
<1>1. IInv => StoppingIsFinal
  BY DEF IInv, Safe, Sound, AlmostSound, Fenced, OpenStartWanted, StartOpen,
     StoppingIsFinal
<1> QED BY Invariance, <1>1, PTL

(* The session and the open START agree with the request that is ON. *)
THEOREM SessionsMatch == Spec => []SessionMatchesRequest
<1>1. IInv => SessionMatchesRequest
  BY DEF IInv, Safe, Sound, AlmostSound, SessionAgrees, StartAgrees,
     StartOwned, StartOpen, Parameters, SessionMatchesRequest
<1> QED BY Invariance, <1>1, PTL

(* A latched sensor stop belongs to the session being stopped. *)
THEOREM LatchIsOwned == Spec => []LatchOwned
<1>1. IInv => LatchOwned
  BY DEF IInv, Safe, Sound, AlmostSound, LatchAgrees, LatchOwned
<1> QED BY Invariance, <1>1, PTL

(* step() lets no exception out: the sensor policy has always refused what *)
(* _start_session() would raise for.                                       *)
THEOREM StepsDoNotRaise == Spec => []NoStepRaises
<1>1. IInv => NoStepRaises
  BY DEF IInv, Safe, Sound, AlmostSound, NoStepRaises
<1> QED BY Invariance, <1>1, PTL

(* No sequence of extensions makes a session's clock differ from its       *)
(* runtime, and its runtime never exceeds the configured maximum.          *)
THEOREM ClockIsExact == Spec => []SessionClock
<1>1. IInv => SessionClock
  BY LimitAssumption DEF IInv, Safe, Sound, AlmostSound, ClockExact,
     WellTyped, FieldsTyped, SessionType, SessionClock
<1> QED BY Invariance, <1>1, PTL

(* READY stands for a live, synchronized link without a latched fault. *)
THEOREM ReadyMeansSynchronized == Spec => []ReadyIsSynchronized
<1>1. IInv => ReadyIsSynchronized
  BY DEF IInv, Ready, ReadyIsSynchronized
<1> QED BY Invariance, <1>1, PTL

(* Request, session, open START, latch and clock agree in every reachable  *)
(* state (HeaterController!SessionAgreement).                              *)
THEOREM SessionsAgree == Spec => []SessionAgreement
  BY SessionsMatch, LatchIsOwned, ClockIsExact, PTL DEF SessionAgreement

=============================================================================
