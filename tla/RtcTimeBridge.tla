--------------------------- MODULE RtcTimeBridge ---------------------------
(***************************************************************************)
(* Wall-clock time and its battery-backed keeper: the time service         *)
(* (services/time_service.py), the bridge that reads and writes the clock  *)
(* chip (services/rtc_time_bridge.py) and the chip itself behind its       *)
(* adapter (adapters/ds3231_adapter.py).                                   *)
(*                                                                         *)
(* A clock is its deviation from true time, so that two clocks agree when  *)
(* they show the same one and nothing changes as time passes; None is what *)
(* a half-written or stopped chip shows. The bridge hands control to the   *)
(* port three times, to read, to stage and to commit a write; each call is *)
(* an action, and what else the program does may come before it. A call    *)
(* may fail after any of its bus operations, and the processor may be      *)
(* reset at any of them.                                                   *)
(***************************************************************************)
EXTENDS Absence, Integers

CONSTANTS
    Deviations,     \* how far from true time a clock may be set
    MaxUtcRevision, \* bound: corrections of the clock since the boot
    MaxMishaps      \* bound: failed calls, resets and losses of power

ASSUME ClockAssumption ==
    /\ None \notin Deviations
    /\ None \notin Nat
    /\ MaxUtcRevision \in Nat
    /\ MaxMishaps \in Nat

VARIABLES
    ts,         \* the time service
    bridge,     \* the bridge
    rtc,        \* the chip
    mishaps     \* mishaps so far

rtcVars == <<ts, bridge, rtc, mishaps>>

Revisions == 0 .. MaxUtcRevision

BridgePhases == {"idle", "reading", "staging", "restaging", "committing"}

RtcTypeOK ==
    /\ ts \in [valid : BOOLEAN, shows : Deviations \cup {None},
               clock : 0 .. MaxUtcRevision + 1, utc : Revisions,
               health : {"unknown", "ok", "error"}, pending : Revisions \cup {None},
               lock : Revisions \cup {None}, volatile : BOOLEAN]
    /\ bridge \in [phase : BridgePhases, before : Revisions, clock : 0 .. MaxUtcRevision + 1,
                   commit : Revisions \cup {None}, faulted : BOOLEAN]
    /\ rtc \in [shows : Deviations \cup {None}, eosc : BOOLEAN, osf : BOOLEAN]
    /\ mishaps \in 0 .. MaxMishaps

NewTimeService ==
    [valid |-> FALSE, shows |-> None, clock |-> 0, utc |-> 0, health |-> "unknown",
     pending |-> None, lock |-> None, volatile |-> FALSE]

NewBridge ==
    [phase |-> "idle", before |-> 0, clock |-> 0, commit |-> None, faulted |-> FALSE]

(* A chip that kept time, or one whose battery was changed. *)
RtcInit ==
    /\ ts = NewTimeService
    /\ bridge = NewBridge
    /\ rtc \in [shows : Deviations, eosc : {FALSE}, osf : {FALSE}]
               \cup [shows : {None}, eosc : BOOLEAN, osf : {TRUE}]
    /\ mishaps = 0

Mishap == mishaps < MaxMishaps /\ mishaps' = mishaps + 1

-----------------------------------------------------------------------------
(* The time service *)

Correctable(t) == t.lock = None /\ t.utc < MaxUtcRevision

(* set_utc_datetime() from anything but the chip: it has to be written back. *)
Corrected(t, d) ==
    [t EXCEPT !.valid = TRUE, !.shows = d, !.clock = @ + 1, !.utc = @ + 1,
              !.pending = t.utc + 1, !.volatile = FALSE]

CorrectedByRtc(t, d) ==
    [Corrected(t, d) EXCEPT !.pending = None, !.health = "ok"]

CorrectedForThisBoot(t, d) ==
    [Corrected(t, d) EXCEPT !.pending = None, !.volatile = TRUE]

Invalidated(t) ==
    [t EXCEPT !.valid = FALSE, !.shows = None, !.clock = @ + 1, !.utc = @ + 1,
              !.health = "error", !.pending = None, !.volatile = FALSE]

(* refresh_rtc_datetime() without a pending write *)
Refreshed(t, d) ==
    IF t.valid /\ t.shows = d THEN [t EXCEPT !.health = "ok"]
    ELSE CorrectedByRtc(t, d)

ErrorReported(t) == [t EXCEPT !.health = "error"]

(* Faulty: the lock is given whatever the clock shows by now. *)
LockableStale(t, revision) == t.lock = None /\ t.valid

(* begin_rtc_commit() *)
Lockable(t, revision) ==
    /\ t.lock = None
    /\ t.valid /\ t.utc = revision
    /\ t.pending \in {None, revision}

(* mark_rtc_write_result(True) of the pending revision *)
WriteAccepted(t) == [t EXCEPT !.pending = None, !.health = "ok"]

Unlocked(t) == [t EXCEPT !.lock = None]

TimerTrusted ==
    /\ ts.valid
    /\ ts.lock = None
    /\ ts.pending = None
    /\ ts.volatile \/ ts.health = "ok"

Correct ==
    /\ Correctable(ts)
    /\ \E d \in Deviations :
          ts' = Corrected(ts, d) \/ ts' = CorrectedForThisBoot(ts, d)
    /\ UNCHANGED <<bridge, rtc, mishaps>>

Invalidate ==
    /\ Correctable(ts)
    /\ ts' = Invalidated(ts)
    /\ UNCHANGED <<bridge, rtc, mishaps>>

ConfigureTimezone ==
    /\ ts.lock = None /\ ts.clock = ts.utc
    /\ ts' = [ts EXCEPT !.clock = @ + 1]
    /\ UNCHANGED <<bridge, rtc, mishaps>>

-----------------------------------------------------------------------------
(* The chip. EOSC marks a write under way; a chip so marked, or one whose  *)
(* oscillator stopped, is not believed.                                    *)

Believed(r) == ~r.eosc /\ ~r.osf

(* Faulty: the write goes without its marker. *)
MarkedNot(r) == r

Marked(r) == [r EXCEPT !.eosc = TRUE]

Staged(r, d) == [Marked(r) EXCEPT !.shows = d]

(* How far stage_utc_datetime() may get before it fails. *)
PartlyStaged(r, d) == {r, Marked(r), Staged(r, None), Staged(r, d)}

Released(r) == [r EXCEPT !.eosc = FALSE]

Committed(r) == [Released(r) EXCEPT !.osf = FALSE]

PartlyCommitted(r) == {r, Released(r), Committed(r)}

-----------------------------------------------------------------------------
(* The bridge: step() up to its call of the port *)

Rest(b) == [b EXCEPT !.phase = "idle"]

Abandoned(b) == [Rest(b) EXCEPT !.commit = None]

Calling(phase) ==
    [bridge EXCEPT !.phase = phase, !.before = ts.utc, !.clock = ts.clock]

Ready == bridge.phase = "idle" /\ ~bridge.faulted

BeginRead ==
    /\ Ready /\ bridge.commit = None /\ ts.pending = None
    /\ bridge' = Calling("reading")
    /\ UNCHANGED <<ts, rtc, mishaps>>

(* A correction that came after an interrupted commit replaces it. *)
BeginWrite ==
    /\ Ready /\ ts.pending # None
    /\ bridge' = [Calling("staging") EXCEPT !.commit = None]
    /\ UNCHANGED <<ts, rtc, mishaps>>

ResumeCommit ==
    /\ Ready /\ bridge.commit # None /\ ts.pending = None
    /\ IF ts.valid /\ ts.utc = bridge.commit
       THEN /\ ts' = [ts EXCEPT !.lock = bridge.commit]
            /\ bridge' = Calling("restaging")
       ELSE /\ ts' = ErrorReported(ts)
            /\ bridge' = [bridge EXCEPT !.faulted = TRUE]
    /\ UNCHANGED <<rtc, mishaps>>

-----------------------------------------------------------------------------
(* ... and from the return of the port *)

(* The error of an expected kind: reported, and tried again later. *)
CallFailed ==
    /\ Mishap
    /\ bridge' = Rest(bridge)
    /\ ts' = ErrorReported(Unlocked(ts))

(* Any other error stops the bridge. *)
CallBroke ==
    /\ Mishap
    /\ bridge' = [Rest(bridge) EXCEPT !.faulted = TRUE]
    /\ ts' = ErrorReported(Unlocked(ts))

Unsuccessful == CallFailed \/ CallBroke

ClockMoved == ts.utc # bridge.before \/ ts.clock # bridge.clock

ReadReturns ==
    /\ bridge.phase = "reading"
    /\ \/ /\ Believed(rtc)
          /\ ~ClockMoved => ts.shows = rtc.shows \/ Correctable(ts)
          /\ ts' = IF ClockMoved THEN ts ELSE Refreshed(ts, rtc.shows)
          /\ bridge' = Rest(bridge)
          /\ UNCHANGED mishaps
       \/ /\ ~Believed(rtc)
          /\ bridge' = Rest(bridge) /\ ts' = ErrorReported(ts)
          /\ UNCHANGED mishaps
       \/ Unsuccessful
    /\ UNCHANGED rtc

(* What the clock showed when the port was called: a correction since then   *)
(* is noticed before the write is accepted.                                 *)
StagedValues == IF ts.utc = bridge.before THEN {ts.shows} ELSE Deviations

StageReturns ==
    /\ bridge.phase = "staging"
    /\ \E d \in StagedValues :
        /\ \/ /\ rtc' = Staged(rtc, d)
              /\ IF Lockable(ts, bridge.before)
                 THEN /\ ts' = [WriteAccepted(ts) EXCEPT !.lock = bridge.before]
                      /\ bridge' = [bridge EXCEPT !.phase = "committing",
                                                  !.commit = bridge.before]
                 ELSE /\ UNCHANGED ts
                      /\ bridge' = Abandoned(bridge)
              /\ UNCHANGED mishaps
           \/ rtc' \in PartlyStaged(rtc, d) /\ Unsuccessful

RestageReturns ==
    /\ bridge.phase = "restaging"
    /\ \/ /\ rtc' = Staged(rtc, ts.shows)
          /\ bridge' = [bridge EXCEPT !.phase = "committing"]
          /\ UNCHANGED <<ts, mishaps>>
       \/ rtc' \in PartlyStaged(rtc, ts.shows) /\ Unsuccessful

CommitReturns ==
    /\ bridge.phase = "committing"
    /\ \/ /\ rtc' = Committed(rtc)
          /\ ts' = [Unlocked(ts) EXCEPT !.health = "ok"]
          /\ bridge' = Abandoned(bridge)
          /\ UNCHANGED mishaps
       \/ rtc' \in PartlyCommitted(rtc) /\ Unsuccessful

PortReturns == ReadReturns \/ StageReturns \/ RestageReturns \/ CommitReturns

-----------------------------------------------------------------------------
(* Resets *)

ResetFault ==
    /\ bridge.faulted
    /\ Mishap
    /\ bridge' = [bridge EXCEPT !.faulted = FALSE]
    /\ UNCHANGED <<ts, rtc>>

(* What a reset may leave of the call under way. *)
Interrupted(r) ==
    {r} \cup CASE bridge.phase = "staging" ->
                    UNION {PartlyStaged(r, d) : d \in StagedValues}
               [] bridge.phase = "restaging" -> PartlyStaged(r, ts.shows)
               [] bridge.phase = "committing" -> PartlyCommitted(r)
               [] OTHER -> {}

Stopped(r) == [r EXCEPT !.shows = None, !.osf = TRUE]

(* The processor restarts and forgets; when power was lost as well, a marked *)
(* chip stands still, and any chip does so whose battery is empty.           *)
Reset ==
    /\ Mishap
    /\ ts' = NewTimeService
    /\ bridge' = NewBridge
    /\ \E r \in Interrupted(rtc) : rtc' = r \/ rtc' = Stopped(r)

RtcStep == BeginRead \/ BeginWrite \/ ResumeCommit \/ PortReturns

RtcNext ==
    \/ Correct
    \/ Invalidate
    \/ ConfigureTimezone
    \/ BeginRead
    \/ BeginWrite
    \/ ResumeCommit
    \/ ReadReturns
    \/ StageReturns
    \/ RestageReturns
    \/ CommitReturns
    \/ ResetFault
    \/ Reset

RtcInitNext == RtcInit /\ [][RtcNext]_rtcVars

(* The bridge is stepped again and again. *)
RtcFairness == WF_rtcVars(RtcStep)

RtcSpec == RtcInitNext /\ RtcFairness

-----------------------------------------------------------------------------
(* Properties *)

(* Timers run on a clock that survives a reset: unless the time is only     *)
(* meant for this boot, the chip is believed and shows the same             *)
(* (snapshot(), "timer_trusted").                                           *)
TimersRunOnKeptTime ==
    TimerTrusted /\ ~ts.volatile => Believed(rtc) /\ rtc.shows = ts.shows

(* A chip that is believed never shows half of a write, whatever call was   *)
(* interrupted where.                                                       *)
BelievedIsWhole == Believed(rtc) => rtc.shows # None

(* Timers run on a time that the chip has kept whole. *)
ClockIsTrustworthy == TimersRunOnKeptTime /\ BelievedIsWhole

(* The marker is lifted over the present time only: a correction that       *)
(* overtakes a write keeps the overtaken value from being believed, now and *)
(* after any reset.                                                         *)
ReleasesAreCurrent ==
    [][rtc.eosc /\ Believed(rtc') => ts.valid /\ rtc'.shows = ts.shows]_rtcVars

(* What was corrected and has to be written, or was written and not         *)
(* confirmed, is trusted in the end once the mishaps end, or the bridge has *)
(* stopped, or the time has become unknown.                                 *)
CorrectionsArePersisted ==
    (ts.pending # None \/ bridge.commit # None)
        ~> (TimerTrusted \/ bridge.faulted \/ ~ts.valid)
=============================================================================
