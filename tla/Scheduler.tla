------------------------------ MODULE Scheduler -------------------------------
(***************************************************************************)
(* The weekly timer scheduler of app/scheduler.py, as operators on one     *)
(* record, and the local calendar of services/time_service.py it reads.    *)
(*                                                                         *)
(*   armed     TRUE between arm() and disarm()                             *)
(*   timers    the timer definitions: the local minutes each one names     *)
(*   baseline  the clock observed by the last step, or None                *)
(*   occ       the last consumed occurrence of each timer                  *)
(*   high      the latest local minute consumed by any timer               *)
(*   active    the occurrence whose session is running, or None            *)
(*                                                                         *)
(* An intent lives within one call of the gateway, so its capability,      *)
(* token and epoch, which tell a foreign or an old intent from the present *)
(* one, and the statuses between "intent_created" and "accepted" do not    *)
(* appear.  A record is exported as consumed or overridden and `overridden`*)
(* is what is kept of its status.  Timers are replaced before arming only, *)
(* so no configuration fence is ever pending, and MemoryError, which       *)
(* latches the scheduler's own fault, is left out.                         *)
(***************************************************************************)
EXTENDS Integers, FiniteSets

CONSTANTS
    TimerIds,
    None,           \* no baseline, no occurrence
    MinuteTicks,    \* clock ticks of a minute
    MaxClockStep,   \* ticks between two steps beyond which a jump is assumed
    IntentValid,    \* ticks an intent may wait
    DstStart,       \* the tick at which daylight saving time begins
    DstEnd,         \* the tick at which it ends
    DstShift        \* minutes it is ahead of standard time

Nowhen == -1        \* below every minute: nothing was consumed yet

Occurrences == [timer : TimerIds, minute : Nat]
Observations == [utc : Nat, rev : Nat]
Latches == [minute : Nat, overridden : BOOLEAN]

(* The definitions of all timers; a disabled timer names no minute. *)
TimerTables == [TimerIds -> [configured : BOOLEAN, minutes : SUBSET Nat]]
Records == [TimerIds -> {None} \cup Latches]
Ledgers == [high : Nat \cup {Nowhen}, occ : Records]

ASSUME NoneIsNoValue ==
    None \notin Occurrences \cup Observations \cup Latches
ASSUME ClockAssumption == /\ MinuteTicks \in Nat \ {0}
                          /\ MaxClockStep \in Nat
                          /\ IntentValid \in Nat
ASSUME DstAssumption == /\ DstStart \in Nat /\ DstEnd \in Nat
                        /\ DstShift \in Nat
                        /\ DstStart <= DstEnd
                        /\ DstStart < DstEnd => DstShift > 0
                        /\ \A edge \in {DstStart, DstEnd} :
                              \E k \in 0 .. edge : edge = k * MinuteTicks
ASSUME TimersAssumption == IsFiniteSet(TimerIds)

Schedulers == [armed : BOOLEAN,
               timers : TimerTables,
               baseline : {None} \cup Observations,
               occ : Records,
               high : Nat \cup {Nowhen},
               active : {None} \cup Occurrences]

EmptyLedger == [high |-> Nowhen, occ |-> [t \in TimerIds |-> None]]

-----------------------------------------------------------------------------
(* The local calendar: standard time is UTC, as only differences matter.   *)

Offset(utc) == IF DstStart <= utc /\ utc < DstEnd THEN DstShift ELSE 0

LocalMinute(utc) == (utc \div MinuteTicks) + Offset(utc)

(* The local minutes after the end of daylight saving time repeat. *)
Fold(utc) == DstEnd <= utc /\ utc < DstEnd + DstShift * MinuteTicks

(* The instants at which a local minute begins: none in the spring gap, two *)
(* in the autumn fold.                                                      *)
Beginnings(minute) ==
    {u \in {(minute - o) * MinuteTicks : o \in {DstShift, 0}} :
        u >= 0 /\ LocalMinute(u) = minute}

IsTransition(utc) == DstStart # DstEnd /\ utc \in {DstStart, DstEnd}

-----------------------------------------------------------------------------
(* step(): at most one intent, and every due occurrence is consumed.       *)

Observation(c) == [utc |-> c.utc, rev |-> c.rev]

(* Faulty: a corrected clock is taken for one that ran on. *)
FencedByOffset(b, c) == Offset(c.utc) # Offset(b.utc)

(* The clock was set or changed its offset since the last step. *)
Fenced(b, c) == c.rev # b.rev \/ Offset(c.utc) # Offset(b.utc)

(* The local minute began since the last step, in a clock that ran on. *)
OpensMinute(b, c) ==
    /\ ~Fenced(b, c)
    /\ c.utc - b.utc \in 0 .. MaxClockStep
    /\ LocalMinute(c.utc) - LocalMinute(b.utc) = 1
    /\ ~Fold(c.utc)

Matches(s, t, minute) == minute \in s.timers[t].minutes

(* Faulty: only the timer's own record counts. *)
UnspentByTimer(s, t, minute) == s.occ[t] # None => minute > s.occ[t].minute

(* Neither all of civil history up to the high water nor the timer's own    *)
(* record covers the minute.                                                *)
Unspent(s, t, minute) ==
    /\ minute > s.high
    /\ s.occ[t] # None => minute > s.occ[t].minute

Due(s, minute) ==
    {t \in TimerIds : Matches(s, t, minute) /\ Unspent(s, t, minute)}

Consume(s, timers, minute) ==
    [s EXCEPT !.occ = [t \in TimerIds |->
                          IF t \in timers
                          THEN [minute |-> minute, overridden |-> FALSE]
                          ELSE s.occ[t]],
              !.high = IF minute > s.high THEN minute ELSE s.high]

(* What the step finds at clock c, and nothing if it need not look. *)
Found(s, c) ==
    IF s.armed /\ c.trusted /\ s.baseline # None
       /\ OpensMinute(s.baseline, c)
    THEN Due(s, LocalMinute(c.utc))
    ELSE {}

Observe(s, c) ==
    IF ~s.armed THEN s
    ELSE [s EXCEPT !.baseline = IF c.trusted THEN Observation(c) ELSE None]

(* Faulty: of timers that meet, one is started. *)
IsAny(due) == due # {}

IsAlone(due) == Cardinality(due) = 1

StepScheduler(s, c, available) ==
    LET due == Found(s, c)
        minute == LocalMinute(c.utc)
    IN [sch |-> IF due = {} THEN Observe(s, c)
                ELSE Consume(Observe(s, c), due, minute),
        intent |-> IF /\ IsAlone(due)
                      /\ available
                      /\ s.active = None
                   THEN [timer |-> CHOOSE t \in due : TRUE, minute |-> minute]
                   ELSE None]

-----------------------------------------------------------------------------
(* The two phases of an intent created at clock c and presented at d.      *)

Expired(c, d) == d.utc - c.utc > IntentValid

SameClock(c, d) == d.trusted /\ d.rev = c.rev /\ Offset(d.utc) = Offset(c.utc)

Authorizes(c, d) == ~Expired(c, d) /\ SameClock(c, d)

(* A clock that can no longer be trusted has to be observed afresh. *)
AuthorizeIntent(s, c, d) ==
    IF ~Expired(c, d) /\ ~SameClock(c, d) THEN [s EXCEPT !.baseline = None]
    ELSE s

(* Faulty: the application is not associated with its occurrence. *)
CompleteIntentUnassociated(s, o) == s

CompleteIntent(s, o) == [s EXCEPT !.active = o]

MarkActiveComplete(s) == [s EXCEPT !.active = None]

(* The session of the active occurrence was stopped by hand.  Its record is *)
(* marked if it is still the last one of its timer.                         *)
MarkManualOverride(s) ==
    LET o == s.active
    IN [s EXCEPT !.active = None,
                 !.occ[o.timer] = IF @ # None /\ @.minute = o.minute
                                  THEN [@ EXCEPT !.overridden = TRUE]
                                  ELSE @]

Disarm(s) == [s EXCEPT !.armed = FALSE, !.baseline = None]

-----------------------------------------------------------------------------
(* What is written to the ledger and read back from it.                    *)

ExportHistory(s) == [high |-> s.high, occ |-> s.occ]

(* Records of timers that are no longer configured are left out: the high   *)
(* water covers them.                                                       *)
Restorable(timers, ledger) ==
    [ledger EXCEPT !.occ =
        [t \in TimerIds |-> IF timers[t].configured THEN ledger.occ[t]
                          ELSE None]]

(* The scheduler a boot builds and arms over a history. *)
BuildScheduler(timers, history) ==
    [armed |-> TRUE, timers |-> timers, baseline |-> None,
     occ |-> history.occ, high |-> history.high, active |-> None]

(* A ledger never loses what it said: the high water does not fall, no      *)
(* record moves back or loses its override, and one that disappears is      *)
(* covered by the high water.                                               *)
LedgerIsMonotone(old, new) ==
    /\ new.high >= old.high
    /\ \A t \in TimerIds : old.occ[t] # None =>
          IF new.occ[t] = None THEN new.high >= old.occ[t].minute
          ELSE \/ new.occ[t].minute > old.occ[t].minute
               \/ /\ new.occ[t].minute = old.occ[t].minute
                  /\ old.occ[t].overridden => new.occ[t].overridden

-----------------------------------------------------------------------------
(* next_occurrence(): what the web interface announces.                    *)

Candidate(s, c, t, minute) ==
    /\ Matches(s, t, minute)
    /\ minute > LocalMinute(c.utc)
    /\ Unspent(s, t, minute)
    /\ \E first \in Beginnings(minute) :
          /\ \A u \in Beginnings(minute) : first <= u
          /\ ~Fold(first) /\ ~IsTransition(first)
          /\ first > c.utc

(* The first candidate of each timer, and of these the earliest.  The code *)
(* returns the first of them in the order of the configuration.            *)
NextOccurrences(s, c) ==
    LET candidates == {o \in UNION {[timer : {t}, minute : s.timers[t].minutes] :
                                    t \in TimerIds} :
                          Candidate(s, c, o.timer, o.minute)}
    IN IF c.trusted
       THEN {o \in candidates : \A p \in candidates : o.minute <= p.minute}
       ELSE {}

=============================================================================
