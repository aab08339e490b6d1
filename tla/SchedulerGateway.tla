-------------------------- MODULE SchedulerGateway ----------------------------
(***************************************************************************)
(* Timers from the clock to a request of the heater:                       *)
(* app/scheduler_controller_gateway.py over the scheduler of Scheduler,    *)
(* the ledger half of services/config_manager.py and what survives a       *)
(* restart.                                                                *)
(*                                                                         *)
(* One call of the gateway is one action: the loop is cooperative and      *)
(* nothing else runs meanwhile, except that time passes and the device may *)
(* lose power, which CrashInStep places between the write of the ledger    *)
(* and everything that follows it.  A round of the main loop ends with the *)
(* gateway and begins with the check for a pending restart, so GatewayStep *)
(* includes that check; requests of the web interface fall between rounds. *)
(*                                                                         *)
(* Of the controller only what the gateway sees is kept: the request and   *)
(* whether the heater is "busy", "off" (nothing of a session is left) or   *)
(* "ready" (and a start would be accepted).                                *)
(***************************************************************************)
EXTENDS Scheduler

CONSTANTS
    Tables,      \* the timer definitions the owner chooses from
    MaxDelay,    \* ticks a call may take
    MaxUtc,      \* bound of the model on the clock
    MaxRev       \* bound of the model on corrections of the clock

VARIABLES
    clock,      \* utc, revision, trust, and the utc at which it was last set
    conf,       \* committed timers; changed since boot
    mgr,        \* the configuration manager's ledger, its trust and its fault
    disk,       \* the durable ledger; ahead of the manager after a lost commit
    sch,        \* the scheduler
    gw,         \* the gateway's fault and pending override
    restart,    \* the product runtime waits for a restart
    request,    \* Requested State
    heater      \* what the controller knows of the heater

vars == <<clock, conf, mgr, disk, sch, gw, restart, request, heater>>

Heaters == {"busy", "off", "ready"}
Off == [source |-> "off", occurrence |-> None]
Manual == [source |-> "manual", occurrence |-> None]
Timer(o) == [source |-> "timer", occurrence |-> o]
Requests == [source : {"off", "manual", "timer"},
             occurrence : {None} \cup Occurrences]

ASSUME TablesAssumption == Tables # {} /\ Tables \subseteq TimerTables
ASSUME BoundsAssumption == MaxDelay \in Nat /\ MaxUtc \in Nat /\ MaxRev \in Nat

(* The state has the shape the code gives it, and a scheduler that waits   *)
(* for the restart has nothing left to compare a clock with.               *)
TypeOK ==
    /\ clock \in [utc : Nat, rev : Nat, trusted : BOOLEAN, anchor : Nat]
    /\ conf \in [timers : TimerTables, changed : BOOLEAN]
    /\ mgr \in [ledger : Ledgers, trusted : BOOLEAN, faulted : BOOLEAN]
    /\ disk \in [ledger : Ledgers, ahead : BOOLEAN]
    /\ sch \in Schedulers
    /\ gw \in [faulted : BOOLEAN, pending : {None} \cup Occurrences]
    /\ restart \in BOOLEAN
    /\ request \in Requests
    /\ heater \in Heaters
    /\ restart => ~sch.armed
    /\ ~sch.armed => sch.baseline = None

-----------------------------------------------------------------------------
(* The ledger half of the configuration manager.                           *)

(* timer_start_allowed: configuration trusted and complete, ledger trusted. *)
StartAllowed == mgr.trusted /\ ~mgr.faulted

RestartRequired(m) == conf.changed \/ (m.trusted /\ m.faulted)

(* Faulty: an untrusted ledger may be written over. *)
RefusesRegressOnly(ledger) == ~LedgerIsMonotone(mgr.ledger, ledger)

(* An untrusted ledger has to be recovered first, and none may regress. *)
Refuses(ledger) == ~mgr.trusted \/ ~LedgerIsMonotone(mgr.ledger, ledger)

(* What checkpoint_scheduler_history() and the confirmation by the gateway *)
(* may come to.  A commit can fail before or after it took effect; after a *)
(* commit that took effect unnoticed the store refuses the next one.  The  *)
(* manager reads back only records of configured timers.                   *)
Checkpoints(ledger) ==
    LET readback == Restorable(conf.timers, ledger) = ledger
        failed(d) == [done |-> FALSE, mgr |-> [mgr EXCEPT !.faulted = TRUE],
                      disk |-> d]
    IN IF Refuses(ledger)
       THEN {[done |-> FALSE, mgr |-> mgr, disk |-> disk]}
       ELSE IF ledger = mgr.ledger
       THEN {[done |-> readback /\ ~mgr.faulted, mgr |-> mgr, disk |-> disk]}
       ELSE {failed(disk)}
            \cup {r \in {failed([ledger |-> ledger, ahead |-> TRUE]),
                         [done |-> readback,
                          mgr |-> [mgr EXCEPT !.ledger = ledger,
                                              !.faulted = FALSE],
                          disk |-> [ledger |-> ledger, ahead |-> FALSE]]} :
                    ~disk.ahead}

(* Power is lost: what the manager may find on the disk afterwards. *)
Survivors(ledger) ==
    {disk} \cup {r.disk : r \in Checkpoints(ledger)}

-----------------------------------------------------------------------------
(* SchedulerControllerGateway.step()                                       *)

(* Faulty: an override that could not be marked is not tried again. *)
RepairOverrideOnce(p, repairs) == p

(* mark_manual_override() may run out of memory, and is tried again. *)
RepairOverride(p, repairs) ==
    IF p.gw.pending = None THEN p
    ELSE IF p.sch.active # p.gw.pending
    THEN [p EXCEPT !.gw.pending = None]
    ELSE IF repairs
    THEN [sch |-> MarkManualOverride(p.sch), gw |-> [p.gw EXCEPT !.pending = None]]
    ELSE p

SessionComplete == request = Off /\ heater # "busy"

ReconcileActive(p) ==
    IF p.gw.pending = None /\ p.sch.active # None /\ SessionComplete
    THEN [p EXCEPT !.sch = MarkActiveComplete(@)]
    ELSE p

Prepared(repairs) ==
    ReconcileActive(RepairOverride([sch |-> sch, gw |-> gw], repairs))

Available(p) ==
    /\ ~p.gw.faulted
    /\ p.gw.pending = None
    /\ p.sch.active = None
    /\ StartAllowed
    /\ request = Off
    /\ heater = "ready"

(* The rest of the round: a pending restart disarms the scheduler. *)
EndRound(s, m) ==
    /\ restart' = RestartRequired(m)
    /\ sch' = IF RestartRequired(m) THEN Disarm(s) ELSE s

(* Nothing is started: no intent, or its history is not durable. *)
NoStart(s, g, r) ==
    /\ EndRound(s, r.mgr)
    /\ gw' = [g EXCEPT !.faulted = @ \/ ~r.done]
    /\ UNCHANGED <<clock, request, heater>>

(* The ledger took its time, and the clock may have lost its trust. *)
TimePasses(delay) ==
    /\ clock.utc + delay <= MaxUtc
    /\ \E trusted \in {clock.trusted, FALSE} :
          clock' = [clock EXCEPT !.utc = @ + delay, !.trusted = trusted]

(* An intent whose history is durable is authorised again, unless a sensor *)
(* or the manager changed its mind meanwhile; and an authorised one may    *)
(* still be refused by the controller.                                     *)
ApplyIntent(s, g, r, o) ==
    /\ \E delay \in 0 .. MaxDelay : TimePasses(delay)
    /\ gw' = g
    /\ \/ /\ \E q \in {s, AuthorizeIntent(s, clock, clock')} : EndRound(q, r.mgr)
          /\ UNCHANGED <<request, heater>>
       \/ /\ Authorizes(clock, clock')
          /\ EndRound(CompleteIntent(s, o), r.mgr)
          /\ request' = Timer(o)
          /\ heater' = "busy"

GatewayStep(repairs) ==
    LET p == Prepared(repairs)
        step == StepScheduler(p.sch, clock, Available(p))
    IN /\ ~restart
       /\ \E r \in Checkpoints(ExportHistory(step.sch)) :
             /\ mgr' = r.mgr
             /\ disk' = r.disk
             /\ IF r.done /\ step.intent # None
                THEN ApplyIntent(step.sch, p.gw, r, step.intent)
                ELSE NoStart(step.sch, p.gw, r)
       /\ UNCHANGED conf

-----------------------------------------------------------------------------
(* The other operations of the gateway.                                    *)

(* request_manual_stop(): OFF is committed first, then the occurrence of a  *)
(* timer session is marked and made durable.                                *)
RequestManualStop(marks) ==
    LET overrides == request.source = "timer" /\ sch.active # None
        s == IF overrides /\ marks THEN MarkManualOverride(sch) ELSE sch
    IN /\ request # Off
       /\ request' = Off
       /\ sch' = s
       /\ IF ~overrides THEN UNCHANGED <<mgr, disk, gw>>
          ELSE IF ~marks
          THEN /\ gw' = [faulted |-> TRUE, pending |-> sch.active]
               /\ UNCHANGED <<mgr, disk>>
          ELSE \E r \in Checkpoints(ExportHistory(s)) :
                 /\ mgr' = r.mgr
                 /\ disk' = r.disk
                 /\ gw' = [gw EXCEPT !.faulted = @ \/ ~r.done]
       /\ UNCHANGED <<clock, conf, restart, heater>>

ResetFault ==
    /\ gw.faulted
    /\ request = Off
    /\ gw.pending = None
    /\ \E r \in Checkpoints(ExportHistory(sch)) :
          /\ mgr' = r.mgr
          /\ disk' = r.disk
          /\ gw' = [gw EXCEPT !.faulted =
                       ~(r.done /\ r.mgr.trusted /\ ~r.mgr.faulted)]
    /\ UNCHANGED <<clock, conf, sch, restart, request, heater>>

-----------------------------------------------------------------------------
(* What happens around the gateway.                                        *)

(* The manual gateway, behind the same gate of the configuration. *)
ManualStart ==
    /\ StartAllowed /\ ~RestartRequired(mgr)
    /\ request = Off /\ heater = "ready"
    /\ request' = Manual
    /\ heater' = "busy"
    /\ UNCHANGED <<clock, conf, mgr, disk, sch, gw, restart>>

(* The controller ends a request by itself, and reports of the heater. *)
HeaterStep ==
    /\ request' \in {request, Off}
    /\ heater' \in IF request' = Off THEN Heaters ELSE {"busy"}
    /\ UNCHANGED <<clock, conf, mgr, disk, sch, gw, restart>>

(* New timers are committed; they take effect at the next boot. *)
CommitTimers ==
    /\ StartAllowed
    /\ \E timers \in Tables \ {conf.timers} :
          conf' = [timers |-> timers, changed |-> TRUE]
    /\ UNCHANGED <<clock, mgr, disk, sch, gw, restart, request, heater>>

Tick ==
    /\ clock.utc < MaxUtc
    /\ clock' = [clock EXCEPT !.utc = @ + 1]
    /\ UNCHANGED <<conf, mgr, disk, sch, gw, restart, request, heater>>

SetClock ==
    /\ clock.rev < MaxRev
    /\ \E utc \in 0 .. MaxUtc :
          clock' = [utc |-> utc, rev |-> clock.rev + 1, trusted |-> TRUE,
                    anchor |-> utc]
    /\ UNCHANGED <<conf, mgr, disk, sch, gw, restart, request, heater>>

(* The real-time clock fails, or its pending write is settled. *)
ChangeTrust ==
    /\ clock' = [clock EXCEPT !.trusted = ~@]
    /\ UNCHANGED <<conf, mgr, disk, sch, gw, restart, request, heater>>

(* A boot builds everything from the disk.  The two slots of the ledger     *)
(* are trusted or not; what is not trusted is not used.                     *)
Boot(survivor) ==
    \E trusted, clockTrusted \in BOOLEAN :
        LET ledger == IF trusted THEN survivor.ledger ELSE EmptyLedger
        IN /\ mgr' = [ledger |-> ledger, trusted |-> trusted,
                      faulted |-> ~trusted]
           /\ disk' = [survivor EXCEPT !.ahead = FALSE]
           /\ sch' = BuildScheduler(conf.timers,
                                    Restorable(conf.timers, ledger))
           /\ clock' = [clock EXCEPT !.trusted = clockTrusted,
                                     !.anchor = clock.utc]
           /\ conf' = [conf EXCEPT !.changed = FALSE]
           /\ gw' = [faulted |-> FALSE, pending |-> None]
           /\ restart' = FALSE
           /\ request' = Off
           /\ heater' = "busy"

Reboot == Boot(disk)

(* Power is lost while a step or a stop writes the ledger. *)
CrashInStep(repairs) ==
    LET p == Prepared(repairs)
        step == StepScheduler(p.sch, clock, Available(p))
    IN /\ ~restart
       /\ \E d \in Survivors(ExportHistory(step.sch)) : Boot(d)

CrashInStop ==
    /\ request.source = "timer" /\ sch.active # None
    /\ \E d \in Survivors(ExportHistory(MarkManualOverride(sch))) : Boot(d)

-----------------------------------------------------------------------------

Init ==
    /\ \E utc \in 0 .. MaxUtc :
          clock = [utc |-> utc, rev |-> 0, trusted |-> FALSE, anchor |-> utc]
    /\ \E timers \in Tables : conf = [timers |-> timers, changed |-> FALSE]
    /\ mgr = [ledger |-> EmptyLedger, trusted |-> TRUE, faulted |-> FALSE]
    /\ disk = [ledger |-> EmptyLedger, ahead |-> FALSE]
    /\ sch = BuildScheduler(conf.timers, EmptyLedger)
    /\ gw = [faulted |-> FALSE, pending |-> None]
    /\ restart = FALSE
    /\ request = Off
    /\ heater = "busy"

Next ==
    \/ \E repairs \in BOOLEAN : GatewayStep(repairs)
    \/ \E marks \in BOOLEAN : RequestManualStop(marks)
    \/ ResetFault
    \/ ManualStart
    \/ HeaterStep
    \/ CommitTimers
    \/ Tick
    \/ SetClock
    \/ ChangeTrust
    \/ Reboot
    \/ \E repairs \in BOOLEAN : CrashInStep(repairs)
    \/ CrashInStop

Spec == Init /\ [][Next]_vars

-----------------------------------------------------------------------------
(* Properties.                                                             *)

TimerStarts == request'.source = "timer" /\ request' # request

(* A request made for a timer is always associated with the active          *)
(* occurrence of the scheduler, so that a stop by hand is charged to it: no *)
(* step of the gateway leaves an orphaned Requested ON.                     *)
NoOrphan == request.source = "timer" => sch.active = request.occurrence

(* As long as the gateway has not faulted, everything the scheduler holds   *)
(* for consumed or overridden is on the disk, and would be found by a boot. *)
HistoryIsDurable ==
    ~gw.faulted => LedgerIsMonotone(ExportHistory(sch), disk.ledger)

(* The manager never refuses a history of the scheduler as a regression,    *)
(* nor as a record beyond the high water, whatever was restored, deleted,   *)
(* or lost between them.                                                    *)
HistoryIsAccepted ==
    /\ mgr.trusted => LedgerIsMonotone(mgr.ledger, ExportHistory(sch))
    /\ \A t \in TimerIds : sch.occ[t] # None => sch.occ[t].minute <= sch.high

(* What the disk has said is never taken back, across failing writes,       *)
(* crashes and boots from an untrusted ledger: a consumed minute stays      *)
(* consumed and an overridden occurrence overridden.                        *)
LedgerNeverRegresses ==
    [][LedgerIsMonotone(disk.ledger, disk'.ledger)]_disk

(* The history of the timers agrees wherever it is kept: what the scheduler *)
(* holds is on the disk, the manager takes every further history, and what  *)
(* the disk has said stays said.                                           *)
HistoryIsKept ==
    []HistoryIsDurable /\ []HistoryIsAccepted /\ LedgerNeverRegresses

(* Nothing is made up for: a timer starts only in the minute it names, in a *)
(* clock that was trusted and had been running since before that minute     *)
(* began, and within the validity of its intent.                            *)
NoCatchUp ==
    [][TimerStarts =>
         \E begin \in Beginnings(request'.occurrence.minute) :
            /\ clock.anchor < begin
            /\ begin <= clock.utc
            /\ clock.utc < begin + MinuteTicks
            /\ clock'.trusted
            /\ clock'.utc <= clock.utc + IntentValid]_vars

(* Timers that meet in one minute cancel each other for good, and a deleted *)
(* or changed timer is not resurrected by history.                          *)
ConflictsStartNothing ==
    [][TimerStarts =>
         LET o == request'.occurrence
         IN {t \in TimerIds : o.minute \in sch.timers[t].minutes} = {o.timer}]_vars

(* What the interface announced when the clock was last observed is what    *)
(* starts: step() and next_occurrence() compute it in two ways.             *)
AnnouncedBeforeStarted ==
    [][TimerStarts =>
         request'.occurrence \in
            NextOccurrences(sch, [clock EXCEPT !.utc = sch.baseline.utc])]_vars

(* A timer starts in its minute, in a clock that ran on, and as announced -  *)
(* across a change of daylight saving time and a correction of the clock.   *)
StartsAreTimely == NoCatchUp /\ AnnouncedBeforeStarted

Promise == INSTANCE OneShotTimers WITH
    spent <- disk.ledger.high,
    running <- IF request.source = "timer" THEN request.occurrence.minute
               ELSE Nowhen

(* A minute is durably spent in the very step that starts something for it, *)
(* never again after that, and a request for a timer does not survive a     *)
(* crash.                                                                   *)
OneShot == Promise!OneShotSpec

ReleaseIsDue == sch.active # None /\ SessionComplete /\ ~restart

(* Rounds go on for as long as the process lives, and an override that      *)
(* could not be recorded for lack of memory can be at some later round.     *)
RoundsGoOn == []<>(~ReleaseIsDue) \/ []<><<GatewayStep(TRUE)>>_vars

LiveSpec == Spec /\ RoundsGoOn

(* The scheduler lets go of an occurrence whose session is over, also when  *)
(* its override could not be recorded at first: the timers after it are not *)
(* suppressed for ever.                                                     *)
ActiveIsReleased == ReleaseIsDue ~> ~ReleaseIsDue

=============================================================================
