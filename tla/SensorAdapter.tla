--------------------------- MODULE SensorAdapter ---------------------------
(***************************************************************************)
(* The sampling of the temperature sensors: the adapter                    *)
(* (adapters/ds18b20_adapter.py) scans the bus, starts a conversion for    *)
(* all sensors and reads them one by one, one bus operation per step, and  *)
(* reports to the temperature manager. A step that raises is followed by   *)
(* the clean-up of ConfiguredSensorRuntime.step() in the same action. The  *)
(* heater controller adopts a sensor when it starts a session and looks at *)
(* it afterwards.                                                          *)
(*                                                                         *)
(* Whatever can go wrong on the bus is a disturbance, at most              *)
(* MaxDisturbances of them. Steps may be late by any time, but a sample is *)
(* read no more than MaxLate after its conversion.                         *)
(***************************************************************************)
EXTENDS TemperatureManager

CONSTANTS
    ConversionWait,     \* how long a conversion takes
    PollInterval,       \* from one conversion to the next
    DiscoveryInterval,  \* from one scan to the next
    MaxDisturbances     \* bound

ASSUME SensorIntervalsAssumption ==
    /\ ConversionWait \in Nat \ {0}
    /\ PollInterval \in Nat /\ PollInterval >= ConversionWait
    /\ DiscoveryInterval \in Nat /\ DiscoveryInterval >= PollInterval
    /\ MaxDisturbances \in Nat

VARIABLES
    mgr,            \* the temperature manager
    ada,            \* the adapter
    adopted,        \* what the controller holds on to, or None
    outage,         \* history: that sensor was out of order since
    steady,         \* history: the sensors in unbroken service
    disturbances    \* disturbances so far

sensorVars == <<mgr, ada, adopted, outage, steady, disturbances>>

AdapterPhases == {"idle", "conversion_ready", "wait_conversion", "reading", "closed"}

(* Sensors are read in the order of their ROM ids. *)
First(cycle) == Roms[Min({i \in DOMAIN Roms : Roms[i] \in cycle})]

SensorTypeOK ==
    /\ mgr \in Managers
    /\ ada \in [phase : AdapterPhases, roms : SUBSET Sensors, cycle : SUBSET Sensors,
                trusted : SUBSET Sensors, requested : BOOLEAN,
                discovery : 0 .. DiscoveryInterval, next : 0 .. PollInterval,
                conversion : -ConversionWait .. MaxLate \cup {None}]
    /\ adopted \in [role : Roles, rom : Sensors] \cup {None}
    /\ outage \in BOOLEAN
    /\ steady \in SUBSET Sensors
    /\ disturbances \in 0 .. MaxDisturbances

(* The first assignment comes with the construction; no deadline is set, so  *)
(* that a scan is due at once.                                               *)
SensorInit ==
    /\ \E a \in Assignments :
          /\ \E role \in Roles : a[role] # None
          /\ mgr = [ConfigureAssignments(NewManager, a) EXCEPT
                      !.revision = [role \in Roles |-> 0]]
    /\ ada = [phase |-> "idle", roms |-> {}, cycle |-> {}, trusted |-> {},
              requested |-> TRUE, discovery |-> 0, next |-> 0,
              conversion |-> None]
    /\ adopted = None
    /\ outage = FALSE
    /\ steady = {}
    /\ disturbances = 0

Disturbed == disturbances < MaxDisturbances /\ disturbances' = disturbances + 1

-----------------------------------------------------------------------------
(* Bus operations. Each is one step of the adapter; a tick of the model is
   many milliseconds, hence time for several steps. *)

GlobalFailure(m) ==
    LET missed == [m EXCEPT !.reading = [rom \in Sensors |->
                      IF rom \in AssignedRoms(m) THEN Missed(@[rom], 0) ELSE @[rom]]]
    IN RefreshRoles(missed, {role \in Roles : m.assigned[role] # None}, 0)

(* _set_fault() and the clean-up by the runtime *)
Broken ==
    /\ Disturbed
    /\ ada' = [ada EXCEPT !.phase = "closed", !.trusted = {}]
    /\ steady' = {}
    /\ UNCHANGED <<mgr, outage>>

ScanFound ==
    \E found \in SUBSET Sensors :
        /\ IF AssignedRoms(mgr) \subseteq found THEN UNCHANGED disturbances ELSE Disturbed
        /\ mgr' = RecordDiscovery(mgr, found)
        /\ ada' = [ada EXCEPT
                     !.phase = IF found = {} THEN "idle" ELSE "conversion_ready",
                     !.roms = found,
                     !.trusted = @ \cap found,
                     !.requested = FALSE,
                     !.discovery = DiscoveryInterval,
                     !.next = IF found = {} THEN PollInterval ELSE @]
        /\ steady' = steady \cap found
        /\ UNCHANGED outage

ScanFailed ==
    /\ Disturbed
    /\ mgr' = GlobalFailure(mgr)
    /\ ada' = [ada EXCEPT !.phase = "idle", !.trusted = {},
                                 !.requested = FALSE,
                                 !.discovery = DiscoveryInterval,
                                 !.next = PollInterval]
    /\ steady' = {}
    /\ UNCHANGED outage

PerformDiscovery == ScanFound \/ ScanFailed \/ Broken

ConversionStarted ==
    /\ ada' = [ada EXCEPT !.phase = "wait_conversion", !.cycle = ada.roms,
                                 !.conversion = -ConversionWait,
                                 !.next = PollInterval]
    /\ UNCHANGED <<mgr, outage, steady, disturbances>>

AfterFailedConversion ==
    [ada EXCEPT !.phase = "idle", !.cycle = {}, !.trusted = {},
                !.next = PollInterval]

ConversionFailed ==
    /\ Disturbed
    /\ mgr' = GlobalFailure(mgr)
    /\ ada' = AfterFailedConversion
    /\ steady' = {}
    /\ UNCHANGED outage

StartConversion == ConversionStarted \/ ConversionFailed \/ Broken

(* _read_one() from here: the rest of the cycle, or its end. *)
Advance(a) ==
    LET rest == a.cycle \ {First(a.cycle)}
    IN IF rest # {}
       THEN [a EXCEPT !.phase = "reading", !.cycle = rest]
       ELSE [a EXCEPT !.phase = "idle", !.cycle = {}, !.conversion = None,
                      !.next = IF @ = 0 THEN PollInterval ELSE @]

ReadFailed ==
    LET rom == First(ada.cycle)
    IN /\ Disturbed
       /\ mgr' = RecordFailure(mgr, rom, ada.conversion)
       /\ ada' = Advance([ada EXCEPT !.trusted = @ \ {rom}])
       /\ steady' = steady \ {rom}
       /\ UNCHANGED outage

ReadPowerOnUntrusted ==
    LET rom == First(ada.cycle)
    IN /\ rom \notin ada.trusted
       /\ Disturbed
       /\ mgr' = RecordFailure(mgr, rom, ada.conversion)
       /\ ada' = Advance(ada)
       /\ steady' = steady \ {rom}
       /\ UNCHANGED outage

(* A value the adapter takes; the manager may have narrower bounds. *)
ReadAccepted ==
    LET rom == First(ada.cycle)
        ago == ada.conversion
    IN \E value \in {"ordinary", "powerOn", "outside"} :
          /\ value = "powerOn" => rom \in ada.trusted
          /\ IF value = "ordinary" THEN UNCHANGED disturbances ELSE Disturbed
          /\ mgr' = IF value = "outside" THEN RecordFailure(mgr, rom, ago)
                    ELSE RecordValid(mgr, rom, value, ago)
          /\ ada' = Advance([ada EXCEPT !.trusted = @ \cup {rom}])
          /\ steady' = IF value = "powerOn" THEN steady ELSE steady \cup {rom}
          /\ outage' = \/ outage
                       \/ /\ adopted # None /\ adopted.rom = rom
                          /\ value # "outside"
                          /\ mgr.reading[rom] # None
                          /\ Gap(mgr.reading[rom], ago) >= FailedAfter

ReadOne == ReadFailed \/ ReadPowerOnUntrusted \/ ReadAccepted \/ Broken

-----------------------------------------------------------------------------
(* step() *)

Idle == ada.phase \in {"idle", "conversion_ready"}

ReadingDue == ada.phase = "reading" \/ (ada.phase = "wait_conversion" /\ ada.conversion >= 0)

ConversionDirect == ada.phase = "conversion_ready" /\ ~ada.requested

DiscoveryDue == Idle /\ ~ConversionDirect /\ (ada.requested \/ ada.discovery = 0)

CycleDue == Idle /\ ~ConversionDirect /\ ~DiscoveryDue /\ ada.next = 0

StepNothing ==
    /\ ~ReadingDue /\ ~ConversionDirect /\ ~DiscoveryDue
    /\ CycleDue => ada.roms = {}
    /\ ada' = IF CycleDue THEN [ada EXCEPT !.next = PollInterval] ELSE ada
    /\ UNCHANGED <<mgr, outage, steady, disturbances>>

Steppable == ada.phase # "closed"

SensorStep ==
    /\ Steppable
    /\ \/ ReadingDue /\ ReadOne
       \/ (ConversionDirect \/ (CycleDue /\ ada.roms # {})) /\ StartConversion
       \/ DiscoveryDue /\ PerformDiscovery
       \/ StepNothing
    /\ UNCHANGED adopted

-----------------------------------------------------------------------------
(* What else happens *)

CountDown(n) == IF n = 0 THEN 0 ELSE n - 1

Overdue == ada.phase \in {"wait_conversion", "reading"} /\ ada.conversion = MaxLate

SensorTick ==
    /\ ~Overdue
    /\ mgr' = AgeReadings(mgr)
    /\ ada' = [ada EXCEPT !.discovery = CountDown(@), !.next = CountDown(@),
                          !.conversion = IF @ = None \/ @ = MaxLate THEN @ ELSE @ + 1]
    /\ UNCHANGED <<adopted, outage, steady, disturbances>>

RequestDiscovery ==
    /\ ada.phase # "closed" /\ ~ada.requested
    /\ Disturbed
    /\ ada' = [ada EXCEPT !.requested = TRUE]
    /\ UNCHANGED <<mgr, adopted, outage, steady>>

SensorDeinit ==
    /\ ada.phase # "closed"
    /\ Disturbed
    /\ ada' = [ada EXCEPT !.phase = "closed"]
    /\ UNCHANGED <<mgr, adopted, outage, steady>>

Reassign ==
    \E a \in Assignments :
        /\ a # mgr.assigned
        /\ Disturbed
        /\ mgr' = ConfigureAssignments(mgr, a)
        /\ outage' = (outage \/ (adopted # None /\ a[adopted.role] # adopted.rom))
        /\ UNCHANGED <<ada, adopted, steady>>

(* The controller reads a role; the manager keeps what the reading turned   *)
(* into.                                                                    *)
LookAt ==
    \E role \in Roles :
        /\ mgr' = RefreshRole(mgr, role, 0)
        /\ UNCHANGED <<ada, adopted, outage, steady, disturbances>>

Zeroed(r) == IF r = None THEN None ELSE [r EXCEPT !.generation = 0]

(* It starts a session with a fresh sensor that is present, and holds on to  *)
(* the revision and the generation it finds: counting restarts here.         *)
Adopt ==
    \E role \in Roles :
        LET seen == Snapshot(mgr, role)
        IN /\ seen.health = "ok" /\ seen.present = TRUE
           /\ mgr' = LET m == RefreshRole(mgr, role, 0)
                     IN [m EXCEPT !.revision = [r \in Roles |-> 0],
                                  !.reading = [rom \in Sensors |-> Zeroed(@[rom])]]
           /\ adopted' = [role |-> role, rom |-> seen.rom]
           /\ outage' = FALSE
           /\ UNCHANGED <<ada, steady, disturbances>>

SensorNext ==
    \/ SensorStep
    \/ SensorTick
    \/ RequestDiscovery
    \/ SensorDeinit
    \/ Reassign
    \/ LookAt
    \/ Adopt

(* The loop goes on, and so does time. *)
SensorFairness == WF_sensorVars(SensorStep) /\ WF_sensorVars(SensorTick)

SensorSpec == SensorInit /\ [][SensorNext]_sensorVars /\ SensorFairness

-----------------------------------------------------------------------------
(* Properties *)

(* What the controller relies on when it compares a snapshot with what it    *)
(* adopted (_apply_sensor_policy()): a usable snapshot of the same sensor,   *)
(* revision and generation means that there was no gap of FailedAfter        *)
(* between two valid samples and no change of assignment in between, however *)
(* seldom it looked and however late the samples came in.                    *)
OutageLeavesTrace ==
    adopted # None /\ outage =>
        LET seen == Snapshot(mgr, adopted.role)
        IN ~(/\ seen.usable
             /\ seen.rom = adopted.rom
             /\ seen.revision = 0
             /\ seen.generation = 0)

(* A reading becomes the power-on value only for a sensor that has delivered *)
(* another value before, and nothing failed for it since: neither its read,  *)
(* nor a conversion, nor a scan.                                             *)
TurnsPowerOn(rom) ==
    /\ mgr.reading[rom] # None /\ mgr'.reading[rom] # None
    /\ mgr.reading[rom].value # "powerOn"
    /\ mgr'.reading[rom].value = "powerOn"

PowerOnIsEarned ==
    \A rom \in Sensors : TurnsPowerOn(rom) => rom \in steady

(* What a sensor failed to deliver is never papered over, by any step:       *)
(* neither for the controller that holds on to it (it holds on to none       *)
(* initially), nor by the value of a sensor's reset.                         *)
OutagesAreSeen == [][OutageLeavesTrace' /\ PowerOnIsEarned]_sensorVars

(* While the adapter is open every assigned sensor is sampled again and      *)
(* again once the disturbances end: scans that fall due at every late step   *)
(* do not starve the conversions, nor do requested scans the reads.          *)
SensorsAreSampled ==
    \A rom \in Sensors :
        []<>(\/ ada.phase = "closed"
             \/ mgr.reading[rom] = None
             \/ mgr.reading[rom].valid \in 0 .. MaxLate)
=============================================================================
