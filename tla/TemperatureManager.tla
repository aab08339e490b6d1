------------------------- MODULE TemperatureManager -------------------------
(***************************************************************************)
(* The temperature manager (app/temperature_manager.py) as operators on    *)
(* the record mgr: which sensor plays which role, what each of them read   *)
(* last and when, and how healthy a role is thereby.                       *)
(*                                                                         *)
(* A timestamp is an age. Every operation takes the time it is about as    *)
(* "ago", how far it lies back: samples are stamped with the end of their  *)
(* conversion and arrive later. Ages are exact up to MaxAge, which is far  *)
(* enough to tell a failed reading however late a sample arrives.          *)
(*                                                                         *)
(* Only the equality of revisions and generations matters to their reader, *)
(* the heater controller, which compares them with those it adopted for a  *)
(* session. They are counted from the last adoption and no further than    *)
(* MaxCount.                                                               *)
(***************************************************************************)
EXTENDS Absence, Integers, FiniteSets, SequencesExt

CONSTANTS
    Roms,           \* the sensors, in the order of their ROM ids
    Roles,          \* what a sensor may be used for
    StaleAfter,     \* a valid sample this old is stale
    FailedAfter,    \* ... and this old means that the sensor has failed
    MaxLate,        \* bound: how late a sample may be read
    MaxCount        \* bound: how far revisions and generations are counted

ASSUME SensorAgesAssumption ==
    /\ StaleAfter \in Nat \ {0}
    /\ FailedAfter \in Nat /\ FailedAfter > StaleAfter
    /\ MaxLate \in Nat
    /\ MaxCount \in Nat \ {0}

Sensors == Range(Roms)

ASSUME RomsAssumption == Roms \in Seq(Sensors)

MaxAge == FailedAfter + MaxLate

Ages == 0 .. MaxAge \cup {None}

(* A power-on value is the 85 degrees a sensor shows before it converted. *)
Values == {"ordinary", "powerOn"}

Healths == {"ok", "stale", "failed", "missing"}

Readings ==
    [value : Values \cup {None}, valid : Ages, unavailable : Ages,
     updated : 0 .. MaxLate \cup {None}, generation : 0 .. MaxCount, present : BOOLEAN \cup {None}]

Managers ==
    [assigned : [Roles -> Sensors \cup {None}],
     revision : [Roles -> 0 .. MaxCount],
     reading : [Sensors -> Readings \cup {None}],
     health : [Roles -> Healths],
     discovered : SUBSET Sensors]

ASSUME NoneIsNoReading == None \notin Readings

Counted(n) == Min({n + 1, MaxCount})

Aged(age, limit) == IF age = None \/ age = limit THEN age ELSE age + 1

NewReading ==
    [value |-> None, valid |-> None, unavailable |-> None, updated |-> None,
     generation |-> 0, present |-> None]

NewManager ==
    [assigned |-> [role \in Roles |-> None],
     revision |-> [role \in Roles |-> 0],
     reading |-> [rom \in Sensors |-> None],
     health |-> [role \in Roles |-> "missing"],
     discovered |-> {}]

AssignedRoms(m) == {m.assigned[role] : role \in Roles} \ {None}

-----------------------------------------------------------------------------
(* What a role looks like *)

Precedes(r, ago) == r.updated # None /\ r.updated < ago

Health(r, ago) ==
    IF r = None THEN "missing"
    ELSE IF r.valid # None
    THEN IF r.valid - ago >= FailedAfter THEN "failed"
         ELSE IF r.valid - ago >= StaleAfter THEN "stale" ELSE "ok"
    ELSE IF r.unavailable # None /\ r.unavailable - ago >= FailedAfter
         THEN "failed" ELSE "missing"

ReadingOf(m, role) ==
    IF m.assigned[role] = None THEN None ELSE m.reading[m.assigned[role]]

FailureCounted(r) == [r EXCEPT !.generation = Counted(@)]

(* _refresh_role() for each of these roles: a turn to failed counts in the   *)
(* reading, for good. No two roles share a sensor.                           *)
RefreshRoles(m, roles, ago) ==
    LET current == [role \in Roles |-> Health(ReadingOf(m, role), ago)]
        turned == {role \in roles : current[role] = "failed" /\ m.health[role] # "failed"}
    IN [m EXCEPT !.health = [role \in Roles |-> IF role \in roles THEN current[role]
                                                ELSE @[role]],
                 !.reading = [rom \in Sensors |->
                     IF \E role \in turned : m.assigned[role] = rom
                     THEN FailureCounted(@[rom]) ELSE @[rom]]]

RefreshRole(m, role, ago) == RefreshRoles(m, {role}, ago)

RefreshRom(m, rom, ago) == RefreshRoles(m, {role \in Roles : m.assigned[role] = rom}, ago)

RefreshAll(m) == RefreshRoles(m, Roles, 0)

(* sensor_snapshot(), whose caller also sees the refreshed manager. *)
Snapshot(m, role) ==
    LET n == RefreshRole(m, role, 0)
        r == ReadingOf(n, role)
    IN [rom |-> n.assigned[role],
        health |-> n.health[role],
        usable |-> n.health[role] \in {"ok", "stale"},
        present |-> IF r = None THEN None ELSE r.present,
        generation |-> IF r = None THEN 0 ELSE r.generation,
        revision |-> n.revision[role]]

-----------------------------------------------------------------------------
(* Operations *)

Assignments ==
    {a \in [Roles -> Sensors \cup {None}] :
        \A p, q \in Roles : p # q /\ a[p] # None => a[p] # a[q]}

(* configure_assignments(): a sensor that keeps a role keeps its reading. *)
ConfigureAssignments(m, a) ==
    LET used == {a[role] : role \in Roles} \ {None}
        fresh(rom) ==
            IF m.discovered = {} THEN NewReading
            ELSE [NewReading EXCEPT !.present = rom \in m.discovered]
    IN [m EXCEPT
          !.assigned = a,
          !.revision = [role \in Roles |->
              IF a[role] # m.assigned[role] THEN Counted(@[role]) ELSE @[role]],
          !.reading = [rom \in Sensors |->
              IF rom \notin used THEN None
              ELSE IF @[rom] = None THEN fresh(rom) ELSE @[rom]]]

(* Never a sample: unavailable from the first time it is missed. *)
MarkUnavailable(r, ago) ==
    IF r.valid = None /\ r.unavailable = None
    THEN [r EXCEPT !.unavailable = ago] ELSE r

Missed(r, ago) == [MarkUnavailable(r, ago) EXCEPT !.updated = ago]

RecordDiscovery(m, found) ==
    LET seen(r, rom) ==
            LET p == [r EXCEPT !.present = rom \in found]
                u == IF rom \in found THEN p ELSE MarkUnavailable(p, 0)
            IN [u EXCEPT !.updated = 0]
    IN RefreshAll([m EXCEPT
          !.discovered = found,
          !.reading = [rom \in Sensors |->
              IF @[rom] = None THEN None ELSE seen(@[rom], rom)]])

Recordable(m, rom, ago) == m.reading[rom] # None /\ ~Precedes(m.reading[rom], ago)

RecordFailure(m, rom, ago) ==
    IF ~Recordable(m, rom, ago) THEN m
    ELSE RefreshRom([m EXCEPT !.reading[rom] = Missed(@, ago)], rom, ago)

(* How long the reading had been without a valid sample when this one was   *)
(* taken.                                                                   *)
Gap(r, ago) ==
    LET anchor == IF r.valid # None THEN r.valid ELSE r.unavailable
    IN IF anchor = None THEN 0 ELSE anchor - ago

(* Faulty: the recovery hides the failure before it. *)
RecordValidUncounted(m, rom, value, ago) ==
    IF ~Recordable(m, rom, ago) THEN m
    ELSE RefreshRom([m EXCEPT !.reading[rom] =
                       [@ EXCEPT !.value = value, !.valid = ago,
                                 !.unavailable = None, !.updated = ago,
                                 !.present = TRUE]],
                    rom, ago)

(* record_valid(): an overdue reading is first counted as failed.           *)
RecordValid(m, rom, value, ago) ==
    IF ~Recordable(m, rom, ago) THEN m
    ELSE LET overdue == Gap(m.reading[rom], ago) >= FailedAfter
             counted == IF overdue THEN RefreshRom(m, rom, ago) ELSE m
         IN RefreshRom([counted EXCEPT !.reading[rom] =
                          [@ EXCEPT !.value = value, !.valid = ago,
                                    !.unavailable = None, !.updated = ago,
                                    !.present = TRUE]],
                       rom, ago)

(* The passage of one unit of time. The last update is only compared with   *)
(* how late a sample is.                                                    *)
AgedReading(r) ==
    IF r = None THEN None
    ELSE [r EXCEPT !.valid = Aged(@, MaxAge), !.unavailable = Aged(@, MaxAge),
                   !.updated = Aged(@, MaxLate)]

AgeReadings(m) == [m EXCEPT !.reading = [rom \in Sensors |-> AgedReading(@[rom])]]
=============================================================================
