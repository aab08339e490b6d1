----------------------------- MODULE ConfigStore ------------------------------
(***************************************************************************)
(* Two slots that take turns: adapters/config_file_store.py, and what      *)
(* services/config_manager.py makes of them when it loads.                 *)
(*                                                                         *)
(* A file is absent, corrupt for good, unreadable for now (its record may  *)
(* come back), or a record: a generation and a payload.  Envelope, CRC and *)
(* canonical JSON decide which of these a file is and are not modelled     *)
(* further.  Names, fields and lines of a payload that validation reads    *)
(* are kept as far as they decide anything: a document is complete (setup  *)
(* done, timers, radio), Incomplete, in the schema of release 1, or        *)
(* Foreign, which no validation accepts; a ledger is its high-water mark,  *)
(* 0 for none.                                                             *)
(***************************************************************************)
EXTENDS Integers, Sequences, FiniteSets

CONSTANTS
    Documents,      \* complete configurations
    Incomplete,     \* a configuration without setup, timers and radio
    Release1,       \* a configuration in the schema of release 1
    Foreign,        \* a payload no validation accepts
    None,           \* no payload
    MaxMinute,      \* bound of the model on the high-water mark
    MaxGeneration   \* the highest generation a record can carry

Minutes == 0 .. MaxMinute

ASSUME GenerationAssumption == MaxGeneration \in Nat /\ MaxGeneration >= 2
ASSUME MinuteAssumption == MaxMinute \in Nat
ASSUME PayloadsAssumption ==
    /\ Cardinality({Incomplete, Release1, Foreign, None}) = 4
    /\ (Documents \cup Minutes) \cap {Incomplete, Release1, Foreign, None} = {}

Domains == {"config", "ledger"}
Slots == {"a", "b"}
Other(s) == IF s = "a" THEN "b" ELSE "a"


(* What validation returns, and what a record may hold. *)
Values(d) == IF d = "config" THEN Documents \cup {Incomplete} ELSE Minutes
Payloads(d) ==
    IF d = "config" THEN Values(d) \cup {Release1, Foreign} ELSE Values(d)

Default(d) == IF d = "config" THEN Incomplete ELSE 0

File(state, gen, val) == [state |-> state, gen |-> gen, val |-> val]
Absent == File("absent", 0, None)
Corrupt == File("corrupt", 0, None)
Record(gen, val) == File("record", gen, val)

Files(d) ==
    {Absent, Corrupt} \cup
    {File(st, g, v) : st \in {"record", "unreadable"},
                      g \in 1 .. MaxGeneration, v \in Payloads(d)}
Pairs(d) == [Slots -> Files(d)]
EmptyPair == [s \in Slots |-> Absent]

-----------------------------------------------------------------------------
(* load_records() and what the store derives from it.                      *)

Readable(pair) == {s \in Slots : pair[s].state = "record"}
InvalidSlots(pair) == {s \in Slots : pair[s].state \in {"corrupt", "unreadable"}}

IsNewest(pair, among, s) ==
    /\ s \in among
    /\ \A t \in among : pair[t].gen <= pair[s].gen

LatestGeneration(pair) ==
    LET r == Readable(pair)
    IN IF r = {} THEN 0 ELSE pair[CHOOSE s \in r : IsNewest(pair, r, s)].gen

(* Two payloads under one generation: neither can be called the latest. *)
SplitBrain(pair, among) ==
    \E s, t \in among : pair[s].gen = pair[t].gen /\ pair[s].val # pair[t].val

(* The slot commit() may overwrite: never the only or the newest record. *)
TargetSlot(pair) ==
    LET r == Readable(pair)
    IN IF r = {} THEN "a"
       ELSE IF Cardinality(r) = 1 THEN CHOOSE s \in Slots : s \notin r
       ELSE IF pair["a"].gen < pair["b"].gen THEN "a" ELSE "b"

(* A step of a write plan: remove a slot's file, or publish a generation. *)
Remove(s) == [kind |-> "remove", slot |-> s, gen |-> 0]
Publish(s, g) == [kind |-> "publish", slot |-> s, gen |-> g]
Steps == [kind : {"remove", "publish"}, slot : Slots, gen : 0 .. MaxGeneration]

(* commit() of the generation after the expected one is accepted. *)
Accepts(pair, expected) ==
    /\ expected < MaxGeneration
    /\ ~SplitBrain(pair, Readable(pair))
    /\ LatestGeneration(pair) = expected

(* The first provisioning commits generations one and two in a row. *)
CommitPlan(pair, expected, first) ==
    LET s == TargetSlot(pair)
    IN IF first THEN <<Publish(s, 1), Publish(Other(s), 2)>>
       ELSE <<Publish(s, expected + 1)>>

CanReseal(pair) == LatestGeneration(pair) <= MaxGeneration - 2

(* The slot reseal() writes first: an unreadable one, for its generation   *)
(* is not known, otherwise the older one, never the only record.           *)
ResealFirst(pair) ==
    LET r == Readable(pair)
        i == InvalidSlots(pair)
    IN IF i # {} THEN IF "a" \in i THEN "a" ELSE "b"
       ELSE IF Cardinality(r) = 1 THEN CHOOSE s \in Slots : s \notin r
       ELSE IF r # {} /\ pair["b"].gen < pair["a"].gen THEN "b" ELSE "a"

(* Faulty: each unreadable slot is removed only when its turn comes. *)
ResealOneByOne(pair) ==
    LET g == LatestGeneration(pair)
        s == ResealFirst(pair)
    IN IF InvalidSlots(pair) = Slots
       THEN <<Remove("a"), Publish("a", 1), Remove("b"), Publish("b", 2)>>
       ELSE <<Publish(s, g + 1), Publish(Other(s), g + 2)>>

(* Two slots of unknown generation are both removed before anything is     *)
(* written; a generation is never published beside an unknown one.         *)
ResealPlan(pair) ==
    LET g == LatestGeneration(pair)
        s == ResealFirst(pair)
        wipe == IF InvalidSlots(pair) = Slots
                THEN <<Remove("a"), Remove("b")>> ELSE <<>>
    IN wipe \o <<Publish(s, g + 1), Publish(Other(s), g + 2)>>

-----------------------------------------------------------------------------
(* _load_domain() of the manager: semantic validation on top of it.        *)

Statuses == {"first_boot", "ok", "recovery_required", "invalid"}

Valid(pair) == {s \in Readable(pair) : pair[s].val # Foreign}

(* Faulty: a single intact slot is good enough. *)
LoneStatus(pair) ==
    LET v == Valid(pair)
    IN IF v = {} THEN IF pair = EmptyPair THEN "first_boot" ELSE "invalid"
       ELSE IF SplitBrain(pair, v) THEN "invalid"
       ELSE "ok"

(* One slot is never trusted, and neither are two that do not follow each  *)
(* other.                                                                  *)
LoadStatus(pair) ==
    LET v == Valid(pair)
    IN IF v = {} THEN IF pair = EmptyPair THEN "first_boot" ELSE "invalid"
       ELSE IF SplitBrain(pair, v) THEN "invalid"
       ELSE IF v = Slots /\ pair["a"].gen - pair["b"].gen \in -1 .. 1 THEN "ok"
       ELSE "recovery_required"

(* A configuration of release 1 is migrated, and is then incomplete. *)
Canonical(v) == IF v = Release1 THEN Incomplete ELSE v

(* The file the manager goes by, when there is one. *)
Chosen(pair) ==
    pair[CHOOSE s \in Valid(pair) : IsNewest(pair, Valid(pair), s)]

(* Faulty: what reads well is believed. *)
BelievedStatus(pair, unsure) == LoadStatus(pair)

(* A store that could not confirm its last publication is not believed     *)
(* again before the next boot.                                             *)
TrustedStatus(pair, unsure) ==
    IF ~unsure THEN LoadStatus(pair)
    ELSE IF LoadStatus(pair) \in {"first_boot", "invalid"} THEN "invalid"
    ELSE "recovery_required"

Managers(d) == [status : Statuses, gen : 0 .. MaxGeneration, val : Values(d),
                faulted : BOOLEAN, migration : BOOLEAN]

(* _load_configuration() and _load_scheduler_checkpoint(): a configuration *)
(* that needs recovery is shown without timers and radio, a ledger not at  *)
(* all, and its generation is forgotten.                                   *)
Load(d, pair, unsure) ==
    LET status == TrustedStatus(pair, unsure)
        chosen == Chosen(pair)
        visible == status = "ok" \/ (d = "config" /\ status = "recovery_required")
    IN [status |-> status,
        gen |-> IF visible THEN chosen.gen ELSE 0,
        val |-> IF status = "ok" THEN Canonical(chosen.val) ELSE Default(d),
        faulted |-> status \in {"recovery_required", "invalid"},
        migration |-> visible /\ chosen.val = Release1]

(* The highest minute a readable ledger still shows. *)
SurvivingMinute(pair) ==
    LET marks == {pair[s].val : s \in Readable(pair)} \cup {0}
    IN CHOOSE m \in marks : \A n \in marks : n <= m

=============================================================================
