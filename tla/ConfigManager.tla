---------------------------- MODULE ConfigManager -----------------------------
(***************************************************************************)
(* The two persistence domains of services/config_manager.py, static       *)
(* configuration and scheduler ledger, over two AtomicJSONConfigStores and *)
(* a file system that loses what was not synced.                           *)
(*                                                                         *)
(* A commit or a recovery runs through the file operations of its plan one *)
(* by one; power may be lost and an operation may fail at each of them.  A *)
(* rename shows at once and lasts after a sync, and os.sync() is global: it*)
(* makes the other store's renames last too.  What was renamed but not     *)
(* synced may survive a power loss, may not, or may be torn.  Between      *)
(* operations the medium wears: a file is lost, corrupted, or unreadable   *)
(* until it heals.                                                         *)
(***************************************************************************)
EXTENDS ConfigStore

CONSTANTS
    InitialDevices    \* configurations found on the disk at the first boot, each
                      \* with a bound on the files that its medium loses

ASSUME InitialAssumption ==
    /\ InitialDevices # {}
    /\ \A device \in InitialDevices : /\ device.config \in Pairs("config")
                                     /\ device.wear \in Nat

VARIABLES
    visible,   \* the files as the program reads them
    durable,   \* the files as a power loss leaves them
    unsure,    \* durability_unknown of each store
    mgr,       \* what the manager holds of each domain
    op,        \* the operation that runs
    wear,      \* files that may still wear, whether none has; domains worn since
               \* they were loaded
    settled,   \* history: the document last confirmed
    doubt,     \* history: documents written since and not confirmed
    fence      \* history: highest minute confirmed and not worn away

disk == <<visible, durable>>
history == <<settled, doubt, fence>>
vars == <<visible, durable, unsure, mgr, op, wear, settled, doubt, fence>>

NoOp == [kind |-> "none", domain |-> "none", val |-> None, gen |-> 0,
         wipes |-> FALSE, work |-> <<>>, step |-> "next"]
Kinds == {"commit", "recover"}
Stages == {"next", "staged", "published"}
Idle == op = NoOp

(* The shape of the state, and a store never has both slots unsynced, over *)
(* any sequence of failed operations: one of them is always safe.          *)
TypeOK ==
    /\ DOMAIN visible = Domains /\ DOMAIN durable = Domains
    /\ \A d \in Domains : visible[d] \in Pairs(d) /\ durable[d] \in Pairs(d)
    /\ unsure \in [Domains -> BOOLEAN]
    /\ \A d \in Domains : mgr[d] \in Managers(d)
    /\ \/ Idle
       \/ /\ op.kind \in Kinds /\ op.domain \in Domains
          /\ op.val \in Values(op.domain) /\ op.gen \in 1 .. MaxGeneration
          /\ op.wipes \in BOOLEAN
          /\ op.work \in Seq(Steps) /\ Len(op.work) <= 4
          /\ op.step \in Stages
    /\ wear \in [left : Nat, sound : BOOLEAN, since : SUBSET Domains]
    /\ \A d \in Domains : /\ settled[d] \in Values(d) \cup {None}
                          /\ doubt[d] \in SUBSET Values(d)
    /\ fence \in Minutes
    /\ \A d \in Domains :
          \E s \in Slots : visible[d][Other(s)] = durable[d][Other(s)]

-----------------------------------------------------------------------------
(* Loading.                                                                *)

Larger(m, n) == IF m < n THEN n ELSE m

(* History: the domains in `fresh` were read; what is trusted is settled.  *)
Read(fresh) ==
    LET trusted == {d \in fresh : mgr'[d].status = "ok"}
    IN /\ settled' = [d \in Domains |->
                        IF d \in trusted THEN mgr'[d].val ELSE settled[d]]
       /\ doubt' = [d \in Domains |-> IF d \in trusted THEN {} ELSE doubt[d]]
       /\ fence' = IF "ledger" \in trusted
                   THEN Larger(fence, mgr'["ledger"].val) ELSE fence
       /\ wear' = [wear EXCEPT !.since = @ \ fresh]

Reload(d) ==
    /\ Idle
    /\ mgr' = [mgr EXCEPT ![d] = Load(d, visible[d], unsure[d])]
    /\ Read({d})
    /\ UNCHANGED <<visible, durable, unsure, op>>

-----------------------------------------------------------------------------
(* Beginning an operation.                                                 *)

Fault(d) == mgr' = [mgr EXCEPT ![d].faulted = TRUE]

(* The store refuses before it writes anything. *)
Refused(d) == /\ Fault(d)
              /\ UNCHANGED <<visible, durable, unsure, op, wear, history>>

Begin(kind, d, v, plan) ==
    /\ op' = [kind |-> kind, domain |-> d, val |-> v,
              gen |-> plan[Len(plan)].gen,
              wipes |-> plan[1].kind = "remove", work |-> plan, step |-> "next"]
    /\ doubt' = [doubt EXCEPT ![d] = @ \cup {v}]
    /\ mgr' = IF kind = "recover" THEN [mgr EXCEPT ![d].faulted = TRUE] ELSE mgr
    /\ UNCHANGED <<visible, durable, unsure, wear, settled, fence>>

Untrusted(d) == mgr[d].status \in {"invalid", "recovery_required"}
FirstProvision(d) == mgr[d].status = "first_boot" /\ mgr[d].gen = 0

BeginCommit(d, v) ==
    IF Accepts(visible[d], mgr[d].gen)
    THEN Begin("commit", d, v, CommitPlan(visible[d], mgr[d].gen, FirstProvision(d)))
    ELSE Refused(d)

(* The ledger comes first: before the first configuration and before one   *)
(* that lets timers start.                                                 *)
NeedsLedger(v) == v \in Documents \/ FirstProvision("config")

CommitConfig(v) ==
    /\ Idle
    /\ ~Untrusted("config")
    /\ NeedsLedger(v) => mgr["ledger"].status = "ok" /\ ~mgr["ledger"].faulted
    /\ v # mgr["config"].val \/ mgr["config"].status # "ok" \/ mgr["config"].migration
    /\ BeginCommit("config", v)

Checkpoint(m) ==
    /\ Idle
    /\ ~Untrusted("ledger") /\ ~Untrusted("config")
    /\ mgr["ledger"].status = "first_boot" => mgr["config"].status # "ok"
    /\ m >= mgr["ledger"].val
    /\ m # mgr["ledger"].val \/ mgr["ledger"].status # "ok"
    /\ BeginCommit("ledger", m)

BeginRecover(d, v) ==
    IF CanReseal(visible[d])
    THEN Begin("recover", d, v, ResealPlan(visible[d]))
    ELSE Refused(d)

RecoverConfig ==
    /\ Idle
    /\ Untrusted("config") \/ mgr["config"].faulted
    /\ BeginRecover("config", Incomplete)

(* Faulty: the minute of the recovery, whatever survived. *)
ClockOnly(m) == m

(* The owner's clock, but never below what a readable slot still shows. *)
RecoveryMinute(m) == Larger(m, SurvivingMinute(visible["ledger"]))

RecoverLedger(m) ==
    /\ Idle
    /\ mgr["ledger"].status # "ok" \/ mgr["ledger"].faulted
    /\ BeginRecover("ledger", RecoveryMinute(m))

-----------------------------------------------------------------------------
(* The file operations.                                                    *)

Step == Head(op.work)
At(step) == ~Idle /\ op.work # <<>> /\ op.step = step

(* What the current step leaves in its slot. *)
Written == IF Step.kind = "remove" THEN Absent ELSE Record(Step.gen, op.val)
Renamed == [visible EXCEPT ![op.domain][Step.slot] = Written]

Unchanged == UNCHANGED <<unsure, mgr, wear, history>>

(* The temporary file is written, synced and read back: nothing is visible *)
(* of it, but everything renamed earlier lasts now.                        *)
StageTemp ==
    /\ At("next") /\ Step.kind = "publish"
    /\ durable' = visible
    /\ op' = [op EXCEPT !.step = "staged"]
    /\ UNCHANGED visible /\ Unchanged

ChangeSlot ==
    /\ At(IF Step.kind = "remove" THEN "next" ELSE "staged")
    /\ visible' = Renamed
    /\ op' = [op EXCEPT !.step = "published"]
    /\ UNCHANGED durable /\ Unchanged

SyncSlot ==
    /\ At("published")
    /\ durable' = visible
    /\ op' = [op EXCEPT !.step = "next", !.work = Tail(@)]
    /\ unsure' = IF Step.kind = "publish"
                 THEN [unsure EXCEPT ![op.domain] = FALSE] ELSE unsure
    /\ UNCHANGED <<visible, mgr, wear, history>>

(* Both slots are read again, and only what was written is accepted. *)
Confirmed(loaded) == loaded.status = "ok" /\ loaded.gen = op.gen
                     /\ loaded.val = op.val /\ ~loaded.migration

Confirm ==
    /\ ~Idle /\ op.work = <<>>
    /\ op' = NoOp
    /\ LET d == op.domain
           loaded == Load(d, visible[d], unsure[d])
       IN IF Confirmed(loaded)
          THEN mgr' = [mgr EXCEPT ![d] = loaded] /\ Read({d})
          ELSE Fault(d) /\ UNCHANGED <<wear, history>>
    /\ UNCHANGED <<visible, durable, unsure>>

-----------------------------------------------------------------------------
(* Failing.                                                                *)

Abort == Fault(op.domain) /\ op' = NoOp /\ UNCHANGED <<wear, history>>
Doubt == unsure' = [unsure EXCEPT ![op.domain] = TRUE]

FailTemp ==
    /\ At("next") /\ Step.kind = "publish"
    /\ Abort
    /\ durable' \in {durable, visible}
    /\ UNCHANGED <<visible, unsure>>

(* rename() or remove() raises, and may have done its work. *)
FailChange ==
    /\ At(IF Step.kind = "remove" THEN "next" ELSE "staged")
    /\ Abort /\ Doubt
    /\ visible' \in {visible, Renamed}
    /\ UNCHANGED durable

(* The sync fails, or the file does not read back. *)
FailSync ==
    /\ At("published")
    /\ Abort /\ Doubt
    /\ durable' \in {durable, visible}
    /\ UNCHANGED visible

FailConfirm ==
    /\ ~Idle /\ op.work = <<>>
    /\ Abort
    /\ UNCHANGED <<visible, durable, unsure>>

-----------------------------------------------------------------------------
(* The world.                                                              *)

(* A file that was renamed but not synced may also be torn. *)
CrashFiles(d, s) ==
    {visible[d][s], durable[d][s]} \cup
    (IF visible[d][s] = durable[d][s] THEN {} ELSE {Corrupt})

CrashPairs(d) ==
    {pair \in [Slots -> CrashFiles(d, "a") \cup CrashFiles(d, "b")] :
        \A s \in Slots : pair[s] \in CrashFiles(d, s)}

Crash ==
    \E config \in CrashPairs("config"), ledger \in CrashPairs("ledger") :
        /\ visible' = [d \in Domains |-> IF d = "config" THEN config ELSE ledger]
        /\ durable' = visible'
        /\ op' = NoOp
        /\ unsure' = [d \in Domains |-> FALSE]
        /\ mgr' = [d \in Domains |-> Load(d, visible'[d], FALSE)]
        /\ Read(Domains)

Wear(d, s) ==
    /\ Idle
    /\ visible = durable
    /\ wear.left > 0
    /\ visible[d][s].state = "record"
    /\ \E f \in {Absent, Corrupt, [visible[d][s] EXCEPT !.state = "unreadable"]} :
          visible' = [visible EXCEPT ![d][s] = f]
    /\ durable' = visible'
    /\ wear' = [left |-> wear.left - 1, sound |-> FALSE, since |-> wear.since \cup {d}]
    /\ fence' = IF d = "config" \/ fence <= SurvivingMinute(visible'[d])
                THEN fence ELSE SurvivingMinute(visible'[d])
    /\ UNCHANGED <<unsure, mgr, op, settled, doubt>>

Heal(d, s) ==
    /\ Idle
    /\ visible = durable
    /\ visible[d][s].state = "unreadable"
    /\ visible' = [visible EXCEPT ![d][s].state = "record"]
    /\ durable' = visible'
    /\ wear' = [wear EXCEPT !.since = @ \cup {d}]
    /\ UNCHANGED <<unsure, mgr, op, history>>

(* The first boot: a new device, or one an earlier release provisioned. *)
Init ==
    /\ \E device \in InitialDevices :
          /\ visible = [d \in Domains |->
                          IF d = "config" THEN device.config
                          ELSE IF device.config = EmptyPair THEN EmptyPair
                          ELSE [s \in Slots |-> Record(IF s = "a" THEN 1 ELSE 2, 0)]]
          /\ wear = [left |-> device.wear, sound |-> TRUE, since |-> {}]
    /\ durable = visible
    /\ unsure = [d \in Domains |-> FALSE]
    /\ mgr = [d \in Domains |-> Load(d, visible[d], FALSE)]
    /\ op = NoOp
    /\ settled = [d \in Domains |->
                    IF mgr[d].status = "ok" THEN mgr[d].val ELSE None]
    /\ doubt = [d \in Domains |-> {}]
    /\ fence = 0

Manage ==
    \/ \E d \in Domains : Reload(d)
    \/ \E v \in Values("config") : CommitConfig(v)
    \/ \E m \in Minutes : Checkpoint(m) \/ RecoverLedger(m)
    \/ RecoverConfig

Operate == StageTemp \/ ChangeSlot \/ SyncSlot \/ Confirm
Fail == FailTemp \/ FailChange \/ FailSync \/ FailConfirm
Suffer == Crash \/ \E d \in Domains, s \in Slots : Wear(d, s) \/ Heal(d, s)

Next == Manage \/ Operate \/ Fail \/ Suffer

Spec == Init /\ [][Next]_vars

-----------------------------------------------------------------------------
(* Properties.                                                             *)

(* timer_start_allowed *)
TimerStartAllowed ==
    /\ Idle
    /\ \A d \in Domains : mgr[d].status = "ok" /\ ~mgr[d].faulted
    /\ ~mgr["config"].migration
    /\ mgr["config"].val \in Documents

Serves(d) == Idle /\ mgr[d].status = "ok" /\ ~mgr[d].faulted

(* As long as timers may start, what they start on is durable: cutting the *)
(* power at that moment brings the same two documents back, trusted.       *)
GateIsDurable ==
    TimerStartAllowed /\ wear.since = {} =>
        \A d \in Domains : \A pair \in CrashPairs(d) :
            LET loaded == Load(d, pair, FALSE)
            IN loaded.status = "ok" /\ loaded.gen = mgr[d].gen
               /\ loaded.val = mgr[d].val

(* On a sound medium a power loss in the middle of anything leaves a       *)
(* readable slot with the confirmed document or one that was to replace it.*)
CrashKeepsSurvivor ==
    \A d \in Domains :
        wear.sound /\ settled[d] # None =>
            \A pair \in CrashPairs(d) : \E s \in Readable(pair) :
                Canonical(pair[s].val) \in doubt[d] \cup {settled[d]}

(* On a sound medium a configuration is never found without its ledger, in *)
(* no order of provisioning, recovery, failure and power loss: an empty    *)
(* ledger beside a configuration means that minutes were forgotten.        *)
LedgerFirst ==
    wear.sound /\ Readable(visible["config"]) # {} =>
        \A pair \in CrashPairs("ledger") : Readable(pair) # {}

(* A served ledger is never below a minute that was confirmed, unless the  *)
(* medium lost every slot that showed it; neither crash nor recovery can   *)
(* lower the fence that protects spent minutes.                            *)
FenceNeverFalls == Serves("ledger") => mgr["ledger"].val >= fence

Healed(pair) ==
    [s \in Slots |-> IF pair[s].state = "unreadable"
                     THEN [pair[s] EXCEPT !.state = "record"] ELSE pair[s]]

(* While two unreadable slots are resealed, from the removal of the first  *)
(* to the publication of the second, no power loss leaves a pair of slots  *)
(* that is trusted, even if the old file still there becomes readable.     *)
ResealIsFenced ==
    /\ op.wipes /\ Len(op.work) \in 1 .. 3
    /\ ~(Len(op.work) = 1 /\ op.step = "published")
    => \A pair \in CrashPairs(op.domain) : LoadStatus(Healed(pair)) # "ok"

(* Power may be lost at any point of any operation: one slot is always      *)
(* synced, a document survives, no configuration without its ledger, and no *)
(* half of a reseal that would be trusted.                                  *)
CrashesAreSurvived ==
    TypeOK /\ CrashKeepsSurvivor /\ LedgerFirst /\ ResealIsFenced

(* Each domain is a durable register: what is served was confirmed, or was *)
(* being written when power or storage failed, and nothing else is open.   *)
Served(d) == IF Serves(d) THEN mgr[d].val ELSE None

ConfigRegister == INSTANCE DurableRegister WITH
    Vals <- Values("config"), Nothing <- None,
    settled <- settled["config"], doubt <- doubt["config"],
    served <- Served("config")

LedgerRegister == INSTANCE DurableRegister WITH
    Vals <- Values("ledger"), Nothing <- None,
    settled <- settled["ledger"], doubt <- doubt["ledger"],
    served <- Served("ledger")

Registers == ConfigRegister!RegisterSpec /\ LedgerRegister!RegisterSpec

=============================================================================
