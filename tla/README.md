# Landy Heater in TLA+

Models, model-checking runs and proofs of the control software of the Landy
Heater (MicroPython on an ESP32-S3: `app/`, `protocol/`, `services/`,
`adapters/`, `hardware/`). The software starts and stops an Autoterm diesel air
heater over a serial line, from a web interface or from timers, supervised by
temperature sensors. What has to be right is who may start the heater, for how
long, and that it stops.

`tools/`, `tests/`, `firmware/` (frozen duplicates of the sources),
`captures/` and `reference/` hold bench scripts, tests, builds and records, and
are left aside. Of `web/` only what a page holds and sends is modelled.

## The system

The product is one cooperative loop (`ProductRuntime.run_forever`): sensors,
network, web server, scheduler gateway, heater runtime, 10 ms of sleep. There
are no threads and no interrupts that change application state; interleaving
comes from the order of calls in a round, from the time between rounds, from
messages under way and from restarts.

| Component | State it keeps | Operations | Hard to get right |
|---|---|---|---|
| Heater controller `app/heater_controller.py`, `application_state.py` | requested and actual state, phase, open attempt, faults, session, latch, restart block, timers | `handle_frame`, `request_start`, `request_stop`, `update_active_session`, `retry_control_fault`, `report_communication_error`, `step` | starts without supervision, retries, stops that must wait, late answers, expiry against extension |
| Heater runtime `app/heater_composition.py` | started, closed, faulted, restart pending | `start`, `step`, `deinit` | giving up the line while the heater runs |
| Product loop `app/product_runtime.py` | what is open, restart fence, listener of the station | `start`, `step`, `shutdown_step`, `run_forever` | a save in the middle of a round, a part that fails, an address that changes |
| Serial line `protocol/` | framer, receive fault, activity queue, TX gate | `poll`, `send_frame`, `reset_rx` | unknown transmission state, lost and damaged frames |
| Scheduler `app/scheduler.py` | timers, baseline clock, consumed occurrences, epoch, active occurrence, fault | `step`, `authorize_intent`, `complete_intent`, `mark_*`, `restore_persistent_history` | at most once across reboots, clock jumps, conflicts |
| Scheduler gateway `app/scheduler_controller_gateway.py` | fault, pending override, counters | `apply_intent`, `step`, `request_manual_stop`, `reset_fault` | durable before started, rollback, re-entrancy |
| Manual gateway `app/manual_control_gateway.py`, configuration API, `services/rest_security.py` | operation flag, latches, token of the boot | `request_start`, `request_stop`, `request_session_update`, saves | acting on what the client saw, answering for what was done |
| Configuration manager `services/config_manager.py` and store `adapters/config_file_store.py` | two slots and a temporary file for each of two domains, generations | `load`, `commit`, `checkpoint_*`, `recover_*` | crash between any two file operations |
| Temperature manager `app/temperature_manager.py`, sensor adapter `adapters/ds18b20_adapter.py` | readings, assignments, failure generations; phase of the bus, what was found | `record_valid`, `record_failure`, `sensor_snapshot`; `step` | ageing, recovery, an outage nobody saw, scans against conversions |
| Time service and RTC bridge | clock anchor, trust, revisions, staged write | `snapshot`, set, `step`, write-back | late confirmation of an older correction, a reset in the middle of a write |
| Network manager | station and access-point phases, backoff | `step` | retries that must not starve the recovery AP |
| Wi-Fi port `hardware/micropython_wifi.py` | both interfaces, the lease of the process, the ports opened on them | open, prepare, connect, disconnect, `deinit` | closing from within a call of the driver, cleanup that fails half-way |
| HTTP server `adapters/micropython_http_server.py` | fixed table of connections | `step` | slow peers, sockets that fail to close, slots that leak |
| Rate limiter `services/rest_rate_limiter.py` | fixed table of peers, latch | `authorize`, `complete` | windows, eviction, wrap of the ticks |
| Diagnostics, board configuration, entry points | bounded logs; constants | | nothing else reads them |

How they interact: the runtime polls the line and hands every frame to the
controller, then calls `step`, which transmits at most one command. The
gateways call `request_start`, `request_stop` and `update_active_session`
between the steps. The controller reads sensors through `sensor_snapshot`. The
scheduler gateway checkpoints the consumed occurrences through the
configuration manager before it starts anything.

## Modules

**`HeaterController`** is the control authority. The Python object is one
record `ctl`; each private method is an operator from a record to a record with
the method's name, each public method is an action, and `StepController` is
`step()` in the order of the code: start deadline, response timeout, session
expiry, sensor policy, session adoption, confirmation bookkeeping, and then at
most one of control decision and poll. A tick stamp of the code is an age or a
remaining time relative to the present, so the state space is finite and tick
wraparound does not occur. `op` is the operation the last step transmitted
(with `_error` when the write failed), `raised` that an exception would have
left `step()`.

What is abstracted: sensor roles (cabin and roof temperature are handled alike
and are one mode, "temperature"); a sensor's ROM id, assignment revision and
failure generation are one value, its binding; failed, missing and
contradictory snapshots are one reading, `Unusable`; parameter validation
(callers outside the accepted ranges get an exception and change nothing);
events, counters and messages; `MemoryError` paths. Any frame may arrive at any
time, any reading may be returned by any step and every write may fail.

**`HeaterSystem`** closes the loop: the heater with its own moves (it ignites or
gives up, monitors, stops by itself, cools down), commands under way, answers
not yet read, a receiver that can fault for good, and the owner that polls,
steps and shuts down. One round of the loop is one action: time passes, every
frame received is handled in order, the controller steps. The heater answers
with the state it is in, so that belief and truth can be compared. Lost
commands and answers, garbled answers, failing writes (delivered or not) and
the receiver fault are anomalies, at most `MaxAnomalies` of them. The heater and
the line are external and follow `PROTOCOL.md` as far as the code relies on it.

**`SupervisedHeat`** is the abstract promise: four Booleans (wanted,
supervised, heating, helpless). The heater is lit only under a session, a
session is released only when the heater is off, every supervised request ends
and unwanted heat ends unless the controller has shown that it cannot end it.
`HeaterSystem` implements it under the mapping of `Heat`: `HeatPromise` is the
safety part and `StopIsServed`, `SessionsEnd` the two liveness parts.

**`Scheduler`** is the weekly timer scheduler, operators on a record `sch`, and
the local calendar it reads: an offset that changes twice, hence a gap and a
fold. `StepScheduler` is `step()`: the clock is observed, a correction, a jump
or the fold starts nothing, whatever is due is consumed at once, and only an
occurrence that is alone becomes an intent. `AuthorizeIntent` and
`CompleteIntent` are the two phases of an intent, `NextOccurrences` is what the
web interface announces. A local minute stands for itself: weekdays, dates and
occurrence keys are ways to write it.

**`SchedulerGateway`** puts it to work: the gateway with its fault and its
pending override, the ledger of the configuration manager, the disk, the
restart that a changed configuration asks for, and of the heater controller
only the request and whether it is busy, off or ready for a start. A call of
the gateway is one action, since nothing else runs meanwhile; what can come in
between, the passing of time during a write and the loss of power, is part of
it or an action beside it (`CrashInStep`, `CrashInStop`). `Checkpoints` lists
all that a checkpoint may come to: refused, already there, failed before the
commit took effect, failed after it, or done, each with the read-back that the
gateway insists on. The second checkpoint of `_apply_intent_core()` finds
nothing left to write and is part of the first. A boot finds the ledger trusted
or not and starts from what the disk says or from an empty ledger that may not
be written.

Left out: `MemoryError` in the scheduler except where the gateway tries again
(`mark_manual_override()`), the tokens that tell a foreign intent from the
present one, calls back into the gateway, and the bootstrap of a device without
any ledger. `reset_fault()` of the gateway is modelled although nothing in the
product calls it.

**`OneShotTimers`** is the abstract promise of the timers: a local minute is
spent for good before anything runs for it, and what runs for it starts in the
step that spends it. `SchedulerGateway` implements it (`OneShot`) with the high
water of the ledger on the disk for `spent`.

**`ConfigStore`** is the two-slot store as operators on a pair of files: which
records a load finds, which slot a commit may overwrite, the plan of file
operations of a commit and of a reseal, and what the manager makes of a pair
(`LoadStatus`, `TrustedStatus`, `Load`). A file is absent, corrupt, unreadable
for now, or a record of a generation and a payload; a configuration is complete,
incomplete (a new device, or what a recovery leaves), of release 1, or foreign
(no validation accepts it); a ledger is its high-water mark, since its records
and their monotony are already in `SchedulerGateway`.

**`ConfigManager`** is the manager over both domains and over a file system with
a visible and a durable image: a rename shows at once and lasts after a sync,
which is global. `CommitConfig`, `Checkpoint`, `RecoverConfig` and
`RecoverLedger` begin an operation, `StageTemp`, `ChangeSlot`, `SyncSlot` and
`Confirm` carry out its plan, each of them may fail, with or without its effect,
and power may be lost at any point, whereupon an unsynced rename survived, did
not, or is torn. Between operations the medium wears: a file is lost, corrupted
or hidden until it heals. The manager never runs two operations, so nothing
happens during one but failure and power loss. The second read of
`inspect_recovery()` and `reseal()` is one read; a difference between the two
makes the reseal refuse, which is among the failures of its first step.

**`DurableRegister`** is the abstract promise of a domain: what was confirmed
stays until something else takes its place, in between nothing is served, and
nothing else is ever served. `ConfigManager` implements it twice (`Registers`).

The modules of the parts around these three each stand for one component.
**`Absence`** declares `None` for all of them.

**`TemperatureManager`** has the readings of each sensor and what a role's
snapshot says of them, in terms of age; **`SensorAdapter`** drives it: scan,
conversion and reading share one bus and one deadline, any operation may be
disturbed, a sensor may come and go, and a step may be late by any time. Its
`adopted` stands for the controller, which remembers the failure generation when
it starts and compares it later. The code reads a cycle from a sorted list of ROM
ids; here a cycle is the set of sensors still to be read, and the next one is the
first of them in that order (`Roms`).

**`RtcTimeBridge`** is the time service (what it shows, its revision, whether
timers may trust it, the write that is pending) with the bridge and the chip. A
clock value is a deviation from true time. The bridge's calls to the driver are
actions of their own, since the correction of the clock may fall between them; a
reset may fall into any of them and leaves the marker and the oscillator flag as
the chip has them.

**`HttpServer`** is the table of connections: queued, reading, answering and
closing, the rotation that gives each slot one socket action, timeouts, and sockets
that fail while they are read, written or closed. **`RateLimiter`** is the table
of peers with its three windows over a tick that wraps.

**`WebControl`** is the way of a command: a page looks, its command is
delivered late, out of order or never, and may be sent again, and the REST
application checks the token, the tag and the session, asks the manual gateway,
and answers. A save disarms the scheduler before its first write, and a boot finds
an unconfirmed document written or not. What a page knows is a revision of the
Requested State, which begins anew with each boot; `seen`, `boot` and `sent` record,
for the properties only, what was so when the page looked and when its request
left. `StartsAreCurrent` speaks of a look within the boot in which it is used: a
look from before a reboot the code cannot tell from a present one (`web_restart`).

**`ProductRuntime`** is the owner of the services: `start()` as stages, a round as
a composition of its parts in the order of the code, each from a state to the
states it may end in, so that a failing part leaves what the parts before it did.
A fault of the heater's owner closes the UART, and after a commit in a round the
scheduler is stepped once more in the same round; both are the code's.

**`NetworkManager`** is the radio: a step makes at most one call of the driver, for
the access point or for the station, and `passed` counts how often each side was
due and the other one was served.

**`SerialLine`** is the line below the frames that `HeaterSystem` passes on: the
framer byte by byte, the candidate that is given up when it stays incomplete, the
polling, and the receiver that is latched as broken when it announces bytes and
delivers none. A fault drops or damages a byte or breaks a call. `insync` and
`owed` are history: what the heater has sent since the line was last silent and in
step has to be handed on.

**`TxGate`** is the gate before the transmitter, opened for one frame and shut
whatever has become of it; any use of its pin may raise with or without its
effect. The product is wired through a level shifter and has no such gate; the
code keeps the gated profile beside it, and the module is about that profile.

**`WiFiPort`** is the adapter between the network manager and the driver of the
radio. A call of the driver may come back to the program before it returns, and
the program may close the manager there; such a call is therefore two actions
with a stage in between. A lease that belongs to the process says which port may
use the interfaces, and is locked for good when a port could not clean up after
itself.

The modules named **`...Proofs`** hold the theorems. Most are named for the module they
are about; `HeaterControllerStepProofs` goes on from `HeaterControllerProofs`.
`DeviceProofs` is about `ProductRuntime`, `RtcTimeBridge`, `TxGate`, `SensorAdapter`
with `TemperatureManager`, `NetworkManager` and `WiFiPort`; `WebProofs` about
`RateLimiter`, `HttpServer` and `WebControl`. The parts in one of these files share
nothing else. `PeripheralsProofs` is about `SerialLine`, and about the parts of
`MCPeripherals` taken together.
The **`MC`** modules instantiate the modules for TLC. `MCPeripherals` holds the
nine parts around controller, scheduler, store and web control side by side: they meet in the
main loop only, so in a behaviour one of them moves (`focus`) and the others rest.
Operators whose comment says "Faulty" are plausible bugs for the mutation runs and
are otherwise unused.

## Runs

| Run | Configuration | Shows |
|---|---|---|
| `controller` | `HeaterController.cfg` | temperature sessions on two sensor bindings, three requests, start deadlines, extensions, two attempts: a stop is final until OFF, request, session, attempt, latch and clock agree, session and fences end at a reported OFF only, no step raises, a START is supervised, commands have a fresh reason, repetition is bounded, the deadline is honoured, the revision counts changes |
| `controller_restart` | `HeaterControllerRestart.cfg` | expected violation, see below |
| `system_safety` | `HeaterSystemSafety.cfg` | two anomalies, two revisions, retries, extension, shutdown at any time: START meets only a heater that is off, OFF is believed only when true, `SupervisedHeat` is implemented |
| `system_live` | `HeaterSystemLive.cfg` | temperature sessions, one anomaly: unwanted heat ends, sessions end, shutdown ends, latch and restart block come down |
| `system_close` | `HeaterSystemClose.cfg` | expected violation, see below |
| `timers` | `SchedulerGatewayTimers.cfg` | two timers that meet, one of them deletable, across a gap and a fold, failing checkpoints, crashes, untrusted ledgers, one correction of the clock: history is durable before anything starts and never taken back, conflicts start nothing, nothing is started late, early, twice or unannounced, an occurrence whose session is over is let go of, `OneShotTimers` is implemented |
| `storage` | `ConfigManagerStorage.cfg` | both domains from a new device, one of release 1, one whose configuration a later release wrote, and one whose medium loses, corrupts or hides two files: while timers may start, what they start on survives a power loss; one slot always survives; no configuration without its ledger; the fence of spent minutes never falls below what a slot still shows; a half-done reseal is never trusted; both domains implement `DurableRegister` |
| `web` | `WebControl.cfg` | a page with two commands under way, timers, ends of sessions, failing starts, stops and saves, a reboot: nothing sent before a reboot changes anything after it, within a boot a start or an adjustment overwrites nothing its page has not seen, a timer runs its document only (`StartsAreCurrent`), and what a page is told is so (`AnswersAreTrue`) |
| `web_restart` | `WebControlRestart.cfg` | expected violation, see below |
| `peripherals` | `Peripherals.cfg` | the nine parts around: an outage is never hidden (`OutagesAreSeen`); timers run on a time the chip kept whole, a marker is lifted over the present time only, corrections reach the chip (`ClockIsTrustworthy`, `ReleasesAreCurrent`); connections are owned (`ConnectionsAreOwned`); quotas hold (`QuotasHold`); a saved change ends the heat and the listener follows the address (`ChangeEndsHeat`, `ListenerIsCurrent`); neither side of the network starves (`NeitherStarves`); what arrives whole is cut right, after noise too (`FramesArrive`); the gate of the transmitter is shut between calls (`GateIsShut`); the radio is on only for a port that answers for it (`RadioIsAccounted`); and each part goes on: samples are taken, corrections written, connections end, the network is tried again, the line comes back into step (`PartsGoOn`) |
| `rate_wrap` | `RateLimiterWrap.cfg` | expected violation, see below |
| `product_abandon` | `ProductRuntimeAbandon.cfg` | expected violation, see below |

Bounds. One time unit stands for the control settle delay; a heartbeat is two or
three units, the response timeout longer than it, so that a status can be fresh,
stale, answered late and re-requested. Session runtimes are long enough for a
start, its retry and its confirmation before expiry. `MaxControlAttempts` is 1
or 2 (the product uses 2) and the second attempt is the one after which a fault
is latched. `MaxRevision` bounds how many requests and adjustments are made:
three let a new request meet the leftovers of two earlier ones. In
`controller` two bindings show a sensor replaced; the controller only compares them,
so that they are a symmetry set. A session of five units leaves a second attempt time
to be confirmed before the session expires. The sessions are on temperature, where
the sensor policy is at work; a session on a power level has no sensor to be
supervised by, is what `system_safety` runs, and is covered by the theorems, which
hold for any modes. `MaxQueue = 1` states
that the heater takes each command before the next one is written; a heater slower
than a heartbeat can be sent a duplicate START, because STATUS answers carry no
correlation, and this is outside of what the properties claim. Deadlock is not
checked in the system runs: a closed process stops for good.

In the timer runs a minute has two ticks and a jump of more than three is taken
for a jump of the clock, so that a round may see a minute begin, miss it, or see
two of them. A checkpoint takes up to one tick longer than an intent is valid.
The ticks up to nine have the local minutes 0, 3, 4, 3, 4: two are skipped and two come
twice; one timer starts alone in minute 3 and the two meet in minute 4. One
correction of the clock may go anywhere, also back before what was consumed.
Deadlock is not checked because the clock stops at its bound.

In the storage run the highest generation is four: room for the first
provisioning (one and two) and a commit or a reseal. Generations beyond it are
refused as the code refuses those beyond 2^31 - 1, so the bound also shows the end
of the generations. Two complete documents tell an old one from a new one, one
minute above zero a fence from none. Failures and power losses are not bounded.
Two worn files are the fewest that leave no readable slot; on the worn device the
configuration is then already at the last generation, where nothing can change it.
Deadlock is not checked because a device at the end of its generations has
nothing left to do.

In the web run five changes of the Requested State leave room for a start, which
may take two, after three other changes. So a start meets what a timer, the end of
a session, a stop or a reboot has done since its page looked, and is refused; one
look is used for a second start after the first one has ended; and a command from
before the reboot arrives after it, as does one from after it. Two messages under
way overtake each other, two generations make a tag stale. In
`web_restart` there are two changes before the reboot and two after it, so that the
revision of the look is reached again, and room for the start.
Deadlock is not checked because the changes come to their bound.

In `peripherals` each part has a small instance in which its case happens:
two sensors for one role and two disturbances; two corrections of the clock after
the first and three mishaps; three sockets for two slots; two peers for one row
and a tick of range eight, which wraps within a few windows; two addresses; two
networks and three mishaps. With one request and one mutation to a window, and the
window of requests the longer, no peer ever comes to the end of its mutations
before that of its requests: of the quota on mutations the run says little, and
`NoPeerExceedsItsQuota`, which is proved for any quotas, says it all. The line has answers with and without a payload, one of which looks like
the start of a frame, and room for a whole answer and the end of another, with one
fault, after which everything has to be in step again. The gate stays open only
when its pin fails three times, which are the faults it gets. Two ports and five
faults let a port be closed within a call, fail at each of its cleanups and leave a
successor. Deadlock is not checked because a part may be closed.

Fairness. The main loop runs for as long as the process lives, so a round
follows whenever the line is free (weak fairness, written with its guard since
computing ENABLED of a whole round is costly). The heater takes what is sent,
leaves STARTING one way or the other and cools down. Nothing else is assumed:
users, sensors, the line and the time the heater runs are free. For the timers
the same loop gives `RoundsGoOn`, with the addition that an override that ran
out of memory can be recorded at some later round, which is what the retry in
`_repair_override()` counts on. In `peripherals` the main loop steps the part in
focus, the line included, and time passes; mishaps and disturbances are bounded in number, since no
promise of progress survives a bus or a radio that never works again.

### What the expected violations say

`controller_restart`: the README promises that an unexpected OFF starts no new
series of commands. A heater that stops by itself and is polled once in
SHUTTING_DOWN is not recognised as an unexpected stop, the request and the
confirmed session stay, and if the revision has grown since the last START (the
session was extended or adopted) START is sent again.

`system_close`: cleanup requires a confirmed OFF. The check looks at the last
status only. A shutdown between the transmission of START and the next status
closes the UART on the OFF from before the START.

`web_restart`: `REQUIREMENTS.md` 27.3 wants a start to carry the revision its page
has read, so that no manual or timer action can be overwritten. Only the number is
compared, it begins at 0 with each boot, and nothing in the request says which boot
it was read in: a refused token is dropped and the next one fetched without another
look at the status, a page that has sent nothing yet has no token to be refused,
and the tag passes because the generation is durable. A page that read revision 2
before a reboot starts the heater when the new boot has come to 2, over a timer's
session and its end that it never saw. The status poll closes the window within
seconds while the page is shown, and not while it is hidden.

`rate_wrap`: the limiter's ticks are said to be wrap-safe. A row stays as long as
the table has room, and a peer that comes back 6.2 to 12.4 days later has its last
tick in the future by `ticks_diff()`, which the limiter takes for a broken clock;
from then on everything but STOP is answered 503 until a reboot. Apart from that,
`REQUIREMENTS.md` 27.5 grants at most ten requests in ten seconds; the windows are
fixed, so twice as many may fall into ten seconds across the end of one, and
`QuotasHold` says just this.

`product_abandon`: shutdown never abandons the UART unless the heater is confirmed
off. A board may be reset while the heater burns; when `start()` fails after the
UART was opened, or a round fails before the heater's first step, everything is
closed, and the program reports that it stopped safely.

## Proofs

All theorems hold for every value of the constants that the named assumptions of
their module admit. The assumptions say that bounds and intervals are natural
numbers, where the code needs it positive, that `None` is none of the values
it stands beside, and in five places what the code's own constants satisfy: a
window of the limiter is not longer than the time after which a peer is forgotten,
a connection's idle timeout not longer than its total one, daylight saving time
begins and ends on a whole minute and moves the clock forward, the timers are
finitely many (`scheduler.py` takes 32), and a sensor is stale before it has failed
and scanned for less often than it is sampled. The bounds of the model may have any
value, so nothing proved depends on them. Two hypotheses are stated by the theorems
that need them, `MaxQueue = 1` and `AllIsReadable`, and discussed there.

**The controller** (`HeaterControllerProofs`; `NoneAssumption`, `TimingAssumption`,
`LimitAssumption`, `NoneSessionAssumption`, `NoneAttemptAssumption`): any timeouts,
any number of attempts, any set of runtimes, targets, modes and bindings, and no
bound on time or on the number of sessions.

`Invariance` proves `Spec => []IInv`. The invariants of the runs are not
inductive one by one, because each depends on parts of the state that others
constrain: that a START is supervised needs that the session and the request
agree, this needs that a stop leaves no START open for the current revision,
and that needs the latch to belong to the session. `IInv` therefore conjoins
`Safe` (types, the agreement of session, request and attempt, what a latch, a
block and an expired session imply, the session clock), `Ready` (what phase
READY means) and `StartIsSupervised` (what is true right after a START). The
proof follows the code: one lemma per operator says which of these parts it
keeps and which fields it changes, `step()` is composed from them, and the
theorem has one case per public method. `TypeCorrect`, `StartsAreSupervised`,
`StopsAreFinal`, `SessionsMatch`, `LatchIsOwned`, `StepsDoNotRaise`,
`ClockIsExact`, `ReadyMeansSynchronized` and `SessionsAgree` follow from it.

`HeaterControllerStepProofs` proves the action properties. `GuardsEndAtOff`
(`EndsAtOff`) rests on a relation between the record before and after, `Guards`:
what is given up, a session, a latch or a restart block, is given up at a known OFF
and with the request OFF. It is transitive, each operator of `step()` is shown to
satisfy it, and so does their composition; `handle_frame()` needs a second one,
`Answers`, in which the state that counts is the one reported.
`CommandsAreJustified` (`CommandJustified`) adds that a status keeps its age until
it is judged, that `step()` alone sends commands, and that what the decision sees
of state and request was already so before the step, for which `Guards` is used
again.
`SeriesStayBounded` (`SeriesAreBounded`) follows two things through a step. `Revises`
says that a request is withdrawn at most once in it and that this is counted, so
that the revision names one request; `Continues` that what supervises a command
either ends or keeps the open attempt. Hence what is sent is the first command of its
generation or one more of the open attempt (`Counted`), and a START whose latest
time is over has been withdrawn before the step decides (`OverdueIsWithdrawn`).

**The closed loop.** `HeaterSystemProofs` proves `StartsAlwaysMeetOff`, `OffIsTrue`
and `HeatIsSupervised`, the safety part of `SupervisedHeat`, from the invariant
`SystemIInv`. None of it needs the controller to be clever about the line: the
argument is about what it *trusts*. `Trusted(s)` is an OFF that no START in flight
can make a lie. No helper of `step()` makes the controller trust what it did not
trust before; only a STATUS answer OFF does, an answer is the truth about the heater
until something is sent, and what is sent opens an attempt, which ends the trust. So
`SystemIInv` says that the answers under way are true, that a trusted OFF is true,
and that the heater burns only under a session. The last link, "until something is
sent", is true only when at most one frame is under way: `MaxQueue = 1` is a
hypothesis of each of these theorems, says that the heater takes each command
before the next is written, and without it they are false, as TLC shows with
`MaxQueue = 3` (see the bounds above). Any timeouts, any number of faults, sessions
and revisions are covered; that heat ends is liveness and stays with TLC.

**The timers.** `SchedulerGatewayProofs` proves, under `NoneIsNoValue`, `ClockAssumption`,
`DstAssumption`, `TablesAssumption`, `TimersAssumption` and `BoundsAssumption`, for
any timers and any number of them, any delays and any bound on the clock and its
corrections: `TimersTypeCorrect`, `TimersNoOrphan`, `TimersHistoryIsDurable`,
`TimersHistoryIsAccepted`, `TimersLedgerNeverRegresses`, `TimersHistoryIsKept`, and `TimersAreOneShot`,
which is the refinement `Spec => OneShotSpec`. The invariant conjoins these with
three facts none of them holds without: no record lies beyond the high water
(`Bounded`), the manager and the disk agree unless a commit got lost, and then
the manager is faulted (`Backed`), and a pending override belongs to a session
that was stopped (`PendingIsStopped`). The order of ledgers is not transitive, a
record may disappear below the high water and come back lower, so the
scheduler's operations are not shown to enlarge the history but to *extend* it
(`Extends`): whatever ledger the old history continues, the new one continues.
`CheckpointFacts` says what a checkpoint may come to, `BootKeeps` what a boot
makes of any survivor, and `Kept` is what every action is shown to establish:
the invariant, a ledger that does not regress, and a step of `OneShotTimers`.

`TimersThatMeetStartNothing` and `TimersStartInTime` need the clock. `TimelyInv`
ties what the scheduler last observed to the moment the clock was last set, and the
calendar is reasoned about as arithmetic: since the offset changes only as a minute
begins (`CalendarIsAligned`), a local minute that is new in this round began after the
round before (`OpenedMinuteBegan`), in a clock nobody has set in between.

**Storage.** `ConfigManagerProofs` proves all four properties of `ConfigManager`, for
any documents, any number of minutes and generations and any medium. What a power
loss leaves is a choice per slot (as shown, as synced, or torn), so each
invariant speaks of all pairs in `CrashPairs(d)`, the pairs of slots that a power
loss at that moment could leave. They come in layers: the shape of an operation
under way (which plan it follows, at which step, and that the slot it writes is not
the one a boot would need); what is served is settled, and what is on the disk
(`ServedIsSettled`); what is beside the slot being written is above the fence
(`FenceInv`), survives (`SurvivorInv`), and is nothing newer than what is written
(`RegisterOf`). Every action is first shown to do one of four
things to a domain (`DomainStep`): to begin an operation on it (`Begins`), to read it
back, as a boot and the end of an operation do (`ReadBack`), to wear or heal a file of
it (`Harmed`), or to let it rest but for the slot that is being written (`Rests`). Each
layer is then proved over these four instead of over the actions. From them
`TheGateIsDurable`, `TheFenceHolds`, `PowerLossIsSurvived`, and `DomainsAreRegisters`,
the refinement of `DurableRegister` by each domain. The last one assumes
`AllIsReadable`: the configuration that a device comes with can be read. A
device that comes with a file hidden from its first boot on may later show a document
that nobody confirmed to this program, and TLC confirms that `Registers` is false of it;
files that become unreadable later are covered.

**The web server.** `WebProofs` has three parts.

- The limiter (`LimiterAssumption`): `LimiterInv` splits what a peer was granted in
  a window in what its row has counted since and what is older, and says that a
  peer without a row has nothing left in any window. The latter is why a peer may be
  pushed out of the table, and needs that a peer is only forgotten after its windows
  have passed. `NoPeerExceedsItsQuota` then bounds the grants by two windows'
  worth, for any range of the ticks: a clock that seems to run backwards grants
  nothing.
- The table of connections (`HttpAssumption`): `HttpInv` says that places hold
  different connections, that exactly the open ones have a place, and that a
  connection still being read was not handed over. From it `NoConnectionIsLost` and
  `HttpTyped`, for any number of places, whatever fails.
- The commands (`WebAssumption`): `WebInv` says that what a page or a message
  knows of the device was so in the boot it looked, that within a boot the revision
  and the count of changes only grow together, that no token is of a boot later than
  the one its request was sent in, and that the scheduler is armed only while the
  stored configuration is the one that runs. From it `PagesAreToldTheTruth` and
  `NothingStartsOnTheOld`, for any number of pages, requests and boots. The latter says
  of every request, saves included, that it changes nothing in a boot later than the
  one it was sent in; of starts and adjustments, that they overwrite nothing requested
  since their page looked, if that was in this boot; and of timers, that they start
  only from the document that runs. `WebTyped` is proved only: no run checks
  `WebTypeOK`.

**The parts around.** Each theorem follows from an inductive invariant of its part.

- `DeviceProofs`, the manager (`NetworkAssumption`): `NetInv` says that a side that was
  passed over is still due, the station then deferred, and that the access point
  is passed over only by a station that had been. From it `NoSideStarves`, for any
  intervals, any number of profiles and rounds as late as one likes, and
  `NetworkTyped`.
- `DeviceProofs`, the port (`WiFiAssumption`, `NoneIsNoCalling`): at most one port owns
  the radio, the lease stands for it, a closed port has given everything back or has
  locked the lease, and a call under way belongs to the owner and was re-entered
  exactly if the owner is closed (`AirInv`). From it `TheRadioIsAccounted`, for any
  number of ports.
- `DeviceProofs`, the owner (`AddressesAssumption`): once the heater's owner has
  asked for OFF because of a change, the request is OFF; after a change no scheduler
  is armed; and between the rounds a listener of the station is bound to the address
  the network reports. From it `ChangesEndHeat` and `ListenersAreCurrent`.
- `DeviceProofs`, the clock (`ClockAssumption`): the revisions of service and bridge agree,
  the write lock is held over a commit only, what is staged is still wanted or
  overtaken by a later correction, and what is committed is the present time. From
  it `ClocksAreTrustworthy` and `MarkersFallInTime`.
- `DeviceProofs`, the gate (`GateAssumption`): the pin is high between calls only when it
  was given back and has failed three times: `GateStaysShut`.
- `DeviceProofs`, the sensors (`SensorAgesAssumption`, `SensorIntervalsAssumption`,
  `RomsAssumption`, `NoneIsNoReading`): `SensorInv` says that, as long as its assignment is the adopted
  one, a sensor that was out of order, or whose role has turned to failed, has counted
  it (`Holds`); that no reading is younger than the conversion under way (`WrittenBefore`), so
  that a sample is never refused for coming late; and that a trusted sensor is in
  unbroken service. Every operation of the manager but a new assignment is shown to
  be a `Rewrites`, which forgets no failure that was counted; for a valid sample this
  is so because it counts an overdue failure first. From it
  `OutagesLeaveTraces`, for any number of sensors and roles, any intervals, and
  samples as late as one likes. `SensorsInOrder` adds the types of the adapter, and
  that a cycle under way has a sensor left to read: without it the next reading would
  have nobody to ask.
- `PeripheralsProofs`, the line (`LineAssumption`). `Framing` says what the framer makes
  of any beginning of a sound stream, wherever it is cut and whatever its payloads look
  like (they may contain the marker): the frames that are there as a whole, and the
  beginning of the next one. The framer is a recursive function over positions, so
  what it finds is proved by the last position at which it would be wrong. `LineInv`
  says that a line in step holds, in its buffer and on the wire, the frames owed end to
  end, and in the buffer no whole one; from it `FramesAllArrive`, the property
  `FramesArrive` for any frames, pieces, timeouts and faults.
- `PeripheralsProofs`, all parts: a step of the composition moves one part and leaves
  the others as they are (`EachMovesByItself`), so that their invariants together
  (`PartsInv`) are inductive for `PartsSpec`. From it `PartsTyped`, under the assumptions
  of all parts.

Only model-checked: liveness under fairness (`StopIsServed`, `SessionsEnd`,
`ShutdownEnds`, `FencesFall`, `ActiveIsReleased`, `PartsGoOn`), which rests on ENABLED and
is out of the prover's reach. The library's induction theorems are too, since they
take an operator as a parameter; where a proof needs induction over data, it goes
through the least element of a non-empty set of naturals (`WFMin`).

## Not modelled

The sources of the product are about 28,000 lines; `firmware/` holds frozen copies
of them and `tools/` bench programs, together more than the product itself, and
nothing there is part of the running system. Of the product are left out, because
they keep no state that a decision depends on:

- parsing and rendering: `strict_json`, `http_protocol`, the reading routes and the
  validation of fields in `rest_application.py`, static files, and of a frame the
  arithmetic of its CRC and the decoding of its fields;
- the drivers of the DS18B20, the DS3231 and the UART below the calls modelled, the
  construction of the objects (compositions, transport factory, board
  configuration), which happens once and before anything runs;
- name queries of the captive portal, the diagnostics hub and the capture of
  received bytes, the receive-only transport of the bench;
- `MemoryError` where it ends like any other failure, and calls back into the
  gateways, which no caller of the product makes.

What a timer announces is not always what it starts: `next_occurrence()` promises the
next start-eligible occurrence and looks at each timer by itself, so that it names one
that meets another timer in its minute, which `step()` consumes as a conflict.
`AnnouncedBeforeStarted` says the converse, that what starts was announced.

One place in a part left to the bench profile deserves a look by its owner:
`_GatedUART.deinit` marks itself closed before the UART's own `deinit`
has succeeded, so that a second call does not try again.

## State of the work

The plan was: `HeaterController` with its proofs; `HeaterSystem` over it,
implementing `SupervisedHeat`; `Scheduler` and `SchedulerGateway`, implementing
`OneShotTimers`, with proofs; `ConfigStore` and `ConfigManager`, implementing
`DurableRegister`; the parts around; proofs of the action properties and of the
parts around. All of it is done. Every safety invariant and every action property
of the runs that pass is a theorem. Liveness stays with TLC.
