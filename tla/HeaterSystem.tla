----------------------------- MODULE HeaterSystem -----------------------------
(***************************************************************************)
(* The control loop closed: the controller of HeaterController, the owner  *)
(* that drives it (ConfiguredHeaterRuntime in app/heater_composition.py    *)
(* under ProductRuntime in app/product_runtime.py), the serial line with   *)
(* one queue per direction, and the heater at its other end.               *)
(*                                                                         *)
(* HeaterController lets every status arrive at any moment; here a status  *)
(* is what the heater answered, so that what the controller believes can   *)
(* be compared with what the heater does.  The heater and the line are     *)
(* external: they follow PROTOCOL.md as far as src/ relies on it.  What    *)
(* can go wrong on the line is an anomaly, and at most MaxAnomalies of     *)
(* them happen in a behaviour.                                             *)
(***************************************************************************)
EXTENDS HeaterController, Sequences

CONSTANTS
    MaxAnomalies,  \* bound of the model on faults of the line
    MaxQueue       \* commands the heater may leave untaken

ASSUME LineAssumption == /\ MaxAnomalies \in Nat
                         /\ MaxQueue \in Nat \ {0}

VARIABLES
    heater,     \* what the heater does
    wire,       \* commands written and not yet taken by the heater
    rx,         \* frames answered and not yet polled
    rxFaulted,  \* the transport's rx_faulted: no frame is read any more
    owner,      \* the product runtime: running, stopping or closed
    anomalies   \* what has gone wrong on the line so far

line == <<wire, rx, rxFaulted, anomalies>>
sysVars == <<ctl, heater, line, owner>>

Frames == KnownStates \cup {"init", "garbage"}

-----------------------------------------------------------------------------
(* The heater and the line.                                                *)

Command(op) ==
    CASE op \in {"initialization", "initialization_error"} -> "initialization"
      [] op \in {"status", "status_error"} -> "status"
      [] op \in StartOps -> "start"
      [] op \in ShutdownOps -> "shutdown"

Answer(command, state) ==
    CASE command = "initialization" -> <<"init">>
      [] command = "status" -> <<state>>
      [] OTHER -> <<>>

(* A START is obeyed by a heater that is off, a SHUTDOWN by one that runs. *)
Obeys(state, command) ==
    CASE command = "start" /\ state = "off" -> "starting"
      [] command = "shutdown" /\ state = "running" -> "shutting_down"
      [] OTHER -> state

Receive ==
    /\ wire # <<>>
    /\ heater' = Obeys(heater, Head(wire))
    /\ rx' = IF rxFaulted THEN <<>> ELSE rx \o Answer(Head(wire), heater)
    /\ wire' = Tail(wire)
    /\ UNCHANGED <<ctl, rxFaulted, anomalies, owner>>

Moves == [off |-> {}, starting |-> {"running", "off"},
          running |-> {"temp_monitoring", "shutting_down"},
          temp_monitoring |-> {"running"},
          shutting_down |-> {"off"}]

HeaterMoves ==
    /\ heater' \in Moves[heater]
    /\ UNCHANGED <<ctl, line, owner>>

Anomaly ==
    /\ anomalies < MaxAnomalies
    /\ anomalies' = anomalies + 1

LoseCommand ==
    /\ Anomaly /\ wire # <<>>
    /\ wire' = Tail(wire)
    /\ UNCHANGED <<ctl, heater, rx, rxFaulted, owner>>

LoseAnswer ==
    /\ Anomaly /\ rx # <<>>
    /\ rx' = Tail(rx)
    /\ UNCHANGED <<ctl, heater, wire, rxFaulted, owner>>

GarbleAnswer ==
    /\ Anomaly /\ rx # <<>>
    /\ rx' = <<"garbage">> \o Tail(rx)
    /\ UNCHANGED <<ctl, heater, wire, rxFaulted, owner>>

FaultReceiver ==
    /\ Anomaly /\ ~rxFaulted
    /\ rxFaulted' = TRUE /\ rx' = <<>>
    /\ UNCHANGED <<ctl, heater, wire, owner>>

-----------------------------------------------------------------------------
(* The runtime.                                                            *)

HandleParsed(s, frame) ==
    CASE frame = "init" -> HandleInit(s)
      [] frame = "garbage" -> RecordInvalidFrame(s)
      [] OTHER -> HandleStatus(s, frame)

(* poll_inbound() and handle_frame() for every frame in order; a faulted   *)
(* receiver is reported to the controller in every step.                   *)
Inbound(s) ==
    LET handled[n \in 0..Len(rx)] ==
            IF n = 0 THEN s ELSE HandleParsed(handled[n - 1], rx[n])
    IN IF rxFaulted THEN MarkCommunicationError(s) ELSE handled[Len(rx)]

FailedOps == {"initialization_error", "status_error", "start_error",
              "shutdown_error"}

(* What a write leaves on the wire: of one that failed, possibly all.      *)
Outbound(op) ==
    IF op = "none" THEN {wire}
    ELSE IF op \in FailedOps THEN {wire, Append(wire, Command(op))}
    ELSE {Append(wire, Command(op))}

(* One round of the loop, a tick after the last one: everything received,  *)
(* then at most one operation.  A write that fails is an anomaly.          *)
HeaterStep(s) ==
    \E reading \in Readings, sendOk \in BOOLEAN :
        /\ ctl' = StepController(Inbound(Elapse(s)), reading, sendOk)
        /\ wire' \in Outbound(ctl'.op)
        /\ sendOk \/ ctl'.op \in FailedOps
        /\ Len(wire') <= MaxQueue
        /\ rx' = <<>>
        /\ IF sendOk THEN UNCHANGED anomalies ELSE Anomaly

RuntimeStep ==
    /\ owner = "running"
    /\ HeaterStep(ctl)
    /\ UNCHANGED <<heater, rxFaulted, owner>>

(* The last status said OFF; whether a START has left since is not asked.  *)
ConfirmedSafeToClose(s) == ~s.on /\ s.synchronized /\ s.state = "off"

(* shutdown_step(): Requested OFF, one more step, and the line is given up *)
(* once the owner of the heater takes it for safe.                         *)
ShutdownStep ==
    /\ owner = "stopping"
    /\ HeaterStep(RequestStop(ctl))
    /\ owner' = IF ConfirmedSafeToClose(ctl') THEN "closed" ELSE "stopping"
    /\ UNCHANGED <<heater, rxFaulted>>

(* The main loop ends: an interrupt, or an exception of another component. *)
Interrupt ==
    /\ owner = "running"
    /\ owner' = "stopping"
    /\ UNCHANGED <<ctl, heater, line>>

(* A call of the web interface or of the scheduler between two rounds, or  *)
(* the stop that a new configuration generation asks for.  Nothing in the  *)
(* product calls retry_control_fault(): a latched fault stays.             *)
UserCall ==
    /\ owner = "running"
    /\ RequestStart \/ Stop \/ UpdateActiveSession
    /\ UNCHANGED <<heater, line, owner>>

-----------------------------------------------------------------------------
SystemInit ==
    /\ Init
    /\ heater \in KnownStates
    /\ wire = <<>> /\ rx = <<>> /\ rxFaulted = FALSE
    /\ owner = "running" /\ anomalies = 0

SystemNext ==
    \/ Receive
    \/ HeaterMoves
    \/ LoseCommand \/ LoseAnswer \/ GarbleAnswer \/ FaultReceiver
    \/ RuntimeStep
    \/ ShutdownStep
    \/ Interrupt
    \/ UserCall

SystemSpec == SystemInit /\ [][SystemNext]_sysVars

(* A round of the loop, told from its trace: it empties the receiver, and   *)
(* what it does to the controller or the line no call does.                *)
RoundTaken ==
    /\ UNCHANGED <<heater, rxFaulted>>
    /\ rx' = <<>>
    /\ ctl' # ctl \/ Len(wire') > Len(wire)
    /\ ~UserCall

(* The loop runs: while it is not closed a round follows whenever the line *)
(* is free (weak fairness of the round, its guard written out).  The       *)
(* heater takes what is sent, leaves STARTING one way or the other, and    *)
(* cools down; how long it runs is its own affair.                         *)
SystemFairness ==
    /\ \/ []<>(owner = "closed" \/ wire # <<>>)
       \/ []<><<RoundTaken>>_sysVars
    /\ WF_sysVars(Receive)
    /\ WF_sysVars(HeaterMoves /\ heater \in {"starting", "shutting_down"})

LiveSystemSpec == SystemSpec /\ SystemFairness

-----------------------------------------------------------------------------
StartUnderway == \E i \in DOMAIN wire : wire[i] = "start"

(* "Actual STARTING + Requested ON -> no duplicate Start": a START reaches *)
(* the line only when the heater really is off, not when the controller    *)
(* only believes it - across lost answers, failed writes and retries.      *)
StartsMeetOff == StartUnderway => heater = "off"

(* When no START is open, a synchronized OFF is the truth about the        *)
(* heater, and no START is under way that could still make it a lie.       *)
OffIsTrustworthy ==
    /\ ctl.synchronized /\ ctl.state = "off"
    /\ ctl.attempt = None \/ ctl.attempt.command # "start"
    => heater = "off" /\ ~StartUnderway

(* What ends the controller's say over the heater: a latched fault, which  *)
(* the diagnostics show, a receiver that is given up, and the end of the   *)
(* process.                                                                *)
Helpless == rxFaulted \/ ctl.fault # None \/ owner = "closed"

Heat == INSTANCE SupervisedHeat WITH
    wanted <- ctl.on, supervised <- ctl.session # None,
    heating <- heater # "off", helpless <- Helpless

(* The loop implements SupervisedHeat: the heater is lit only under a      *)
(* session, and the session is released only when the heater is off.       *)
HeatPromise == Heat!HeatSafety

(* A heater that is not wanted goes off, however it came to run - started  *)
(* here, or found running at power-on - or the controller is helpless.     *)
StopIsServed == Heat!HeatEnds

(* Every session ends the request it serves, whatever becomes of the line. *)
SessionsEnd == Heat!SessionEnds

(* Shutting down ends: the process closes, or shows why it cannot.         *)
ShutdownEnds == owner = "stopping" ~> Helpless

(* The sensor latch and the restart block do not stay up for good; they    *)
(* would refuse every further start.                                       *)
FencesFall ==
    ctl.latch # None \/ ctl.restartBlocked
        ~> (ctl.latch = None /\ ~ctl.restartBlocked) \/ Helpless

(* The line is given up only when the heater is off: "Never tear down      *)
(* network/sensors and abandon its UART while that confirmation is still   *)
(* pending" (ProductRuntime.deinit).                                       *)
ClosedMeansOff == owner = "closed" => heater = "off" /\ ~StartUnderway
=============================================================================
