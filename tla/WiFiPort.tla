-------------------------------- MODULE WiFiPort -------------------------------
(* The port of the network manager to the radio (hardware/micropython_wifi.py): the two *)
(* interfaces of the driver, which exist once in a process, the lease that says who     *)
(* may use them, and the ports that are opened on them, one after the other.            *)
(*                                                                               *)
(* A call of the driver that changes the radio may come back to the program before it  *)
(* returns, the program may close the manager there, and what the call does to the     *)
(* radio may come after that.  Such a call has a beginning and an end here, and an      *)
(* operation of the manager a stage per call.  Any call may fail, with or without its  *)
(* effect, and the radio may go down by itself, at most MaxRadioFaults times.  Host     *)
(* name, addresses and what a status says of the networks are left out.               *)
EXTENDS Integers, Absence

CONSTANTS
    WiFiPorts,          \* the ports a process may open
    MaxRadioFaults      \* bound

ASSUME WiFiAssumption == MaxRadioFaults \in Nat

VARIABLES
    air,        \* both interfaces, the lease and the ports
    calling,    \* the driver's call under way for the manager, or None
    radioFaults \* faults so far

wifiVars == <<air, calling, radioFaults>>

DriverCalls == {"ap_config", "ap_on", "sta_on", "sta_config", "connect", "disconnect"}

Callings == [port : WiFiPorts, at : DriverCalls, reentered : BOOLEAN]

ASSUME NoneIsNoCalling == None \notin Callings

PortRecords ==
    [state : {"unopened", "open", "closed"}, owner : BOOLEAN, prepared : BOOLEAN,
     disconnected : BOOLEAN, staOff : BOOLEAN, apOff : BOOLEAN, finalized : BOOLEAN]

WiFiTypeOK ==
    /\ air \in [ap : BOOLEAN, sta : BOOLEAN, leased : BOOLEAN, poisoned : BOOLEAN,
                ports : [WiFiPorts -> PortRecords]]
    /\ calling = None \/ calling \in Callings
    /\ radioFaults \in 0 .. MaxRadioFaults

Unopened == [state |-> "unopened", owner |-> FALSE, prepared |-> FALSE,
             disconnected |-> FALSE, staOff |-> FALSE, apOff |-> FALSE, finalized |-> FALSE]

WiFiInit ==
    /\ air = [ap |-> FALSE, sta |-> FALSE, leased |-> FALSE, poisoned |-> FALSE,
              ports |-> [p \in WiFiPorts |-> Unopened]]
    /\ calling = None
    /\ radioFaults = 0

Costs(faults) ==
    /\ radioFaults + faults <= MaxRadioFaults
    /\ radioFaults' = radioFaults + faults

IsOpen(p) == air.ports[p].state = "open"

-------------------------------------------------------------------------------
(* deinit() *)

(* active(False) and its confirmation, for an interface that is on or not *)
SwitchedOff(on) ==
    {[on |-> FALSE, failed |-> 0], [on |-> FALSE, failed |-> 1], [on |-> on, failed |-> 1]}

CleanupComplete(port) == port.disconnected /\ port.staOff /\ port.apOff

(* Faulty: a port closed in the middle of a call gives the lease back at once. *)
FinalizedNested(a, p, nested) ==
    IF CleanupComplete(a.ports[p])
    THEN [a EXCEPT !.leased = FALSE, !.poisoned = FALSE,
                   !.ports[p].owner = FALSE, !.ports[p].finalized = TRUE]
    ELSE [a EXCEPT !.poisoned = @ \/ a.ports[p].owner]

(* The lease is given back when both interfaces are known to be off and no call is left *)
(* that could switch one on; an owner that cannot say so locks it.                     *)
Finalized(a, p, nested) ==
    LET port == a.ports[p]
    IN CASE CleanupComplete(port) /\ ~nested ->
              [a EXCEPT !.leased = @ /\ ~port.owner, !.poisoned = @ /\ ~port.owner,
                        !.ports[p].owner = FALSE, !.ports[p].finalized = TRUE]
         [] ~CleanupComplete(port) /\ port.owner -> [a EXCEPT !.poisoned = TRUE]
         [] OTHER -> a

(* Nothing is left to do, or the interfaces are somebody else's. *)
PortReleased(a, p) == a.ports[p].finalized \/ (~a.ports[p].owner /\ a.leased)

ClosedPort(a, p) ==
    [a EXCEPT !.ports[p] = [@ EXCEPT !.state = "closed", !.prepared = FALSE]]

Cleaned(a, p, sta, ap) ==
    [a EXCEPT !.sta = sta.on, !.ap = ap.on,
              !.ports[p] = [@ EXCEPT !.staOff = (sta.failed = 0),
                                     !.disconnected = (sta.failed = 0),
                                     !.apOff = (ap.failed = 0)]]

DeinitPort(a, p, nested, faults) ==
    \/ /\ PortReleased(a, p)
       /\ air' = ClosedPort(a, p)
       /\ Costs(faults)
    \/ /\ ~PortReleased(a, p)
       /\ \E sta \in SwitchedOff(a.sta), ap \in SwitchedOff(a.ap) :
             /\ air' = Finalized(Cleaned(ClosedPort(a, p), p, sta, ap), p, nested)
             /\ Costs(faults + sta.failed + ap.failed)

(* The operation of the manager is over; closed within, it closes once more. *)
CallEnds(a, faults) ==
    /\ calling' = None
    /\ IF calling.reentered THEN DeinitPort(a, calling.port, FALSE, faults)
       ELSE air' = a /\ Costs(faults)

GoesOn(a, at) ==
    /\ air' = a
    /\ calling' = [calling EXCEPT !.at = at]
    /\ UNCHANGED radioFaults

-------------------------------------------------------------------------------
(* The manager *)

(* open_wifi_from_board_config(): a port, or a lock if the radio cannot be left off *)
OpenPort(p) ==
    /\ air.ports[p].state = "unopened" /\ ~air.leased /\ ~air.poisoned
    /\ \/ /\ air' = [air EXCEPT !.leased = TRUE, !.ports[p].state = "open",
                                !.ports[p].owner = TRUE]
          /\ UNCHANGED radioFaults
       \/ air' = [air EXCEPT !.poisoned = TRUE] /\ Costs(1)
    /\ UNCHANGED calling

Calls(p, at) ==
    /\ calling = None /\ IsOpen(p)
    /\ calling' = [port |-> p, at |-> at, reentered |-> FALSE]
    /\ UNCHANGED radioFaults

EnsureAccessPoint(p) == Calls(p, "ap_config") /\ UNCHANGED air

PortPrepareStation(p) ==
    /\ air.ap
    /\ Calls(p, "sta_on")
    /\ air' = [air EXCEPT !.ports[p].prepared = FALSE, !.ports[p].staOff = FALSE]

PortConnectStation(p) ==
    /\ air.ports[p].prepared /\ air.ap
    /\ \/ /\ air.sta
          /\ Calls(p, "connect")
          /\ air' = [air EXCEPT !.ports[p].disconnected = FALSE]
       \/ /\ ~air.sta /\ calling = None /\ IsOpen(p)
          /\ air' = [air EXCEPT !.ports[p].prepared = FALSE]
          /\ UNCHANGED <<calling, radioFaults>>

PortDisconnectStation(p) ==
    \/ air.sta /\ Calls(p, "disconnect") /\ UNCHANGED air
    \/ /\ ~air.sta /\ calling = None /\ IsOpen(p)
       /\ air' = [air EXCEPT !.ports[p].disconnected = TRUE]
       /\ UNCHANGED <<calling, radioFaults>>

(* deinit() of the manager, between its operations *)
ClosePort(p) ==
    /\ air.ports[p].state # "unopened"
    /\ calling # None => calling.port # p
    /\ DeinitPort(air, p, FALSE, 0)
    /\ UNCHANGED calling

(* ... and from within the call of the driver *)
CloseWithin ==
    /\ calling # None /\ IsOpen(calling.port)
    /\ DeinitPort(air, calling.port, TRUE, 0)
    /\ calling' = [calling EXCEPT !.reentered = TRUE]

-------------------------------------------------------------------------------
(* The driver returns. *)

(* What has become of an interface that was to be switched on *)
SwitchedOn(on) ==
    {[on |-> TRUE, failed |-> 0], [on |-> TRUE, failed |-> 1], [on |-> on, failed |-> 1]}

Returning(at) == calling # None /\ calling.at = at

p0 == calling.port

ApConfigReturns ==
    /\ Returning("ap_config")
    /\ \/ CallEnds(air, 1)
       \/ ~IsOpen(p0) /\ CallEnds(air, 0)
       \/ IsOpen(p0) /\ GoesOn([air EXCEPT !.ports[p0].apOff = FALSE], "ap_on")

ApOnReturns ==
    /\ Returning("ap_on")
    /\ \E ap \in SwitchedOn(air.ap) :
          CallEnds([air EXCEPT !.ap = ap.on,
                           !.ports[p0].apOff = @ /\ ap.failed = 1], ap.failed)

(* _rollback_station_prepare(): two attempts *)
Rollback(a, faults) ==
    LET undone == [a EXCEPT !.ports[p0].prepared = FALSE]
        off == [undone EXCEPT !.sta = FALSE, !.ports[p0].staOff = TRUE,
                              !.ports[p0].disconnected = TRUE]
    IN \/ \E failed \in 0 .. 1 : CallEnds(off, faults + failed)
       \/ \E sta \in {FALSE, a.sta} : CallEnds([undone EXCEPT !.sta = sta], faults + 2)

StaOnReturns ==
    /\ Returning("sta_on")
    /\ LET on == [air EXCEPT !.sta = TRUE, !.ports[p0].staOff = FALSE]
       IN \/ \E sta \in {air.sta, TRUE} : CallEnds([air EXCEPT !.sta = sta], 1)
          \/ ~IsOpen(p0) /\ CallEnds(on, 0)
          \/ IsOpen(p0) /\ (CallEnds(on, 1) \/ Rollback(on, 1) \/ GoesOn(on, "sta_config"))

StaConfigReturns ==
    /\ Returning("sta_config")
    /\ \/ Rollback(air, 1)
       \/ ~IsOpen(p0) /\ CallEnds(air, 0)
       \/ /\ IsOpen(p0)
          /\ CallEnds([air EXCEPT !.ports[p0].prepared = TRUE, !.ports[p0].staOff = FALSE,
                              !.ports[p0].disconnected = TRUE], 0)

ConnectReturns ==
    /\ Returning("connect")
    /\ \/ CallEnds(air, 1)
       \/ CallEnds([air EXCEPT !.ports[p0].disconnected = @ /\ ~IsOpen(p0)], 0)

DisconnectReturns ==
    /\ Returning("disconnect")
    /\ \/ CallEnds(air, 1)
       \/ CallEnds([air EXCEPT !.ports[p0].disconnected = TRUE], 0)

DriverReturns ==
    \/ ApConfigReturns \/ ApOnReturns
    \/ StaOnReturns \/ StaConfigReturns
    \/ ConnectReturns \/ DisconnectReturns

(* An interface goes down by itself. *)
RadioFails ==
    /\ \/ air' = [air EXCEPT !.ap = FALSE]
       \/ air' = [air EXCEPT !.sta = FALSE]
    /\ Costs(1)
    /\ UNCHANGED calling

WiFiNext ==
    \/ \E p \in WiFiPorts :
          \/ OpenPort(p) \/ ClosePort(p)
          \/ EnsureAccessPoint(p) \/ PortPrepareStation(p)
          \/ PortConnectStation(p) \/ PortDisconnectStation(p)
    \/ CloseWithin \/ DriverReturns \/ RadioFails

WiFiSpec == WiFiInit /\ [][WiFiNext]_wifiVars

-------------------------------------------------------------------------------
(* Properties *)

OnAir == air.ap \/ air.sta

Holder(p) == IsOpen(p) /\ air.ports[p].owner

(* What is on belongs to an open port, except that one may still be closing in the middle *)
(* of a call; or it is locked for good, and nobody opens a port over it.                 *)
Accounted ==
    /\ OnAir => air.leased \/ air.poisoned
    /\ OnAir /\ calling = None => air.poisoned \/ \E p \in WiFiPorts : Holder(p)

(* Only its own call, its own closing or a failure takes an interface from its holder. *)
HolderUndisturbed ==
    \/ RadioFails
    \/ \A p \in WiFiPorts :
          Holder(p) /\ Holder(p)' /\ ((air.ap /\ ~air'.ap) \/ (air.sta /\ ~air'.sta))
          => calling # None /\ p0 = p

(* A port that was closed in the middle of a call begins no other. *)
ClosedCallsNothing ==
    calling' # None /\ (calling = None \/ calling.at # calling'.at)
        => air.ports[calling'.port].state = "open"

(* The radio is on for a port that answers for it or stays locked, whenever the port is   *)
(* closed, also from within a call that goes on to switch the radio on, whatever fails on  *)
(* the way; and a port that is gone leaves its successor's interfaces alone.             *)
RadioIsAccounted == [][Accounted' /\ HolderUndisturbed /\ ClosedCallsNothing]_wifiVars
===============================================================================
