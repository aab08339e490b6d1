-------------------------------- MODULE TxGate ---------------------------------
(* The gate before the transmitter (protocol/uart_transport.py, _ActiveHighTXGate and  *)
(* _GatedUART): open for one frame, shut whatever has become of it, and its pin given     *)
(* back to the pull-down if it cannot be shut.  Any use of the pin may raise, with or     *)
(* without its effect, at most MaxPinFaults times; the writes themselves may end in any  *)
(* way and leave no trace here.                                                    *)
EXTENDS Integers

CONSTANT MaxPinFaults   \* bound

ASSUME GateAssumption == MaxPinFaults \in Nat

VARIABLES
    gate,       \* the pin, and whether the gate has given it back or is closed
    pinFaults   \* faults of the pin so far

gateVars == <<gate, pinFaults>>

GateTypeOK ==
    /\ gate \in [pin : {"low", "high", "input"}, released : BOOLEAN, closed : BOOLEAN]
    /\ pinFaults \in 0 .. MaxPinFaults

GateInit ==
    /\ gate = [pin |-> "low", released |-> FALSE, closed |-> FALSE]
    /\ pinFaults = 0

-------------------------------------------------------------------------------
(* An outcome is the gate, the faults on the way, and whether the call raises. *)

Outcome(g, faults, raises) == [gate |-> g, faults |-> faults, raises |-> raises]

Drive(g, level) ==
    LET driven == [g EXCEPT !.pin = level]
    IN {Outcome(driven, 0, FALSE), Outcome(driven, 1, TRUE), Outcome(g, 1, TRUE)}

(* enable() *)
Enable(g) == IF g.released THEN {Outcome(g, 0, TRUE)} ELSE Drive(g, "high")

(* disable() *)
Disable(g) == IF g.released THEN {Outcome(g, 0, FALSE)} ELSE Drive(g, "low")

Both(first, Second(_)) ==
    UNION {{Outcome(s.gate, f.faults + s.faults, f.raises \/ s.raises) : s \in Second(f.gate)} :
              f \in first}

GivenBack(g) ==
    {[o EXCEPT !.gate.released = TRUE] : o \in Drive(g, "input")}

(* release() *)
Release(g) ==
    IF g.released THEN {Outcome(g, 0, FALSE)} ELSE Both(Disable(g), GivenBack)

(* Faulty: a gate that cannot be shut is left alone. *)
ShutOnce(g) == Disable(g)

(* The end of a write *)
Shut(g) ==
    LET tried == Disable(g)
    IN {o \in tried : ~o.raises}
       \cup UNION {{Outcome(r.gate, o.faults + r.faults, TRUE) : r \in Release(o.gate)} :
                      o \in {t \in tried : t.raises}}

Comes(outcomes) ==
    \E o \in outcomes :
        /\ pinFaults + o.faults <= MaxPinFaults
        /\ pinFaults' = pinFaults + o.faults
        /\ gate' = o.gate

(* write() *)
GateWrite ==
    /\ ~gate.closed
    /\ Comes(Both(Enable(gate), Shut))

(* deinit() *)
GateDeinit ==
    /\ ~gate.closed
    /\ Comes({[o EXCEPT !.gate.closed = TRUE] : o \in Both(Disable(gate), Release)})

GateNext == GateWrite \/ GateDeinit

GateSpec == GateInit /\ [][GateNext]_gateVars

-------------------------------------------------------------------------------
(* "enables TX only around one physically drained write": between two calls, and after     *)
(* the last one, the gate is open only if driving the pin low has failed twice and giving   *)
(* it back as well.                                                                *)
GateIsShut == gate.pin = "high" => pinFaults >= 3
===============================================================================
