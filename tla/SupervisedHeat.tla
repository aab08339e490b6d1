--------------------------- MODULE SupervisedHeat ---------------------------
(***************************************************************************)
(* What the heater control promises, without the line, the phases and the  *)
(* timeouts: the heater is lit only under a session, the session outlives  *)
(* the heat and has an end, and heat that is no longer wanted ends, unless *)
(* the controller has said that it cannot end it.                          *)
(***************************************************************************)

VARIABLES
    wanted,      \* Requested State is ON
    supervised,  \* a session exists
    heating,     \* the heater is anything but off
    helpless     \* a fault is latched or the line is given up

heatVars == <<wanted, supervised, heating, helpless>>

(* The controller may be started on a heater that already runs. *)
HeatInit ==
    /\ ~wanted /\ ~supervised /\ ~helpless
    /\ heating \in BOOLEAN

Want == /\ ~supervised
        /\ wanted' = TRUE
        /\ UNCHANGED <<supervised, heating>>

Cease == /\ wanted' = FALSE
         /\ UNCHANGED <<supervised, heating>>

Supervise == /\ wanted /\ wanted' = TRUE
             /\ supervised' = TRUE
             /\ UNCHANGED heating

Light == /\ supervised
         /\ heating' = TRUE
         /\ UNCHANGED <<wanted, supervised>>

Extinguish == /\ heating' = FALSE
              /\ UNCHANGED <<wanted, supervised>>

Release == /\ ~heating
           /\ wanted' = FALSE /\ supervised' = FALSE
           /\ UNCHANGED heating

HeatNext ==
    /\ helpless' \in BOOLEAN
    /\ \/ Want \/ Cease \/ Supervise \/ Light \/ Extinguish \/ Release
       \/ UNCHANGED <<wanted, supervised, heating>>

HeatSafety == HeatInit /\ [][HeatNext]_heatVars

HeatEnds == ~wanted ~> (~heating \/ wanted \/ helpless)

SessionEnds == wanted /\ supervised ~> ~wanted

HeatSpec == HeatSafety /\ HeatEnds /\ SessionEnds
=============================================================================
