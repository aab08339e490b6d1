---------------------------- MODULE OneShotTimers -----------------------------
(***************************************************************************)
(* What the timers promise, whatever crashes, however the clock is set and *)
(* however storage fails: a local minute is spent for good before anything *)
(* runs for it, and what runs for it is started at the moment it is spent. *)
(* No minute can therefore run twice, and none can be made up for later.   *)
(***************************************************************************)
EXTENDS Integers

VARIABLES
    spent,     \* the latest minute that is spent, or Idle for none
    running    \* the minute a timer session runs for, or Idle

Idle == -1     \* no minute

OneShotInit == /\ spent = Idle
               /\ running = Idle

Spend == /\ spent' \in Nat
         /\ spent' > spent

Skip == /\ Spend
        /\ running' = running

(* The session that ran, if any, ends with the minute that is spent when    *)
(* the program crashes in the middle.                                       *)
SkipAndStop == /\ Spend
               /\ running' = Idle

Fire == /\ Spend
        /\ running = Idle
        /\ running' = spent'

Stop == /\ running' = Idle
        /\ UNCHANGED spent

OneShotNext == Skip \/ SkipAndStop \/ Fire \/ Stop

OneShotSpec == OneShotInit /\ [][OneShotNext]_<<spent, running>>

=============================================================================
