-------------------------- MODULE MCSchedulerGateway --------------------------
(* SchedulerGateway on small instances: two timers that meet in one minute. *)
EXTENDS SchedulerGateway

CONSTANTS t1, t2

TwoTimers == {t1, t2}

(* What a table holds for a timer: its minutes, or nothing. *)
At(minutes) == [configured |-> TRUE, minutes |-> minutes]
Deleted == [configured |-> FALSE, minutes |-> {}]

(* The local minutes are 0 3 4 3 4: minutes 1 and 2 are skipped, 3 and 4 come  *)
(* twice.  t1 starts alone in 3 and meets t2 in 4; once t1 is deleted, t2 has   *)
(* minute 4 to itself.                                                        *)
AcrossDst ==
    {[t \in TwoTimers |-> IF t = t1 THEN At({1, 3, 4}) ELSE At({4})],
     [t \in TwoTimers |-> IF t = t1 THEN Deleted ELSE At({4})]}

=============================================================================
