--------------------------- MODULE MCConfigManager ----------------------------
(* ConfigManager on small instances. *)
EXTENDS ConfigManager

CONSTANTS d1, d2

Sound(config) == [config |-> config, wear |-> 0]

(* A new device, one that release 1 provisioned, and one whose newest configuration  *)
(* a later release wrote, each on a sound medium.                                *)
AnyDevice ==
    {Sound(EmptyPair),
     Sound([s \in Slots |-> Record(IF s = "a" THEN 1 ELSE 2, Release1)]),
     Sound([s \in Slots |-> IF s = "a" THEN Record(1, d1) ELSE Record(2, Foreign)])}

(* A device on a medium that loses two files.  Its configuration is at the last       *)
(* generation, which nothing can change, so that the ledger is what moves.          *)
WornDevice ==
    [config |-> [s \in Slots |-> Record(IF s = "a" THEN MaxGeneration - 1
                                       ELSE MaxGeneration, d1)],
     wear |-> 2]

AllDevices == AnyDevice \cup {WornDevice}

=============================================================================
