--------------------------- MODULE DurableRegister ----------------------------
(***************************************************************************)
(* What a persistence domain promises: a document that was confirmed stays *)
(* until a later one takes its place.  Between the attempt to replace it   *)
(* and its outcome either may turn out to be the durable one; nothing is   *)
(* served for as long as that is open, and nothing else is ever served.    *)
(***************************************************************************)
CONSTANTS
    Vals,      \* documents
    Nothing    \* no document

VARIABLES
    settled,   \* the document last confirmed, or Nothing
    doubt,     \* documents an attempt may have made durable since
    served     \* the document the program acts on, or Nothing

RegisterInit ==
    /\ settled \in Vals \cup {Nothing}
    /\ doubt = {}
    /\ served \in {Nothing, settled}

Try(v) == /\ v \in Vals
          /\ doubt' = doubt \cup {v}
          /\ served' = Nothing
          /\ UNCHANGED settled

Settle(v) == /\ v \in (doubt \cup {settled}) \ {Nothing}
             /\ settled' = v
             /\ doubt' = {}
             /\ served' \in {v, Nothing}

Close == /\ served' = Nothing
         /\ UNCHANGED <<settled, doubt>>

Open == /\ doubt = {}
        /\ served' = settled
        /\ UNCHANGED <<settled, doubt>>

RegisterNext == (\E v \in Vals : Try(v) \/ Settle(v)) \/ Close \/ Open

RegisterSpec == RegisterInit /\ [][RegisterNext]_<<settled, doubt, served>>

=============================================================================
