--------------------------- MODULE MCHeaterSystem ---------------------------
(* The closed loop on small time constants. *)
EXTENDS HeaterSystem
=============================================================================
