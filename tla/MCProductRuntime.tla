---------------------------- MODULE MCProductRuntime ----------------------------
(* ProductRuntime by itself. *)
EXTENDS ProductRuntime

CONSTANT a1
===============================================================================
