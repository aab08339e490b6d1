------------------------------ MODULE Absence ------------------------------
(* The value that stands for None wherever the code leaves a field unset. *)
CONSTANT None
=============================================================================
