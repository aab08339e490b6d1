----------------------------- MODULE MCWebControl -----------------------------
(* The way of a command, from one browser page. *)
EXTENDS WebControl

CONSTANTS p1, w1
===============================================================================
