------------------------- MODULE MCHeaterController -------------------------
(* The controller on small time constants. *)
EXTENDS HeaterController, TLC

MCDeadlines == {None, 1}

(* The controller compares bindings and does nothing else with them. *)
BindingsAreAlike == Permutations(Bindings)
=============================================================================
