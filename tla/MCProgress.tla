------------------------------ MODULE MCProgress ------------------------------
(***************************************************************************)
(* A small instance of each part of Progress.                              *)
(***************************************************************************)
EXTENDS Progress, TLC

Recurrences == {{1, 2, 3}, {3}}

\* The parts that do not run are in one of their initial states.
MCInit == Init /\ (part = "runtime" \/ ruStored = 0)

MCSpec == MCInit /\ [][Next]_vars /\ Fairness

=============================================================================
