---------------------------- MODULE MCTurnJournal ----------------------------
(* Model values for checking TurnJournal. *)
EXTENDS TurnJournal, TLC

CONSTANTS j1, j2, m1, m2, m3

MCJobOfOne == [m \in Messages |-> j1]
=============================================================================
