---------------------------- MODULE MCGitDelivery ----------------------------
(* Model values for checking GitDelivery. *)
EXTENDS GitDelivery, TLC

CONSTANTS j1, j2

MCMaxTurns == [branches |-> 3, worktrees |-> 2]
MCThreeTurns == [branches |-> 0, worktrees |-> 3]

Symmetry == Permutations(Jobs \ AskJobs)
=============================================================================
