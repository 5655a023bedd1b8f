----------------------------- MODULE MCWorktrees -----------------------------
(* Model values for checking Worktrees. *)
EXTENDS Worktrees, TLC

CONSTANTS j1, j2, s1, s2, s3, s4

\* Jobs are alike, and so are slots.
Symmetry == Permutations(Jobs) \cup Permutations(Slots)
=============================================================================
