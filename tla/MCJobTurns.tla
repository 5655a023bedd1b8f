----------------------------- MODULE MCJobTurns -----------------------------
(* Model values and small constant functions for checking JobTurns. *)
EXTENDS JobTurns, TLC

CONSTANTS j1, j2, m1, m2, m3

\* Two jobs: m1 and m2 are of the first, m3 is of the second.
TwoJobs == (m1 :> j1) @@ (m2 :> j1) @@ (m3 :> j2)

\* One job, whose messages are all the messages of the model.
OneJob == [m \in Messages |-> j1]

\* Threads are alike, and so are the messages of one job.
OneJobSymmetry ==
  Permutations(Deliverers) \cup Permutations(IdleChecks) \cup Permutations(Messages)
TwoJobsSymmetry ==
  Permutations(Deliverers) \cup Permutations(IdleChecks) \cup Permutations({m1, m2})
=============================================================================
