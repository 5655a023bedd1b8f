------------------------------ MODULE MCOutbox ------------------------------
(* Model values and small constant functions for checking Outbox. *)
EXTENDS Outbox, TLC

CONSTANTS j1, j2, r1, r2, r3

\* Two replies of the first job and one of the second.
TwoJobs == (r1 :> j1) @@ (r2 :> j1) @@ (r3 :> j2)
OneJob == [r \in Replies |-> j1]

\* A turn's reply, then a message by itself; the other job says it has begun.
Mixed == (r1 :> "final") @@ (r2 :> "plain") @@ (r3 :> "processing")
\* Recovery's notice, then a turn's reply.
WithNotice == (r1 :> "notice") @@ (r2 :> "final")
AllPlain == [r \in Replies |-> "plain"]
=============================================================================
