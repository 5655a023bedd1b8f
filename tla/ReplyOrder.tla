----------------------------- MODULE ReplyOrder -----------------------------
(***************************************************************************)
(* What the message sender promises of a job's replies.  Replies are       *)
(* handed over by calls that may overlap; one that has been accepted       *)
(* reaches the backend, and no earlier than every reply of its job that    *)
(* had been accepted when its call began.  So replies handed over one      *)
(* after the other arrive in that order, and those of calls that overlap   *)
(* in either.  Copies that arrive later are not told apart.                *)
(***************************************************************************)
CONSTANTS Replies, JobOf

VARIABLES
  begun,     \* replies whose call has begun
  accepted,  \* replies accepted
  before,    \* per reply, those of its job accepted when its call began
  delivered  \* replies that have arrived

orderVars == <<begun, accepted, before, delivered>>

OrderInit ==
  /\ begun = {} /\ accepted = {} /\ delivered = {}
  /\ before = [r \in Replies |-> {}]

HandOver(r) ==
  /\ r \notin begun
  /\ begun' = begun \cup {r}
  /\ before' = [before EXCEPT ![r] = {e \in accepted : JobOf[e] = JobOf[r]}]
  /\ UNCHANGED <<accepted, delivered>>

Accept(r) ==
  /\ r \in begun \ accepted
  /\ accepted' = accepted \cup {r}
  /\ UNCHANGED <<begun, before, delivered>>

Deliver(r) ==
  /\ r \in accepted \ delivered
  /\ before[r] \subseteq delivered
  /\ delivered' = delivered \cup {r}
  /\ UNCHANGED <<begun, accepted, before>>

OrderNext == \E r \in Replies : HandOver(r) \/ Accept(r) \/ Deliver(r)

OrderSpec == OrderInit /\ [][OrderNext]_orderVars

=============================================================================
