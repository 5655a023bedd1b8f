------------------------------ MODULE JobLanes ------------------------------
(***************************************************************************)
(* What the dispatcher promises of one agent's conversations: every job is *)
(* a lane of its own.  Messages wait in the order they were accepted, one  *)
(* of a lane runs at a time, lanes run independently, and the only way a   *)
(* waiting message is lost to its lane is that the whole lane is given up, *)
(* which happens only while nothing of it runs.                            *)
(***************************************************************************)
EXTENDS Sequences

CONSTANTS Jobs, Messages, None

VARIABLES
  waiting,  \* per job, the accepted messages, oldest first
  running   \* per job, the message whose turn it is, or None

laneVars == <<waiting, running>>

LanesInit ==
  /\ waiting = [j \in Jobs |-> <<>>]
  /\ running = [j \in Jobs |-> None]

Accept(j, m) ==
  /\ waiting' = [waiting EXCEPT ![j] = Append(@, m)]
  /\ UNCHANGED running

Run(j) ==
  /\ running[j] = None
  /\ waiting[j] # <<>>
  /\ running' = [running EXCEPT ![j] = Head(waiting[j])]
  /\ waiting' = [waiting EXCEPT ![j] = Tail(@)]

Finish(j) ==
  /\ running[j] # None
  /\ running' = [running EXCEPT ![j] = None]
  /\ UNCHANGED waiting

GiveUp(j) ==
  /\ running[j] = None
  /\ waiting[j] # <<>>
  /\ waiting' = [waiting EXCEPT ![j] = <<>>]
  /\ UNCHANGED running

LanesNext ==
  \E j \in Jobs :
    \/ \E m \in Messages : Accept(j, m)
    \/ Run(j)
    \/ Finish(j)
    \/ GiveUp(j)

LanesSpec == LanesInit /\ [][LanesNext]_laneVars

=============================================================================
