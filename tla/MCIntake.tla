------------------------------ MODULE MCIntake ------------------------------
(***************************************************************************)
(* What must happen to messages and workers in the end, in three parts     *)
(* that share no state: a small instance of Intake; one of JobTurns whose  *)
(* two jobs compete for one worker; and one of JobTurns with one job, a    *)
(* stop request and an idle check.  A behaviour is one of the three.       *)
(***************************************************************************)
EXTENDS Intake, TLC

CONSTANTS j1, j2, m1, m2, m3, socket, stop1, check1, None

VARIABLES
  part,
  jobs, snapshots, queuedMessages, doneMessages,
  activeJobs, acceptedMessages, marked, completingJobs, made, owner, queue, closes, pool, proc,
  held, delivery, offers,
  turns, cancelled, phase, outcome, stopping, stopsLeft, checks, replies

turnVars == <<turns, cancelled, phase, outcome, stopping, stopsLeft, checks, replies>>
laneVars ==
  <<jobs, snapshots, queuedMessages, doneMessages, activeJobs, acceptedMessages, marked,
    completingJobs, made, owner, queue, closes, pool, proc, held, delivery, offers, turnVars>>
Vars == <<part, intakeVars, laneVars>>

JobOfTwo == (m1 :> j1) @@ (m2 :> j1)
JobOfThree == (m1 :> j1) @@ (m2 :> j1) @@ (m3 :> j2)

L == INSTANCE JobTurns WITH
  Jobs <- {j1, j2}, Messages <- {m1, m2, m3}, JobOf <- JobOfThree,
  IdleChecks <- {}, Deliverers <- {socket}, Stoppers <- {},
  MaxOffers <- 1, MaxChannels <- 3, ChannelCap <- 1, MaxConcurrency <- 1, MaxStops <- 0,
  inFlight <- marked, stops <- stopping

S == INSTANCE JobTurns WITH
  Jobs <- {j1}, Messages <- {m1, m2}, JobOf <- JobOfTwo,
  IdleChecks <- {check1}, Deliverers <- {socket}, Stoppers <- {stop1},
  MaxOffers <- 1, MaxChannels <- 2, ChannelCap <- 1, MaxConcurrency <- 1, MaxStops <- 1,
  inFlight <- marked, stops <- stopping

MCInit ==
  /\ part \in {"intake", "lanes", "sweep"}
  /\ IntakeInit /\ ~job
  /\ IF part = "sweep" THEN S!Init /\ S!HasRow(j1) ELSE L!Init
  /\ part = "intake" => \A j \in {j1, j2} : jobs[j] = L!NoRow

\* The job of the last part has its row from the beginning: its messages are replies.
MCNext ==
  \/ part = "intake" /\ IntakeNext /\ UNCHANGED <<part, laneVars>>
  \/ part = "lanes" /\ L!Next /\ UNCHANGED <<part, intakeVars>>
  \/ /\ part = "sweep" /\ S!Next /\ UNCHANGED <<part, intakeVars>>
     /\ delivery'[socket].entry.kind # "start"

LaneStep ==
  \/ /\ L!Dispatch(socket) \/ L!StartTask \/ (\E c \in 1 .. 3 : L!Process(c))
     /\ UNCHANGED turnVars
  \/ \E c \in 1 .. 3 : L!HandleMessage(c)

SweepStep ==
  \/ /\ S!Dispatch(socket) \/ S!StartTask \/ (\E c \in 1 .. 2 : S!Process(c))
     /\ UNCHANGED turnVars
  \/ \E c \in 1 .. 2 : S!HandleMessage(c)
  \/ S!Stop(stop1)

\* The fairness of Intake, and less than that of JobTurns: only an idle check goes
\* round, so it is enough that one of the other threads that can go on does.
MCSpec ==
  /\ MCInit /\ [][MCNext]_Vars
  /\ WF_intakeVars(part = "intake" /\ FetchAgentJobs)
  /\ WF_intakeVars(part = "intake" /\ PollStep)
  /\ \A t \in Stoppers : WF_intakeVars(part = "intake" /\ StopStep(t))
  /\ WF_intakeVars(part = "intake" /\ TurnStep)
  /\ WF_laneVars(part = "lanes" /\ LaneStep)
  /\ WF_laneVars(part = "sweep" /\ SweepStep)
  /\ WF_laneVars(part = "sweep" /\ S!Check(check1))

\* What JobTurns promises: of its messages in both parts, and of an idle check.
AcceptedIsFinished == L!AcceptedIsFinished
=============================================================================
