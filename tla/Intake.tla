------------------------------- MODULE Intake -------------------------------
(***************************************************************************)
(* How the messages and the stop requests of one job come in.  Both come   *)
(* by the socket, once and in order if at all, and by the poll, which      *)
(* lists what the backend still waits for: the messages nobody has acked   *)
(* and a stop nobody has answered.  What a poll lists was fetched before   *)
(* it is looked at, a stop of the socket runs on a goroutine of its own,   *)
(* and the two know of each other through the in-flight marks and the last *)
(* stop request seen.                                                      *)
(*                                                                         *)
(* Abstraction: Dispatch is one step and the job's channel a queue, its    *)
(* closing and replacement are in JobTurns; the recovery queue, crashes    *)
(* and shutdown are in TurnJournal.  The answer of a stop reaches the      *)
(* backend at once (see Outbox).  When a stop is pressed the backend acks  *)
(* every message written before (message_poller.go:119).                   *)
(***************************************************************************)
EXTENDS Naturals, Sequences, FiniteSets

CONSTANTS
  Messages, NoMessage,
  MaxPresses  \* bound: stops pressed by users

ASSUME IntakeAssumption == NoMessage \notin Messages /\ MaxPresses \in Nat

VARIABLES
  written,     \* messages users have written
  offered,     \* those of them the poll lists
  presses,     \* stops pressed; their number is the time of the request
  stopWanted,  \* the backend has not heard back about the last one
  wire,        \* on its way over the socket; what is lost was never on it
  poll,        \* the poller and what it fetched
  stops,       \* per thread that can run a stop request, its stopTurn
  seen,        \* seenStopRequests
  lane,        \* the job's channel
  inFlight, done,
  job,         \* there is a row of the job
  turn         \* the turn of the job

backendVars == <<written, offered, presses, stopWanted>>
agentVars == <<lane, inFlight, done, job>>
intakeVars == <<backendVars, wire, poll, stops, seen, agentVars, turn>>

-----------------------------------------------------------------------------

Presses == 1 .. MaxPresses

\* The poller, or the goroutine of the request a press sent over the socket.
Poller == 0
Stoppers == {Poller} \cup Presses

Deliveries == [message : Messages, kind : {"start", "user"}, press : {0}]
Delivery(m, kind) == [message |-> m, kind |-> kind, press |-> 0]
StopMessages == [message : {NoMessage}, kind : {"stop"}, press : Presses]
StopMessage(p) == [message |-> NoMessage, kind |-> "stop", press |-> p]

NoStop == [pc |-> "none", press |-> 0, running |-> FALSE, dropped |-> {}]
StopRequests ==
  [pc : {"none", "claim", "cancel", "drop", "answer", "over"}, press : Presses \cup {0},
   running : BOOLEAN, dropped : SUBSET Messages]

IdlePoll == [pc |-> "idle", press |-> 0, rest |-> {}, jobExists |-> FALSE]

NoTurn == [pc |-> "none", message |-> NoMessage, kind |-> "user", cancelled |-> FALSE]

IntakeTypeOK ==
  /\ offered \subseteq written /\ written \subseteq Messages
  /\ presses \in 0 .. MaxPresses /\ stopWanted \in BOOLEAN
  /\ wire \in Seq(Deliveries \cup StopMessages)
  /\ poll \in [pc : {"idle", "fetched", "stop", "messages"}, press : Presses \cup {0},
               rest : SUBSET Messages, jobExists : BOOLEAN]
  /\ stops \in [Stoppers -> StopRequests] /\ seen \in Presses \cup {0}
  /\ lane \in Seq(Deliveries) /\ inFlight \subseteq Messages /\ done \subseteq Messages
  /\ job \in BOOLEAN
  /\ turn \in [pc : {"none", "received", "registered", "recorded"},
               message : Messages \cup {NoMessage}, kind : {"start", "user"}, cancelled : BOOLEAN]

IntakeInit ==
  /\ written = {} /\ offered = {}
  /\ presses = 0 /\ stopWanted = FALSE
  /\ wire = <<>> /\ poll = IdlePoll
  /\ stops = [t \in Stoppers |-> NoStop] /\ seen = 0
  /\ lane = <<>> /\ inFlight = {} /\ done = {}
  /\ job \in BOOLEAN
  /\ turn = NoTurn

-----------------------------------------------------------------------------
(* The users and the backend.                                              *)

\* The first message of a conversation is sent as one that starts it.  The
\* socket may be down.
WriteMessage(m) ==
  /\ m \notin written
  /\ written' = written \cup {m} /\ offered' = offered \cup {m}
  /\ wire' \in {wire, Append(wire, Delivery(m, IF written = {} /\ ~job THEN "start" ELSE "user"))}
  /\ UNCHANGED <<presses, stopWanted, poll, stops, seen, agentVars, turn>>

PressStop ==
  /\ presses < MaxPresses
  /\ presses' = presses + 1 /\ stopWanted' = TRUE
  /\ offered' = {}
  /\ wire' \in {wire, Append(wire, StopMessage(presses + 1))}
  /\ UNCHANGED <<written, poll, stops, seen, agentVars, turn>>

-----------------------------------------------------------------------------
(* Messages.                                                               *)

Dispatch(m, kind) ==
  IF m \in done \cup inFlight
    THEN UNCHANGED <<lane, inFlight>>
    ELSE lane' = Append(lane, Delivery(m, kind)) /\ inFlight' = inFlight \cup {m}

Stops(t, p) == stops' = [stops EXCEPT ![t] = [NoStop EXCEPT !.pc = "claim", !.press = p]]

\* cc_message.  A stop must not wait behind turns: it gets a goroutine.
Receive ==
  /\ wire # <<>> /\ wire' = Tail(wire)
  /\ LET received == Head(wire) IN
     IF received.kind = "stop"
       THEN /\ Stops(received.press, received.press)
            /\ UNCHANGED <<lane, inFlight>>
       ELSE Dispatch(received.message, received.kind) /\ UNCHANGED stops
  /\ UNCHANGED <<backendVars, poll, seen, done, job, turn>>

FetchAgentJobs ==
  /\ poll.pc = "idle" /\ (offered # {} \/ stopWanted)
  /\ poll' = [pc |-> "fetched", press |-> IF stopWanted THEN presses ELSE 0,
              rest |-> offered, jobExists |-> FALSE]
  /\ UNCHANGED <<backendVars, wire, stops, seen, agentVars, turn>>

\* Whether the job is known is looked up before the stop is handled.
PollJob ==
  /\ poll.pc = "fetched"
  /\ poll' = [poll EXCEPT !.jobExists = job, !.pc = IF poll.press = 0 THEN "messages" ELSE "stop"]
  /\ IF poll.press = 0 THEN UNCHANGED stops ELSE Stops(Poller, poll.press)
  /\ UNCHANGED <<backendVars, wire, seen, agentVars, turn>>

\* A dropped message that this poll still lists was sent after the press.
PollForget ==
  /\ poll.pc = "stop" /\ stops[Poller].pc = "over"
  /\ IF stops[Poller].dropped = {}
       THEN /\ poll' = [poll EXCEPT !.pc = "messages"]
            /\ stops' = [stops EXCEPT ![Poller] = NoStop]
            /\ UNCHANGED inFlight
       ELSE \E m \in stops[Poller].dropped :
              /\ inFlight' = inFlight \ {m}
              /\ stops' = [stops EXCEPT ![Poller].dropped = @ \ {m}]
              /\ UNCHANGED poll
  /\ UNCHANGED <<backendVars, wire, seen, lane, done, job, turn>>

AckMessage(m) == offered' \in {offered, offered \ {m}}

\* A message that is done is acked again, one in flight is left alone, and the
\* first one of a job that is not known starts it.
PollMessage(m) ==
  /\ poll.pc = "messages" /\ m \in poll.rest
  /\ \/ /\ m \in done
        /\ AckMessage(m)
        /\ poll' = [poll EXCEPT !.rest = @ \ {m}]
        /\ UNCHANGED <<lane, inFlight>>
     \/ /\ m \notin done
        /\ Dispatch(m, IF poll.jobExists THEN "user" ELSE "start")
        /\ poll' = [poll EXCEPT !.rest = @ \ {m}, !.jobExists = @ \/ m \notin inFlight]
        /\ UNCHANGED offered
  /\ UNCHANGED <<written, presses, stopWanted, wire, stops, seen, done, job, turn>>

PollEnds ==
  /\ poll.pc = "messages" /\ poll.rest = {}
  /\ poll' = IdlePoll
  /\ UNCHANGED <<backendVars, wire, stops, seen, agentVars, turn>>

PollStep == PollJob \/ PollForget \/ PollEnds \/ \E m \in poll.rest : PollMessage(m)

-----------------------------------------------------------------------------
(* stopTurn, on the goroutine of a request or in the poll.                 *)

GoStop(t, pc) == stops' = [stops EXCEPT ![t].pc = pc]

\* Only the poller looks at what was dropped.
Return(t, dropped) ==
  stops' = [stops EXCEPT ![t] =
    IF t = Poller THEN [NoStop EXCEPT !.pc = "over", !.dropped = dropped] ELSE NoStop]

claimStopRequest(t) ==
  /\ stops[t].pc = "claim"
  /\ IF seen = stops[t].press THEN Return(t, {}) /\ UNCHANGED seen
                              ELSE GoStop(t, "cancel") /\ seen' = stops[t].press
  /\ UNCHANGED <<backendVars, wire, poll, agentVars, turn>>

CancelTurn(t) ==
  LET running == turn.pc \in {"registered", "recorded"} IN
  /\ stops[t].pc = "cancel"
  /\ turn' = IF running THEN [turn EXCEPT !.cancelled = TRUE] ELSE turn
  /\ stops' = [stops EXCEPT ![t].pc = "drop", ![t].running = running]
  /\ UNCHANGED <<backendVars, wire, poll, seen, agentVars>>

Dropped == {lane[i].message : i \in 1 .. Len(lane)}
DropsStart == \E i \in 1 .. Len(lane) : lane[i].kind = "start"

\* Mutant: what was dropped keeps its mark.
dropQueuedMessagesMarked(t) ==
  /\ stops[t].pc = "drop"
  /\ lane' = <<>> /\ job' = (job \/ DropsStart)
  /\ IF stops[t].running THEN Return(t, Dropped)
     ELSE stops' = [stops EXCEPT ![t].pc = "answer", ![t].dropped = Dropped]
  /\ UNCHANGED <<backendVars, wire, poll, seen, inFlight, done, turn>>

\* A conversation whose first message is dropped keeps a row without a session.
dropQueuedMessages(t) ==
  /\ stops[t].pc = "drop"
  /\ lane' = <<>> /\ inFlight' = inFlight \ Dropped
  /\ job' = (job \/ DropsStart)
  /\ IF stops[t].running THEN Return(t, Dropped)
     ELSE stops' = [stops EXCEPT ![t].pc = "answer", ![t].dropped = Dropped]
  /\ UNCHANGED <<backendVars, wire, poll, seen, done, turn>>

\* sendTurnStopped says of which job, not of which request.
sendTurnStopped == stopWanted' = FALSE

AnswerStop(t) ==
  /\ stops[t].pc = "answer"
  /\ sendTurnStopped
  /\ Return(t, stops[t].dropped)
  /\ UNCHANGED <<written, offered, presses, wire, poll, seen, agentVars, turn>>

StopStep(t) ==
  claimStopRequest(t) \/ CancelTurn(t) \/ dropQueuedMessages(t) \/ AnswerStop(t)

-----------------------------------------------------------------------------
(* The job's processor and its turn.                                       *)

TakeMessage ==
  /\ turn = NoTurn /\ lane # <<>>
  /\ lane' = Tail(lane)
  /\ turn' = [NoTurn EXCEPT !.pc = "received", !.message = Head(lane).message, !.kind = Head(lane).kind]
  /\ UNCHANGED <<backendVars, wire, poll, stops, seen, inFlight, done, job>>

BeginTurn ==
  /\ turn.pc = "received"
  /\ turn' = [turn EXCEPT !.pc = "registered"]
  /\ UNCHANGED <<backendVars, wire, poll, stops, seen, agentVars>>

RecordTurn ==
  /\ turn.pc = "registered" /\ (turn.kind = "start" \/ job)
  /\ turn' = [turn EXCEPT !.pc = "recorded"]
  /\ job' = TRUE
  /\ UNCHANGED <<backendVars, wire, poll, stops, seen, lane, inFlight, done>>

\* The turn is over.  It may have failed before it wrote its row; a reply whose
\* branch is gone takes the row along, and one without a row is left to the poll.
Unwind ==
  LET m == turn.message IN
  /\ turn.pc \in {"registered", "recorded"}
  /\ turn' = NoTurn
  /\ inFlight' = inFlight \ {m}
  /\ \/ /\ turn.kind = "user" /\ turn.pc = "registered" /\ ~job
        /\ UNCHANGED <<done, offered, job>>
     \/ /\ turn.kind = "start" \/ job
        /\ done' = done \cup {m} /\ AckMessage(m)
        /\ \/ UNCHANGED job
           \/ turn.kind = "user" /\ turn.pc = "registered" /\ job' = FALSE
  /\ UNCHANGED <<written, presses, wire, poll, stops, seen, lane>>

\* Mutant: a stop is only answered by a turn that it cut short.
EndTurnUnanswered ==
  /\ Unwind
  /\ UNCHANGED stopWanted \/ (turn.cancelled /\ sendTurnStopped)

\* runTurn: whatever became of the turn, a stop that found it is answered.
EndTurn ==
  /\ Unwind
  /\ IF turn.cancelled THEN sendTurnStopped ELSE UNCHANGED stopWanted

TurnStep == TakeMessage \/ BeginTurn \/ RecordTurn \/ EndTurn

-----------------------------------------------------------------------------

IntakeNext ==
  \/ \E m \in Messages : WriteMessage(m)
  \/ PressStop \/ Receive \/ FetchAgentJobs \/ PollStep
  \/ \E t \in Stoppers : StopStep(t)
  \/ TurnStep

\* Polls go on, threads are scheduled, turns end.  The socket need not deliver.
IntakeSpec ==
  /\ IntakeInit /\ [][IntakeNext]_intakeVars
  /\ WF_intakeVars(FetchAgentJobs) /\ WF_intakeVars(PollStep)
  /\ \A t \in Stoppers : WF_intakeVars(StopStep(t))
  /\ WF_intakeVars(TurnStep)

-----------------------------------------------------------------------------
(* Properties.                                                             *)

\* What was written after the press has its turn in the end, or is ended by a later
\* press, although a late stop may drop it from the channel
\* (message_poller.go:119: "a dropped message this poll still lists was sent after
\* the press and has to run").
OfferedIsHandled ==
  \A m \in Messages : m \in offered ~> m \in done \/ m \notin offered

\* The backend hears back about every stop, whichever transports carried it and
\* wherever the turn was (stop_turn.go:28-50, 206-215).
StopIsAnswered == stopWanted ~> ~stopWanted

\* A message the backend ended at a press whose stop was answered does not begin a
\* turn afterwards (stop_turn.go:60).
EndedIsNotRun ==
  [][BeginTurn /\ presses > 0 /\ ~stopWanted => turn.message \in offered]_intakeVars
=============================================================================
