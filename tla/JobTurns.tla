------------------------------ MODULE JobTurns ------------------------------
(***************************************************************************)
(* What the agent does with the messages the dispatcher hands it, and the  *)
(* two kinds of thread that reach into the dispatcher from outside: a stop *)
(* request (MessageHandler.stopTurn) and the idle check                    *)
(* (MessageHandler.checkJobIdleness).  The turn registry tells them        *)
(* whether a turn of the job is running.                                   *)
(*                                                                         *)
(* A turn is abstracted to what its job's other threads can see of it: the *)
(* rows it writes and the order it writes them in.  The CLI may answer,    *)
(* fail or be cut short by a stop; preparing the worktree may fail.        *)
(***************************************************************************)
EXTENDS Dispatcher

CONSTANTS
  Stoppers,  \* threads that run a stop request: one per request, or the poller
  MaxStops   \* bound: stop requests in a behaviour

ASSUME MaxStopsAssumption == MaxStops \in Nat

VARIABLES
  turns,      \* per job, the processor whose turn is registered, or NoChannel
  cancelled,  \* processors whose turn's context is cancelled
  phase,      \* per processor, how far the turn of its message is
  outcome,    \* per processor, how the turn's handler returned
  stops,      \* per stop thread, its running stopTurn
  stopsLeft,  \* stop requests still to come
  checks,     \* per idle check, the job it is looking at
  replies     \* history: replies stored per message

turnVars == <<turns, cancelled, phase, outcome, replies>>
stopVars == <<stops, stopsLeft>>
vars == <<appStateVars, dispatcherVars, turnVars, stopVars, checks>>

-----------------------------------------------------------------------------

Phases ==
  {"none", "begun", "prepared", "marked", "working", "unwinding", "failing", "recording"}
Outcomes == {"none", "replied", "stopped", "failed", "left"}

StopStates == {"none", "find", "drain", "dropped", "keep", "unqueue", "evict"}
NoStop == [pc |-> "none", job |-> None, running |-> FALSE, ch |-> NoChannel,
           held |-> NoEntry, dropped |-> {}]

CheckStates ==
  {"none", "running", "claim", "recheck", "unqueue", "remove", "evict", "release"}
NoCheck == [pc |-> "none", job |-> None]

StopRequests ==
  [pc : StopStates, job : Jobs \cup {None}, running : BOOLEAN, ch : Channels \cup {NoChannel},
   held : Entries \cup {NoEntry}, dropped : SUBSET Entries]
Checks == [pc : CheckStates, job : Jobs \cup {None}]

TurnTypeOK ==
  /\ turns \in [Jobs -> Channels \cup {NoChannel}]
  /\ cancelled \subseteq Channels
  /\ phase \in [Channels -> Phases]
  /\ outcome \in [Channels -> Outcomes]
  /\ replies \in [Messages -> Nat]

StopTypeOK ==
  /\ stops \in [Stoppers -> StopRequests]
  /\ stopsLeft \in Nat

CheckTypeOK == checks \in [IdleChecks -> Checks]

(* Every variable has its type: the lock-protected maps of AppState and    *)
(* JobDispatcher, the turn registry and the local state of each thread.    *)
TypeOK ==
  /\ AppStateTypeOK
  /\ ChannelTypeOK
  /\ MarkTypeOK
  /\ ProcessorTypeOK
  /\ DeliveryTypeOK
  /\ TurnTypeOK
  /\ StopTypeOK
  /\ CheckTypeOK

Init ==
  /\ AppStateInit
  /\ DispatcherInit
  /\ turns = [j \in Jobs |-> NoChannel]
  /\ cancelled = {}
  /\ phase = [c \in Channels |-> "none"]
  /\ outcome = [c \in Channels |-> "none"]
  /\ stops = [s \in Stoppers |-> NoStop]
  /\ stopsLeft = MaxStops
  /\ checks = [i \in IdleChecks |-> NoCheck]
  /\ replies = [m \in Messages |-> 0]

-----------------------------------------------------------------------------
(* HandleMessage: one turn on the processor of channel c. *)

Job(c) == owner[c]
Message(c) == held[c].id

(* How a handler returns: with an outcome, its turn still registered. *)
Return(c, result) ==
  /\ phase' = [phase EXCEPT ![c] = "unwinding"]
  /\ outcome' = [outcome EXCEPT ![c] = result]

BeginTurn(c) ==
  /\ proc[c] = "handle"
  /\ phase[c] = "none"
  /\ turns' = [turns EXCEPT ![Job(c)] = c]
  /\ cancelled' = cancelled \ {c}
  /\ phase' = [phase EXCEPT ![c] = "begun"]
  /\ UNCHANGED <<appStateVars, dispatcherVars, outcome, replies, stopVars, checks>>

(* A reply for a job without a row is neither run nor recorded as done. *)
LeaveForPoller(c) ==
  /\ phase[c] = "begun"
  /\ held[c].kind = "reply"
  /\ ~HasRow(Job(c))
  /\ Return(c, "left")
  /\ UNCHANGED <<appStateVars, dispatcherVars, turns, cancelled, replies, stopVars, checks>>

ReadJob(c) ==
  /\ phase[c] = "begun"
  /\ held[c].kind = "start" \/ HasRow(Job(c))
  /\ phase' = [phase EXCEPT ![c] = "prepared"]
  /\ UNCHANGED <<appStateVars, dispatcherVars, turns, cancelled, outcome, replies,
                 stopVars, checks>>

(* The remote branch is gone: the job is dropped and the turn fails. *)
AbandonJob(c) ==
  /\ phase[c] = "prepared"
  /\ held[c].kind = "reply"
  /\ RemoveJob(Job(c))
  /\ Return(c, "failed")
  /\ UNCHANGED <<queuedMessages, doneMessages, dispatcherVars, turns, cancelled, replies,
                 stopVars, checks>>

MarkInProgress(c) ==
  /\ phase[c] = "prepared"
  /\ UpdateJobData(Job(c), "in_progress", Message(c))
  /\ phase' = [phase EXCEPT ![c] = "marked"]
  /\ UNCHANGED <<queuedMessages, doneMessages, dispatcherVars, turns, cancelled, outcome,
                 replies, stopVars, checks>>

(* From here on the row, not the queue, makes recovery run the message. *)
TakeOffQueue(c) ==
  /\ phase[c] = "marked"
  /\ RemoveQueuedMessage(Message(c))
  /\ phase' = [phase EXCEPT ![c] = "working"]
  /\ UNCHANGED <<jobs, snapshots, doneMessages, dispatcherVars, turns, cancelled, outcome,
                 replies, stopVars, checks>>

(* Reporting on the branch may still fail once the reply is stored. *)
FinishTurnWithReply(c) ==
  /\ phase[c] = "working"
  /\ CompleteTurn(Job(c), Message(c))
  /\ \E result \in {"replied", "failed"} : Return(c, result)
  /\ replies' = [replies EXCEPT ![Message(c)] = @ + 1]
  /\ UNCHANGED <<dispatcherVars, turns, cancelled, stopVars, checks>>

FinishStoppedTurn(c) ==
  /\ phase[c] = "working"
  /\ c \in cancelled
  /\ UpdateJobData(Job(c), "completed", Message(c))
  /\ Return(c, "stopped")
  /\ UNCHANGED <<queuedMessages, doneMessages, dispatcherVars, turns, cancelled, replies,
                 stopVars, checks>>

(* The CLI failed: the handler writes the failed row itself. *)
FailCLI(c) ==
  /\ phase[c] = "working"
  /\ UpdateJobData(Job(c), "failed", Message(c))
  /\ Return(c, "failed")
  /\ UNCHANGED <<queuedMessages, doneMessages, dispatcherVars, turns, cancelled, replies,
                 stopVars, checks>>

(* Any other error leaves the row as it is. *)
FailTurn(c) ==
  /\ phase[c] \in {"prepared", "working"}
  /\ Return(c, "failed")
  /\ UNCHANGED <<appStateVars, dispatcherVars, turns, cancelled, replies, stopVars, checks>>

EndTurn(c) ==
  /\ phase[c] = "unwinding"
  /\ turns' = [turns EXCEPT ![Job(c)] = IF @ = c THEN NoChannel ELSE @]
  /\ phase' = [phase EXCEPT ![c] =
       CASE outcome[c] = "left" -> "none"
         [] outcome[c] = "failed" -> "failing"
         [] OTHER -> "recording"]
  /\ outcome' = [outcome EXCEPT ![c] = "none"]
  /\ proc' = [proc EXCEPT ![c] = IF outcome[c] = "left" THEN "finish" ELSE @]
  /\ UNCHANGED <<appStateVars, channelVars, markVars, pool, held, deliveryVars, cancelled,
                 replies, stopVars, checks>>

FailInProgressJobForgotten(c) ==
  /\ phase[c] = "failing"
  /\ phase' = [phase EXCEPT ![c] = "recording"]
  /\ UNCHANGED <<appStateVars, dispatcherVars, turns, cancelled, outcome, replies, stopVars,
                 checks>>

FailInProgressJob(c) ==
  /\ phase[c] = "failing"
  /\ FailJobIfInProgress(Job(c), Message(c))
  /\ phase' = [phase EXCEPT ![c] = "recording"]
  /\ UNCHANGED <<queuedMessages, doneMessages, dispatcherVars, turns, cancelled, outcome,
                 replies, stopVars, checks>>

RecordDone(c) ==
  /\ phase[c] = "recording"
  /\ FinishMessage(Message(c))
  /\ phase' = [phase EXCEPT ![c] = "none"]
  /\ proc' = [proc EXCEPT ![c] = "finish"]
  /\ UNCHANGED <<jobs, snapshots, channelVars, markVars, pool, held, deliveryVars, turns,
                 cancelled, outcome, replies, stopVars, checks>>

HandleMessage(c) ==
  \/ BeginTurn(c)
  \/ LeaveForPoller(c)
  \/ ReadJob(c)
  \/ AbandonJob(c)
  \/ MarkInProgress(c)
  \/ TakeOffQueue(c)
  \/ FinishTurnWithReply(c)
  \/ FinishStoppedTurn(c)
  \/ FailCLI(c)
  \/ FailTurn(c)
  \/ EndTurn(c)
  \/ FailInProgressJob(c)
  \/ RecordDone(c)

-----------------------------------------------------------------------------
(* stopTurn on thread s. *)

AtStop(s, pc) == stops[s].pc = pc
GoStop(s, next) == stops' = [stops EXCEPT ![s] = next]

StopTurn(s, j) ==
  /\ AtStop(s, "none")
  /\ stopsLeft > 0
  /\ stopsLeft' = stopsLeft - 1
  /\ cancelled' = IF turns[j] = NoChannel THEN cancelled ELSE cancelled \cup {turns[j]}
  /\ GoStop(s, [NoStop EXCEPT !.pc = "find", !.job = j,
                              !.running = (turns[j] # NoChannel)])
  /\ UNCHANGED <<appStateVars, dispatcherVars, turns, phase, outcome, replies, checks>>

(* DropQueuedMessages reads the channel under the mutex and empties it     *)
(* after letting go of it.                                                 *)
FindChannel(s) ==
  LET c == activeJobs[stops[s].job] IN
  /\ AtStop(s, "find")
  /\ GoStop(s, [stops[s] EXCEPT !.ch = c, !.pc = IF c = NoChannel THEN "keep" ELSE "drain"])
  /\ UNCHANGED <<appStateVars, dispatcherVars, turnVars, stopsLeft, checks>>

DropReceive(s) ==
  LET c == stops[s].ch IN
  /\ AtStop(s, "drain")
  /\ queue[c] # <<>>
  /\ queue' = [queue EXCEPT ![c] = Tail(@)]
  /\ GoStop(s, [stops[s] EXCEPT !.pc = "dropped", !.held = Head(queue[c])])
  /\ UNCHANGED <<appStateVars, activeJobs, made, owner, closes, markVars, processorVars,
                 deliveryVars, turnVars, stopsLeft, checks>>

DropUncounted(s) ==
  /\ AtStop(s, "dropped")
  /\ ForgetMessage(stops[s].held.id)
  /\ GoStop(s, [stops[s] EXCEPT !.pc = "drain", !.held = NoEntry,
                                !.dropped = @ \cup {stops[s].held}])
  /\ UNCHANGED <<appStateVars, channelVars, acceptedMessages, completingJobs, processorVars,
                 deliveryVars, turnVars, stopsLeft, checks>>

DropFinish(s) ==
  /\ AtStop(s, "dropped")
  /\ FinishAccepted(stops[s].job, stops[s].held.id)
  /\ GoStop(s, [stops[s] EXCEPT !.pc = "drain", !.held = NoEntry,
                                !.dropped = @ \cup {stops[s].held}])
  /\ UNCHANGED <<appStateVars, channelVars, completingJobs, processorVars, deliveryVars,
                 turnVars, stopsLeft, checks>>

DropDone(s) ==
  /\ AtStop(s, "drain")
  /\ queue[stops[s].ch] = <<>>
  /\ GoStop(s, [stops[s] EXCEPT !.pc = "keep"])
  /\ UNCHANGED <<appStateVars, dispatcherVars, turnVars, stopsLeft, checks>>

(* keepJobWithoutSession, for a dropped message that would have started    *)
(* the job.  Rows of two such messages differ only in the message.         *)
KeepJobWithoutSession(s) ==
  LET starts == {e \in stops[s].dropped : e.kind = "start"} IN
  /\ AtStop(s, "keep")
  /\ \/ \E e \in starts : UpdateJobData(stops[s].job, "completed", e.id)
     \/ starts = {} /\ UNCHANGED <<jobs, snapshots>>
  /\ GoStop(s, [stops[s] EXCEPT !.pc = "unqueue"])
  /\ UNCHANGED <<queuedMessages, doneMessages, dispatcherVars, turnVars, stopsLeft, checks>>

(* Nothing was running and something was dropped: the job leaves the       *)
(* dispatcher.  Otherwise the request is over.                             *)
TakeJobOffQueue(s) ==
  /\ AtStop(s, "unqueue")
  /\ RemoveQueuedMessagesForJob(stops[s].job)
  /\ GoStop(s, IF ~stops[s].running /\ stops[s].dropped # {}
                 THEN [stops[s] EXCEPT !.pc = "evict"]
                 ELSE NoStop)
  /\ UNCHANGED <<jobs, snapshots, doneMessages, dispatcherVars, turnVars, stopsLeft, checks>>

EvictStopped(s) ==
  /\ AtStop(s, "evict")
  /\ EvictJob(stops[s].job)
  /\ GoStop(s, NoStop)
  /\ UNCHANGED <<appStateVars, made, owner, queue, markVars, processorVars, deliveryVars,
                 turnVars, stopsLeft, checks>>

Stop(s) ==
  \/ FindChannel(s)
  \/ DropReceive(s)
  \/ DropFinish(s)
  \/ DropDone(s)
  \/ KeepJobWithoutSession(s)
  \/ TakeJobOffQueue(s)
  \/ EvictStopped(s)

-----------------------------------------------------------------------------
(* checkJobIdleness on thread i: the row is read, the forge is asked, and  *)
(* only then is the job claimed and the row looked at again.               *)

AtCheck(i, pc) == checks[i].pc = pc
GoCheck(i, pc) == checks' = [checks EXCEPT ![i].pc = pc]
EndCheck(i) == checks' = [checks EXCEPT ![i] = NoCheck] /\ DropJobData(i)

CheckIdle(i, j) ==
  /\ AtCheck(i, "none")
  /\ HasRow(j)
  /\ ReadJobData(i, j)
  /\ checks' = [checks EXCEPT ![i] = [pc |-> "running", job |-> j]]
  /\ UNCHANGED <<jobs, queuedMessages, doneMessages, dispatcherVars, turnVars, stopVars>>

(* The forge may say the job is not over; a running turn says so for sure. *)
CheckRunning(i) ==
  /\ AtCheck(i, "running")
  /\ \/ EndCheck(i)
     \/ /\ turns[checks[i].job] = NoChannel
        /\ GoCheck(i, "claim")
        /\ UNCHANGED snapshots
  /\ UNCHANGED <<jobs, queuedMessages, doneMessages, dispatcherVars, turnVars, stopVars>>

ClaimJob(i) ==
  LET j == checks[i].job IN
  /\ AtCheck(i, "claim")
  /\ IF CanClaimCompletion(j)
       THEN ClaimCompletion(j) /\ GoCheck(i, "recheck") /\ UNCHANGED snapshots
       ELSE UNCHANGED completingJobs /\ EndCheck(i)
  /\ UNCHANGED <<jobs, queuedMessages, doneMessages, channelVars, acceptedMessages, inFlight, processorVars,
                 deliveryVars, turnVars, stopVars>>

RecheckRowExists(i) ==
  /\ AtCheck(i, "recheck")
  /\ GoCheck(i, IF HasRow(checks[i].job) THEN "unqueue" ELSE "release")
  /\ UNCHANGED <<appStateVars, dispatcherVars, turnVars, stopVars>>

(* The row read before the claim may be minutes old. *)
RecheckRow(i) ==
  LET j == checks[i].job IN
  /\ AtCheck(i, "recheck")
  /\ GoCheck(i, IF HasRow(j) /\ i \in snapshots[j] THEN "unqueue" ELSE "release")
  /\ UNCHANGED <<appStateVars, dispatcherVars, turnVars, stopVars>>

ClearQueue(i) ==
  /\ AtCheck(i, "unqueue")
  /\ RemoveQueuedMessagesForJob(checks[i].job)
  /\ GoCheck(i, "remove")
  /\ UNCHANGED <<jobs, snapshots, doneMessages, dispatcherVars, turnVars, stopVars>>

RemoveIdleJob(i) ==
  /\ AtCheck(i, "remove")
  /\ RemoveJob(checks[i].job)
  /\ GoCheck(i, "evict")
  /\ UNCHANGED <<queuedMessages, doneMessages, dispatcherVars, turnVars, stopVars>>


EvictIdle(i) ==
  /\ AtCheck(i, "evict")
  /\ EvictJob(checks[i].job)
  /\ GoCheck(i, "release")
  /\ UNCHANGED <<appStateVars, made, owner, queue, markVars, processorVars, deliveryVars,
                 turnVars, stopVars>>

ReleaseJob(i) ==
  /\ AtCheck(i, "release")
  /\ ReleaseCompletion(checks[i].job)
  /\ EndCheck(i)
  /\ UNCHANGED <<jobs, queuedMessages, doneMessages, channelVars, acceptedMessages, inFlight, processorVars,
                 deliveryVars, turnVars, stopVars>>

Check(i) ==
  \/ CheckRunning(i)
  \/ ClaimJob(i)
  \/ RecheckRow(i)
  \/ ClearQueue(i)
  \/ RemoveIdleJob(i)
  \/ EvictIdle(i)
  \/ ReleaseJob(i)

-----------------------------------------------------------------------------

restVars == <<turnVars, stopVars, checks>>

Next ==
  \/ \E t \in Deliverers, m \in Messages, kind \in {"start", "reply"} :
       Offer(t, m, kind) /\ UNCHANGED restVars
  \/ \E t \in Deliverers : Dispatch(t) /\ UNCHANGED restVars
  \/ StartTask /\ UNCHANGED restVars
  \/ \E c \in Channels : Process(c) /\ UNCHANGED restVars
  \/ \E c \in Channels : HandleMessage(c)
  \/ \E s \in Stoppers, j \in Jobs : StopTurn(s, j)
  \/ \E s \in Stoppers : Stop(s)
  \/ \E i \in IdleChecks, j \in Jobs : CheckIdle(i, j)
  \/ \E i \in IdleChecks : Check(i)

Spec == Init /\ [][Next]_vars

(* Go schedules every runnable goroutine, the pool starts a waiting task   *)
(* once a worker is free, and a turn ends: its session has a timeout.      *)
(* Deliveries, stop requests and idle checks need not come.                *)
Fairness ==
  /\ \A t \in Deliverers : WF_vars(Dispatch(t) /\ UNCHANGED restVars)
  /\ WF_vars(StartTask /\ UNCHANGED restVars)
  /\ \A c \in Channels : WF_vars(Process(c) /\ UNCHANGED restVars) /\ WF_vars(HandleMessage(c))
  /\ \A s \in Stoppers : WF_vars(Stop(s))
  /\ \A i \in IdleChecks : WF_vars(Check(i))

FairSpec == Spec /\ Fairness

-----------------------------------------------------------------------------
(* Properties. *)

HasTurn(c) == phase[c] # "none"
Holds(c) == held[c] # NoEntry

(* A panic stops the whole agent: sending on a closed channel and closing  *)
(* a channel twice both do.  Dispatch sends only to a registered channel,  *)
(* so a registered channel is open and belongs to the job it is registered *)
(* for, and no channel is ever closed twice, although four kinds of thread *)
(* close channels (dispatcher.go:88-113, 193-212, 240-247).                *)
NoChannelPanic ==
  /\ \A j \in Jobs : activeJobs[j] # NoChannel =>
       ~IsClosed(activeJobs[j]) /\ owner[activeJobs[j]] = j
  /\ \A c \in Channels : closes[c] <= 1

(* No message is put where nobody will look: the channel registered for a  *)
(* job has a processor that has not begun to leave, and a processor that   *)
(* left took everything out of its channel (dispatcher.go:152-159, 191).   *)
NoStrandedMessage ==
  /\ \A j \in Jobs : activeJobs[j] # NoChannel =>
       proc[activeJobs[j]] \notin {"unborn", "drain", "dropped", "gone"}
  /\ \A c \in Channels : proc[c] = "gone" => queue[c] = <<>>

(* The count that guards a job's completion is exact: it is the number of  *)
(* messages of the job in channels and in the hands of processors and stop *)
(* requests.  Too high and the job is never completed, too low and it is   *)
(* completed under a waiting message (dispatcher.go:28-30, 163-172).       *)
AcceptedIsExact ==
  LET inChannel(m, j) == \E c \in Channels :
                           owner[c] = j /\ \E k \in 1..Len(queue[c]) : queue[c][k].id = m
      inHand(m, j) == \E c \in Channels : owner[c] = j /\ held[c].id = m
      inStop(m, j) == \E s \in Stoppers : stops[s].job = j /\ stops[s].held.id = m
  IN \A j \in Jobs :
       acceptedMessages[j] =
         Cardinality({m \in Messages : inChannel(m, j) \/ inHand(m, j) \/ inStop(m, j)})

(* While an idle check holds the claim on a job, nothing of the job runs   *)
(* and nothing waits, so the row and the channel it removes are not in use *)
(* (dispatcher.go:249-262, messages.go:1037-1075).                         *)
ClaimExcludesWork ==
  \A j \in completingJobs :
    /\ turns[j] = NoChannel
    /\ \A c \in Channels : owner[c] = j => queue[c] = <<>> /\ ~Holds(c)

(* A message is in one place at a time, and is marked in flight from the   *)
(* moment it is queued until its turn is over or it is dropped: a second   *)
(* delivery is told from the first by that mark (dispatcher.go:25-27).     *)
InFlightWhileHeld ==
  LET at(m) == {p \in Channels \X (1..ChannelCap) :
                  p[2] <= Len(queue[p[1]]) /\ queue[p[1]][p[2]].id = m}
      inHand(m) == {c \in Channels : held[c].id = m}
      inStop(m) == {s \in Stoppers : stops[s].held.id = m}
      sending(m) == {t \in Deliverers : delivery[t].pc = "send" /\ delivery[t].entry.id = m}
  IN \A m \in Messages :
       Cardinality(at(m)) + Cardinality(inHand(m)) + Cardinality(inStop(m))
         + Cardinality(sending(m)) = (IF m \in inFlight THEN 1 ELSE 0)

(* At most one turn of a job at a time (dispatcher.go:21-22). *)
OneTurnPerJob ==
  \A c, d \in Channels : c # d /\ HasTurn(c) /\ HasTurn(d) => owner[c] # owner[d]

(* A message is answered at most once (dispatcher.go:60). *)
OneReplyPerMessage == \A m \in Messages : replies[m] <= 1

(* A message waiting in a channel has its entry on the recovery queue, so a *)
(* restart replays it (cmd/main.go:1491-1493).                              *)
WaitingIsRecoverable ==
  \A c \in Channels : \A k \in 1..Len(queue[c]) : queue[c][k].id \in queuedMessages

(* The row an idle check removes is the row it read before it asked the    *)
(* forge, minutes ago: from the second look at the row to its removal, no  *)
(* turn writes it (messages.go:1040-1064).  A stop may (stop_turn.go:67).  *)
RemovedRowIsCurrent ==
  \A i \in IdleChecks :
    (AtCheck(i, "unqueue") \/ AtCheck(i, "remove")) /\ stopsLeft = MaxStops
      => i \in snapshots[checks[i].job]

(* A processor whose job is finished and whose channel is empty gives its  *)
(* worker slot back (dispatcher.go:140-146, messages.go:1068-1071).        *)
IdleSlot(c) ==
  proc[c] = "receive" /\ queue[c] = <<>> /\ jobs[owner[c]].status # "in_progress"
SlotsAreFreed == \A c \in Channels : IdleSlot(c) ~> ~IdleSlot(c)

(* It may wait on when a stop took the message that kept it (MCKeptSlot),  *)
(* but no longer than the job has a row: when an idle check has removed    *)
(* that, every processor of the job gives its worker back, wherever it is  *)
(* and whatever a stop does meanwhile (messages.go:1066-1073).             *)
SweptFrom(c, i) == AtCheck(i, "evict") /\ owner[c] = checks[i].job

(* A message that was accepted gets its turn, or goes back to the poller.  *)
AcceptedIsFinished == \A m \in Messages : m \in inFlight ~> m \notin inFlight

(* Without stop requests the dispatcher implements the abstract lanes: per *)
(* job, messages run one at a time in the order they were accepted         *)
(* (dispatcher.go:21-22, 58-60, 122-150).                                  *)
LaneWaiting ==
  [j \in Jobs |-> IF activeJobs[j] = NoChannel THEN <<>>
                  ELSE [k \in 1..Len(queue[activeJobs[j]]) |-> queue[activeJobs[j]][k].id]]
LaneRunning ==
  [j \in Jobs |->
     IF \E c \in Channels : owner[c] = j /\ proc[c] \in {"handle", "finish"}
       THEN Message(CHOOSE c \in Channels : owner[c] = j /\ proc[c] \in {"handle", "finish"})
       ELSE None]
Lanes == INSTANCE JobLanes WITH waiting <- LaneWaiting, running <- LaneRunning
ImplementsLanes == Lanes!LanesSpec

=============================================================================
