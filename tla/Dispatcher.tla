----------------------------- MODULE Dispatcher -----------------------------
(***************************************************************************)
(* handlers.JobDispatcher and the worker pool it submits to.  A message    *)
(* goes into the channel of its job; every channel has one processor, a    *)
(* pool task that takes messages one at a time, hands each to the message  *)
(* handler and leaves when the job is over.                                *)
(*                                                                         *)
(* The grain is the critical section: Dispatch is split where it releases  *)
(* the dispatcher's mutex, and a processor where it takes or releases it.  *)
(* What the handler does with a message (proc[c] = "handle") is module     *)
(* JobTurns.                                                               *)
(***************************************************************************)
EXTENDS AppState

CONSTANTS
  Deliverers,     \* threads that call Dispatch: the socket and the poller
  MaxOffers,      \* bound: deliveries of one message
  MaxChannels,    \* bound: channels made in a behaviour
  ChannelCap,     \* buffer of a job channel (100 in the code)
  MaxConcurrency  \* tasks the worker pool runs at once

ASSUME DispatcherAssumption ==
  /\ MaxOffers \in Nat
  /\ MaxChannels \in Nat
  /\ ChannelCap \in Nat \ {0}
  /\ MaxConcurrency \in Nat \ {0}

VARIABLES
  activeJobs,        \* per job, its registered channel, or NoChannel
  acceptedMessages,  \* per job, messages accepted and not finished
  inFlight,          \* messages queued or running
  completingJobs,    \* jobs an idle check has claimed
  made,              \* channels made so far
  owner,             \* per channel, its job
  queue,             \* per channel, what is buffered
  closes,            \* per channel, how often it was closed
  pool,              \* channels whose processor waits for a worker
  proc,              \* per channel, where its processor is
  held,              \* per channel, the message its processor holds
  delivery,          \* per deliverer, its running call of Dispatch
  offers             \* per message, deliveries still to come

channelVars == <<activeJobs, made, owner, queue, closes>>
markVars == <<acceptedMessages, inFlight, completingJobs>>
processorVars == <<pool, proc, held>>
deliveryVars == <<delivery, offers>>
dispatcherVars == <<channelVars, markVars, processorVars, deliveryVars>>

-----------------------------------------------------------------------------

Channels == 1..MaxChannels
NoChannel == 0

(* A start has a prompt to begin a job from, a reply has not.  The poller   *)
(* makes a start of a message whose job had no row when the poll began, so *)
(* a start may meet a row, and a second start another one.                 *)
Entries == [id : Messages, kind : {"start", "reply"}]
NoEntry == [id |-> None, kind |-> "none"]

ProcStates ==
  {"unborn", "created", "submitted", "receive", "handle", "finish", "check",
   "close", "cleanup", "drain", "dropped", "gone"}

DeliveryStates == {"none", "check", "mark", "send", "submit"}
NoDelivery == [pc |-> "none", entry |-> NoEntry, ch |-> NoChannel]

Deliveries ==
  [pc : DeliveryStates, entry : Entries \cup {NoEntry}, ch : Channels \cup {NoChannel}]

ChannelTypeOK ==
  /\ activeJobs \in [Jobs -> Channels \cup {NoChannel}]
  /\ made \in Channels \cup {NoChannel}
  /\ owner \in [Channels -> Jobs \cup {None}]
  /\ queue \in [Channels -> Seq(Entries)]
  /\ closes \in [Channels -> Nat]

MarkTypeOK ==
  /\ acceptedMessages \in [Jobs -> Nat]
  /\ inFlight \subseteq Messages
  /\ completingJobs \subseteq Jobs

ProcessorTypeOK ==
  /\ pool \in Seq(Channels)
  /\ proc \in [Channels -> ProcStates]
  /\ held \in [Channels -> Entries \cup {NoEntry}]

DeliveryTypeOK ==
  /\ delivery \in [Deliverers -> Deliveries]
  /\ offers \in [Messages -> Nat]

DispatcherInit ==
  /\ activeJobs = [j \in Jobs |-> NoChannel]
  /\ acceptedMessages = [j \in Jobs |-> 0]
  /\ inFlight = {}
  /\ completingJobs = {}
  /\ made = 0
  /\ owner = [c \in Channels |-> None]
  /\ queue = [c \in Channels |-> <<>>]
  /\ closes = [c \in Channels |-> 0]
  /\ pool = <<>>
  /\ proc = [c \in Channels |-> "unborn"]
  /\ held = [c \in Channels |-> NoEntry]
  /\ delivery = [t \in Deliverers |-> NoDelivery]
  /\ offers = [m \in Messages |-> MaxOffers]

-----------------------------------------------------------------------------
(* The critical sections of the dispatcher's mutex. *)

IsClosed(c) == closes[c] > 0

CloseLockedUnchecked(j, c) ==
  /\ activeJobs' = [activeJobs EXCEPT ![j] = NoChannel]
  /\ closes' = [closes EXCEPT ![c] = @ + 1]

CloseLocked(j, c) ==
  IF activeJobs[j] = c
    THEN /\ activeJobs' = [activeJobs EXCEPT ![j] = NoChannel]
         /\ closes' = [closes EXCEPT ![c] = @ + 1]
    ELSE UNCHANGED <<activeJobs, closes>>

(* The code deletes a count that falls to zero or below, so what a reader  *)
(* of the map sees is never negative.                                      *)
FinishAccepted(j, m) ==
  /\ inFlight' = inFlight \ {m}
  /\ acceptedMessages' =
       [acceptedMessages EXCEPT ![j] = IF @ - 1 <= 0 THEN 0 ELSE @ - 1]

EvictJob(j) ==
  IF activeJobs[j] # NoChannel
    THEN CloseLocked(j, activeJobs[j])
    ELSE UNCHANGED <<activeJobs, closes>>

CanClaimBusyJob(j) == j \notin completingJobs

CanClaimCompletion(j) == acceptedMessages[j] = 0 /\ j \notin completingJobs

ClaimCompletion(j) == completingJobs' = completingJobs \cup {j}

ReleaseCompletion(j) == completingJobs' = completingJobs \ {j}

ForgetMessage(m) == inFlight' = inFlight \ {m}

-----------------------------------------------------------------------------
(* Delivery: PersistQueuedMessage, then Dispatch. *)

(* The socket handler and the poller keep the message for recovery before  *)
(* they dispatch it.  The poller skips what it sees done or in flight, but *)
(* a message may become so right after it looked, so it is not held to it. *)
Offer(t, m, kind) ==
  /\ delivery[t].pc = "none"
  /\ offers[m] > 0
  /\ offers' = [offers EXCEPT ![m] = @ - 1]
  /\ delivery' = [delivery EXCEPT ![t] =
       [pc |-> "check", entry |-> [id |-> m, kind |-> kind], ch |-> NoChannel]]
  /\ AddQueuedMessage(m)
  /\ UNCHANGED <<jobs, snapshots, doneMessages, channelVars, markVars, processorVars>>

(* Outside the mutex: a message whose turn is over is skipped. *)
DispatchCheckDone(t) ==
  LET d == delivery[t] IN
  /\ d.pc = "check"
  /\ delivery' = [delivery EXCEPT ![t] =
       IF d.entry.id \in doneMessages THEN NoDelivery ELSE [d EXCEPT !.pc = "mark"]]
  /\ UNCHANGED <<appStateVars, channelVars, markVars, processorVars, offers>>

(* A message already queued or running is skipped. *)
DispatchMark(t) ==
  LET d == delivery[t] IN
  /\ d.pc = "mark"
  /\ inFlight' = inFlight \cup {d.entry.id}
  /\ delivery' = [delivery EXCEPT ![t] =
       IF d.entry.id \in inFlight THEN NoDelivery ELSE [d EXCEPT !.pc = "send"]]
  /\ UNCHANGED <<appStateVars, channelVars, acceptedMessages, completingJobs,
                 processorVars, offers>>

DispatchRefuseMarked(t) ==
  LET d == delivery[t]
      j == JobOf[d.entry.id] IN
  /\ d.pc = "send"
  /\ \/ j \in completingJobs
     \/ activeJobs[j] # NoChannel /\ Len(queue[activeJobs[j]]) >= ChannelCap
  /\ delivery' = [delivery EXCEPT ![t] = NoDelivery]
  /\ UNCHANGED <<appStateVars, channelVars, markVars, processorVars, offers>>

(* A job being completed, or a full channel, leaves the message unmarked   *)
(* for the next poll.                                                      *)
DispatchRefuse(t) ==
  LET d == delivery[t]
      j == JobOf[d.entry.id] IN
  /\ d.pc = "send"
  /\ \/ j \in completingJobs
     \/ activeJobs[j] # NoChannel /\ Len(queue[activeJobs[j]]) >= ChannelCap
  /\ inFlight' = inFlight \ {d.entry.id}
  /\ delivery' = [delivery EXCEPT ![t] = NoDelivery]
  /\ UNCHANGED <<appStateVars, channelVars, acceptedMessages, completingJobs,
                 processorVars, offers>>

DispatchSendFirst(t) ==
  LET d == delivery[t]
      j == JobOf[d.entry.id]
      c == activeJobs[j] IN
  /\ d.pc = "send"
  /\ j \notin completingJobs
  /\ c # NoChannel
  /\ Len(queue[c]) < ChannelCap
  /\ queue' = [queue EXCEPT ![c] = <<d.entry>> \o @]
  /\ acceptedMessages' = [acceptedMessages EXCEPT ![j] = @ + 1]
  /\ delivery' = [delivery EXCEPT ![t] = NoDelivery]
  /\ UNCHANGED <<appStateVars, activeJobs, made, owner, closes, inFlight, completingJobs,
                 processorVars, offers>>

DispatchSend(t) ==
  LET d == delivery[t]
      j == JobOf[d.entry.id]
      c == activeJobs[j] IN
  /\ d.pc = "send"
  /\ j \notin completingJobs
  /\ c # NoChannel
  /\ Len(queue[c]) < ChannelCap
  /\ queue' = [queue EXCEPT ![c] = Append(@, d.entry)]
  /\ acceptedMessages' = [acceptedMessages EXCEPT ![j] = @ + 1]
  /\ delivery' = [delivery EXCEPT ![t] = NoDelivery]
  /\ UNCHANGED <<appStateVars, activeJobs, made, owner, closes, inFlight, completingJobs,
                 processorVars, offers>>

DispatchSendSecond(t) ==
  LET d == delivery[t]
      j == JobOf[d.entry.id]
      c == made + 1 IN
  /\ d.pc = "send"
  /\ j \notin completingJobs
  /\ made < MaxChannels
  /\ made' = c
  /\ owner' = [owner EXCEPT ![c] = j]
  /\ activeJobs' = [activeJobs EXCEPT ![j] = c]
  /\ queue' = [queue EXCEPT ![c] = Append(@, d.entry)]
  /\ acceptedMessages' = [acceptedMessages EXCEPT ![j] = @ + 1]
  /\ proc' = [proc EXCEPT ![c] = "created"]
  /\ delivery' = [delivery EXCEPT ![t] = [pc |-> "submit", entry |-> d.entry, ch |-> c]]
  /\ UNCHANGED <<appStateVars, closes, inFlight, completingJobs, pool, held, offers>>

(* The job has no channel: one is made and registered, and gets the message *)
(* under the same lock.                                                     *)
DispatchSendNew(t) ==
  LET d == delivery[t]
      j == JobOf[d.entry.id]
      c == made + 1 IN
  /\ d.pc = "send"
  /\ j \notin completingJobs
  /\ activeJobs[j] = NoChannel
  /\ made < MaxChannels
  /\ made' = c
  /\ owner' = [owner EXCEPT ![c] = j]
  /\ activeJobs' = [activeJobs EXCEPT ![j] = c]
  /\ queue' = [queue EXCEPT ![c] = Append(@, d.entry)]
  /\ acceptedMessages' = [acceptedMessages EXCEPT ![j] = @ + 1]
  /\ proc' = [proc EXCEPT ![c] = "created"]
  /\ delivery' = [delivery EXCEPT ![t] = [pc |-> "submit", entry |-> d.entry, ch |-> c]]
  /\ UNCHANGED <<appStateVars, closes, inFlight, completingJobs, pool, held, offers>>

DispatchSubmit(t) ==
  LET d == delivery[t] IN
  /\ d.pc = "submit"
  /\ pool' = Append(pool, d.ch)
  /\ proc' = [proc EXCEPT ![d.ch] = "submitted"]
  /\ delivery' = [delivery EXCEPT ![t] = NoDelivery]
  /\ UNCHANGED <<appStateVars, channelVars, markVars, held, offers>>

Dispatch(t) ==
  \/ DispatchCheckDone(t)
  \/ DispatchMark(t)
  \/ DispatchRefuse(t)
  \/ DispatchSend(t)
  \/ DispatchSendNew(t)
  \/ DispatchSubmit(t)

-----------------------------------------------------------------------------
(* The worker pool (gammazero/workerpool): tasks start in the order they   *)
(* were submitted, at most MaxConcurrency at once.                         *)

Busy == {c \in Channels : proc[c] \notin {"unborn", "created", "submitted", "gone"}}

StartTask ==
  /\ pool # <<>>
  /\ Cardinality(Busy) < MaxConcurrency
  /\ pool' = Tail(pool)
  /\ proc' = [proc EXCEPT ![Head(pool)] = "receive"]
  /\ UNCHANGED <<appStateVars, channelVars, markVars, held, deliveryVars>>

-----------------------------------------------------------------------------
(* The processor of channel c. *)

Receive(c) ==
  /\ proc[c] = "receive"
  /\ queue[c] # <<>>
  /\ queue' = [queue EXCEPT ![c] = Tail(@)]
  /\ held' = [held EXCEPT ![c] = Head(queue[c])]
  /\ proc' = [proc EXCEPT ![c] = "handle"]
  /\ UNCHANGED <<appStateVars, activeJobs, made, owner, closes, markVars, pool, deliveryVars>>

ReceiveZero(c) ==
  /\ proc[c] = "receive"
  /\ queue[c] = <<>>
  /\ IsClosed(c)
  /\ proc' = [proc EXCEPT ![c] = "handle"]
  /\ UNCHANGED <<appStateVars, channelVars, markVars, pool, held, deliveryVars>>

(* The range loop ends on a closed, empty channel. *)
ReceiveClosed(c) ==
  /\ proc[c] = "receive"
  /\ queue[c] = <<>>
  /\ IsClosed(c)
  /\ proc' = [proc EXCEPT ![c] = "cleanup"]
  /\ UNCHANGED <<appStateVars, channelVars, markVars, pool, held, deliveryVars>>

FinishHandled(c) ==
  /\ proc[c] = "finish"
  /\ FinishAccepted(owner[c], held[c].id)
  /\ held' = [held EXCEPT ![c] = NoEntry]
  /\ proc' = [proc EXCEPT ![c] = "check"]
  /\ UNCHANGED <<appStateVars, channelVars, completingJobs, pool, deliveryVars>>

(* A removed job ends its processor; a finished one only when nothing waits. *)
CheckJob(c) ==
  LET status == jobs[owner[c]].status IN
  /\ proc[c] = "check"
  /\ proc' = [proc EXCEPT ![c] =
       CASE status = "absent" -> "cleanup"
         [] status \in {"completed", "failed"} -> "close"
         [] OTHER -> "receive"]
  /\ UNCHANGED <<appStateVars, channelVars, markVars, pool, held, deliveryVars>>

CloseIfEmpty(c) ==
  /\ proc[c] = "close"
  /\ IF queue[c] # <<>>
       THEN /\ proc' = [proc EXCEPT ![c] = "receive"]
            /\ UNCHANGED <<activeJobs, closes>>
       ELSE /\ proc' = [proc EXCEPT ![c] = "cleanup"]
            /\ CloseLocked(owner[c], c)
  /\ UNCHANGED <<appStateVars, made, owner, queue, markVars, pool, held, deliveryVars>>

Cleanup(c) ==
  /\ proc[c] = "cleanup"
  /\ CloseLocked(owner[c], c)
  /\ proc' = [proc EXCEPT ![c] = "drain"]
  /\ UNCHANGED <<appStateVars, made, owner, queue, markVars, pool, held, deliveryVars>>

(* What a processor leaving a removed job strands goes back to the poller. *)
DrainReceive(c) ==
  /\ proc[c] = "drain"
  /\ queue[c] # <<>>
  /\ queue' = [queue EXCEPT ![c] = Tail(@)]
  /\ held' = [held EXCEPT ![c] = Head(queue[c])]
  /\ proc' = [proc EXCEPT ![c] = "dropped"]
  /\ UNCHANGED <<appStateVars, activeJobs, made, owner, closes, markVars, pool, deliveryVars>>

DrainFinish(c) ==
  /\ proc[c] = "dropped"
  /\ FinishAccepted(owner[c], held[c].id)
  /\ held' = [held EXCEPT ![c] = NoEntry]
  /\ proc' = [proc EXCEPT ![c] = "drain"]
  /\ UNCHANGED <<appStateVars, channelVars, completingJobs, pool, deliveryVars>>

LeaveUndrained(c) ==
  /\ proc[c] = "drain"
  /\ proc' = [proc EXCEPT ![c] = "gone"]
  /\ UNCHANGED <<appStateVars, channelVars, markVars, pool, held, deliveryVars>>

LeaveProcessor(c) ==
  /\ proc[c] = "drain"
  /\ queue[c] = <<>>
  /\ proc' = [proc EXCEPT ![c] = "gone"]
  /\ UNCHANGED <<appStateVars, channelVars, markVars, pool, held, deliveryVars>>

Process(c) ==
  \/ Receive(c)
  \/ ReceiveClosed(c)
  \/ FinishHandled(c)
  \/ CheckJob(c)
  \/ CloseIfEmpty(c)
  \/ Cleanup(c)
  \/ DrainReceive(c)
  \/ DrainFinish(c)
  \/ LeaveProcessor(c)

=============================================================================
