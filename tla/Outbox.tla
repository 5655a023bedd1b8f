------------------------------- MODULE Outbox -------------------------------
(***************************************************************************)
(* handlers.MessageSender: the replies of the jobs on their way to the     *)
(* backend.  A reply is written to the outbox on disk before it is queued; *)
(* the sender takes one queued message at a time, and the retrier walks    *)
(* over the outbox and sends again what did not arrive.  Both mark the     *)
(* entry they are sending as pending.                                      *)
(*                                                                         *)
(* Abstraction: a reply is its identity, its job and the way it is queued. *)
(* Its call of QueueMessage or the like runs on some goroutine (its job's  *)
(* turn, an idle check, a stop request of the socket or the poller), and   *)
(* any calls may overlap, those of one job too: a stop is answered while   *)
(* the turn it found ending still sends its own reply.                     *)
(* A round of HTTP attempts is one step whose outcome the backend and the  *)
(* network choose; so is a round of WebSocket attempts.                    *)
(* The wait before a retry is the set of replies whose wait is not over.   *)
(* Progress messages, which are never stored and may be dropped, stay out, *)
(* as do entries a foreign hand made unreadable.                           *)
(***************************************************************************)
EXTENDS Naturals, Sequences, FiniteSets

CONSTANTS
  Jobs,
  Replies,        \* messages the agent sends
  JobOf,          \* the job of a reply
  KindOf,         \* how a reply is queued
  NoReply,        \* an idle goroutine's
  FailingWrites,  \* bound: the writes of the state file that may fail
  MaxFailures,    \* bound: HTTP rounds that fail
  MaxCrashes      \* bound: crashes of the agent

(* "final": with the turn it ends; "plain": by itself; "notice": by         *)
(* recovery, before the sender runs; "processing": by WebSocket, unstored. *)
Kinds == {"final", "plain", "notice", "processing"}

ASSUME ReplyAssumption ==
  /\ JobOf \in [Replies -> Jobs]
  /\ KindOf \in [Replies -> Kinds]
  /\ NoReply \notin Replies
  /\ FailingWrites \subseteq {"turn", "add", "remove"}
  /\ MaxFailures \in Nat
  /\ MaxCrashes \in Nat

VARIABLES
  outbox,        \* replies in the outbox in memory
  saved,         \* replies in the outbox of the state file
  queuedAt,      \* per reply, when its entry was made
  clock,         \* the time of the last entry made
  pending,       \* pendingOutbox: queued or being sent
  backedOff,     \* retryAt: replies whose wait is not over
  wsTried,       \* refused replies emitted once by WebSocket
  messageQueue,  \* the sender's channel, of one message
  kick,          \* the retrier has been asked to run
  connected,     \* the WebSocket is up
  running,       \* the sender's goroutines have been started
  call,          \* per reply, the call of QueueMessage or the like that hands it over
  worker,        \* sender and retrier: what they are doing
  pass,          \* what the retrier has still to visit
  blocked,       \* jobs the retrier's pass leaves alone
  unsent,        \* replies not handed to the sender yet
  failuresLeft,  \* HTTP failures still to come
  crashesLeft,   \* crashes still to come
  accepted,      \* history: the replies stored
  before,        \* history: per reply, those of its job stored when its call began
  received,      \* history: replies that reached the backend
  refused        \* history: replies whose turn could not be written

timeVars == <<queuedAt, clock>>
storeVars == <<outbox, saved, timeVars>>
markVars == <<pending, backedOff, wsTried>>
senderVars == <<worker, pass, blocked, kick>>
budgetVars == <<unsent, failuresLeft, crashesLeft>>
historyVars == <<accepted, before, received, refused>>
linkVars == <<connected, running>>
vars == <<storeVars, markVars, messageQueue, linkVars, call, senderVars, budgetVars, historyVars>>

-----------------------------------------------------------------------------

QueueCap == 1
Workers == {"sender", "retrier"}
Queued == [reply : Replies, stored : BOOLEAN]

CallStates == {"none", "mark", "store", "unmark", "later", "send"}
NoCall == [pc |-> "none", stored |-> FALSE, later |-> FALSE]
Calls == [pc : CallStates, stored : BOOLEAN, later : BOOLEAN]

WorkerStates ==
  {"none", "emit", "best", "fallback", "look", "aside", "kick", "due", "mark",
   "submit", "reject", "backoff", "unmark", "remove", "settle"}
NoWork == [pc |-> "none", reply |-> NoReply]
Works == [pc : WorkerStates, reply : Replies \cup {NoReply}]

TypeOK ==
  /\ outbox \subseteq Replies /\ saved \subseteq Replies
  /\ queuedAt \in [Replies -> Nat] /\ clock \in Nat
  /\ pending \subseteq Replies /\ backedOff \subseteq Replies /\ wsTried \subseteq Replies
  /\ messageQueue \in Seq(Queued) /\ Len(messageQueue) <= QueueCap
  /\ kick \in BOOLEAN /\ connected \in BOOLEAN /\ running \in BOOLEAN
  /\ call \in [Replies -> Calls]
  /\ worker \in [Workers -> Works]
  /\ pass \subseteq Replies /\ blocked \subseteq Jobs
  /\ unsent \subseteq Replies
  /\ failuresLeft \in Nat /\ crashesLeft \in Nat
  /\ accepted \subseteq Replies /\ before \in [Replies -> SUBSET Replies]
  /\ received \subseteq Replies /\ refused \subseteq Replies

Init ==
  /\ outbox = {} /\ saved = {}
  /\ queuedAt = [r \in Replies |-> 0] /\ clock = 0
  /\ pending = {} /\ backedOff = {} /\ wsTried = {}
  /\ messageQueue = <<>>
  /\ kick = FALSE /\ connected = FALSE /\ running = FALSE
  /\ call = [r \in Replies |-> NoCall]
  /\ worker = [w \in Workers |-> NoWork]
  /\ pass = {} /\ blocked = {}
  /\ unsent = Replies
  /\ failuresLeft = MaxFailures /\ crashesLeft = MaxCrashes
  /\ accepted = {} /\ before = [r \in Replies |-> {}]
  /\ received = {} /\ refused = {}

-----------------------------------------------------------------------------
(* A job hands over a reply. *)

At(r, pc) == call[r].pc = pc
Go(r, pc) == call' = [call EXCEPT ![r].pc = pc]
EndCall(r) == call' = [call EXCEPT ![r] = NoCall]

Unmark(r) == pending' = pending \ {r}

(* time.Now() in newOutboxEntry. *)
MakeEntry(r) ==
  /\ clock' = clock + 1
  /\ queuedAt' = [queuedAt EXCEPT ![r] = clock + 1]

(* The entry gets its time here, before it is stored. *)
Queue(r) ==
  /\ r \in unsent
  /\ KindOf[r] = "notice" => ~running
  /\ unsent' = unsent \ {r}
  /\ call' = [call EXCEPT ![r] =
       [pc |-> IF KindOf[r] = "processing" THEN "send" ELSE "mark",
        stored |-> FALSE, later |-> KindOf[r] = "notice"]]
  /\ MakeEntry(r)
  /\ before' = [before EXCEPT ![r] = {e \in accepted : JobOf[e] = JobOf[r]}]
  /\ UNCHANGED <<outbox, saved, markVars, messageQueue, linkVars, senderVars, failuresLeft,
                 crashesLeft, accepted, received, refused>>

MarkPending(r) ==
  /\ At(r, "mark")
  /\ pending' = pending \cup {r}
  /\ Go(r, "store")
  /\ UNCHANGED <<storeVars, backedOff, wsTried, messageQueue, linkVars, senderVars, budgetVars,
                 historyVars>>

(* AddOutboxMessage, or CompleteTurn for the reply that ends a turn.  Every *)
(* write puts all of memory on disk.                                       *)
Store(r) ==
  /\ At(r, "store")
  /\ outbox' = outbox \cup {r}
  /\ saved' = outbox'
  /\ accepted' = accepted \cup {r}
  /\ call' = [call EXCEPT ![r].pc = IF call[r].later THEN "later" ELSE "send",
                          ![r].stored = TRUE]
  /\ UNCHANGED <<timeVars, markVars, messageQueue, linkVars, senderVars, budgetVars, before,
                 received, refused>>

StoreFailsKept(r) ==
  /\ At(r, "store")
  /\ KindOf[r] = "final"
  /\ "turn" \in FailingWrites
  /\ outbox' = outbox \cup {r}
  /\ refused' = refused \cup {r}
  /\ Go(r, "unmark")
  /\ UNCHANGED <<saved, timeVars, markVars, messageQueue, linkVars, senderVars, budgetVars,
                 accepted, before, received>>

(* CompleteTurn takes the reply back out of memory. *)
CompleteTurnFails(r) ==
  /\ At(r, "store")
  /\ KindOf[r] = "final"
  /\ "turn" \in FailingWrites
  /\ refused' = refused \cup {r}
  /\ Go(r, "unmark")
  /\ UNCHANGED <<storeVars, markVars, messageQueue, linkVars, senderVars, budgetVars,
                 accepted, before, received>>

(* AddOutboxMessage leaves it there. *)
AddFails(r) ==
  /\ At(r, "store")
  /\ KindOf[r] # "final"
  /\ "add" \in FailingWrites
  /\ outbox' = outbox \cup {r}
  /\ Go(r, "unmark")
  /\ UNCHANGED <<saved, timeVars, markVars, messageQueue, linkVars, senderVars, budgetVars,
                 historyVars>>

(* A reply that ends a turn is given up, a notice is queued like any other *)
(* reply, as a new entry, and any other reply goes out unstored.           *)
SettleUnstored(r) ==
  /\ At(r, "unmark")
  /\ Unmark(r)
  /\ \/ KindOf[r] = "final" /\ EndCall(r) /\ UNCHANGED timeVars
     \/ /\ KindOf[r] # "final" /\ call[r].later
        /\ call' = [call EXCEPT ![r].pc = "mark", ![r].later = FALSE]
        /\ MakeEntry(r)
     \/ KindOf[r] # "final" /\ ~call[r].later /\ Go(r, "send") /\ UNCHANGED timeVars
  /\ UNCHANGED <<outbox, saved, backedOff, wsTried, messageQueue, linkVars, senderVars, budgetVars,
                 historyVars>>

(* The retrier will pick it up. *)
LeaveForRetrier(r) ==
  /\ At(r, "later")
  /\ Unmark(r)
  /\ EndCall(r)
  /\ UNCHANGED <<storeVars, backedOff, wsTried, messageQueue, linkVars, senderVars, budgetVars,
                 historyVars>>

SendUnblocked(r) ==
  /\ At(r, "send")
  /\ messageQueue' = Append(messageQueue, [reply |-> r, stored |-> call[r].stored])
  /\ EndCall(r)
  /\ UNCHANGED <<storeVars, markVars, linkVars, senderVars, budgetVars, historyVars>>

Send(r) ==
  /\ At(r, "send")
  /\ Len(messageQueue) < QueueCap
  /\ messageQueue' = Append(messageQueue, [reply |-> r, stored |-> call[r].stored])
  /\ EndCall(r)
  /\ UNCHANGED <<storeVars, markVars, linkVars, senderVars, budgetVars, historyVars>>

Call(r) ==
  \/ MarkPending(r)
  \/ Store(r)
  \/ CompleteTurnFails(r)
  \/ AddFails(r)
  \/ SettleUnstored(r)
  \/ LeaveForRetrier(r)
  \/ Send(r)

-----------------------------------------------------------------------------
(* The sender and the retrier. *)

AtWork(w, pc) == worker[w].pc = pc
GoWork(w, pc) == worker' = [worker EXCEPT ![w].pc = pc]
EndWork(w) == worker' = [worker EXCEPT ![w] = NoWork]

(* The backend gets the reply. *)
Receive(r) == received' = received \cup {r}

(* An undelivered reply of the same job that is older.  A reply that is not *)
(* in the outbox waits for nothing.                                        *)
WaitsBehindPending(r) ==
  r \in outbox /\ \E e \in outbox :
    JobOf[e] = JobOf[r] /\ queuedAt[e] < queuedAt[r] /\ e \in pending

WaitsBehindOlder(r) ==
  r \in outbox /\ \E e \in outbox : JobOf[e] = JobOf[r] /\ queuedAt[e] < queuedAt[r]

TakeMessage ==
  LET m == Head(messageQueue) IN
  /\ running
  /\ AtWork("sender", "none")
  /\ messageQueue # <<>>
  /\ messageQueue' = Tail(messageQueue)
  /\ worker' = [worker EXCEPT !["sender"] =
       [pc |-> CASE KindOf[m.reply] = "processing" -> "emit"
                 [] KindOf[m.reply] # "processing" /\ m.stored -> "look"
                 [] OTHER -> "best",
        reply |-> m.reply]]
  /\ UNCHANGED <<storeVars, markVars, linkVars, call, pass, blocked, kick, budgetVars, historyVars>>

(* A processing message waits for the connection, and is lost if it fails. *)
EmitProcessing ==
  /\ AtWork("sender", "emit")
  /\ connected
  /\ EndWork("sender")
  /\ UNCHANGED <<storeVars, markVars, messageQueue, linkVars, call, pass, blocked, kick,
                 budgetVars, historyVars>>

(* An unstored reply: HTTP, and if that fails a WebSocket that may fail too. *)
SendUnstored ==
  /\ AtWork("sender", "best")
  /\ \/ Receive(worker["sender"].reply) /\ EndWork("sender") /\ UNCHANGED failuresLeft
     \/ /\ failuresLeft > 0
        /\ failuresLeft' = failuresLeft - 1
        /\ GoWork("sender", "fallback")
        /\ UNCHANGED received
  /\ UNCHANGED <<storeVars, markVars, messageQueue, linkVars, call, pass, blocked, kick,
                 unsent, crashesLeft, accepted, before, refused>>

SendFallback ==
  /\ AtWork("sender", "fallback")
  /\ connected
  /\ Receive(worker["sender"].reply) \/ UNCHANGED received
  /\ EndWork("sender")
  /\ UNCHANGED <<storeVars, markVars, messageQueue, linkVars, call, pass, blocked, kick,
                 budgetVars, accepted, before, refused>>

LookForOlder ==
  /\ AtWork("sender", "look")
  /\ GoWork("sender", IF WaitsBehindOlder(worker["sender"].reply) THEN "aside" ELSE "submit")
  /\ UNCHANGED <<storeVars, markVars, messageQueue, linkVars, call, pass, blocked, kick,
                 budgetVars, historyVars>>

StepAsideMarked ==
  /\ AtWork("sender", "aside")
  /\ GoWork("sender", "kick")
  /\ UNCHANGED <<storeVars, markVars, messageQueue, linkVars, call, pass, blocked, kick,
                 budgetVars, historyVars>>

StepAside ==
  /\ AtWork("sender", "aside")
  /\ Unmark(worker["sender"].reply)
  /\ GoWork("sender", "kick")
  /\ UNCHANGED <<storeVars, backedOff, wsTried, messageQueue, linkVars, call, pass, blocked,
                 kick, budgetVars, historyVars>>

KickRetrier ==
  /\ AtWork("sender", "kick")
  /\ kick' = TRUE
  /\ EndWork("sender")
  /\ UNCHANGED <<storeVars, markVars, messageQueue, linkVars, call, pass, blocked, budgetVars,
                 historyVars>>

(* The retrier starts over the outbox: asked to, or as its ticker runs out. *)
StartPass ==
  /\ running
  /\ AtWork("retrier", "none")
  /\ pass = {}
  /\ kick \/ outbox # {}
  /\ pass' = outbox
  /\ blocked' = {}
  /\ kick' = FALSE
  /\ UNCHANGED <<storeVars, markVars, messageQueue, linkVars, call, worker, budgetVars,
                 historyVars>>

(* In the order the replies were queued; what pass holds is a copy. *)
Visit(r) ==
  /\ AtWork("retrier", "none")
  /\ r \in pass
  /\ \A e \in pass : queuedAt[r] <= queuedAt[e]
  /\ pass' = pass \ {r}
  /\ IF JobOf[r] \in blocked
       THEN UNCHANGED worker
       ELSE worker' = [worker EXCEPT !["retrier"] = [pc |-> "due", reply |-> r]]
  /\ UNCHANGED <<storeVars, markVars, messageQueue, linkVars, call, blocked, kick, budgetVars,
                 historyVars>>

LeaveJob(r) == blocked' = blocked \cup {JobOf[r]} /\ EndWork("retrier")

RetryDue ==
  LET r == worker["retrier"].reply IN
  /\ AtWork("retrier", "due")
  /\ IF r \in backedOff
       THEN LeaveJob(r)
       ELSE GoWork("retrier", "mark") /\ UNCHANGED blocked
  /\ UNCHANGED <<storeVars, markVars, messageQueue, linkVars, call, pass, kick, budgetVars,
                 historyVars>>

MarkRetryAnyway ==
  LET r == worker["retrier"].reply IN
  /\ AtWork("retrier", "mark")
  /\ pending' = pending \cup {r}
  /\ GoWork("retrier", "submit")
  /\ UNCHANGED <<storeVars, backedOff, wsTried, messageQueue, linkVars, call, pass, blocked,
                 kick, budgetVars, historyVars>>

MarkRetry ==
  LET r == worker["retrier"].reply IN
  /\ AtWork("retrier", "mark")
  /\ pending' = pending \cup {r}
  /\ IF r \in pending
       THEN LeaveJob(r)
       ELSE GoWork("retrier", "submit") /\ UNCHANGED blocked
  /\ UNCHANGED <<storeVars, backedOff, wsTried, messageQueue, linkVars, call, pass, kick,
                 budgetVars, historyVars>>

(* One round of HTTP.  A failure may be the answer's only. *)
Submit(w) ==
  LET r == worker[w].reply IN
  /\ AtWork(w, "submit")
  /\ \/ Receive(r) /\ GoWork(w, "remove") /\ UNCHANGED failuresLeft
     \/ /\ failuresLeft > 0
        /\ failuresLeft' = failuresLeft - 1
        /\ \/ Receive(r) /\ GoWork(w, "backoff")
           \/ UNCHANGED received /\ GoWork(w, "backoff")
           \/ UNCHANGED received /\ GoWork(w, "reject")
  /\ UNCHANGED <<storeVars, markVars, messageQueue, linkVars, call, pass, blocked, kick,
                 unsent, crashesLeft, accepted, before, refused>>

EmitRejectedDropped(w) ==
  /\ AtWork(w, "reject")
  /\ GoWork(w, "remove")
  /\ UNCHANGED <<storeVars, markVars, messageQueue, linkVars, call, pass, blocked, kick,
                 budgetVars, historyVars>>

(* A refused reply is emitted once by WebSocket, which proves nothing. *)
EmitRejectedOnce(w) ==
  LET r == worker[w].reply IN
  /\ AtWork(w, "reject")
  /\ IF connected /\ r \notin wsTried
       THEN /\ wsTried' = wsTried \cup {r}
            /\ Receive(r) \/ UNCHANGED received
       ELSE UNCHANGED <<wsTried, received>>
  /\ GoWork(w, "backoff")
  /\ UNCHANGED <<storeVars, pending, backedOff, messageQueue, linkVars, call, pass, blocked,
                 kick, budgetVars, accepted, before, refused>>

BackOff(w) ==
  /\ AtWork(w, "backoff")
  /\ backedOff' = backedOff \cup {worker[w].reply}
  /\ GoWork(w, "unmark")
  /\ UNCHANGED <<storeVars, pending, wsTried, messageQueue, linkVars, call, pass, blocked, kick,
                 budgetVars, historyVars>>

SettleFailed(w) ==
  LET r == worker[w].reply IN
  /\ AtWork(w, "unmark")
  /\ Unmark(r)
  /\ IF w = "retrier" THEN LeaveJob(r) ELSE EndWork(w) /\ UNCHANGED blocked
  /\ UNCHANGED <<storeVars, backedOff, wsTried, messageQueue, linkVars, call, pass, kick,
                 budgetVars, historyVars>>

(* RemoveOutboxMessage, whose write may fail; then the marks. *)
RemoveDelivered(w) ==
  LET r == worker[w].reply IN
  /\ AtWork(w, "remove")
  /\ outbox' = outbox \ {r}
  /\ \/ saved' = IF r \in outbox THEN outbox' ELSE saved
     \/ "remove" \in FailingWrites /\ UNCHANGED saved
  /\ GoWork(w, "settle")
  /\ UNCHANGED <<timeVars, markVars, messageQueue, linkVars, call, pass, blocked, kick,
                 budgetVars, historyVars>>

SettleDelivered(w) ==
  LET r == worker[w].reply IN
  /\ AtWork(w, "settle")
  /\ Unmark(r)
  /\ wsTried' = wsTried \ {r}
  /\ backedOff' = backedOff \ {r}
  /\ EndWork(w)
  /\ UNCHANGED <<storeVars, messageQueue, linkVars, call, pass, blocked, kick, budgetVars,
                 historyVars>>

Deliver(w) ==
  \/ Submit(w)
  \/ EmitRejectedOnce(w)
  \/ BackOff(w)
  \/ SettleFailed(w)
  \/ RemoveDelivered(w)
  \/ SettleDelivered(w)

Sender ==
  \/ TakeMessage
  \/ EmitProcessing
  \/ SendUnstored
  \/ SendFallback
  \/ LookForOlder
  \/ StepAside
  \/ KickRetrier
  \/ Deliver("sender")

Retrier ==
  \/ StartPass
  \/ \E r \in Replies : Visit(r)
  \/ RetryDue
  \/ MarkRetry
  \/ Deliver("retrier")

-----------------------------------------------------------------------------
(* Around them. *)

WaitEnds(r) ==
  /\ r \in backedOff
  /\ backedOff' = backedOff \ {r}
  /\ UNCHANGED <<storeVars, pending, wsTried, messageQueue, linkVars, call, senderVars,
                 budgetVars, historyVars>>

SetConnected(up) ==
  /\ running
  /\ connected # up
  /\ connected' = up
  /\ UNCHANGED <<storeVars, markVars, messageQueue, running, call, senderVars, budgetVars,
                 historyVars>>

Run ==
  /\ ~running
  /\ running' = TRUE
  /\ UNCHANGED <<storeVars, markVars, messageQueue, connected, call, senderVars, budgetVars,
                 historyVars>>

(* The agent is killed and started again: the state file is what it has. *)
Crash ==
  /\ crashesLeft > 0
  /\ crashesLeft' = crashesLeft - 1
  /\ outbox' = saved
  /\ pending' = {} /\ backedOff' = {} /\ wsTried' = {}
  /\ messageQueue' = <<>>
  /\ kick' = FALSE /\ connected' = FALSE /\ running' = FALSE
  /\ call' = [r \in Replies |-> NoCall]
  /\ worker' = [w \in Workers |-> NoWork]
  /\ pass' = {} /\ blocked' = {}
  /\ UNCHANGED <<saved, timeVars, unsent, failuresLeft, historyVars>>

Next ==
  \/ \E r \in Replies : Queue(r)
  \/ \E r \in Replies : Call(r)
  \/ Sender
  \/ Retrier
  \/ \E r \in Replies : WaitEnds(r)
  \/ \E up \in BOOLEAN : SetConnected(up)
  \/ Run
  \/ Crash

Spec == Init /\ [][Next]_vars

(* Goroutines that can run do, a wait ends, the sender is started, and a   *)
(* sender that waits for a connection gets one.  Replies need not come and *)
(* connections, HTTP rounds and the agent may fail at any time.            *)
Fairness ==
  /\ \A r \in Replies : WF_vars(Call(r))
  /\ WF_vars(Retrier)
  /\ SF_vars(Sender)
  /\ \A r \in Replies : WF_vars(WaitEnds(r))
  /\ WF_vars(SetConnected(TRUE))
  /\ WF_vars(Run)

FairSpec == Spec /\ Fairness

-----------------------------------------------------------------------------
(* Properties. *)

(* A reply leaves the state file only after the backend has it: neither a  *)
(* failed or refused round nor a crash loses it (message_sender.go:201,    *)
(* 206-210, 305-322).                                                      *)
KeptUntilReceived == [][\A r \in saved \ saved' : r \in received]_vars

(* Sender and retrier never have the same reply in hand: what one sends is *)
(* pending, and the other leaves it alone (message_sender.go:295, 369).    *)
OneSenderPerReply ==
  LET sending(w) == worker[w].pc \in {"submit", "reject", "backoff", "unmark", "remove", "settle"}
  IN sending("sender") /\ sending("retrier") => worker["sender"].reply # worker["retrier"].reply

(* A reply whose turn could not be written never goes out, not even when a *)
(* later write would take it along: the disk still has the turn running    *)
(* (message_sender.go:538-540, app_state.go:356-364).                      *)
FailedTurnSendsNothing == \A r \in refused : r \notin received /\ r \notin saved

(* What is on disk reaches the backend in the end, through failures, waits, *)
(* lost connections and crashes (message_sender.go:28, 324-326).           *)
SavedIsReceived == \A r \in Replies : r \in saved ~> r \in received

(* A reply of a job reaches the backend only after those of the job that   *)
(* had been stored when its call began: a completion never overtakes the   *)
(* reply before it (message_sender.go:324-326).                            *)
Order == INSTANCE ReplyOrder
           WITH begun <- Replies \ unsent, delivered <- received
ImplementsOrder == Order!OrderSpec

(* The same as a predicate of states, for replies that are never stored too. *)
NoOvertaking == \A r \in received : before[r] \subseteq received

(* Entries of one job never arrive against the order of their times.  The  *)
(* time is taken before the entry is stored (message_sender.go:291, 267),  *)
(* so of two calls that overlap the later entry may be gone when the       *)
(* earlier one is stored.                                                  *)
TimesAreOrder ==
  \A r, e \in Replies :
    e \in outbox /\ JobOf[e] = JobOf[r] /\ queuedAt[e] < queuedAt[r] /\ r \in received
      => e \in received

(* What the retrier sends is an undelivered reply, one still in the outbox *)
(* (message_sender.go:324, 369): its pass walks over a copy, and the sender *)
(* may have settled an entry since the copy was made.                      *)
ResendsUndelivered == AtWork("retrier", "submit") => worker["retrier"].reply \in outbox

=============================================================================
