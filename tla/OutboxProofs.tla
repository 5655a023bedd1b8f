---------------------------- MODULE OutboxProofs ----------------------------
(***************************************************************************)
(* Type correctness, FailedTurnSendsNothing and KeptUntilReceived of the   *)
(* outbox hold for every value of the constants, OneSenderPerReply for     *)
(* those in which the write that stores a notice of recovery does not      *)
(* fail: any jobs, replies, kinds, failures and crashes.  And it implements *)
(* ReplyOrder as long as adding a reply does not fail.                     *)
(*                                                                         *)
(* None is inductive by itself.  That sender and retrier never hold the    *)
(* same reply rests on where a reply can be (in its call, in the channel,  *)
(* with the sender: one of them at a time) and on the mark it carries from *)
(* the moment it is stored until it is settled.  That a failed turn sends  *)
(* nothing rests on a reply being nowhere in the outbox, nor in the        *)
(* retrier's copy of it, before it is stored.                              *)
(***************************************************************************)
EXTENDS Outbox, SequenceTheorems, TLAPS

(* The write that stores a notice never fails: the second attempt of        *)
(* QueueMessageLater (message_sender.go:571) marks a reply that the retrier *)
(* may already be sending.                                                 *)
NoticesAreStored == "add" \in FailingWrites => \A r \in Replies : KindOf[r] # "notice"

Handed == Replies \ unsent

Sending == {"submit", "reject", "backoff", "unmark", "remove", "settle"}
Holds(w, r) == worker[w].pc # "none" /\ worker[w].reply = r
RetrierSends(r) == worker["retrier"].pc \in Sending /\ worker["retrier"].reply = r

(* Neither in the outbox nor on the retrier's way, and never sent. *)
Fresh(r) ==
  /\ r \notin outbox /\ r \notin saved /\ r \notin pass
  /\ ~Holds("retrier", r)
  /\ r \notin received

(* Whatever holds or lists a reply, the reply was handed over before. *)
HandedInv ==
  /\ outbox \subseteq Handed /\ saved \subseteq Handed /\ pass \subseteq Handed
  /\ refused \subseteq Handed
  /\ \A r \in unsent : r \notin received
  /\ \A r \in Replies : call[r].pc # "none" => r \in Handed
  /\ \A i \in 1..Len(messageQueue) : messageQueue[i].reply \in Handed
  /\ \A w \in Workers : worker[w].pc # "none" => worker[w].reply \in Handed

(* A reply is in its call, in the channel, or with the sender. *)
PlaceInv ==
  /\ \A r \in Replies : call[r].pc # "none" =>
       /\ \A i \in 1..Len(messageQueue) : messageQueue[i].reply # r
       /\ ~Holds("sender", r)
  /\ \A i \in 1..Len(messageQueue) : ~Holds("sender", messageQueue[i].reply)

(* What a call that has come so far has done. *)
CallInv ==
  \A r \in Replies : call[r].pc # "none" =>
    /\ call[r].later => KindOf[r] = "notice"
    /\ call[r].stored => call[r].pc \in {"later", "send"} /\ KindOf[r] # "processing"
    /\ call[r].pc = "later" => call[r].stored
    /\ KindOf[r] = "processing" => call[r].pc = "send"
    /\ call[r].pc = "unmark" /\ KindOf[r] # "final" => "add" \in FailingWrites
    /\ call[r].pc \in {"mark", "store"} /\ (KindOf[r] = "notice" => NoticesAreStored) => Fresh(r)

(* A refused reply is nowhere any more, once its call has ended. *)
RefusedInv ==
  \A r \in refused :
    /\ KindOf[r] = "final"
    /\ Fresh(r)
    /\ call[r].pc # "none" => call[r].pc = "unmark"
    /\ \A i \in 1..Len(messageQueue) : messageQueue[i].reply # r
    /\ ~Holds("sender", r)

(* What has left the outbox in memory, or is about to, has arrived. *)
KeptInv ==
  /\ \A r \in saved : r \notin outbox => r \in received
  /\ \A w \in Workers : worker[w].pc \in {"remove", "settle"} => worker[w].reply \in received

(* A stored reply is pending until it is settled, and not with the retrier. *)
MarkInv ==
  /\ \A r \in Replies :
       (call[r].pc \in {"store", "unmark", "later"} \/ (call[r].pc = "send" /\ call[r].stored)) =>
       r \in pending /\ ~RetrierSends(r)
  /\ \A i \in 1..Len(messageQueue) : messageQueue[i].stored =>
       messageQueue[i].reply \in pending /\ ~RetrierSends(messageQueue[i].reply)
  /\ worker["sender"].pc \in {"look", "aside"} \cup Sending =>
       worker["sender"].reply \in pending /\ ~RetrierSends(worker["sender"].reply)
  /\ worker["retrier"].pc \in Sending => worker["retrier"].reply \in pending

IInv ==
  /\ TypeOK
  /\ HandedInv
  /\ PlaceInv
  /\ CallInv
  /\ RefusedInv
  /\ KeptInv
  /\ NoticesAreStored => MarkInv

-----------------------------------------------------------------------------
USE DEF timeVars, storeVars, markVars, senderVars, budgetVars, historyVars, linkVars,
        At, AtWork, Unmark, LeaveJob

(* Records of calls and of workers, and the steps they take. *)

LEMMA NoCallType == NoCall \in Calls
  BY DEF NoCall, Calls, CallStates

LEMMA NoWorkType == NoWork \in Works
  BY DEF NoWork, Works, WorkerStates

(* What moving a call along, or ending it, leaves as it was. *)
LEMMA CallMoves ==
  ASSUME TypeOK
  PROVE  /\ \A r \in Replies :
              /\ call[r].pc \in CallStates
              /\ call[r].stored \in BOOLEAN /\ call[r].later \in BOOLEAN
         /\ \A r \in Replies : EndCall(r) =>
              /\ call' \in [Replies -> Calls] /\ call'[r] = NoCall
              /\ \A i \in Replies : i # r => call'[i] = call[i]
         /\ \A r \in Replies, pc \in CallStates : Go(r, pc) =>
              /\ call' \in [Replies -> Calls]
              /\ call'[r].pc = pc
              /\ call'[r].stored = call[r].stored /\ call'[r].later = call[r].later
              /\ \A i \in Replies : i # r => call'[i] = call[i]
  BY NoCallType, ZenonT(60) DEF TypeOK, Calls, Go, EndCall

LEMMA WorkMoves ==
  ASSUME TypeOK
  PROVE  /\ "sender" \in Workers /\ "retrier" \in Workers
         /\ \A w \in Workers : w = "sender" \/ w = "retrier"
         /\ \A w \in Workers : worker[w].pc \in WorkerStates
         /\ \A w \in Workers : EndWork(w) =>
              /\ worker' \in [Workers -> Works] /\ worker'[w] = NoWork
              /\ \A v \in Workers : v # w => worker'[v] = worker[v]
         /\ \A w \in Workers, pc \in WorkerStates : GoWork(w, pc) =>
              /\ worker' \in [Workers -> Works]
              /\ worker'[w].pc = pc /\ worker'[w].reply = worker[w].reply
              /\ \A v \in Workers : v # w => worker'[v] = worker[v]
<1>1. /\ "sender" \in Workers /\ "retrier" \in Workers
      /\ \A w \in Workers : w = "sender" \/ w = "retrier"
  BY DEF Workers
<1>2. \A w \in Workers : EndWork(w) =>
        /\ worker' \in [Workers -> Works] /\ worker'[w] = NoWork
        /\ \A v \in Workers : v # w => worker'[v] = worker[v]
  BY NoWorkType DEF TypeOK, EndWork
<1>3. \A w \in Workers, pc \in WorkerStates : GoWork(w, pc) =>
        /\ worker' \in [Workers -> Works]
        /\ worker'[w].pc = pc /\ worker'[w].reply = worker[w].reply
        /\ \A v \in Workers : v # w => worker'[v] = worker[v]
  BY DEF TypeOK, Works, GoWork
<1>4. \A w \in Workers : worker[w].pc \in WorkerStates
  BY DEF TypeOK, Works
<1>5. QED
  BY <1>1, <1>2, <1>3, <1>4

LEMMA AppendType ==
  ASSUME NEW S, NEW s \in Seq(S), NEW e \in S
  PROVE  /\ Append(s, e) \in Seq(S)
         /\ Len(Append(s, e)) = Len(s) + 1
         /\ \A k \in 1..Len(s) : Append(s, e)[k] = s[k]
         /\ Append(s, e)[Len(s) + 1] = e
  OBVIOUS

LEMMA TailType ==
  ASSUME NEW S, NEW s \in Seq(S), s # <<>>
  PROVE  /\ Head(s) \in S
         /\ Tail(s) \in Seq(S)
         /\ Len(s) > 0
         /\ Head(s) = s[1]
         /\ Len(Tail(s)) = Len(s) - 1
         /\ \A k \in 1..Len(Tail(s)) : Tail(s)[k] = s[k + 1]
  OBVIOUS

(* What the steps that make or change several fields of a record come to. *)
Queues(r) ==
  /\ r \in unsent /\ unsent' = unsent \ {r}
  /\ call'[r].pc = IF KindOf[r] = "processing" THEN "send" ELSE "mark"
  /\ call'[r].stored = FALSE
  /\ call'[r].later => KindOf[r] = "notice"
  /\ \A i \in Replies : i # r => call'[i] = call[i]
  /\ clock' = clock + 1 /\ queuedAt'[r] = clock + 1
  /\ \A e \in Replies : e # r => queuedAt'[e] = queuedAt[e]
  /\ before'[r] = {e \in accepted : JobOf[e] = JobOf[r]}
  /\ \A e \in Replies : e # r => before'[e] = before[e]
  /\ UNCHANGED <<outbox, saved, pending, messageQueue, worker, pass, blocked, accepted, received,
                 refused>>

Stores(r) ==
  /\ call[r].pc = "store"
  /\ call'[r].pc \in {"later", "send"}
  /\ call'[r].stored = TRUE
  /\ call'[r].later = call[r].later
  /\ \A i \in Replies : i # r => call'[i] = call[i]
  /\ outbox' = outbox \cup {r} /\ saved' = outbox'
  /\ accepted' = accepted \cup {r}
  /\ UNCHANGED <<timeVars, pending, messageQueue, worker, pass, blocked, unsent, before, received,
                 refused>>

SettlesUnstored(r) ==
  /\ call[r].pc = "unmark"
  /\ pending' = pending \ {r}
  /\ \A i \in Replies : i # r => call'[i] = call[i]
  /\ \/ KindOf[r] = "final" /\ call'[r] = NoCall /\ UNCHANGED timeVars
     \/ /\ KindOf[r] # "final" /\ call[r].later
        /\ call'[r].pc = "mark" /\ call'[r].later = FALSE
        /\ call'[r].stored = call[r].stored
     \/ /\ KindOf[r] # "final" /\ UNCHANGED timeVars
        /\ call'[r].pc = "send" /\ call'[r].later = call[r].later
        /\ call'[r].stored = call[r].stored
  /\ UNCHANGED <<outbox, saved, messageQueue, worker, pass, blocked, unsent, accepted, before,
                 received, refused>>

Takes ==
  /\ Len(messageQueue) = 1 /\ messageQueue' = <<>>
  /\ messageQueue[1] \in Queued
  /\ worker'["sender"].reply = messageQueue[1].reply
  /\ worker'["sender"].pc = IF KindOf[messageQueue[1].reply] = "processing" THEN "emit"
                            ELSE IF messageQueue[1].stored THEN "look" ELSE "best"
  /\ worker'["retrier"] = worker["retrier"]
  /\ worker["sender"].pc = "none"
  /\ UNCHANGED <<outbox, saved, timeVars, pending, backedOff, wsTried, call, pass, blocked,
                 unsent, accepted, before, received,
                 refused>>

Sends(r) ==
  /\ call[r].pc = "send" /\ Len(messageQueue) = 0 /\ Len(messageQueue') = 1
  /\ messageQueue'[1].reply = r
  /\ messageQueue'[1].stored = call[r].stored
  /\ call'[r] = NoCall
  /\ \A i \in Replies : i # r => call'[i] = call[i]
  /\ UNCHANGED <<outbox, saved, timeVars, pending, backedOff, wsTried, worker, pass, blocked,
                 kick, unsent, accepted, before, received,
                 refused>>

Visits(r) ==
  /\ worker["retrier"].pc = "none" /\ worker'["sender"] = worker["sender"]
  /\ r \in pass /\ pass' = pass \ {r}
  /\ \A e \in pass : queuedAt[r] <= queuedAt[e]
  /\ JobOf[r] \in blocked => worker' = worker
  /\ JobOf[r] \notin blocked =>
       worker'["retrier"].pc = "due" /\ worker'["retrier"].reply = r
  /\ UNCHANGED <<outbox, saved, timeVars, pending, backedOff, wsTried, messageQueue, call,
                 blocked, unsent, accepted, before, received,
                 refused>>

Crashes ==
  /\ \A r \in Replies : call'[r].pc = "none"
  /\ \A w \in Workers : worker'[w].pc = "none"
  /\ Len(messageQueue') = 0
  /\ outbox' = saved /\ pass' = {}
  /\ UNCHANGED <<saved, timeVars, unsent, accepted, before, received,
                 refused>>

LEMMA QueueMoves ==
  ASSUME TypeOK, NEW r \in Replies, Queue(r)
  PROVE  Queues(r)
  BY DEF Queues, Queue, MakeEntry, TypeOK

LEMMA StoreMoves ==
  ASSUME TypeOK, NEW r \in Replies, Store(r)
  PROVE  Stores(r)
  BY DEF Stores, Store, TypeOK, Calls

(* Given up, tried again as a new entry, or sent unstored. *)
LEMMA SettleUnstoredMoves ==
  ASSUME TypeOK, NEW r \in Replies, SettleUnstored(r)
  PROVE  SettlesUnstored(r)
<1>1. CASE KindOf[r] = "final"
  BY <1>1, CallMoves DEF SettlesUnstored, SettleUnstored
<1>2. CASE KindOf[r] # "final" /\ call[r].later
  <2>1. call' = [call EXCEPT ![r].pc = "mark", ![r].later = FALSE]
    BY <1>2 DEF SettleUnstored
  <2>2. /\ call'[r].pc = "mark" /\ call'[r].later = FALSE
        /\ call'[r].stored = call[r].stored
        /\ \A i \in Replies : i # r => call'[i] = call[i]
    BY <2>1 DEF TypeOK, Calls
  <2>3. QED
    BY <1>2, <2>2 DEF SettlesUnstored, SettleUnstored
<1>3. CASE KindOf[r] # "final" /\ ~call[r].later
  BY <1>3, CallMoves DEF SettlesUnstored, SettleUnstored, CallStates
<1>4. QED
  BY <1>1, <1>2, <1>3

LEMMA TakeMoves ==
  ASSUME TypeOK, TakeMessage
  PROVE  Takes
<1>1. messageQueue # <<>> /\ messageQueue \in Seq(Queued) /\ Len(messageQueue) <= 1
  BY DEF TakeMessage, TypeOK, QueueCap
<1>2. Len(messageQueue) = 1 /\ Head(messageQueue) = messageQueue[1] /\ messageQueue[1] \in Queued
  <2>1. Head(messageQueue) \in Queued /\ Head(messageQueue) = messageQueue[1]
        /\ Len(messageQueue) > 0
    BY <1>1, TailType, Zenon
  <2>2. Len(messageQueue) \in Nat
    BY <1>1, LenProperties
  <2>3. Len(messageQueue) = 1
    <3> DEFINE n == Len(messageQueue)
    <3>1. n \in Nat /\ n > 0 /\ n <= 1
      BY <1>1, <2>1, <2>2
    <3> HIDE DEF n
    <3>2. n = 1
      BY <3>1
    <3>3. QED
      BY <3>2 DEF n
  <2>4. QED
    BY <2>1, <2>3
<1>3. Tail(messageQueue) \in Seq(Queued) /\ Len(Tail(messageQueue)) = 0
  BY <1>1, <1>2, TailType
<1>4. messageQueue' = <<>>
  BY <1>3 DEF TakeMessage
<1>5. \A pc, m : worker' = [worker EXCEPT !["sender"] = [pc |-> pc, reply |-> m.reply]] =>
        /\ worker'["sender"].pc = pc /\ worker'["sender"].reply = m.reply
        /\ worker'["retrier"] = worker["retrier"]
  BY WorkMoves DEF TypeOK
<1>6. CASE KindOf[messageQueue[1].reply] = "processing"
  BY <1>2, <1>4, <1>5, <1>6 DEF Takes, TakeMessage
<1>7. CASE KindOf[messageQueue[1].reply] # "processing" /\ messageQueue[1].stored
  BY <1>2, <1>4, <1>5, <1>7 DEF Takes, TakeMessage
<1>8. CASE KindOf[messageQueue[1].reply] # "processing" /\ ~messageQueue[1].stored
  BY <1>2, <1>4, <1>5, <1>8 DEF Takes, TakeMessage
<1>9. QED
  BY <1>6, <1>7, <1>8

LEMMA SendMoves ==
  ASSUME TypeOK, NEW r \in Replies, Send(r)
  PROVE  Sends(r)
  BY CallMoves DEF Sends, Send, TypeOK, QueueCap

LEMMA VisitMoves ==
  ASSUME TypeOK, NEW r \in Replies, Visit(r)
  PROVE  Visits(r)
  BY WorkMoves DEF Visits, Visit, TypeOK

LEMMA CrashMoves ==
  ASSUME Crash
  PROVE  Crashes
  BY DEF Crashes, Crash, NoCall, NoWork

(* What the backend has it keeps. *)
LEMMA ReceiveMoves ==
  ASSUME TypeOK
  PROVE  \A r \in Replies : Receive(r) =>
           /\ received' \subseteq Replies /\ received \subseteq received'
           /\ r \in received'
           /\ \A e \in Replies : e # r => (e \in received' <=> e \in received)
  BY DEF TypeOK, Receive

LEMMA TypeStep ==
  ASSUME TypeOK, HandedInv, [Next]_vars
  PROVE  TypeOK'
<1>a. /\ \A r \in Replies, pc \in CallStates : Go(r, pc) => call' \in [Replies -> Calls]
      /\ \A r \in Replies : EndCall(r) => call' \in [Replies -> Calls]
  BY CallMoves
<1>b. /\ \A w \in Workers, pc \in WorkerStates : GoWork(w, pc) => worker' \in [Workers -> Works]
      /\ \A w \in Workers : EndWork(w) => worker' \in [Workers -> Works]
  BY WorkMoves
<1>c. /\ "sender" \in Workers /\ "retrier" \in Workers
      /\ \A r \in Replies : call[r].pc # "none" => r \in Replies
      /\ \A w \in Workers : worker[w].pc # "none" => worker[w].reply \in Replies
      /\ JobOf \in [Replies -> Jobs]
  BY ReplyAssumption DEF Workers, HandedInv, Handed
<1>d. \A r \in Replies : Receive(r) => received' \subseteq Replies
  BY ReceiveMoves
<1>1. ASSUME NEW r \in Replies, Queue(r) PROVE TypeOK'
  <2>1. queuedAt' \in [Replies -> Nat] /\ clock' \in Nat /\ unsent' \subseteq Replies
    BY <1>1 DEF Queue, MakeEntry, TypeOK
  <2>2. call' \in [Replies -> Calls]
    <3>1. \A pc \in CallStates, later \in BOOLEAN :
            [pc |-> pc, stored |-> FALSE, later |-> later] \in Calls
      BY DEF Calls
    <3>2. (IF KindOf[r] = "processing" THEN "send" ELSE "mark") \in CallStates
          /\ (KindOf[r] = "notice") \in BOOLEAN
      BY DEF CallStates
    <3>3. QED
      BY <1>1, <3>1, <3>2 DEF Queue, TypeOK
  <2>3. before' \in [Replies -> SUBSET Replies]
    BY <1>1 DEF Queue, TypeOK
  <2>4. QED
    BY <1>1, <2>1, <2>2, <2>3 DEF Queue, TypeOK
<1>2. ASSUME NEW r \in Replies, MarkPending(r) PROVE TypeOK'
  BY <1>a, <1>b, <1>c, <1>d, <1>2 DEF MarkPending, TypeOK, CallStates, WorkerStates
<1>3. ASSUME NEW r \in Replies, Store(r) PROVE TypeOK'
  <2> DEFINE rec == [call[r] EXCEPT !.pc = IF call[r].later THEN "later" ELSE "send",
                                    !.stored = TRUE]
  <2>1. rec \in Calls /\ call' = [call EXCEPT ![r] = rec]
    BY <1>3 DEF Store, TypeOK, Calls, CallStates
  <2>2. call' \in [Replies -> Calls]
    BY <2>1 DEF TypeOK
  <2>3. QED
    BY <1>c, <1>3, <2>2 DEF Store, TypeOK
<1>4. ASSUME NEW r \in Replies, CompleteTurnFails(r) PROVE TypeOK'
  BY <1>a, <1>b, <1>c, <1>d, <1>4 DEF CompleteTurnFails, TypeOK, CallStates, WorkerStates
<1>5. ASSUME NEW r \in Replies, AddFails(r) PROVE TypeOK'
  BY <1>a, <1>b, <1>c, <1>d, <1>5 DEF AddFails, TypeOK, CallStates, WorkerStates
<1>6. ASSUME NEW r \in Replies, SettleUnstored(r) PROVE TypeOK'
  <2>1. call' \in [Replies -> Calls]
    <3>1. CASE KindOf[r] = "final" \/ ~call[r].later
      BY <1>a, <1>6, <3>1 DEF SettleUnstored, CallStates
    <3>2. CASE KindOf[r] # "final" /\ call[r].later
      <4> DEFINE rec == [call[r] EXCEPT !.pc = "mark", !.later = FALSE]
      <4>1. rec \in Calls /\ call' = [call EXCEPT ![r] = rec]
        <5>1. call' = [call EXCEPT ![r].pc = "mark", ![r].later = FALSE]
          BY <1>6, <3>2 DEF SettleUnstored
        <5>2. QED
          BY <5>1 DEF TypeOK, Calls, CallStates
      <4>2. QED
        BY <4>1 DEF TypeOK
    <3>3. QED
      BY <3>1, <3>2
  <2>2. queuedAt' \in [Replies -> Nat] /\ clock' \in Nat
    <3>1. MakeEntry(r) \/ UNCHANGED timeVars
      BY <1>6 DEF SettleUnstored
    <3>2. CASE MakeEntry(r)
      <4>1. clock + 1 \in Nat
        BY DEF TypeOK
      <4>2. QED
        BY <3>2, <4>1 DEF MakeEntry, TypeOK
    <3>3. CASE UNCHANGED timeVars
      BY <3>3 DEF TypeOK
    <3>4. QED
      BY <3>1, <3>2, <3>3
  <2>3. /\ pending' \subseteq Replies
        /\ UNCHANGED <<outbox, saved, backedOff, wsTried, messageQueue, linkVars, senderVars,
                       budgetVars, historyVars>>
    BY <1>6 DEF SettleUnstored, TypeOK
  <2>4. QED
    BY <2>1, <2>2, <2>3 DEF TypeOK
<1>7. ASSUME NEW r \in Replies, LeaveForRetrier(r) PROVE TypeOK'
  BY <1>a, <1>b, <1>c, <1>d, <1>7 DEF LeaveForRetrier, TypeOK, CallStates, WorkerStates
<1>8. ASSUME NEW r \in Replies, Send(r) PROVE TypeOK'
  <2> DEFINE m == [reply |-> r, stored |-> call[r].stored]
  <2>1. m \in Queued
    BY <1>c, <1>8, CallMoves DEF Send, TypeOK, Queued
  <2>2. messageQueue' \in Seq(Queued) /\ Len(messageQueue') <= QueueCap
    BY <1>8, <2>1, AppendType DEF Send, TypeOK, QueueCap
  <2>3. QED
    BY <1>a, <1>8, <2>2 DEF Send, TypeOK
<1>9. ASSUME TakeMessage PROVE TypeOK'
  <2> DEFINE m == Head(messageQueue)
             pc == CASE KindOf[m.reply] = "processing" -> "emit"
                     [] KindOf[m.reply] # "processing" /\ m.stored -> "look"
                     [] OTHER -> "best"
  <2>1. m \in Queued
    BY <1>9, TailType DEF TakeMessage, TypeOK
  <2>2. messageQueue' \in Seq(Queued) /\ Len(messageQueue') <= QueueCap
    BY <1>9, TailType DEF TakeMessage, TypeOK, QueueCap
  <2>3. worker' \in [Workers -> Works]
    <3>1. pc \in WorkerStates /\ m.reply \in Replies
      BY <2>1 DEF Queued, WorkerStates
    <3>2. [pc |-> pc, reply |-> m.reply] \in Works
      BY <3>1 DEF Works
    <3>3. QED
      BY <1>9, <3>2 DEF TakeMessage, TypeOK
  <2>4. QED
    BY <1>9, <2>2, <2>3 DEF TakeMessage, TypeOK
<1>10. ASSUME EmitProcessing PROVE TypeOK'
  BY <1>a, <1>b, <1>c, <1>d, <1>10 DEF EmitProcessing, TypeOK, CallStates, WorkerStates
<1>11. ASSUME SendUnstored PROVE TypeOK'
  <2>1. failuresLeft' \in Nat
    BY <1>11 DEF SendUnstored, TypeOK
  <2>2. QED
    BY <1>a, <1>b, <1>c, <1>d, <1>11, <2>1 DEF SendUnstored, TypeOK, WorkerStates
<1>12. ASSUME SendFallback PROVE TypeOK'
  BY <1>a, <1>b, <1>c, <1>d, <1>12 DEF SendFallback, TypeOK, CallStates, WorkerStates
<1>13. ASSUME LookForOlder PROVE TypeOK'
  BY <1>a, <1>b, <1>c, <1>d, <1>13 DEF LookForOlder, TypeOK, CallStates, WorkerStates
<1>14. ASSUME StepAside PROVE TypeOK'
  BY <1>a, <1>b, <1>c, <1>d, <1>14 DEF StepAside, TypeOK, CallStates, WorkerStates
<1>15. ASSUME KickRetrier PROVE TypeOK'
  BY <1>a, <1>b, <1>c, <1>d, <1>15 DEF KickRetrier, TypeOK, CallStates, WorkerStates
<1>16. ASSUME StartPass PROVE TypeOK'
  BY <1>a, <1>b, <1>c, <1>d, <1>16 DEF StartPass, TypeOK, CallStates, WorkerStates
<1>17. ASSUME NEW r \in Replies, Visit(r) PROVE TypeOK'
  <2>1. [pc |-> "due", reply |-> r] \in Works
    BY DEF Works, WorkerStates
  <2>2. worker' \in [Workers -> Works]
    BY <1>17, <2>1 DEF Visit, TypeOK
  <2>3. QED
    BY <1>17, <2>2 DEF Visit, TypeOK
<1>18. ASSUME RetryDue PROVE TypeOK'
  BY <1>a, <1>b, <1>c, <1>d, <1>18 DEF RetryDue, TypeOK, CallStates, WorkerStates
<1>19. ASSUME MarkRetry PROVE TypeOK'
  BY <1>a, <1>b, <1>c, <1>d, <1>19 DEF MarkRetry, TypeOK, CallStates, WorkerStates
<1>20. ASSUME NEW w \in Workers, Submit(w) PROVE TypeOK'
  <2>1. failuresLeft' \in Nat
    BY <1>20 DEF Submit, TypeOK
  <2>2. QED
    BY <1>a, <1>b, <1>c, <1>d, <1>20, <2>1 DEF Submit, TypeOK, WorkerStates
<1>21. ASSUME NEW w \in Workers, EmitRejectedOnce(w) PROVE TypeOK'
  BY <1>a, <1>b, <1>c, <1>d, <1>21 DEF EmitRejectedOnce, TypeOK, CallStates, WorkerStates
<1>22. ASSUME NEW w \in Workers, BackOff(w) PROVE TypeOK'
  BY <1>a, <1>b, <1>c, <1>d, <1>22 DEF BackOff, TypeOK, CallStates, WorkerStates
<1>23. ASSUME NEW w \in Workers, SettleFailed(w) PROVE TypeOK'
  <2>1. worker' \in [Workers -> Works] /\ blocked' \subseteq Jobs
    <3>1. CASE w = "retrier"
      <4>1. EndWork("retrier") /\ blocked' = blocked \cup {JobOf[worker["retrier"].reply]}
        BY <1>23, <3>1 DEF SettleFailed
      <4>2. JobOf[worker["retrier"].reply] \in Jobs
        BY <1>c, <1>23, <3>1 DEF SettleFailed
      <4>3. QED
        BY <1>b, <1>c, <4>1, <4>2 DEF TypeOK
    <3>2. CASE w # "retrier"
      BY <1>b, <1>c, <1>23, <3>2 DEF SettleFailed, TypeOK
    <3>3. QED
      BY <3>1, <3>2
  <2>2. QED
    BY <1>23, <2>1 DEF SettleFailed, TypeOK
<1>24. ASSUME NEW w \in Workers, RemoveDelivered(w) PROVE TypeOK'
  BY <1>a, <1>b, <1>c, <1>d, <1>24 DEF RemoveDelivered, TypeOK, CallStates, WorkerStates
<1>25. ASSUME NEW w \in Workers, SettleDelivered(w) PROVE TypeOK'
  BY <1>a, <1>b, <1>c, <1>d, <1>25 DEF SettleDelivered, TypeOK, CallStates, WorkerStates
<1>26. ASSUME NEW r \in Replies, WaitEnds(r) PROVE TypeOK'
  BY <1>a, <1>b, <1>c, <1>d, <1>26 DEF WaitEnds, TypeOK, CallStates, WorkerStates
<1>27. ASSUME NEW up \in BOOLEAN, SetConnected(up) PROVE TypeOK'
  BY <1>a, <1>b, <1>c, <1>d, <1>27 DEF SetConnected, TypeOK, CallStates, WorkerStates
<1>28. ASSUME Run PROVE TypeOK'
  BY <1>a, <1>b, <1>c, <1>d, <1>28 DEF Run, TypeOK, CallStates, WorkerStates
<1>29. ASSUME Crash PROVE TypeOK'
  <2>1. call' \in [Replies -> Calls] /\ worker' \in [Workers -> Works]
    BY <1>29, NoCallType, NoWorkType DEF Crash
  <2>2. crashesLeft' \in Nat /\ messageQueue' \in Seq(Queued) /\ Len(messageQueue') <= QueueCap
    BY <1>29 DEF Crash, TypeOK, QueueCap
  <2>3. QED
    BY <1>29, <2>1, <2>2 DEF Crash, TypeOK
<1>30. CASE UNCHANGED vars
  BY <1>30 DEF vars, TypeOK
<1> QED
  BY <1>1, <1>2, <1>3, <1>4, <1>5, <1>6, <1>7, <1>8, <1>9, <1>10, <1>11, <1>12, <1>13,
     <1>14, <1>15, <1>16, <1>17, <1>18, <1>19, <1>20, <1>21, <1>22, <1>23, <1>24, <1>25,
     <1>26, <1>27, <1>28, <1>29, <1>30
  DEF Next, Call, Sender, Retrier, Deliver, Workers

LEMMA PlaceInvStep ==
  ASSUME IInv, [Next]_vars
  PROVE  PlaceInv'
<1>t. TypeOK /\ HandedInv /\ PlaceInv
  BY DEF IInv
<1>w. /\ "sender" \in Workers /\ "retrier" \in Workers
      /\ \A w \in Workers : w = "sender" \/ w = "retrier"
  BY DEF Workers
<1>1. ASSUME NEW r \in Replies, Queue(r) PROVE PlaceInv'
  <2>1. Queues(r)
    BY <1>t, <1>1, QueueMoves
  <2>2. r \notin Handed
    BY <2>1 DEF Queues, Handed
  <2>3. (\A i \in 1..Len(messageQueue) : messageQueue[i].reply # r) /\ ~Holds("sender", r)
    BY <1>t, <1>w, <2>2 DEF HandedInv, Holds
  <2>4. QED
    BY <1>t, <1>1, <2>1, <2>3 DEF Queues, PlaceInv, Holds
<1>2. ASSUME NEW r \in Replies, MarkPending(r) PROVE PlaceInv'
  BY <1>t, CallMoves, <1>2 DEF MarkPending, HandedInv, Handed, PlaceInv, Holds, CallStates
<1>3. ASSUME NEW r \in Replies, Store(r) PROVE PlaceInv'
  <2>1. Stores(r)
    BY <1>t, <1>3, StoreMoves
  <2>2. QED
    BY <1>t, <1>3, <2>1 DEF Stores, HandedInv, Handed, PlaceInv, Holds
<1>4. ASSUME NEW r \in Replies, CompleteTurnFails(r) PROVE PlaceInv'
  BY <1>t, CallMoves, <1>4 DEF CompleteTurnFails, HandedInv, Handed, PlaceInv, Holds, CallStates
<1>5. ASSUME NEW r \in Replies, AddFails(r) PROVE PlaceInv'
  BY <1>t, CallMoves, <1>5 DEF AddFails, HandedInv, Handed, PlaceInv, Holds, CallStates
<1>6. ASSUME NEW r \in Replies, SettleUnstored(r) PROVE PlaceInv'
  <2>1. SettlesUnstored(r)
    BY <1>t, <1>6, SettleUnstoredMoves
  <2>2. QED
    BY <1>t, <1>6, <2>1 DEF SettlesUnstored, HandedInv, Handed, PlaceInv, Holds, NoCall
<1>7. ASSUME NEW r \in Replies, LeaveForRetrier(r) PROVE PlaceInv'
  BY <1>t, CallMoves, <1>7 DEF LeaveForRetrier, HandedInv, Handed, PlaceInv, Holds, NoCall
<1>8. ASSUME NEW r \in Replies, Send(r) PROVE PlaceInv'
  <2>1. Sends(r)
    BY <1>t, <1>8, SendMoves
  <2>2. QED
    BY <1>t, <1>8, <2>1 DEF Sends, HandedInv, Handed, PlaceInv, Holds, NoCall
<1>9. ASSUME TakeMessage PROVE PlaceInv'
  <2>1. Takes
    BY <1>t, <1>9, TakeMoves
  <2>2. QED
    BY <1>t, <1>9, <2>1 DEF Takes, HandedInv, Handed, PlaceInv, Holds
<1>10. ASSUME EmitProcessing PROVE PlaceInv'
  BY <1>t, WorkMoves, <1>10
  DEF EmitProcessing, HandedInv, Handed, PlaceInv, Holds, WorkerStates, NoWork
<1>11. ASSUME SendUnstored PROVE PlaceInv'
  BY <1>t, ReceiveMoves, WorkMoves, <1>11
  DEF SendUnstored, HandedInv, Handed, PlaceInv, Holds, WorkerStates, NoWork
<1>12. ASSUME SendFallback PROVE PlaceInv'
  BY <1>t, ReceiveMoves, WorkMoves, <1>12
  DEF SendFallback, HandedInv, Handed, PlaceInv, Holds, WorkerStates, NoWork
<1>13. ASSUME LookForOlder PROVE PlaceInv'
  BY <1>t, WorkMoves, <1>13
  DEF LookForOlder, HandedInv, Handed, PlaceInv, Holds, WorkerStates, NoWork
<1>14. ASSUME StepAside PROVE PlaceInv'
  BY <1>t, WorkMoves, <1>14 DEF StepAside, HandedInv, Handed, PlaceInv, Holds, WorkerStates, NoWork
<1>15. ASSUME KickRetrier PROVE PlaceInv'
  BY <1>t, WorkMoves, <1>15 DEF KickRetrier, HandedInv, Handed, PlaceInv, Holds, WorkerStates, NoWork
<1>16. ASSUME StartPass PROVE PlaceInv'
  BY <1>t, <1>16 DEF StartPass, HandedInv, Handed, PlaceInv, Holds
<1>17. ASSUME NEW r \in Replies, Visit(r) PROVE PlaceInv'
  <2>1. Visits(r)
    BY <1>t, <1>17, VisitMoves
  <2>2. QED
    BY <1>t, <1>17, <2>1 DEF Visits, HandedInv, Handed, PlaceInv, Holds
<1>18. ASSUME RetryDue PROVE PlaceInv'
  BY <1>t, WorkMoves, <1>18 DEF RetryDue, HandedInv, Handed, PlaceInv, Holds, WorkerStates, NoWork
<1>19. ASSUME MarkRetry PROVE PlaceInv'
  BY <1>t, WorkMoves, <1>19 DEF MarkRetry, HandedInv, Handed, PlaceInv, Holds, WorkerStates, NoWork
<1>20. ASSUME NEW w \in Workers, Submit(w) PROVE PlaceInv'
  BY <1>t, ReceiveMoves, WorkMoves, <1>20
  DEF Submit, HandedInv, Handed, PlaceInv, Holds, WorkerStates, NoWork
<1>21. ASSUME NEW w \in Workers, EmitRejectedOnce(w) PROVE PlaceInv'
  BY <1>t, ReceiveMoves, WorkMoves, <1>21
  DEF EmitRejectedOnce, HandedInv, Handed, PlaceInv, Holds, WorkerStates, NoWork
<1>22. ASSUME NEW w \in Workers, BackOff(w) PROVE PlaceInv'
  BY <1>t, WorkMoves, <1>22 DEF BackOff, HandedInv, Handed, PlaceInv, Holds, WorkerStates, NoWork
<1>23. ASSUME NEW w \in Workers, SettleFailed(w) PROVE PlaceInv'
  BY <1>t, WorkMoves, <1>23
  DEF SettleFailed, HandedInv, Handed, PlaceInv, Holds, WorkerStates, NoWork
<1>24. ASSUME NEW w \in Workers, RemoveDelivered(w) PROVE PlaceInv'
  BY <1>t, WorkMoves, <1>24
  DEF RemoveDelivered, HandedInv, Handed, PlaceInv, Holds, WorkerStates, NoWork
<1>25. ASSUME NEW w \in Workers, SettleDelivered(w) PROVE PlaceInv'
  BY <1>t, WorkMoves, <1>25
  DEF SettleDelivered, HandedInv, Handed, PlaceInv, Holds, WorkerStates, NoWork
<1>26. ASSUME NEW r \in Replies, WaitEnds(r) PROVE PlaceInv'
  BY <1>t, <1>26 DEF WaitEnds, HandedInv, Handed, PlaceInv, Holds
<1>27. ASSUME NEW up \in BOOLEAN, SetConnected(up) PROVE PlaceInv'
  BY <1>t, <1>27 DEF SetConnected, HandedInv, Handed, PlaceInv, Holds
<1>28. ASSUME Run PROVE PlaceInv'
  BY <1>t, <1>28 DEF Run, HandedInv, Handed, PlaceInv, Holds
<1>29. ASSUME Crash PROVE PlaceInv'
  <2>1. Crashes
    BY <1>t, <1>29, CrashMoves
  <2>2. QED
    BY <1>t, <1>29, <2>1 DEF Crashes, HandedInv, Handed, PlaceInv, Holds
<1>30. CASE UNCHANGED vars
  BY <1>t, <1>30 DEF vars, HandedInv, Handed, PlaceInv, Holds
<1> QED
  BY <1>1, <1>2, <1>3, <1>4, <1>5, <1>6, <1>7, <1>8, <1>9, <1>10, <1>11, <1>12, <1>13,
     <1>14, <1>15, <1>16, <1>17, <1>18, <1>19, <1>20, <1>21, <1>22, <1>23, <1>24, <1>25,
     <1>26, <1>27, <1>28, <1>29, <1>30
  DEF Next, Call, Sender, Retrier, Deliver, Workers

LEMMA HandedInvStep ==
  ASSUME IInv, [Next]_vars
  PROVE  HandedInv'
<1>t. TypeOK /\ HandedInv
  BY DEF IInv
<1>w. /\ "sender" \in Workers /\ "retrier" \in Workers
      /\ \A w \in Workers : w = "sender" \/ w = "retrier"
  BY DEF Workers
<1>u. unsent \subseteq Replies
  BY <1>t DEF TypeOK
<1>1. ASSUME NEW r \in Replies, Queue(r) PROVE HandedInv'
  <2>1. Queues(r)
    BY <1>t, <1>1, QueueMoves
  <2>2. r \notin Handed /\ Handed' = Handed \cup {r}
    BY <1>u, <1>1, <2>1 DEF Queues, Handed
  <2>3. \A e \in unsent' : e \notin received'
    BY <1>t, <2>1 DEF Queues, HandedInv
  <2>5. \A e \in Replies : call'[e].pc # "none" => e \in Handed'
    BY <1>t, <2>1, <2>2 DEF Queues, HandedInv
  <2>6. QED
    BY <1>t, <2>1, <2>2, <2>5 DEF Queues, HandedInv
<1>2. ASSUME NEW r \in Replies, MarkPending(r) PROVE HandedInv'
  BY <1>t, CallMoves, <1>w, <1>u, <1>2 DEF MarkPending, HandedInv, Handed, CallStates
<1>3. ASSUME NEW r \in Replies, Store(r) PROVE HandedInv'
  <2>1. Stores(r)
    BY <1>t, <1>3, StoreMoves
  <2>2. QED
    BY <1>t, <1>3, <2>1, <1>w, <1>u DEF Stores, HandedInv, Handed
<1>4. ASSUME NEW r \in Replies, CompleteTurnFails(r) PROVE HandedInv'
  BY <1>t, CallMoves, <1>w, <1>u, <1>4 DEF CompleteTurnFails, HandedInv, Handed, CallStates
<1>5. ASSUME NEW r \in Replies, AddFails(r) PROVE HandedInv'
  BY <1>t, CallMoves, <1>w, <1>u, <1>5 DEF AddFails, HandedInv, Handed, CallStates
<1>6. ASSUME NEW r \in Replies, SettleUnstored(r) PROVE HandedInv'
  <2>1. SettlesUnstored(r)
    BY <1>t, <1>6, SettleUnstoredMoves
  <2>2. QED
    BY <1>t, <1>6, <2>1, <1>w, <1>u DEF SettlesUnstored, HandedInv, Handed, NoCall
<1>7. ASSUME NEW r \in Replies, LeaveForRetrier(r) PROVE HandedInv'
  BY <1>t, CallMoves, <1>w, <1>u, <1>7 DEF LeaveForRetrier, HandedInv, Handed, NoCall
<1>8. ASSUME NEW r \in Replies, Send(r) PROVE HandedInv'
  <2>1. Sends(r)
    BY <1>t, <1>8, SendMoves
  <2>2. QED
    BY <1>t, <1>8, <2>1, <1>w, <1>u DEF Sends, HandedInv, Handed, NoCall
<1>9. ASSUME TakeMessage PROVE HandedInv'
  <2>1. Takes
    BY <1>t, <1>9, TakeMoves
  <2>2. QED
    BY <1>t, <1>9, <2>1, <1>w, <1>u DEF Takes, HandedInv, Handed
<1>10. ASSUME EmitProcessing PROVE HandedInv'
  BY <1>t, WorkMoves, <1>w, <1>u, <1>10 DEF EmitProcessing, HandedInv, Handed, WorkerStates, NoWork
<1>11. ASSUME SendUnstored PROVE HandedInv'
  <2>1. worker["sender"].reply \in Handed
    BY <1>t, <1>w, <1>11 DEF SendUnstored, HandedInv
  <2>2. \A e \in unsent : e \notin received'
    BY <1>t, <1>u, <1>11, <2>1, ReceiveMoves DEF SendUnstored, HandedInv, Handed
  <2>3. \A v \in Workers : worker'[v].pc # "none" => worker'[v].reply \in Handed
    BY <1>t, <1>w, <1>11, <2>1, WorkMoves DEF SendUnstored, HandedInv, WorkerStates, NoWork
  <2>4. QED
    BY <1>t, <1>11, <2>2, <2>3 DEF SendUnstored, HandedInv, Handed
<1>12. ASSUME SendFallback PROVE HandedInv'
  <2>1. worker["sender"].reply \in Handed
    BY <1>t, <1>w, <1>12 DEF SendFallback, HandedInv
  <2>2. \A e \in unsent : e \notin received'
    BY <1>t, <1>u, <1>12, <2>1, ReceiveMoves DEF SendFallback, HandedInv, Handed
  <2>3. \A v \in Workers : worker'[v].pc # "none" => worker'[v].reply \in Handed
    BY <1>t, <1>w, <1>12, <2>1, WorkMoves DEF SendFallback, HandedInv, WorkerStates, NoWork
  <2>4. QED
    BY <1>t, <1>12, <2>2, <2>3 DEF SendFallback, HandedInv, Handed
<1>13. ASSUME LookForOlder PROVE HandedInv'
  BY <1>t, WorkMoves, <1>w, <1>u, <1>13 DEF LookForOlder, HandedInv, Handed, WorkerStates, NoWork
<1>14. ASSUME StepAside PROVE HandedInv'
  BY <1>t, WorkMoves, <1>w, <1>u, <1>14 DEF StepAside, HandedInv, Handed, WorkerStates, NoWork
<1>15. ASSUME KickRetrier PROVE HandedInv'
  BY <1>t, WorkMoves, <1>w, <1>u, <1>15 DEF KickRetrier, HandedInv, Handed, WorkerStates, NoWork
<1>16. ASSUME StartPass PROVE HandedInv'
  BY <1>t, <1>w, <1>u, <1>16 DEF StartPass, HandedInv, Handed
<1>17. ASSUME NEW r \in Replies, Visit(r) PROVE HandedInv'
  <2>1. Visits(r)
    BY <1>t, <1>17, VisitMoves
  <2>2. QED
    BY <1>t, <1>17, <2>1, <1>w, <1>u DEF Visits, HandedInv, Handed
<1>18. ASSUME RetryDue PROVE HandedInv'
  BY <1>t, WorkMoves, <1>w, <1>u, <1>18 DEF RetryDue, HandedInv, Handed, WorkerStates, NoWork
<1>19. ASSUME MarkRetry PROVE HandedInv'
  BY <1>t, WorkMoves, <1>w, <1>u, <1>19 DEF MarkRetry, HandedInv, Handed, WorkerStates, NoWork
<1>20. ASSUME NEW w \in Workers, Submit(w) PROVE HandedInv'
  <2>1. worker[w].reply \in Handed
    BY <1>t, <1>w, <1>20 DEF Submit, HandedInv
  <2>2. \A e \in unsent : e \notin received'
    BY <1>t, <1>u, <1>20, <2>1, ReceiveMoves DEF Submit, HandedInv, Handed
  <2>3. \A v \in Workers : worker'[v].pc # "none" => worker'[v].reply \in Handed
    BY <1>t, <1>w, <1>20, <2>1, WorkMoves DEF Submit, HandedInv, WorkerStates, NoWork
  <2>4. QED
    BY <1>t, <1>20, <2>2, <2>3 DEF Submit, HandedInv, Handed
<1>21. ASSUME NEW w \in Workers, EmitRejectedOnce(w) PROVE HandedInv'
  <2>1. worker[w].reply \in Handed
    BY <1>t, <1>w, <1>21 DEF EmitRejectedOnce, HandedInv
  <2>2. \A e \in unsent : e \notin received'
    BY <1>t, <1>u, <1>21, <2>1, ReceiveMoves DEF EmitRejectedOnce, HandedInv, Handed
  <2>3. \A v \in Workers : worker'[v].pc # "none" => worker'[v].reply \in Handed
    BY <1>t, <1>w, <1>21, <2>1, WorkMoves DEF EmitRejectedOnce, HandedInv, WorkerStates, NoWork
  <2>4. QED
    BY <1>t, <1>21, <2>2, <2>3 DEF EmitRejectedOnce, HandedInv, Handed
<1>22. ASSUME NEW w \in Workers, BackOff(w) PROVE HandedInv'
  BY <1>t, WorkMoves, <1>w, <1>u, <1>22 DEF BackOff, HandedInv, Handed, WorkerStates, NoWork
<1>23. ASSUME NEW w \in Workers, SettleFailed(w) PROVE HandedInv'
  BY <1>t, WorkMoves, <1>w, <1>u, <1>23 DEF SettleFailed, HandedInv, Handed, WorkerStates, NoWork
<1>24. ASSUME NEW w \in Workers, RemoveDelivered(w) PROVE HandedInv'
  BY <1>t, WorkMoves, <1>w, <1>u, <1>24 DEF RemoveDelivered, HandedInv, Handed, WorkerStates, NoWork
<1>25. ASSUME NEW w \in Workers, SettleDelivered(w) PROVE HandedInv'
  BY <1>t, WorkMoves, <1>w, <1>u, <1>25 DEF SettleDelivered, HandedInv, Handed, WorkerStates, NoWork
<1>26. ASSUME NEW r \in Replies, WaitEnds(r) PROVE HandedInv'
  BY <1>t, <1>w, <1>u, <1>26 DEF WaitEnds, HandedInv, Handed
<1>27. ASSUME NEW up \in BOOLEAN, SetConnected(up) PROVE HandedInv'
  BY <1>t, <1>w, <1>u, <1>27 DEF SetConnected, HandedInv, Handed
<1>28. ASSUME Run PROVE HandedInv'
  BY <1>t, <1>w, <1>u, <1>28 DEF Run, HandedInv, Handed
<1>29. ASSUME Crash PROVE HandedInv'
  <2>1. Crashes
    BY <1>t, <1>29, CrashMoves
  <2>2. QED
    BY <1>t, <1>29, <2>1, <1>w, <1>u DEF Crashes, HandedInv, Handed
<1>30. CASE UNCHANGED vars
  BY <1>t, <1>30, <1>w, <1>u DEF vars, HandedInv, Handed
<1> QED
  BY <1>1, <1>2, <1>3, <1>4, <1>5, <1>6, <1>7, <1>8, <1>9, <1>10, <1>11, <1>12, <1>13,
     <1>14, <1>15, <1>16, <1>17, <1>18, <1>19, <1>20, <1>21, <1>22, <1>23, <1>24, <1>25,
     <1>26, <1>27, <1>28, <1>29, <1>30
  DEF Next, Call, Sender, Retrier, Deliver, Workers

LEMMA RefusedInvStep ==
  ASSUME IInv, [Next]_vars
  PROVE  RefusedInv'
<1>t. TypeOK /\ HandedInv /\ PlaceInv /\ CallInv /\ RefusedInv
  BY DEF IInv
<1>w. /\ "sender" \in Workers /\ "retrier" \in Workers
      /\ \A w \in Workers : w = "sender" \/ w = "retrier"
  BY DEF Workers
<1>u. unsent \subseteq Replies
  BY <1>t DEF TypeOK
<1>1. ASSUME NEW r \in Replies, Queue(r) PROVE RefusedInv'
  <2>1. Queues(r)
    BY <1>t, <1>1, QueueMoves
  <2>2. QED
    BY <1>t, <1>1, <2>1, <1>w, <1>u
    DEF Queues, CallInv, RefusedInv, PlaceInv, Fresh, Holds, HandedInv, Handed
<1>2. ASSUME NEW r \in Replies, MarkPending(r) PROVE RefusedInv'
  BY <1>t, CallMoves, <1>w, <1>u, <1>2
  DEF MarkPending, CallInv, RefusedInv, PlaceInv, Fresh, Holds, HandedInv, Handed, CallStates
<1>3. ASSUME NEW r \in Replies, Store(r) PROVE RefusedInv'
  <2>1. Stores(r)
    BY <1>t, <1>3, StoreMoves
  <2>2. QED
    BY <1>t, <1>3, <2>1, <1>w, <1>u
    DEF Stores, CallInv, RefusedInv, PlaceInv, Fresh, Holds, HandedInv, Handed
<1>4. ASSUME NEW r \in Replies, CompleteTurnFails(r) PROVE RefusedInv'
  BY <1>t, CallMoves, <1>w, <1>u, <1>4
  DEF CompleteTurnFails, CallInv, RefusedInv, PlaceInv, Fresh, Holds, HandedInv, Handed,
      CallStates
<1>5. ASSUME NEW r \in Replies, AddFails(r) PROVE RefusedInv'
  BY <1>t, CallMoves, <1>w, <1>u, <1>5
  DEF AddFails, CallInv, RefusedInv, PlaceInv, Fresh, Holds, HandedInv, Handed, CallStates
<1>6. ASSUME NEW r \in Replies, SettleUnstored(r) PROVE RefusedInv'
  <2>1. SettlesUnstored(r)
    BY <1>t, <1>6, SettleUnstoredMoves
  <2>2. QED
    BY <1>t, <1>6, <2>1, <1>w, <1>u
    DEF SettlesUnstored, CallInv, RefusedInv, PlaceInv, Fresh, Holds, HandedInv, Handed, NoCall
<1>7. ASSUME NEW r \in Replies, LeaveForRetrier(r) PROVE RefusedInv'
  BY <1>t, CallMoves, <1>w, <1>u, <1>7
  DEF LeaveForRetrier, CallInv, RefusedInv, PlaceInv, Fresh, Holds, HandedInv, Handed, NoCall
<1>8. ASSUME NEW r \in Replies, Send(r) PROVE RefusedInv'
  <2>1. Sends(r)
    BY <1>t, <1>8, SendMoves
  <2>2. QED
    BY <1>t, <1>8, <2>1, <1>w, <1>u
    DEF Sends, CallInv, RefusedInv, PlaceInv, Fresh, Holds, HandedInv, Handed, NoCall
<1>9. ASSUME TakeMessage PROVE RefusedInv'
  <2>1. Takes
    BY <1>t, <1>9, TakeMoves
  <2>2. QED
    BY <1>t, <1>9, <2>1, <1>w, <1>u
    DEF Takes, CallInv, RefusedInv, PlaceInv, Fresh, Holds, HandedInv, Handed
<1>10. ASSUME EmitProcessing PROVE RefusedInv'
  BY <1>t, WorkMoves, <1>w, <1>u, <1>10
  DEF EmitProcessing, CallInv, RefusedInv, PlaceInv, Fresh, Holds, HandedInv, Handed,
      WorkerStates, NoWork
<1>11. ASSUME SendUnstored PROVE RefusedInv'
  BY <1>t, ReceiveMoves, WorkMoves, <1>w, <1>u, <1>11
  DEF SendUnstored, CallInv, RefusedInv, PlaceInv, Fresh, Holds, HandedInv, Handed,
      WorkerStates, NoWork
<1>12. ASSUME SendFallback PROVE RefusedInv'
  BY <1>t, ReceiveMoves, WorkMoves, <1>w, <1>u, <1>12
  DEF SendFallback, CallInv, RefusedInv, PlaceInv, Fresh, Holds, HandedInv, Handed,
      WorkerStates, NoWork
<1>13. ASSUME LookForOlder PROVE RefusedInv'
  BY <1>t, WorkMoves, <1>w, <1>u, <1>13
  DEF LookForOlder, CallInv, RefusedInv, PlaceInv, Fresh, Holds, HandedInv, Handed,
      WorkerStates, NoWork
<1>14. ASSUME StepAside PROVE RefusedInv'
  BY <1>t, WorkMoves, <1>w, <1>u, <1>14
  DEF StepAside, CallInv, RefusedInv, PlaceInv, Fresh, Holds, HandedInv, Handed, WorkerStates,
      NoWork
<1>15. ASSUME KickRetrier PROVE RefusedInv'
  BY <1>t, WorkMoves, <1>w, <1>u, <1>15
  DEF KickRetrier, CallInv, RefusedInv, PlaceInv, Fresh, Holds, HandedInv, Handed, WorkerStates,
      NoWork
<1>16. ASSUME StartPass PROVE RefusedInv'
  BY <1>t, <1>w, <1>u, <1>16
  DEF StartPass, CallInv, RefusedInv, PlaceInv, Fresh, Holds, HandedInv, Handed
<1>17. ASSUME NEW r \in Replies, Visit(r) PROVE RefusedInv'
  <2>1. Visits(r)
    BY <1>t, <1>17, VisitMoves
  <2>2. QED
    BY <1>t, <1>17, <2>1, <1>w, <1>u
    DEF Visits, CallInv, RefusedInv, PlaceInv, Fresh, Holds, HandedInv, Handed
<1>18. ASSUME RetryDue PROVE RefusedInv'
  BY <1>t, WorkMoves, <1>w, <1>u, <1>18
  DEF RetryDue, CallInv, RefusedInv, PlaceInv, Fresh, Holds, HandedInv, Handed, WorkerStates,
      NoWork
<1>19. ASSUME MarkRetry PROVE RefusedInv'
  BY <1>t, WorkMoves, <1>w, <1>u, <1>19
  DEF MarkRetry, CallInv, RefusedInv, PlaceInv, Fresh, Holds, HandedInv, Handed, WorkerStates,
      NoWork
<1>20. ASSUME NEW w \in Workers, Submit(w) PROVE RefusedInv'
  BY <1>t, ReceiveMoves, WorkMoves, <1>w, <1>u, <1>20
  DEF Submit, CallInv, RefusedInv, PlaceInv, Fresh, Holds, HandedInv, Handed, WorkerStates,
      NoWork
<1>21. ASSUME NEW w \in Workers, EmitRejectedOnce(w) PROVE RefusedInv'
  BY <1>t, ReceiveMoves, WorkMoves, <1>w, <1>u, <1>21
  DEF EmitRejectedOnce, CallInv, RefusedInv, PlaceInv, Fresh, Holds, HandedInv, Handed,
      WorkerStates, NoWork
<1>22. ASSUME NEW w \in Workers, BackOff(w) PROVE RefusedInv'
  BY <1>t, WorkMoves, <1>w, <1>u, <1>22
  DEF BackOff, CallInv, RefusedInv, PlaceInv, Fresh, Holds, HandedInv, Handed, WorkerStates,
      NoWork
<1>23. ASSUME NEW w \in Workers, SettleFailed(w) PROVE RefusedInv'
  BY <1>t, WorkMoves, <1>w, <1>u, <1>23
  DEF SettleFailed, CallInv, RefusedInv, PlaceInv, Fresh, Holds, HandedInv, Handed,
      WorkerStates, NoWork
<1>24. ASSUME NEW w \in Workers, RemoveDelivered(w) PROVE RefusedInv'
  BY <1>t, WorkMoves, <1>w, <1>u, <1>24
  DEF RemoveDelivered, CallInv, RefusedInv, PlaceInv, Fresh, Holds, HandedInv, Handed,
      WorkerStates, NoWork
<1>25. ASSUME NEW w \in Workers, SettleDelivered(w) PROVE RefusedInv'
  BY <1>t, WorkMoves, <1>w, <1>u, <1>25
  DEF SettleDelivered, CallInv, RefusedInv, PlaceInv, Fresh, Holds, HandedInv, Handed,
      WorkerStates, NoWork
<1>26. ASSUME NEW r \in Replies, WaitEnds(r) PROVE RefusedInv'
  BY <1>t, <1>w, <1>u, <1>26
  DEF WaitEnds, CallInv, RefusedInv, PlaceInv, Fresh, Holds, HandedInv, Handed
<1>27. ASSUME NEW up \in BOOLEAN, SetConnected(up) PROVE RefusedInv'
  BY <1>t, <1>w, <1>u, <1>27
  DEF SetConnected, CallInv, RefusedInv, PlaceInv, Fresh, Holds, HandedInv, Handed
<1>28. ASSUME Run PROVE RefusedInv'
  BY <1>t, <1>w, <1>u, <1>28 DEF Run, CallInv, RefusedInv, PlaceInv, Fresh, Holds, HandedInv, Handed
<1>29. ASSUME Crash PROVE RefusedInv'
  <2>1. Crashes
    BY <1>t, <1>29, CrashMoves
  <2>2. QED
    BY <1>t, <1>29, <2>1, <1>w, <1>u
    DEF Crashes, CallInv, RefusedInv, PlaceInv, Fresh, Holds, HandedInv, Handed
<1>30. CASE UNCHANGED vars
  BY <1>t, <1>30, <1>w, <1>u DEF vars, CallInv, RefusedInv, PlaceInv, Fresh, Holds, HandedInv, Handed
<1> QED
  BY <1>1, <1>2, <1>3, <1>4, <1>5, <1>6, <1>7, <1>8, <1>9, <1>10, <1>11, <1>12, <1>13,
     <1>14, <1>15, <1>16, <1>17, <1>18, <1>19, <1>20, <1>21, <1>22, <1>23, <1>24, <1>25,
     <1>26, <1>27, <1>28, <1>29, <1>30
  DEF Next, Call, Sender, Retrier, Deliver, Workers

LEMMA CallInvStep ==
  ASSUME IInv, [Next]_vars
  PROVE  CallInv'
<1>t. TypeOK /\ HandedInv /\ PlaceInv /\ CallInv /\ RefusedInv
  BY DEF IInv
<1>w. /\ "sender" \in Workers /\ "retrier" \in Workers
      /\ \A w \in Workers : w = "sender" \/ w = "retrier"
  BY DEF Workers
<1>u. unsent \subseteq Replies
  BY <1>t DEF TypeOK
<1>1. ASSUME NEW r \in Replies, Queue(r) PROVE CallInv'
  <2>1. Queues(r)
    BY <1>t, <1>1, QueueMoves
  <2>2. r \notin Handed
    BY <2>1 DEF Queues, Handed
  <2>3. Fresh(r)
    BY <1>t, <1>w, <2>1, <2>2 DEF Queues, HandedInv, Fresh, Holds
  <2>4. Fresh(r)' /\ \A e : Fresh(e)' = Fresh(e)
    BY <2>1, <2>3 DEF Queues, Fresh, Holds
  <2>5. QED
    BY <1>t, <1>1, <2>1, <2>4 DEF Queues, CallInv
<1>2. ASSUME NEW r \in Replies, MarkPending(r) PROVE CallInv'
  BY <1>t, CallMoves, <1>w, <1>u, <1>2
  DEF MarkPending, CallInv, PlaceInv, Fresh, Holds, HandedInv, Handed, CallStates
<1>3. ASSUME NEW r \in Replies, Store(r) PROVE CallInv'
  <2>1. Stores(r)
    BY <1>t, <1>3, StoreMoves
  <2>2. QED
    BY <1>t, <1>3, <2>1, <1>w, <1>u DEF Stores, CallInv, PlaceInv, Fresh, Holds, HandedInv, Handed
<1>4. ASSUME NEW r \in Replies, CompleteTurnFails(r) PROVE CallInv'
  BY <1>t, CallMoves, <1>w, <1>u, <1>4
  DEF CompleteTurnFails, CallInv, PlaceInv, Fresh, Holds, HandedInv, Handed, CallStates
<1>5. ASSUME NEW r \in Replies, AddFails(r) PROVE CallInv'
  BY <1>t, CallMoves, <1>w, <1>u, <1>5
  DEF AddFails, CallInv, PlaceInv, Fresh, Holds, HandedInv, Handed, CallStates
<1>6. ASSUME NEW r \in Replies, SettleUnstored(r) PROVE CallInv'
  <2>1. SettlesUnstored(r)
    BY <1>t, <1>6, SettleUnstoredMoves
  <2>2. \A e : Fresh(e)' = Fresh(e)
    BY <2>1 DEF SettlesUnstored, Fresh, Holds
  <2>3. \A i \in Replies : i # r => call'[i] = call[i]
    BY <2>1 DEF SettlesUnstored
  <2>4. CASE call'[r] = NoCall
    BY <1>t, <2>2, <2>3, <2>4 DEF CallInv, NoCall
  <2>5. CASE /\ KindOf[r] # "final" /\ call[r].later
             /\ call'[r].pc = "mark" /\ call'[r].later = FALSE
             /\ call'[r].stored = call[r].stored
    <3>1. r \in Replies /\ KindOf[r] = "notice" /\ ~call[r].stored
          /\ "add" \in FailingWrites
      BY <1>t, <1>6, <2>1, <2>5 DEF SettlesUnstored, CallInv, HandedInv, Handed
    <3>2. ~NoticesAreStored
      BY <3>1 DEF NoticesAreStored
    <3>3. QED
      BY <1>t, <2>2, <2>3, <2>5, <3>1, <3>2 DEF CallInv
  <2>6. CASE /\ KindOf[r] # "final"
             /\ call'[r].pc = "send" /\ call'[r].later = call[r].later
             /\ call'[r].stored = call[r].stored
    BY <1>t, <1>6, <2>1, <2>2, <2>3, <2>6 DEF SettlesUnstored, CallInv
  <2>7. QED
    BY <2>1, <2>4, <2>5, <2>6 DEF SettlesUnstored
<1>7. ASSUME NEW r \in Replies, LeaveForRetrier(r) PROVE CallInv'
  BY <1>t, CallMoves, <1>w, <1>u, <1>7
  DEF LeaveForRetrier, CallInv, PlaceInv, Fresh, Holds, HandedInv, Handed, NoCall
<1>8. ASSUME NEW r \in Replies, Send(r) PROVE CallInv'
  <2>1. Sends(r)
    BY <1>t, <1>8, SendMoves
  <2>2. QED
    BY <1>t, <1>8, <2>1, <1>w, <1>u
    DEF Sends, CallInv, PlaceInv, Fresh, Holds, HandedInv, Handed, NoCall
<1>9. ASSUME TakeMessage PROVE CallInv'
  <2>1. Takes
    BY <1>t, <1>9, TakeMoves
  <2>2. QED
    BY <1>t, <1>9, <2>1, <1>w, <1>u DEF Takes, CallInv, PlaceInv, Fresh, Holds, HandedInv, Handed
<1>10. ASSUME EmitProcessing PROVE CallInv'
  BY <1>t, WorkMoves, <1>w, <1>u, <1>10
  DEF EmitProcessing, CallInv, PlaceInv, Fresh, Holds, HandedInv, Handed, WorkerStates, NoWork
<1>11. ASSUME SendUnstored PROVE CallInv'
  BY <1>t, ReceiveMoves, WorkMoves, <1>w, <1>u, <1>11
  DEF SendUnstored, CallInv, PlaceInv, Fresh, Holds, HandedInv, Handed, WorkerStates, NoWork
<1>12. ASSUME SendFallback PROVE CallInv'
  BY <1>t, ReceiveMoves, WorkMoves, <1>w, <1>u, <1>12
  DEF SendFallback, CallInv, PlaceInv, Fresh, Holds, HandedInv, Handed, WorkerStates, NoWork
<1>13. ASSUME LookForOlder PROVE CallInv'
  BY <1>t, WorkMoves, <1>w, <1>u, <1>13
  DEF LookForOlder, CallInv, PlaceInv, Fresh, Holds, HandedInv, Handed, WorkerStates, NoWork
<1>14. ASSUME StepAside PROVE CallInv'
  BY <1>t, WorkMoves, <1>w, <1>u, <1>14
  DEF StepAside, CallInv, PlaceInv, Fresh, Holds, HandedInv, Handed, WorkerStates, NoWork
<1>15. ASSUME KickRetrier PROVE CallInv'
  BY <1>t, WorkMoves, <1>w, <1>u, <1>15
  DEF KickRetrier, CallInv, PlaceInv, Fresh, Holds, HandedInv, Handed, WorkerStates, NoWork
<1>16. ASSUME StartPass PROVE CallInv'
  BY <1>t, <1>w, <1>u, <1>16 DEF StartPass, CallInv, PlaceInv, Fresh, Holds, HandedInv, Handed
<1>17. ASSUME NEW r \in Replies, Visit(r) PROVE CallInv'
  <2>1. Visits(r)
    BY <1>t, <1>17, VisitMoves
  <2>2. QED
    BY <1>t, <1>17, <2>1, <1>w, <1>u DEF Visits, CallInv, PlaceInv, Fresh, Holds, HandedInv, Handed
<1>18. ASSUME RetryDue PROVE CallInv'
  BY <1>t, WorkMoves, <1>w, <1>u, <1>18
  DEF RetryDue, CallInv, PlaceInv, Fresh, Holds, HandedInv, Handed, WorkerStates, NoWork
<1>19. ASSUME MarkRetry PROVE CallInv'
  BY <1>t, WorkMoves, <1>w, <1>u, <1>19
  DEF MarkRetry, CallInv, PlaceInv, Fresh, Holds, HandedInv, Handed, WorkerStates, NoWork
<1>20. ASSUME NEW w \in Workers, Submit(w) PROVE CallInv'
  <2>1. worker[w].reply \in Handed
    BY <1>t, <1>20 DEF Submit, HandedInv
  <2>2. \A r \in Replies : Fresh(r) /\ call[r].pc # "none" => Fresh(r)'
    BY <1>t, <1>w, <1>20, <2>1, ReceiveMoves, WorkMoves
    DEF Submit, HandedInv, PlaceInv, Handed, Fresh, Holds, WorkerStates
  <2>3. QED
    BY <1>t, <1>20, <2>2 DEF Submit, CallInv
<1>21. ASSUME NEW w \in Workers, EmitRejectedOnce(w) PROVE CallInv'
  BY <1>t, ReceiveMoves, WorkMoves, <1>w, <1>u, <1>21
  DEF EmitRejectedOnce, CallInv, PlaceInv, Fresh, Holds, HandedInv, Handed, WorkerStates, NoWork
<1>22. ASSUME NEW w \in Workers, BackOff(w) PROVE CallInv'
  BY <1>t, WorkMoves, <1>w, <1>u, <1>22
  DEF BackOff, CallInv, PlaceInv, Fresh, Holds, HandedInv, Handed, WorkerStates, NoWork
<1>23. ASSUME NEW w \in Workers, SettleFailed(w) PROVE CallInv'
  BY <1>t, WorkMoves, <1>w, <1>u, <1>23
  DEF SettleFailed, CallInv, PlaceInv, Fresh, Holds, HandedInv, Handed, WorkerStates, NoWork
<1>24. ASSUME NEW w \in Workers, RemoveDelivered(w) PROVE CallInv'
  BY <1>t, WorkMoves, <1>w, <1>u, <1>24
  DEF RemoveDelivered, CallInv, PlaceInv, Fresh, Holds, HandedInv, Handed, WorkerStates, NoWork
<1>25. ASSUME NEW w \in Workers, SettleDelivered(w) PROVE CallInv'
  BY <1>t, WorkMoves, <1>w, <1>u, <1>25
  DEF SettleDelivered, CallInv, PlaceInv, Fresh, Holds, HandedInv, Handed, WorkerStates, NoWork
<1>26. ASSUME NEW r \in Replies, WaitEnds(r) PROVE CallInv'
  BY <1>t, <1>w, <1>u, <1>26 DEF WaitEnds, CallInv, PlaceInv, Fresh, Holds, HandedInv, Handed
<1>27. ASSUME NEW up \in BOOLEAN, SetConnected(up) PROVE CallInv'
  BY <1>t, <1>w, <1>u, <1>27 DEF SetConnected, CallInv, PlaceInv, Fresh, Holds, HandedInv, Handed
<1>28. ASSUME Run PROVE CallInv'
  BY <1>t, <1>w, <1>u, <1>28 DEF Run, CallInv, PlaceInv, Fresh, Holds, HandedInv, Handed
<1>29. ASSUME Crash PROVE CallInv'
  <2>1. Crashes
    BY <1>t, <1>29, CrashMoves
  <2>2. QED
    BY <1>t, <1>29, <2>1, <1>w, <1>u DEF Crashes, CallInv, PlaceInv, Fresh, Holds, HandedInv, Handed
<1>30. CASE UNCHANGED vars
  BY <1>t, <1>30, <1>w, <1>u DEF vars, CallInv, PlaceInv, Fresh, Holds, HandedInv, Handed
<1> QED
  BY <1>1, <1>2, <1>3, <1>4, <1>5, <1>6, <1>7, <1>8, <1>9, <1>10, <1>11, <1>12, <1>13,
     <1>14, <1>15, <1>16, <1>17, <1>18, <1>19, <1>20, <1>21, <1>22, <1>23, <1>24, <1>25,
     <1>26, <1>27, <1>28, <1>29, <1>30
  DEF Next, Call, Sender, Retrier, Deliver, Workers

LEMMA KeptInvStep ==
  ASSUME IInv, [Next]_vars
  PROVE  KeptInv'
<1>t. TypeOK /\ HandedInv /\ KeptInv
  BY DEF IInv
<1>w. /\ "sender" \in Workers /\ "retrier" \in Workers
      /\ \A w \in Workers : w = "sender" \/ w = "retrier"
  BY DEF Workers
<1>u. unsent \subseteq Replies
  BY <1>t DEF TypeOK
<1>n. \A r \in Replies : Receive(r) => received \subseteq received'
  BY <1>t, ReceiveMoves
<1>1. ASSUME NEW r \in Replies, Queue(r) PROVE KeptInv'
  <2>1. Queues(r)
    BY <1>t, <1>1, QueueMoves
  <2>2. QED
    BY <1>t, <1>1, <2>1, <1>w, <1>n DEF Queues, KeptInv, HandedInv, Handed
<1>2. ASSUME NEW r \in Replies, MarkPending(r) PROVE KeptInv'
  BY <1>t, CallMoves, <1>w, <1>n, <1>2 DEF MarkPending, KeptInv, HandedInv, Handed, CallStates
<1>3. ASSUME NEW r \in Replies, Store(r) PROVE KeptInv'
  <2>1. Stores(r)
    BY <1>t, <1>3, StoreMoves
  <2>2. QED
    BY <1>t, <1>3, <2>1, <1>w, <1>n DEF Stores, KeptInv, HandedInv, Handed
<1>4. ASSUME NEW r \in Replies, CompleteTurnFails(r) PROVE KeptInv'
  BY <1>t, CallMoves, <1>w, <1>n, <1>4 DEF CompleteTurnFails, KeptInv, HandedInv, Handed, CallStates
<1>5. ASSUME NEW r \in Replies, AddFails(r) PROVE KeptInv'
  BY <1>t, CallMoves, <1>w, <1>n, <1>5 DEF AddFails, KeptInv, HandedInv, Handed, CallStates
<1>6. ASSUME NEW r \in Replies, SettleUnstored(r) PROVE KeptInv'
  <2>1. SettlesUnstored(r)
    BY <1>t, <1>6, SettleUnstoredMoves
  <2>2. QED
    BY <1>t, <1>6, <2>1, <1>w, <1>n DEF SettlesUnstored, KeptInv, HandedInv, Handed, NoCall
<1>7. ASSUME NEW r \in Replies, LeaveForRetrier(r) PROVE KeptInv'
  BY <1>t, CallMoves, <1>w, <1>n, <1>7 DEF LeaveForRetrier, KeptInv, HandedInv, Handed, NoCall
<1>8. ASSUME NEW r \in Replies, Send(r) PROVE KeptInv'
  <2>1. Sends(r)
    BY <1>t, <1>8, SendMoves
  <2>2. QED
    BY <1>t, <1>8, <2>1, <1>w, <1>n DEF Sends, KeptInv, HandedInv, Handed, NoCall
<1>9. ASSUME TakeMessage PROVE KeptInv'
  <2>1. Takes
    BY <1>t, <1>9, TakeMoves
  <2>2. QED
    BY <1>t, <1>9, <2>1, <1>w, <1>n DEF Takes, KeptInv, HandedInv, Handed
<1>10. ASSUME EmitProcessing PROVE KeptInv'
  BY <1>t, WorkMoves, <1>w, <1>n, <1>10
  DEF EmitProcessing, KeptInv, HandedInv, Handed, WorkerStates, NoWork
<1>11. ASSUME SendUnstored PROVE KeptInv'
  <2>1. worker["sender"].reply \in Replies
    BY <1>t, <1>w, <1>11 DEF SendUnstored, HandedInv, Handed
  <2>2. received \subseteq received'
    BY <1>n, <1>11, <2>1 DEF SendUnstored
  <2>3. QED
    BY <1>t, <1>u, <1>w, <1>11, <2>2, WorkMoves DEF SendUnstored, KeptInv, HandedInv, Handed, WorkerStates, NoWork
<1>12. ASSUME SendFallback PROVE KeptInv'
  <2>1. worker["sender"].reply \in Replies
    BY <1>t, <1>w, <1>12 DEF SendFallback, HandedInv, Handed
  <2>2. received \subseteq received'
    BY <1>n, <1>12, <2>1 DEF SendFallback
  <2>3. QED
    BY <1>t, <1>u, <1>w, <1>12, <2>2, WorkMoves DEF SendFallback, KeptInv, HandedInv, Handed, NoWork
<1>13. ASSUME LookForOlder PROVE KeptInv'
  BY <1>t, WorkMoves, <1>w, <1>n, <1>13
  DEF LookForOlder, KeptInv, HandedInv, Handed, WorkerStates, NoWork
<1>14. ASSUME StepAside PROVE KeptInv'
  BY <1>t, WorkMoves, <1>w, <1>n, <1>14
  DEF StepAside, KeptInv, HandedInv, Handed, WorkerStates, NoWork
<1>15. ASSUME KickRetrier PROVE KeptInv'
  BY <1>t, WorkMoves, <1>w, <1>n, <1>15
  DEF KickRetrier, KeptInv, HandedInv, Handed, WorkerStates, NoWork
<1>16. ASSUME StartPass PROVE KeptInv'
  BY <1>t, <1>w, <1>n, <1>16 DEF StartPass, KeptInv, HandedInv, Handed
<1>17. ASSUME NEW r \in Replies, Visit(r) PROVE KeptInv'
  <2>1. Visits(r)
    BY <1>t, <1>17, VisitMoves
  <2>2. QED
    BY <1>t, <1>17, <2>1, <1>w, <1>n DEF Visits, KeptInv, HandedInv, Handed
<1>18. ASSUME RetryDue PROVE KeptInv'
  BY <1>t, WorkMoves, <1>w, <1>n, <1>18
  DEF RetryDue, KeptInv, HandedInv, Handed, WorkerStates, NoWork
<1>19. ASSUME MarkRetry PROVE KeptInv'
  BY <1>t, WorkMoves, <1>w, <1>n, <1>19
  DEF MarkRetry, KeptInv, HandedInv, Handed, WorkerStates, NoWork
<1>20. ASSUME NEW w \in Workers, Submit(w) PROVE KeptInv'
  <2>1. worker[w].reply \in Replies
    BY <1>t, <1>20 DEF Submit, HandedInv, Handed
  <2>2. received \subseteq received'
    BY <1>n, <1>20, <2>1 DEF Submit
  <2>3. worker'[w].pc = "remove" => worker[w].reply \in received'
    BY <1>t, <1>20, <2>1, ReceiveMoves, WorkMoves DEF Submit, WorkerStates
  <2>4. worker'[w].pc # "settle" /\ worker'[w].reply = worker[w].reply
        /\ \A v \in Workers : v # w => worker'[v] = worker[v]
    BY <1>t, <1>20, WorkMoves DEF Submit, WorkerStates
  <2>5. QED
    BY <1>t, <1>20, <2>2, <2>3, <2>4 DEF Submit, KeptInv, HandedInv, Handed
<1>21. ASSUME NEW w \in Workers, EmitRejectedOnce(w) PROVE KeptInv'
  BY <1>t, ReceiveMoves, WorkMoves, <1>w, <1>n, <1>21
  DEF EmitRejectedOnce, KeptInv, HandedInv, Handed, WorkerStates, NoWork
<1>22. ASSUME NEW w \in Workers, BackOff(w) PROVE KeptInv'
  BY <1>t, WorkMoves, <1>w, <1>n, <1>22 DEF BackOff, KeptInv, HandedInv, Handed, WorkerStates, NoWork
<1>23. ASSUME NEW w \in Workers, SettleFailed(w) PROVE KeptInv'
  BY <1>t, WorkMoves, <1>w, <1>n, <1>23
  DEF SettleFailed, KeptInv, HandedInv, Handed, WorkerStates, NoWork
<1>24. ASSUME NEW w \in Workers, RemoveDelivered(w) PROVE KeptInv'
  BY <1>t, WorkMoves, <1>w, <1>n, <1>24
  DEF RemoveDelivered, KeptInv, HandedInv, Handed, WorkerStates, NoWork
<1>25. ASSUME NEW w \in Workers, SettleDelivered(w) PROVE KeptInv'
  BY <1>t, WorkMoves, <1>w, <1>n, <1>25
  DEF SettleDelivered, KeptInv, HandedInv, Handed, WorkerStates, NoWork
<1>26. ASSUME NEW r \in Replies, WaitEnds(r) PROVE KeptInv'
  BY <1>t, <1>w, <1>n, <1>26 DEF WaitEnds, KeptInv, HandedInv, Handed
<1>27. ASSUME NEW up \in BOOLEAN, SetConnected(up) PROVE KeptInv'
  BY <1>t, <1>w, <1>n, <1>27 DEF SetConnected, KeptInv, HandedInv, Handed
<1>28. ASSUME Run PROVE KeptInv'
  BY <1>t, <1>w, <1>n, <1>28 DEF Run, KeptInv, HandedInv, Handed
<1>29. ASSUME Crash PROVE KeptInv'
  <2>1. Crashes
    BY <1>t, <1>29, CrashMoves
  <2>2. QED
    BY <1>t, <1>29, <2>1, <1>w, <1>n DEF Crashes, KeptInv, HandedInv, Handed
<1>30. CASE UNCHANGED vars
  BY <1>t, <1>30, <1>w, <1>n DEF vars, KeptInv, HandedInv, Handed
<1> QED
  BY <1>1, <1>2, <1>3, <1>4, <1>5, <1>6, <1>7, <1>8, <1>9, <1>10, <1>11, <1>12, <1>13,
     <1>14, <1>15, <1>16, <1>17, <1>18, <1>19, <1>20, <1>21, <1>22, <1>23, <1>24, <1>25,
     <1>26, <1>27, <1>28, <1>29, <1>30
  DEF Next, Call, Sender, Retrier, Deliver, Workers

LEMMA MarkInvStep ==
  ASSUME IInv, NoticesAreStored, [Next]_vars
  PROVE  MarkInv'
<1>t. TypeOK /\ HandedInv /\ PlaceInv /\ CallInv /\ MarkInv
  BY DEF IInv
<1>w. /\ "sender" \in Workers /\ "retrier" \in Workers
      /\ \A w \in Workers : w = "sender" \/ w = "retrier"
  BY DEF Workers
<1>1. ASSUME NEW r \in Replies, Queue(r) PROVE MarkInv'
  <2>1. Queues(r)
    BY <1>t, <1>1, QueueMoves
  <2>2. QED
    BY <1>t, <1>1, <2>1, <1>w
    DEF Queues, CallInv, MarkInv, RetrierSends, Sending, PlaceInv, Fresh, Holds, HandedInv, Handed
<1>2. ASSUME NEW r \in Replies, MarkPending(r) PROVE MarkInv'
  BY <1>t, CallMoves, <1>w, <1>2
  DEF MarkPending, CallInv, MarkInv, RetrierSends, Sending, PlaceInv, Fresh, Holds, HandedInv,
      Handed, CallStates
<1>3. ASSUME NEW r \in Replies, Store(r) PROVE MarkInv'
  <2>1. Stores(r)
    BY <1>t, <1>3, StoreMoves
  <2>2. QED
    BY <1>t, <1>3, <2>1 DEF Stores, MarkInv, RetrierSends
<1>4. ASSUME NEW r \in Replies, CompleteTurnFails(r) PROVE MarkInv'
  BY <1>t, CallMoves, <1>w, <1>4
  DEF CompleteTurnFails, CallInv, MarkInv, RetrierSends, Sending, PlaceInv, Fresh, Holds,
      HandedInv, Handed, CallStates
<1>5. ASSUME NEW r \in Replies, AddFails(r) PROVE MarkInv'
  BY <1>t, CallMoves, <1>w, <1>5
  DEF AddFails, CallInv, MarkInv, RetrierSends, Sending, PlaceInv, Fresh, Holds, HandedInv,
      Handed, CallStates
<1>6. ASSUME NEW r \in Replies, SettleUnstored(r) PROVE MarkInv'
  <2>1. SettlesUnstored(r)
    BY <1>t, <1>6, SettleUnstoredMoves
  <2>2. /\ \A i \in 1..Len(messageQueue) : messageQueue[i].reply # r
        /\ ~Holds("sender", r) /\ ~RetrierSends(r)
    BY <1>t, <1>6, <2>1 DEF SettlesUnstored, HandedInv, PlaceInv, MarkInv
  <2>3. call'[r].pc = "none" \/ (call'[r].pc \in {"mark", "send"} /\ ~call'[r].stored)
    BY <1>t, <1>6, <2>1 DEF SettlesUnstored, CallInv, NoCall
  <2>4. QED
    BY <1>t, <1>w, <1>6, <2>1, <2>2, <2>3 DEF SettlesUnstored, MarkInv, RetrierSends, Holds, Sending
<1>7. ASSUME NEW r \in Replies, LeaveForRetrier(r) PROVE MarkInv'
  <2>1. /\ \A i \in 1..Len(messageQueue) : messageQueue[i].reply # r
        /\ ~Holds("sender", r) /\ ~RetrierSends(r)
    BY <1>t, <1>7 DEF LeaveForRetrier, HandedInv, PlaceInv, MarkInv
  <2>2. QED
    BY <1>t, <1>w, <1>7, <2>1, CallMoves DEF LeaveForRetrier, MarkInv, RetrierSends, Holds, Sending, NoCall
<1>8. ASSUME NEW r \in Replies, Send(r) PROVE MarkInv'
  <2>1. Sends(r)
    BY <1>t, <1>8, SendMoves
  <2>2. QED
    BY <1>t, <1>8, <2>1, <1>w
    DEF Sends, CallInv, MarkInv, RetrierSends, Sending, PlaceInv, Fresh, Holds, HandedInv, Handed,
        NoCall
<1>9. ASSUME TakeMessage PROVE MarkInv'
  <2>1. Takes
    BY <1>t, <1>9, TakeMoves
  <2>2. QED
    BY <1>t, <1>9, <2>1, <1>w
    DEF Takes, CallInv, MarkInv, RetrierSends, Sending, PlaceInv, Fresh, Holds, HandedInv, Handed
<1>10. ASSUME EmitProcessing PROVE MarkInv'
  BY <1>t, WorkMoves, <1>w, <1>10
  DEF EmitProcessing, CallInv, MarkInv, RetrierSends, Sending, PlaceInv, Fresh, Holds,
      HandedInv, Handed, WorkerStates, NoWork
<1>11. ASSUME SendUnstored PROVE MarkInv'
  BY <1>t, ReceiveMoves, WorkMoves, <1>w, <1>11
  DEF SendUnstored, CallInv, MarkInv, RetrierSends, Sending, PlaceInv, Fresh, Holds, HandedInv,
      Handed, WorkerStates, NoWork
<1>12. ASSUME SendFallback PROVE MarkInv'
  BY <1>t, ReceiveMoves, WorkMoves, <1>w, <1>12
  DEF SendFallback, CallInv, MarkInv, RetrierSends, Sending, PlaceInv, Fresh, Holds, HandedInv,
      Handed, WorkerStates, NoWork
<1>13. ASSUME LookForOlder PROVE MarkInv'
  BY <1>t, WorkMoves, <1>w, <1>13
  DEF LookForOlder, CallInv, MarkInv, RetrierSends, Sending, PlaceInv, Fresh, Holds, HandedInv,
      Handed, WorkerStates, NoWork
<1>14. ASSUME StepAside PROVE MarkInv'
  <2>1. LET r == worker["sender"].reply
        IN  /\ \A k \in Replies : call[k].pc # "none" => k # r
            /\ \A i \in 1..Len(messageQueue) : messageQueue[i].reply # r
            /\ ~RetrierSends(r)
    BY <1>t, <1>14 DEF StepAside, PlaceInv, Holds, MarkInv
  <2>2. QED
    BY <1>t, <1>w, <1>14, <2>1, WorkMoves DEF StepAside, MarkInv, RetrierSends, Sending, WorkerStates
<1>15. ASSUME KickRetrier PROVE MarkInv'
  BY <1>t, WorkMoves, <1>w, <1>15
  DEF KickRetrier, CallInv, MarkInv, RetrierSends, Sending, PlaceInv, Fresh, Holds, HandedInv,
      Handed, WorkerStates, NoWork
<1>16. ASSUME StartPass PROVE MarkInv'
  BY <1>t, <1>w, <1>16
  DEF StartPass, CallInv, MarkInv, RetrierSends, Sending, PlaceInv, Fresh, Holds, HandedInv,
      Handed
<1>17. ASSUME NEW r \in Replies, Visit(r) PROVE MarkInv'
  <2>1. Visits(r)
    BY <1>t, <1>17, VisitMoves
  <2>2. QED
    BY <1>t, <1>17, <2>1, <1>w
    DEF Visits, CallInv, MarkInv, RetrierSends, Sending, PlaceInv, Fresh, Holds, HandedInv, Handed
<1>18. ASSUME RetryDue PROVE MarkInv'
  BY <1>t, WorkMoves, <1>w, <1>18
  DEF RetryDue, CallInv, MarkInv, RetrierSends, Sending, PlaceInv, Fresh, Holds, HandedInv,
      Handed, WorkerStates, NoWork
<1>19. ASSUME MarkRetry PROVE MarkInv'
  BY <1>t, WorkMoves, <1>w, <1>19
  DEF MarkRetry, CallInv, MarkInv, RetrierSends, Sending, PlaceInv, Fresh, Holds, HandedInv,
      Handed, WorkerStates, NoWork
<1>20. ASSUME NEW w \in Workers, Submit(w) PROVE MarkInv'
  BY <1>t, ReceiveMoves, WorkMoves, <1>w, <1>20
  DEF Submit, CallInv, MarkInv, RetrierSends, Sending, PlaceInv, Fresh, Holds, HandedInv,
      Handed, WorkerStates, NoWork
<1>21. ASSUME NEW w \in Workers, EmitRejectedOnce(w) PROVE MarkInv'
  BY <1>t, ReceiveMoves, WorkMoves, <1>w, <1>21
  DEF EmitRejectedOnce, CallInv, MarkInv, RetrierSends, Sending, PlaceInv, Fresh, Holds,
      HandedInv, Handed, WorkerStates, NoWork
<1>22. ASSUME NEW w \in Workers, BackOff(w) PROVE MarkInv'
  BY <1>t, WorkMoves, <1>w, <1>22
  DEF BackOff, CallInv, MarkInv, RetrierSends, Sending, PlaceInv, Fresh, Holds, HandedInv,
      Handed, WorkerStates, NoWork
<1>23. ASSUME NEW w \in Workers, SettleFailed(w) PROVE MarkInv'
  <2> DEFINE r == worker[w].reply
  <2>1. /\ worker'[w].pc = "none"
        /\ \A v \in Workers : v # w => worker'[v] = worker[v]
    BY <1>t, <1>w, <1>23, WorkMoves DEF SettleFailed, NoWork
  <2>2. CASE w = "sender"
    <3>1. /\ \A k \in Replies : call[k].pc # "none" => k # r
          /\ \A i \in 1..Len(messageQueue) : messageQueue[i].reply # r
          /\ ~RetrierSends(r)
      BY <1>t, <1>23, <2>2 DEF SettleFailed, PlaceInv, Holds, MarkInv, Sending
    <3>2. QED
      BY <1>t, <1>w, <1>23, <2>1, <2>2, <3>1 DEF SettleFailed, MarkInv, RetrierSends, Sending
  <2>3. CASE w = "retrier"
    <3>1. RetrierSends(r)
      BY <1>23, <2>3 DEF SettleFailed, RetrierSends, Sending
    <3>2. QED
      BY <1>t, <1>w, <1>23, <2>1, <2>3, <3>1 DEF SettleFailed, MarkInv, RetrierSends, Sending
  <2>4. QED
    BY <1>w, <1>23, <2>2, <2>3
<1>24. ASSUME NEW w \in Workers, RemoveDelivered(w) PROVE MarkInv'
  BY <1>t, WorkMoves, <1>w, <1>24
  DEF RemoveDelivered, CallInv, MarkInv, RetrierSends, Sending, PlaceInv, Fresh, Holds,
      HandedInv, Handed, WorkerStates, NoWork
<1>25. ASSUME NEW w \in Workers, SettleDelivered(w) PROVE MarkInv'
  <2> DEFINE r == worker[w].reply
  <2>1. /\ worker'[w].pc = "none"
        /\ \A v \in Workers : v # w => worker'[v] = worker[v]
    BY <1>t, <1>w, <1>25, WorkMoves DEF SettleDelivered, NoWork
  <2>2. CASE w = "sender"
    <3>1. /\ \A k \in Replies : call[k].pc # "none" => k # r
          /\ \A i \in 1..Len(messageQueue) : messageQueue[i].reply # r
          /\ ~RetrierSends(r)
      BY <1>t, <1>25, <2>2 DEF SettleDelivered, PlaceInv, Holds, MarkInv, Sending
    <3>2. QED
      BY <1>t, <1>w, <1>25, <2>1, <2>2, <3>1 DEF SettleDelivered, MarkInv, RetrierSends, Sending
  <2>3. CASE w = "retrier"
    <3>1. RetrierSends(r)
      BY <1>25, <2>3 DEF SettleDelivered, RetrierSends, Sending
    <3>2. QED
      BY <1>t, <1>w, <1>25, <2>1, <2>3, <3>1 DEF SettleDelivered, MarkInv, RetrierSends, Sending
  <2>4. QED
    BY <1>w, <1>25, <2>2, <2>3
<1>26. ASSUME NEW r \in Replies, WaitEnds(r) PROVE MarkInv'
  BY <1>t, <1>w, <1>26
  DEF WaitEnds, CallInv, MarkInv, RetrierSends, Sending, PlaceInv, Fresh, Holds, HandedInv,
      Handed
<1>27. ASSUME NEW up \in BOOLEAN, SetConnected(up) PROVE MarkInv'
  BY <1>t, <1>w, <1>27
  DEF SetConnected, CallInv, MarkInv, RetrierSends, Sending, PlaceInv, Fresh, Holds, HandedInv,
      Handed
<1>28. ASSUME Run PROVE MarkInv'
  BY <1>t, <1>w, <1>28
  DEF Run, CallInv, MarkInv, RetrierSends, Sending, PlaceInv, Fresh, Holds, HandedInv, Handed
<1>29. ASSUME Crash PROVE MarkInv'
  <2>1. Crashes
    BY <1>t, <1>29, CrashMoves
  <2>2. QED
    BY <1>t, <1>29, <2>1, <1>w
    DEF Crashes, CallInv, MarkInv, RetrierSends, Sending, PlaceInv, Fresh, Holds, HandedInv,
        Handed
<1>30. CASE UNCHANGED vars
  BY <1>t, <1>30, <1>w DEF vars, CallInv, MarkInv, RetrierSends, Sending, PlaceInv, Fresh, Holds, HandedInv, Handed
<1> QED
  BY <1>1, <1>2, <1>3, <1>4, <1>5, <1>6, <1>7, <1>8, <1>9, <1>10, <1>11, <1>12, <1>13,
     <1>14, <1>15, <1>16, <1>17, <1>18, <1>19, <1>20, <1>21, <1>22, <1>23, <1>24, <1>25,
     <1>26, <1>27, <1>28, <1>29, <1>30
  DEF Next, Call, Sender, Retrier, Deliver, Workers

-----------------------------------------------------------------------------

LEMMA Initially == Init => IInv
<1> SUFFICES ASSUME Init PROVE IInv
  OBVIOUS
<1>1. TypeOK
  <2>1. messageQueue \in Seq(Queued) /\ Len(messageQueue) <= QueueCap
    BY DEF Init, QueueCap
  <2>2. call \in [Replies -> Calls] /\ worker \in [Workers -> Works]
    BY NoCallType, NoWorkType DEF Init
  <2>4. failuresLeft \in Nat /\ crashesLeft \in Nat
    BY ReplyAssumption DEF Init
  <2>5. QED
    BY <2>1, <2>2, <2>4 DEF Init, TypeOK
<1>2. Handed = {}
  BY DEF Init, Handed
<1>3. /\ \A r \in Replies : call[r].pc = "none" /\ ~call[r].stored
      /\ \A w \in Workers : worker[w].pc = "none"
      /\ "sender" \in Workers /\ "retrier" \in Workers
      /\ Len(messageQueue) = 0
  BY DEF Init, NoCall, NoWork, Workers
<1>4. HandedInv
  BY <1>2, <1>3 DEF Init, HandedInv
<1>5. PlaceInv /\ CallInv /\ RefusedInv /\ KeptInv
  BY <1>3 DEF Init, PlaceInv, CallInv, RefusedInv, KeptInv
<1>6. MarkInv
  BY <1>3 DEF MarkInv, Sending
<1>7. QED
  BY <1>1, <1>4, <1>5, <1>6 DEF IInv

LEMMA Inductive == IInv /\ [Next]_vars => IInv'
<1> SUFFICES ASSUME IInv, [Next]_vars PROVE IInv'
  OBVIOUS
<1>1. TypeOK' /\ HandedInv' /\ PlaceInv' /\ CallInv' /\ RefusedInv' /\ KeptInv'
  BY TypeStep, HandedInvStep, PlaceInvStep, CallInvStep, RefusedInvStep, KeptInvStep DEF IInv
<1>2. NoticesAreStored => MarkInv'
  BY MarkInvStep
<1>3. QED
  BY <1>1, <1>2 DEF IInv, NoticesAreStored

LEMMA Invariance == Spec => []IInv
  BY Initially, Inductive, PTL DEF Spec

(* The state file loses an entry when one is removed, and when a write puts *)
(* memory, which lost it before, on disk.                                  *)
LEMMA KeptStep ==
  ASSUME IInv, [Next]_vars
  PROVE  \A e \in saved \ saved' : e \in received
<1>t. TypeOK /\ KeptInv
  BY DEF IInv
<1>1. ASSUME NEW r \in Replies, Queue(r) PROVE \A e \in saved \ saved' : e \in received
  <2>1. Queues(r)
    BY <1>t, <1>1, QueueMoves
  <2>2. QED
    BY <1>t, <1>1, <2>1 DEF Queues, KeptInv
<1>2. ASSUME NEW r \in Replies, MarkPending(r) PROVE \A e \in saved \ saved' : e \in received
  BY <1>t, CallMoves, <1>2 DEF MarkPending, KeptInv, CallStates
<1>3. ASSUME NEW r \in Replies, Store(r) PROVE \A e \in saved \ saved' : e \in received
  <2>1. Stores(r)
    BY <1>t, <1>3, StoreMoves
  <2>2. QED
    BY <1>t, <1>3, <2>1 DEF Stores, KeptInv
<1>4. ASSUME NEW r \in Replies, CompleteTurnFails(r) PROVE \A e \in saved \ saved' : e \in received
  BY <1>t, CallMoves, <1>4 DEF CompleteTurnFails, KeptInv, CallStates
<1>5. ASSUME NEW r \in Replies, AddFails(r) PROVE \A e \in saved \ saved' : e \in received
  BY <1>t, CallMoves, <1>5 DEF AddFails, KeptInv, CallStates
<1>6. ASSUME NEW r \in Replies, SettleUnstored(r) PROVE \A e \in saved \ saved' : e \in received
  <2>1. SettlesUnstored(r)
    BY <1>t, <1>6, SettleUnstoredMoves
  <2>2. QED
    BY <1>t, <1>6, <2>1 DEF SettlesUnstored, KeptInv, NoCall
<1>7. ASSUME NEW r \in Replies, LeaveForRetrier(r) PROVE \A e \in saved \ saved' : e \in received
  BY <1>t, CallMoves, <1>7 DEF LeaveForRetrier, KeptInv, NoCall
<1>8. ASSUME NEW r \in Replies, Send(r) PROVE \A e \in saved \ saved' : e \in received
  <2>1. Sends(r)
    BY <1>t, <1>8, SendMoves
  <2>2. QED
    BY <1>t, <1>8, <2>1 DEF Sends, KeptInv, NoCall
<1>9. ASSUME TakeMessage PROVE \A e \in saved \ saved' : e \in received
  <2>1. Takes
    BY <1>t, <1>9, TakeMoves
  <2>2. QED
    BY <1>t, <1>9, <2>1 DEF Takes, KeptInv
<1>10. ASSUME EmitProcessing PROVE \A e \in saved \ saved' : e \in received
  BY <1>t, WorkMoves, <1>10 DEF EmitProcessing, KeptInv, WorkerStates, NoWork
<1>11. ASSUME SendUnstored PROVE \A e \in saved \ saved' : e \in received
  BY <1>t, ReceiveMoves, WorkMoves, <1>11 DEF SendUnstored, KeptInv, WorkerStates, NoWork
<1>12. ASSUME SendFallback PROVE \A e \in saved \ saved' : e \in received
  BY <1>t, ReceiveMoves, WorkMoves, <1>12 DEF SendFallback, KeptInv, WorkerStates, NoWork
<1>13. ASSUME LookForOlder PROVE \A e \in saved \ saved' : e \in received
  BY <1>t, WorkMoves, <1>13 DEF LookForOlder, KeptInv, WorkerStates, NoWork
<1>14. ASSUME StepAside PROVE \A e \in saved \ saved' : e \in received
  BY <1>t, WorkMoves, <1>14 DEF StepAside, KeptInv, WorkerStates, NoWork
<1>15. ASSUME KickRetrier PROVE \A e \in saved \ saved' : e \in received
  BY <1>t, WorkMoves, <1>15 DEF KickRetrier, KeptInv, WorkerStates, NoWork
<1>16. ASSUME StartPass PROVE \A e \in saved \ saved' : e \in received
  BY <1>t, <1>16 DEF StartPass, KeptInv
<1>17. ASSUME NEW r \in Replies, Visit(r) PROVE \A e \in saved \ saved' : e \in received
  <2>1. Visits(r)
    BY <1>t, <1>17, VisitMoves
  <2>2. QED
    BY <1>t, <1>17, <2>1 DEF Visits, KeptInv
<1>18. ASSUME RetryDue PROVE \A e \in saved \ saved' : e \in received
  BY <1>t, WorkMoves, <1>18 DEF RetryDue, KeptInv, WorkerStates, NoWork
<1>19. ASSUME MarkRetry PROVE \A e \in saved \ saved' : e \in received
  BY <1>t, WorkMoves, <1>19 DEF MarkRetry, KeptInv, WorkerStates, NoWork
<1>20. ASSUME NEW w \in Workers, Submit(w) PROVE \A e \in saved \ saved' : e \in received
  BY <1>t, ReceiveMoves, WorkMoves, <1>20 DEF Submit, KeptInv, WorkerStates, NoWork
<1>21. ASSUME NEW w \in Workers, EmitRejectedOnce(w) PROVE \A e \in saved \ saved' : e \in received
  BY <1>t, ReceiveMoves, WorkMoves, <1>21 DEF EmitRejectedOnce, KeptInv, WorkerStates, NoWork
<1>22. ASSUME NEW w \in Workers, BackOff(w) PROVE \A e \in saved \ saved' : e \in received
  BY <1>t, WorkMoves, <1>22 DEF BackOff, KeptInv, WorkerStates, NoWork
<1>23. ASSUME NEW w \in Workers, SettleFailed(w) PROVE \A e \in saved \ saved' : e \in received
  BY <1>t, WorkMoves, <1>23 DEF SettleFailed, KeptInv, WorkerStates, NoWork
<1>24. ASSUME NEW w \in Workers, RemoveDelivered(w) PROVE \A e \in saved \ saved' : e \in received
  BY <1>t, WorkMoves, <1>24 DEF RemoveDelivered, KeptInv, WorkerStates, NoWork
<1>25. ASSUME NEW w \in Workers, SettleDelivered(w) PROVE \A e \in saved \ saved' : e \in received
  BY <1>t, WorkMoves, <1>25 DEF SettleDelivered, KeptInv, WorkerStates, NoWork
<1>26. ASSUME NEW r \in Replies, WaitEnds(r) PROVE \A e \in saved \ saved' : e \in received
  BY <1>t, <1>26 DEF WaitEnds, KeptInv
<1>27. ASSUME NEW up \in BOOLEAN, SetConnected(up) PROVE \A e \in saved \ saved' : e \in received
  BY <1>t, <1>27 DEF SetConnected, KeptInv
<1>28. ASSUME Run PROVE \A e \in saved \ saved' : e \in received
  BY <1>t, <1>28 DEF Run, KeptInv
<1>29. ASSUME Crash PROVE \A e \in saved \ saved' : e \in received
  <2>1. Crashes
    BY <1>t, <1>29, CrashMoves
  <2>2. QED
    BY <1>t, <1>29, <2>1 DEF Crashes, KeptInv
<1>30. CASE UNCHANGED vars
  BY <1>t, <1>30 DEF vars, KeptInv
<1> QED
  BY <1>1, <1>2, <1>3, <1>4, <1>5, <1>6, <1>7, <1>8, <1>9, <1>10, <1>11, <1>12, <1>13,
     <1>14, <1>15, <1>16, <1>17, <1>18, <1>19, <1>20, <1>21, <1>22, <1>23, <1>24, <1>25,
     <1>26, <1>27, <1>28, <1>29, <1>30
  DEF Next, Call, Sender, Retrier, Deliver, Workers

-----------------------------------------------------------------------------

(* The outbox, the channel, the calls and the goroutines of the message    *)
(* sender hold what they are meant to (message_sender.go:31-79), the       *)
(* channel never more than one message (84).                               *)
THEOREM TypeCorrect == Spec => []TypeOK
<1>1. IInv => TypeOK
  BY DEF IInv
<1>2. QED
  BY <1>1, Invariance, PTL

(* Sender and retrier never send the same reply at a time                  *)
(* (message_sender.go:295, 369), unless storing a notice of recovery fails. *)
THEOREM OneSender ==
  ASSUME NoticesAreStored
  PROVE  Spec => []OneSenderPerReply
<1>1. IInv => OneSenderPerReply
  BY DEF IInv, MarkInv, OneSenderPerReply, RetrierSends, Sending
<1>2. QED
  BY <1>1, Invariance, PTL

(* A reply that ends a turn goes out only if the turn could be written      *)
(* (message_sender.go:538-540, app_state.go:356-364): once the write is    *)
(* refused neither a later write, nor the retrier, nor a restart sends it. *)
THEOREM FailedTurns == Spec => []FailedTurnSendsNothing
<1>1. IInv => FailedTurnSendsNothing
  BY DEF IInv, RefusedInv, Fresh, FailedTurnSendsNothing
<1>2. QED
  BY <1>1, Invariance, PTL

(* No step of any goroutine, failed write or crash takes a reply off the    *)
(* disk before the backend has it (message_sender.go:201, 206-210,         *)
(* 305-322).                                                               *)
THEOREM Kept == Spec => KeptUntilReceived
<1>1. IInv /\ [Next]_vars => [\A r \in saved \ saved' : r \in received]_vars
  BY KeptStep
<1>2. QED
  BY <1>1, Invariance, PTL DEF Spec, KeptUntilReceived

-----------------------------------------------------------------------------
(* The outbox implements ReplyOrder: a reply reaches the backend only after *)
(* those of its job that had been stored when its call began, whatever     *)
(* calls overlap, through failed, refused and repeated rounds, failed      *)
(* removals, crashes and restarts.                                         *)
(*                                                                         *)
(* The argument: a reply is younger than those stored before its call      *)
(* began (TimeInv); what travels is stored, and what is stored is in the   *)
(* outbox until it has arrived (AcceptedInv); so a reply that finds no     *)
(* older one of its job in the outbox finds none of those before it, which *)
(* the sender looks for and the retrier's order and its blocked jobs make  *)
(* sure of (ClearInv).                                                     *)

(* A reply that could not be added goes out all the same, ahead of older    *)
(* ones (message_sender.go:551-554): the promise is about stored replies   *)
(* only as long as adding one works.                                       *)
Ordered == "add" \notin FailingWrites

(* A reply is younger than those of its job stored when its call began. *)
TimeInv ==
  /\ accepted \subseteq Handed
  /\ \A r \in Replies : queuedAt[r] <= clock
  /\ \A r \in Replies : \A e \in before[r] :
       e \in accepted /\ JobOf[e] = JobOf[r] /\ queuedAt[e] < queuedAt[r]

(* What travels was stored, and is in the outbox until it has arrived. *)
AcceptedInv ==
  /\ outbox \cup saved \cup received \subseteq accepted
  /\ accepted \ received \subseteq outbox \cap saved
  /\ \A r \in Replies : call[r].pc = "send" /\ ~call[r].stored => KindOf[r] = "processing"
  /\ \A r \in Replies : call[r].stored => r \in accepted
  /\ \A i \in 1..Len(messageQueue) :
       IF messageQueue[i].stored THEN messageQueue[i].reply \in accepted
                                 ELSE KindOf[messageQueue[i].reply] = "processing"
  /\ worker["sender"].pc \notin {"best", "fallback"}
  /\ worker["sender"].pc \notin {"none", "emit"} => worker["sender"].reply \in accepted
  /\ pass \subseteq accepted
  /\ worker["retrier"].pc # "none" => worker["retrier"].reply \in accepted

(* The reply may be sent: those stored before it have arrived. *)
Clear(r) == before[r] \subseteq received

(* Who sends has looked, and what the retrier has still to visit waits for *)
(* nothing that it passed and that did not arrive.                         *)
ClearInv ==
  /\ \A r \in received : Clear(r)
  /\ worker["sender"].pc \in {"submit", "reject"} => Clear(worker["sender"].reply)
  /\ worker["retrier"].pc \in {"due", "mark", "submit", "reject"} => Clear(worker["retrier"].reply)
  /\ \A r \in pass : JobOf[r] \notin blocked =>
       \A e \in before[r] : e \in pass \/ e \in received \/ Holds("retrier", e)

OrderInv == TimeInv /\ AcceptedInv /\ ClearInv

-----------------------------------------------------------------------------
(* What a step means for the order of the replies: one is handed over, one  *)
(* is stored, one arrives, or nothing that matters to it changes.          *)
Arrives(w) ==
  /\ worker[w].pc \in {"submit", "reject"}
  /\ Receive(worker[w].reply)
  /\ UNCHANGED <<unsent, timeVars, accepted, before>>

OrderKept == UNCHANGED <<unsent, timeVars, accepted, before, received>>

OrderMoved ==
  \/ \E r \in Replies : Queue(r)
  \/ \E r \in Replies : Store(r)
  \/ \E w \in Workers : Arrives(w)
  \/ OrderKept

LEMMA OrderMoves ==
  ASSUME Ordered, IInv, AcceptedInv, [Next]_vars
  PROVE  OrderMoved
<1>t. TypeOK /\ AcceptedInv
  BY DEF IInv
<1>w. /\ "sender" \in Workers /\ "retrier" \in Workers
      /\ \A w \in Workers : w = "sender" \/ w = "retrier"
  BY DEF Workers
<1>o. /\ \A r \in Replies : ~AddFails(r)
      /\ \A r \in Replies : call[r].pc = "unmark" => KindOf[r] = "final"
  BY DEF Ordered, AddFails, IInv, CallInv
<1>1. ASSUME NEW r \in Replies, Queue(r) PROVE OrderMoved
  BY <1>1 DEF OrderMoved
<1>2. ASSUME NEW r \in Replies, MarkPending(r) PROVE OrderMoved
  BY <1>2 DEF MarkPending, OrderMoved, OrderKept
<1>3. ASSUME NEW r \in Replies, Store(r) PROVE OrderMoved
  BY <1>3 DEF OrderMoved
<1>4. ASSUME NEW r \in Replies, CompleteTurnFails(r) PROVE OrderMoved
  BY <1>4 DEF CompleteTurnFails, OrderMoved, OrderKept
<1>5. ASSUME NEW r \in Replies, AddFails(r) PROVE OrderMoved
  BY <1>o, <1>5
<1>6. ASSUME NEW r \in Replies, SettleUnstored(r) PROVE OrderMoved
  <2>1. SettlesUnstored(r)
    BY <1>t, <1>6, SettleUnstoredMoves
  <2>2. OrderKept
    BY <1>o, <2>1 DEF SettlesUnstored, OrderKept
  <2>3. QED
    BY <2>2 DEF OrderMoved
<1>7. ASSUME NEW r \in Replies, LeaveForRetrier(r) PROVE OrderMoved
  BY <1>7 DEF LeaveForRetrier, OrderMoved, OrderKept
<1>8. ASSUME NEW r \in Replies, Send(r) PROVE OrderMoved
  BY <1>8 DEF Send, OrderMoved, OrderKept
<1>9. ASSUME TakeMessage PROVE OrderMoved
  BY <1>9 DEF TakeMessage, OrderMoved, OrderKept
<1>10. ASSUME EmitProcessing PROVE OrderMoved
  BY <1>10 DEF EmitProcessing, OrderMoved, OrderKept
<1>11. ASSUME SendUnstored PROVE OrderMoved
  BY <1>t, <1>11 DEF SendUnstored, AcceptedInv
<1>12. ASSUME SendFallback PROVE OrderMoved
  BY <1>t, <1>12 DEF SendFallback, AcceptedInv
<1>13. ASSUME LookForOlder PROVE OrderMoved
  BY <1>13 DEF LookForOlder, OrderMoved, OrderKept
<1>14. ASSUME StepAside PROVE OrderMoved
  BY <1>14 DEF StepAside, OrderMoved, OrderKept
<1>15. ASSUME KickRetrier PROVE OrderMoved
  BY <1>15 DEF KickRetrier, OrderMoved, OrderKept
<1>16. ASSUME StartPass PROVE OrderMoved
  BY <1>16 DEF StartPass, OrderMoved, OrderKept
<1>17. ASSUME NEW r \in Replies, Visit(r) PROVE OrderMoved
  BY <1>17 DEF Visit, OrderMoved, OrderKept
<1>18. ASSUME RetryDue PROVE OrderMoved
  BY <1>18 DEF RetryDue, OrderMoved, OrderKept
<1>19. ASSUME MarkRetry PROVE OrderMoved
  BY <1>19 DEF MarkRetry, OrderMoved, OrderKept
<1>20. ASSUME NEW w \in Workers, Submit(w) PROVE OrderMoved
  <2>1. CASE Receive(worker[w].reply)
    <3>1. Arrives(w)
      BY <1>20, <2>1 DEF Submit, Arrives
    <3>2. QED
      BY <3>1 DEF OrderMoved
  <2>2. CASE UNCHANGED received
    BY <1>20, <2>2 DEF Submit, OrderMoved, OrderKept
  <2>3. QED
    BY <1>20, <2>1, <2>2 DEF Submit
<1>21. ASSUME NEW w \in Workers, EmitRejectedOnce(w) PROVE OrderMoved
  <2>1. CASE Receive(worker[w].reply)
    <3>1. Arrives(w)
      BY <1>21, <2>1 DEF EmitRejectedOnce, Arrives
    <3>2. QED
      BY <3>1 DEF OrderMoved
  <2>2. CASE UNCHANGED received
    BY <1>21, <2>2 DEF EmitRejectedOnce, OrderMoved, OrderKept
  <2>3. QED
    BY <1>21, <2>1, <2>2 DEF EmitRejectedOnce
<1>22. ASSUME NEW w \in Workers, BackOff(w) PROVE OrderMoved
  BY <1>22 DEF BackOff, OrderMoved, OrderKept
<1>23. ASSUME NEW w \in Workers, SettleFailed(w) PROVE OrderMoved
  BY <1>23 DEF SettleFailed, OrderMoved, OrderKept
<1>24. ASSUME NEW w \in Workers, RemoveDelivered(w) PROVE OrderMoved
  BY <1>24 DEF RemoveDelivered, OrderMoved, OrderKept
<1>25. ASSUME NEW w \in Workers, SettleDelivered(w) PROVE OrderMoved
  BY <1>25 DEF SettleDelivered, OrderMoved, OrderKept
<1>26. ASSUME NEW r \in Replies, WaitEnds(r) PROVE OrderMoved
  BY <1>26 DEF WaitEnds, OrderMoved, OrderKept
<1>27. ASSUME NEW up \in BOOLEAN, SetConnected(up) PROVE OrderMoved
  BY <1>27 DEF SetConnected, OrderMoved, OrderKept
<1>28. ASSUME Run PROVE OrderMoved
  BY <1>28 DEF Run, OrderMoved, OrderKept
<1>29. ASSUME Crash PROVE OrderMoved
  BY <1>29 DEF Crash, OrderMoved, OrderKept
<1>30. CASE UNCHANGED vars
  BY <1>30 DEF vars, OrderMoved, OrderKept
<1> QED
  BY <1>1, <1>2, <1>3, <1>4, <1>5, <1>6, <1>7, <1>8, <1>9, <1>10, <1>11, <1>12, <1>13,
     <1>14, <1>15, <1>16, <1>17, <1>18, <1>19, <1>20, <1>21, <1>22, <1>23, <1>24, <1>25,
     <1>26, <1>27, <1>28, <1>29, <1>30
  DEF Next, Call, Sender, Retrier, Deliver, Workers

LEMMA TimeInvStep ==
  ASSUME Ordered, IInv, OrderInv, [Next]_vars
  PROVE  TimeInv'
<1>t. TypeOK /\ HandedInv /\ TimeInv /\ AcceptedInv
  BY DEF IInv, OrderInv
<1>1. ASSUME NEW r \in Replies, Queues(r) PROVE TimeInv'
  <2>1. Handed' = Handed \cup {r} /\ r \notin accepted /\ accepted' = accepted
    BY <1>t, <1>1 DEF Queues, TimeInv, Handed
  <2>2. clock \in Nat /\ \A e \in Replies : queuedAt[e] \in Nat /\ queuedAt[e] <= clock
    BY <1>t DEF TypeOK, TimeInv
  <2>3. \A e \in Replies : queuedAt'[e] <= clock'
    BY <1>1, <2>2 DEF Queues
  <2>4. \A e \in before'[r] : e \in accepted /\ JobOf[e] = JobOf[r] /\ queuedAt'[e] < queuedAt'[r]
    <3>1. TAKE e \in before'[r]
    <3>2. e \in accepted /\ JobOf[e] = JobOf[r] /\ e # r /\ e \in Replies
      BY <1>t, <1>1, <2>1 DEF Queues, TypeOK
    <3>3. queuedAt'[e] = queuedAt[e] /\ queuedAt'[r] = clock + 1
      BY <1>1, <3>2 DEF Queues
    <3>4. QED
      BY <2>2, <3>2, <3>3
  <2>5. ASSUME NEW f \in Replies, f # r, NEW e \in before'[f]
        PROVE  e \in accepted /\ JobOf[e] = JobOf[f] /\ queuedAt'[e] < queuedAt'[f]
    <3>1. e \in before[f]
      BY <1>1, <2>5 DEF Queues
    <3>2. e \in accepted /\ JobOf[e] = JobOf[f] /\ queuedAt[e] < queuedAt[f]
      BY <1>t, <3>1 DEF TimeInv
    <3>3. e # r /\ e \in Replies
      BY <1>t, <2>1, <3>2 DEF TypeOK
    <3>4. QED
      BY <1>1, <2>5, <3>2, <3>3 DEF Queues
  <2>6. QED
    BY <1>t, <2>1, <2>3, <2>4, <2>5 DEF TimeInv
<1>2. ASSUME NEW r \in Replies, Stores(r) PROVE TimeInv'
  <2>1. r \in Handed
    BY <1>t, <1>2 DEF Stores, HandedInv
  <2>2. QED
    BY <1>t, <1>2, <2>1 DEF Stores, TimeInv, Handed
<1>3. ASSUME NEW w \in Workers, Arrives(w) PROVE TimeInv'
  BY <1>t, <1>3 DEF Arrives, TimeInv, Handed
<1>4. CASE OrderKept
  BY <1>t, <1>4 DEF OrderKept, TimeInv, Handed
<1>5. QED
  BY <1>t, <1>1, <1>2, <1>3, <1>4, OrderMoves, QueueMoves, StoreMoves DEF OrderMoved

LEMMA AcceptedInvStep ==
  ASSUME Ordered, IInv, OrderInv, [Next]_vars
  PROVE  AcceptedInv'
<1>t. TypeOK /\ HandedInv /\ KeptInv /\ CallInv /\ TimeInv /\ AcceptedInv
  BY DEF IInv, OrderInv
<1>w. /\ "sender" \in Workers /\ "retrier" \in Workers
      /\ \A w \in Workers : w = "sender" \/ w = "retrier"
  BY DEF Workers
<1>o. /\ \A r \in Replies : ~AddFails(r)
      /\ \A r \in Replies : call[r].pc = "unmark" => KindOf[r] = "final"
  BY DEF Ordered, AddFails, IInv, CallInv
<1>1. ASSUME NEW r \in Replies, Queue(r) PROVE AcceptedInv'
  <2>1. Queues(r)
    BY <1>t, <1>1, QueueMoves
  <2>2. QED
    BY <1>t, <1>w, <1>1, <2>1 DEF Queues, AcceptedInv
<1>2. ASSUME NEW r \in Replies, MarkPending(r) PROVE AcceptedInv'
  BY <1>t, <1>w, CallMoves, <1>2 DEF MarkPending, AcceptedInv, CallStates, NoCall
<1>3. ASSUME NEW r \in Replies, Store(r) PROVE AcceptedInv'
  <2>1. Stores(r)
    BY <1>t, <1>3, StoreMoves
  <2>2. QED
    BY <1>t, <1>w, <1>3, <2>1 DEF Stores, AcceptedInv
<1>4. ASSUME NEW r \in Replies, CompleteTurnFails(r) PROVE AcceptedInv'
  BY <1>t, <1>w, CallMoves, <1>4 DEF CompleteTurnFails, AcceptedInv, CallStates, NoCall
<1>5. ASSUME NEW r \in Replies, AddFails(r) PROVE AcceptedInv'
  BY <1>o, <1>5
<1>6. ASSUME NEW r \in Replies, SettleUnstored(r) PROVE AcceptedInv'
  <2>1. SettlesUnstored(r)
    BY <1>t, <1>6, SettleUnstoredMoves
  <2>2. call'[r].pc = "none" /\ call'[r].stored = FALSE
    BY <1>o, <2>1 DEF SettlesUnstored, NoCall
  <2>3. QED
    BY <1>t, <1>w, <2>1, <2>2 DEF SettlesUnstored, AcceptedInv
<1>7. ASSUME NEW r \in Replies, LeaveForRetrier(r) PROVE AcceptedInv'
  BY <1>t, <1>w, CallMoves, <1>7 DEF LeaveForRetrier, AcceptedInv, CallStates, NoCall
<1>8. ASSUME NEW r \in Replies, Send(r) PROVE AcceptedInv'
  <2>1. Sends(r)
    BY <1>t, <1>8, SendMoves
  <2>2. QED
    BY <1>t, <1>w, <1>8, <2>1 DEF Sends, AcceptedInv, NoCall
<1>9. ASSUME TakeMessage PROVE AcceptedInv'
  <2>1. Takes
    BY <1>t, <1>9, TakeMoves
  <2>2. QED
    BY <1>t, <1>w, <1>9, <2>1 DEF Takes, AcceptedInv
<1>10. ASSUME EmitProcessing PROVE AcceptedInv'
  BY <1>t, <1>w, WorkMoves, <1>10 DEF EmitProcessing, AcceptedInv, WorkerStates, NoWork
<1>11. ASSUME SendUnstored PROVE AcceptedInv'
  BY <1>t, <1>11 DEF SendUnstored, AcceptedInv
<1>12. ASSUME SendFallback PROVE AcceptedInv'
  BY <1>t, <1>12 DEF SendFallback, AcceptedInv
<1>13. ASSUME LookForOlder PROVE AcceptedInv'
  BY <1>t, <1>w, WorkMoves, <1>13 DEF LookForOlder, AcceptedInv, WorkerStates, NoWork
<1>14. ASSUME StepAside PROVE AcceptedInv'
  BY <1>t, <1>w, WorkMoves, <1>14 DEF StepAside, AcceptedInv, WorkerStates, NoWork
<1>15. ASSUME KickRetrier PROVE AcceptedInv'
  BY <1>t, <1>w, WorkMoves, <1>15 DEF KickRetrier, AcceptedInv, WorkerStates, NoWork
<1>16. ASSUME StartPass PROVE AcceptedInv'
  BY <1>t, <1>w, <1>16 DEF StartPass, AcceptedInv
<1>17. ASSUME NEW r \in Replies, Visit(r) PROVE AcceptedInv'
  <2>1. Visits(r)
    BY <1>t, <1>17, VisitMoves
  <2>2. QED
    BY <1>t, <1>w, <1>17, <2>1 DEF Visits, AcceptedInv
<1>18. ASSUME RetryDue PROVE AcceptedInv'
  BY <1>t, <1>w, WorkMoves, <1>18 DEF RetryDue, AcceptedInv, WorkerStates, NoWork
<1>19. ASSUME MarkRetry PROVE AcceptedInv'
  BY <1>t, <1>w, WorkMoves, <1>19 DEF MarkRetry, AcceptedInv, WorkerStates, NoWork
<1>20. ASSUME NEW w \in Workers, Submit(w) PROVE AcceptedInv'
  <2>1. worker[w].reply \in accepted /\ worker[w].reply \in Replies
    BY <1>t, <1>w, <1>20 DEF Submit, AcceptedInv, TypeOK
  <2>2. received' \subseteq received \cup {worker[w].reply} /\ received \subseteq received'
    BY <1>20 DEF Submit, Receive
  <2>3. /\ worker'[w].pc \notin {"best", "fallback", "none"} /\ worker'[w].reply = worker[w].reply
        /\ \A v \in Workers : v # w => worker'[v] = worker[v]
    BY <1>t, <1>w, <1>20, WorkMoves DEF Submit, WorkerStates
  <2>4. /\ outbox' \cup saved' \cup received' \subseteq accepted'
        /\ accepted' \ received' \subseteq outbox' \cap saved'
    BY <1>t, <1>20, <2>1, <2>2 DEF Submit, AcceptedInv
  <2>5. UNCHANGED <<call, accepted, messageQueue, pass>>
    BY <1>20 DEF Submit
  <2>6. /\ worker'["sender"].pc \notin {"best", "fallback"}
        /\ worker'["sender"].pc \notin {"none", "emit"} => worker'["sender"].reply \in accepted
        /\ worker'["retrier"].pc # "none" => worker'["retrier"].reply \in accepted
    BY <1>t, <1>w, <2>1, <2>3 DEF AcceptedInv
  <2>7. QED
    BY <1>t, <2>4, <2>5, <2>6 DEF AcceptedInv
<1>21. ASSUME NEW w \in Workers, EmitRejectedOnce(w) PROVE AcceptedInv'
  <2>1. worker[w].reply \in accepted /\ worker[w].reply \in Replies
    BY <1>t, <1>w, <1>21 DEF EmitRejectedOnce, AcceptedInv, TypeOK
  <2>2. received' \subseteq received \cup {worker[w].reply} /\ received \subseteq received'
    BY <1>21 DEF EmitRejectedOnce, Receive
  <2>3. /\ worker'[w].pc \notin {"best", "fallback", "none"} /\ worker'[w].reply = worker[w].reply
        /\ \A v \in Workers : v # w => worker'[v] = worker[v]
    BY <1>t, <1>w, <1>21, WorkMoves DEF EmitRejectedOnce, WorkerStates
  <2>4. /\ outbox' \cup saved' \cup received' \subseteq accepted'
        /\ accepted' \ received' \subseteq outbox' \cap saved'
    BY <1>t, <1>21, <2>1, <2>2 DEF EmitRejectedOnce, AcceptedInv
  <2>5. UNCHANGED <<call, accepted, messageQueue, pass>>
    BY <1>21 DEF EmitRejectedOnce
  <2>6. /\ worker'["sender"].pc \notin {"best", "fallback"}
        /\ worker'["sender"].pc \notin {"none", "emit"} => worker'["sender"].reply \in accepted
        /\ worker'["retrier"].pc # "none" => worker'["retrier"].reply \in accepted
    BY <1>t, <1>w, <2>1, <2>3 DEF AcceptedInv
  <2>7. QED
    BY <1>t, <2>4, <2>5, <2>6 DEF AcceptedInv
<1>22. ASSUME NEW w \in Workers, BackOff(w) PROVE AcceptedInv'
  BY <1>t, <1>w, WorkMoves, <1>22 DEF BackOff, AcceptedInv, WorkerStates, NoWork
<1>23. ASSUME NEW w \in Workers, SettleFailed(w) PROVE AcceptedInv'
  BY <1>t, <1>w, WorkMoves, <1>23 DEF SettleFailed, AcceptedInv, WorkerStates, NoWork
<1>24. ASSUME NEW w \in Workers, RemoveDelivered(w) PROVE AcceptedInv'
  <2>1. worker[w].reply \in received
    BY <1>t, <1>24 DEF RemoveDelivered, KeptInv
  <2>2. /\ worker'[w].pc = "settle" /\ worker'[w].reply = worker[w].reply
        /\ \A v \in Workers : v # w => worker'[v] = worker[v]
    BY <1>t, <1>24, WorkMoves DEF RemoveDelivered, WorkerStates
  <2>3. /\ outbox' \cup saved' \subseteq outbox \cup saved
        /\ \A e \in outbox \cap saved : e # worker[w].reply => e \in outbox' \cap saved'
        /\ UNCHANGED <<accepted, received, call, messageQueue, pass>>
    BY <1>24 DEF RemoveDelivered
  <2>4. QED
    BY <1>t, <1>w, <1>24, <2>1, <2>2, <2>3 DEF RemoveDelivered, AcceptedInv
<1>25. ASSUME NEW w \in Workers, SettleDelivered(w) PROVE AcceptedInv'
  BY <1>t, <1>w, WorkMoves, <1>25 DEF SettleDelivered, AcceptedInv, WorkerStates, NoWork
<1>26. ASSUME NEW r \in Replies, WaitEnds(r) PROVE AcceptedInv'
  BY <1>t, <1>w, <1>26 DEF WaitEnds, AcceptedInv
<1>27. ASSUME NEW up \in BOOLEAN, SetConnected(up) PROVE AcceptedInv'
  BY <1>t, <1>w, <1>27 DEF SetConnected, AcceptedInv
<1>28. ASSUME Run PROVE AcceptedInv'
  BY <1>t, <1>w, <1>28 DEF Run, AcceptedInv
<1>29. ASSUME Crash PROVE AcceptedInv'
  <2>1. Crashes /\ \A r \in Replies : call'[r].stored = FALSE
    BY <1>29, CrashMoves DEF Crash, NoCall
  <2>2. QED
    BY <1>t, <1>w, <2>1 DEF Crashes, AcceptedInv
<1>30. CASE UNCHANGED vars
  BY <1>t, <1>w, <1>30 DEF vars, AcceptedInv
<1> QED
  BY <1>1, <1>2, <1>3, <1>4, <1>5, <1>6, <1>7, <1>8, <1>9, <1>10, <1>11, <1>12, <1>13,
     <1>14, <1>15, <1>16, <1>17, <1>18, <1>19, <1>20, <1>21, <1>22, <1>23, <1>24, <1>25,
     <1>26, <1>27, <1>28, <1>29, <1>30
  DEF Next, Call, Sender, Retrier, Deliver, Workers

LEMMA ClearInvStep ==
  ASSUME Ordered, IInv, OrderInv, [Next]_vars
  PROVE  ClearInv'
<1>t. TypeOK /\ HandedInv /\ KeptInv /\ CallInv /\ TimeInv /\ AcceptedInv /\ ClearInv
  BY DEF IInv, OrderInv
<1>w. /\ "sender" \in Workers /\ "retrier" \in Workers
      /\ \A w \in Workers : w = "sender" \/ w = "retrier"
  BY DEF Workers
<1>o. /\ \A r \in Replies : ~AddFails(r)
      /\ \A r \in Replies : call[r].pc = "unmark" => KindOf[r] = "final"
  BY DEF Ordered, AddFails, IInv, CallInv
<1>h. /\ pass \subseteq Handed /\ received \subseteq Handed /\ Handed \subseteq Replies
      /\ \A w \in Workers : worker[w].pc # "none" => worker[w].reply \in Handed
  BY <1>t DEF HandedInv, Handed, AcceptedInv, TimeInv
<1>j. \A r \in Replies : \A e \in before[r] : e \in accepted /\ JobOf[e] = JobOf[r]
  BY <1>t DEF TimeInv
<1>1. ASSUME NEW r \in Replies, Queue(r) PROVE ClearInv'
  <2>1. Queues(r)
    BY <1>t, <1>1, QueueMoves
  <2>2. r \notin Handed /\ \A e \in Handed : before'[e] = before[e]
    BY <1>h, <2>1 DEF Queues, Handed
  <2>3. QED
    BY <1>t, <1>w, <1>h, <2>1, <2>2 DEF Queues, ClearInv, Clear, Holds
<1>2. ASSUME NEW r \in Replies, MarkPending(r) PROVE ClearInv'
  BY <1>t, <1>w, <1>h, <1>2 DEF MarkPending, ClearInv, Clear, Holds
<1>3. ASSUME NEW r \in Replies, Store(r) PROVE ClearInv'
  <2>1. Stores(r)
    BY <1>t, <1>3, StoreMoves
  <2>2. QED
    BY <1>t, <1>w, <1>h, <1>j, <1>3, <2>1 DEF Stores, ClearInv, Clear, Holds
<1>4. ASSUME NEW r \in Replies, CompleteTurnFails(r) PROVE ClearInv'
  BY <1>t, <1>w, <1>h, <1>4 DEF CompleteTurnFails, ClearInv, Clear, Holds
<1>5. ASSUME NEW r \in Replies, AddFails(r) PROVE ClearInv'
  BY <1>o, <1>5
<1>6. ASSUME NEW r \in Replies, SettleUnstored(r) PROVE ClearInv'
  BY <1>t, <1>w, <1>h, <1>6 DEF SettleUnstored, ClearInv, Clear, Holds
<1>7. ASSUME NEW r \in Replies, LeaveForRetrier(r) PROVE ClearInv'
  BY <1>t, <1>w, <1>h, <1>7 DEF LeaveForRetrier, ClearInv, Clear, Holds
<1>8. ASSUME NEW r \in Replies, Send(r) PROVE ClearInv'
  BY <1>t, <1>w, <1>h, <1>8 DEF Send, ClearInv, Clear, Holds
<1>9. ASSUME TakeMessage PROVE ClearInv'
  <2>1. Takes
    BY <1>t, <1>9, TakeMoves
  <2>2. QED
    BY <1>t, <1>w, <1>h, <1>j, <1>9, <2>1 DEF Takes, ClearInv, Clear, Holds
<1>10. ASSUME EmitProcessing PROVE ClearInv'
  BY <1>t, <1>w, <1>h, <1>j, WorkMoves, <1>10
  DEF EmitProcessing, ClearInv, Clear, Holds, WorkerStates, NoWork
<1>11. ASSUME SendUnstored PROVE ClearInv'
  BY <1>t, <1>11 DEF SendUnstored, AcceptedInv
<1>12. ASSUME SendFallback PROVE ClearInv'
  BY <1>t, <1>12 DEF SendFallback, AcceptedInv
<1>13. ASSUME LookForOlder PROVE ClearInv'
  <2> DEFINE r == worker["sender"].reply
  <2>1. r \in Replies /\ r \in accepted
    BY <1>t, <1>w, <1>h, <1>13 DEF LookForOlder, AcceptedInv
  <2>2. ~WaitsBehindOlder(r) => Clear(r)
    <3>1. CASE r \in outbox
      BY <1>t, <2>1, <3>1 DEF WaitsBehindOlder, Clear, TimeInv, AcceptedInv
    <3>2. CASE r \notin outbox
      BY <1>t, <2>1, <3>2 DEF ClearInv, AcceptedInv
    <3>3. QED
      BY <3>1, <3>2
  <2>3. /\ worker'["sender"].pc = IF WaitsBehindOlder(r) THEN "aside" ELSE "submit"
        /\ worker'["sender"].reply = r /\ worker'["retrier"] = worker["retrier"]
    BY <1>t, <1>w, <1>13, WorkMoves DEF LookForOlder, WorkerStates
  <2>4. QED
    BY <1>t, <1>13, <2>2, <2>3 DEF LookForOlder, ClearInv, Clear, Holds
<1>14. ASSUME StepAside PROVE ClearInv'
  BY <1>t, <1>w, <1>h, <1>j, WorkMoves, <1>14
  DEF StepAside, ClearInv, Clear, Holds, WorkerStates, NoWork
<1>15. ASSUME KickRetrier PROVE ClearInv'
  BY <1>t, <1>w, <1>h, <1>j, WorkMoves, <1>15
  DEF KickRetrier, ClearInv, Clear, Holds, WorkerStates, NoWork
<1>16. ASSUME StartPass PROVE ClearInv'
  <2>1. \A r \in Replies : \A e \in before[r] : e \in outbox \/ e \in received
    BY <1>t, <1>j DEF AcceptedInv
  <2>2. /\ pass' = outbox
        /\ UNCHANGED <<worker, received, before>>
    BY <1>16 DEF StartPass
  <2>3. pass' \subseteq Replies
    BY <1>t, <2>2 DEF TypeOK
  <2>4. QED
    BY <1>t, <2>1, <2>2, <2>3 DEF ClearInv, Clear
<1>17. ASSUME NEW r \in Replies, Visit(r) PROVE ClearInv'
  <2>1. Visits(r)
    BY <1>t, <1>17, VisitMoves
  <2>2. CASE JobOf[r] \in blocked
    BY <1>t, <1>w, <1>h, <1>j, <2>1, <2>2 DEF Visits, ClearInv, Clear, Holds
  <2>3. CASE JobOf[r] \notin blocked
    <3>1. ASSUME NEW e \in before[r] PROVE e \in received
      <4>1. e \in pass \/ e \in received
        BY <1>t, <2>1, <2>3 DEF Visits, ClearInv, Holds
      <4>2. queuedAt[e] < queuedAt[r] /\ e \in Replies
        BY <1>t DEF TimeInv, TypeOK
      <4>3. e \notin pass
        BY <1>t, <2>1, <4>2 DEF Visits, TypeOK
      <4>4. QED
        BY <4>1, <4>3
    <3>2. Clear(r)
      BY <3>1 DEF Clear
    <3>3. QED
      BY <1>t, <1>w, <1>h, <2>1, <2>3, <3>2 DEF Visits, ClearInv, Clear, Holds
  <2>4. QED
    BY <2>2, <2>3
<1>18. ASSUME RetryDue PROVE ClearInv'
  BY <1>t, <1>w, <1>h, <1>j, WorkMoves, <1>18
  DEF RetryDue, ClearInv, Clear, Holds, WorkerStates, NoWork
<1>19. ASSUME MarkRetry PROVE ClearInv'
  BY <1>t, <1>w, <1>h, <1>j, WorkMoves, <1>19
  DEF MarkRetry, ClearInv, Clear, Holds, WorkerStates, NoWork
<1>20. ASSUME NEW w \in Workers, Submit(w) PROVE ClearInv'
  BY <1>t, <1>w, <1>h, <1>j, ReceiveMoves, WorkMoves, <1>20
  DEF Submit, ClearInv, Clear, Holds, WorkerStates, NoWork
<1>21. ASSUME NEW w \in Workers, EmitRejectedOnce(w) PROVE ClearInv'
  BY <1>t, <1>w, <1>h, <1>j, ReceiveMoves, WorkMoves, <1>21
  DEF EmitRejectedOnce, ClearInv, Clear, Holds, WorkerStates, NoWork
<1>22. ASSUME NEW w \in Workers, BackOff(w) PROVE ClearInv'
  BY <1>t, <1>w, <1>h, <1>j, WorkMoves, <1>22
  DEF BackOff, ClearInv, Clear, Holds, WorkerStates, NoWork
<1>23. ASSUME NEW w \in Workers, SettleFailed(w) PROVE ClearInv'
  BY <1>t, <1>w, <1>h, <1>j, WorkMoves, <1>23
  DEF SettleFailed, ClearInv, Clear, Holds, WorkerStates, NoWork
<1>24. ASSUME NEW w \in Workers, RemoveDelivered(w) PROVE ClearInv'
  BY <1>t, <1>w, <1>h, <1>j, WorkMoves, <1>24
  DEF RemoveDelivered, ClearInv, Clear, Holds, WorkerStates, NoWork
<1>25. ASSUME NEW w \in Workers, SettleDelivered(w) PROVE ClearInv'
  <2>1. worker[w].reply \in received
    BY <1>t, <1>25 DEF SettleDelivered, KeptInv
  <2>2. worker'[w].pc = "none" /\ \A v \in Workers : v # w => worker'[v] = worker[v]
    BY <1>t, <1>25, WorkMoves DEF SettleDelivered, NoWork
  <2>3. QED
    BY <1>t, <1>w, <1>h, <1>25, <2>1, <2>2 DEF SettleDelivered, ClearInv, Clear, Holds
<1>26. ASSUME NEW r \in Replies, WaitEnds(r) PROVE ClearInv'
  BY <1>t, <1>w, <1>h, <1>j, <1>26 DEF WaitEnds, ClearInv, Clear, Holds
<1>27. ASSUME NEW up \in BOOLEAN, SetConnected(up) PROVE ClearInv'
  BY <1>t, <1>w, <1>h, <1>j, <1>27 DEF SetConnected, ClearInv, Clear, Holds
<1>28. ASSUME Run PROVE ClearInv'
  BY <1>t, <1>w, <1>h, <1>j, <1>28 DEF Run, ClearInv, Clear, Holds
<1>29. ASSUME Crash PROVE ClearInv'
  BY <1>t, <1>w, <1>29, CrashMoves DEF Crashes, ClearInv, Clear, Holds
<1>30. CASE UNCHANGED vars
  BY <1>t, <1>w, <1>h, <1>j, <1>30 DEF vars, ClearInv, Clear, Holds
<1> QED
  BY <1>1, <1>2, <1>3, <1>4, <1>5, <1>6, <1>7, <1>8, <1>9, <1>10, <1>11, <1>12, <1>13,
     <1>14, <1>15, <1>16, <1>17, <1>18, <1>19, <1>20, <1>21, <1>22, <1>23, <1>24, <1>25,
     <1>26, <1>27, <1>28, <1>29, <1>30
  DEF Next, Call, Sender, Retrier, Deliver, Workers

-----------------------------------------------------------------------------

LEMMA OrderInitially == Init => OrderInv
<1> SUFFICES ASSUME Init PROVE OrderInv
  OBVIOUS
<1>1. /\ \A r \in Replies : call[r].pc = "none" /\ ~call[r].stored
      /\ \A w \in Workers : worker[w].pc = "none"
      /\ "sender" \in Workers /\ "retrier" \in Workers
      /\ Len(messageQueue) = 0
      /\ \A r \in Replies : before[r] = {}
  BY DEF Init, NoCall, NoWork, Workers
<1>2. TimeInv
  BY <1>1 DEF Init, TimeInv
<1>3. AcceptedInv
  BY <1>1 DEF Init, AcceptedInv
<1>4. ClearInv
  BY <1>1 DEF Init, ClearInv, Clear
<1>5. QED
  BY <1>2, <1>3, <1>4 DEF OrderInv

LEMMA OrderInductive ==
  ASSUME Ordered
  PROVE  IInv /\ OrderInv /\ [Next]_vars => OrderInv'
<1> SUFFICES ASSUME IInv, OrderInv, [Next]_vars PROVE OrderInv'
  OBVIOUS
<1>1. TimeInv' /\ AcceptedInv' /\ ClearInv'
  BY TimeInvStep, AcceptedInvStep, ClearInvStep
<1>2. QED
  BY <1>1 DEF OrderInv

(* A step is one of ReplyOrder's, or changes nothing of what it speaks of:  *)
(* what arrives a second time is not told apart.                           *)
LEMMA StepImplementsOrder ==
  ASSUME Ordered, IInv, OrderInv, [Next]_vars
  PROVE  [Order!OrderNext]_(Order!orderVars)
<1>t. TypeOK /\ HandedInv /\ KeptInv /\ TimeInv /\ AcceptedInv /\ ClearInv
  BY DEF IInv, OrderInv
<1>1. ASSUME NEW r \in Replies, Queue(r) PROVE Order!OrderNext
  <2>1. Replies \ unsent' = (Replies \ unsent) \cup {r} /\ r \in unsent
    BY <1>1 DEF Queue
  <2>2. Order!HandOver(r)
    BY <1>1, <2>1 DEF Queue, Order!HandOver
  <2>3. QED
    BY <2>2 DEF Order!OrderNext
<1>2. ASSUME NEW r \in Replies, Store(r) PROVE [Order!OrderNext]_(Order!orderVars)
  <2>1. r \in Replies \ unsent
    BY <1>2, <1>t DEF Store, HandedInv, Handed
  <2>2. CASE r \in accepted
    BY <1>2, <2>2 DEF Store, Order!orderVars
  <2>3. CASE r \notin accepted
    <3>1. Order!Accept(r)
      BY <1>2, <2>1, <2>3 DEF Store, Order!Accept
    <3>2. QED
      BY <3>1 DEF Order!OrderNext
  <2>4. QED
    BY <2>2, <2>3
<1>3. ASSUME NEW w \in Workers, Arrives(w) PROVE [Order!OrderNext]_(Order!orderVars)
  <2> DEFINE r == worker[w].reply
  <2>1. r \in Replies /\ r \in accepted /\ Clear(r)
    <3>1. w = "sender" \/ w = "retrier"
      BY DEF Workers
    <3>2. r \in Replies
      BY <1>3, <1>t DEF Arrives, HandedInv, Handed
    <3>3. QED
      BY <1>3, <1>t, <3>1, <3>2 DEF Arrives, AcceptedInv, ClearInv
  <2>2. CASE r \in received
    BY <1>3, <2>2 DEF Arrives, Receive, Order!orderVars
  <2>3. CASE r \notin received
    <3>1. Order!Deliver(r)
      BY <1>3, <2>1, <2>3 DEF Arrives, Receive, Order!Deliver, Clear
    <3>2. QED
      BY <2>1, <3>1 DEF Order!OrderNext
  <2>4. QED
    BY <2>2, <2>3
<1>4. CASE OrderKept
  BY <1>4 DEF OrderKept, Order!orderVars
<1>5. QED
  BY <1>1, <1>2, <1>3, <1>4, OrderMoves, <1>t DEF OrderMoved

-----------------------------------------------------------------------------

(* As long as adding a reply to the outbox works, the outbox implements    *)
(* ReplyOrder: a reply reaches the backend only after those of its job     *)
(* that had been stored when its call began, so that a completion never    *)
(* overtakes the reply before it, whatever other calls overlap with it     *)
(* (message_sender.go:201, 305-322, 324-326).                              *)
THEOREM Refinement ==
  ASSUME Ordered
  PROVE  Spec => ImplementsOrder
<1>1. Init => Order!OrderInit
  BY DEF Init, Order!OrderInit
<1>2. Init => OrderInv
  BY OrderInitially
<1>3. IInv /\ OrderInv /\ [Next]_vars => OrderInv'
  BY OrderInductive
<1>4. IInv /\ OrderInv /\ [Next]_vars => [Order!OrderNext]_(Order!orderVars)
  BY StepImplementsOrder
<1>5. QED
  BY <1>1, <1>2, <1>3, <1>4, Invariance, PTL DEF Spec, ImplementsOrder, Order!OrderSpec

=============================================================================
