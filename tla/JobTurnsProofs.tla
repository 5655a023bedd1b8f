--------------------------- MODULE JobTurnsProofs ---------------------------
(***************************************************************************)
(* Safety of JobTurns for every value of the constants: any number of      *)
(* jobs, messages, threads, channels and workers, any buffer size; and,    *)
(* without stop requests, the refinement of JobLanes.                      *)
(*                                                                         *)
(* TypeOK, NoChannelPanic and NoStrandedMessage come first.  None is       *)
(* inductive by itself: what keeps a registered channel open is that its   *)
(* owner is the job it is registered for, that channels not made yet have  *)
(* neither owner nor processor, and that each channel is handed to the     *)
(* pool once.  IInv collects these facts, one named part for each kind of  *)
(* thread or shared structure.                                             *)
(*                                                                         *)
(* The second half is about marks and counts.  A message in flight is at   *)
(* one site: a thread about to send it, a channel, the hand of a processor *)
(* or of a stop request.  Every step of the dispatcher puts a message at a *)
(* site, takes one off, or carries one from a site to another.  The count  *)
(* of a job's accepted messages is the number of its messages at sites     *)
(* that are no sending thread, so a claim, which needs a count of zero and *)
(* stops sending, finds all of them empty.                                 *)
(***************************************************************************)
EXTENDS JobTurns, SequenceTheorems, FiniteSetTheorems, TLAPS

(* A running Dispatch has an entry; the channel it is about to submit is   *)
(* its own and no processor has been started on it.                        *)
DeliveryInv ==
  /\ \A t \in Deliverers : delivery[t].pc # "none" => delivery[t].entry \in Entries
  /\ \A t \in Deliverers : delivery[t].pc = "submit" =>
       delivery[t].ch \in Channels /\ proc[delivery[t].ch] = "created"
  /\ \A t, u \in Deliverers :
       delivery[t].pc = "submit" /\ delivery[u].pc = "submit"
         /\ delivery[t].ch = delivery[u].ch => t = u

(* What waits in the pool waits there once. *)
PoolInv ==
  /\ \A k \in 1..Len(pool) : proc[pool[k]] = "submitted"
  /\ \A k, l \in 1..Len(pool) : pool[k] = pool[l] => k = l

(* A processor that has taken a message holds it, and runs a turn only     *)
(* while it handles one.                                                   *)
ProcessorInv ==
  /\ \A c \in Channels : proc[c] \in {"handle", "finish", "dropped"} => held[c] \in Entries
  /\ \A c \in Channels : phase[c] # "none" => proc[c] = "handle"
  /\ \A c \in Channels : c > made => proc[c] = "unborn"

StopInv ==
  \A s \in Stoppers :
    /\ stops[s].pc # "none" => stops[s].job \in Jobs
    /\ stops[s].pc \in {"drain", "dropped"} => stops[s].ch \in Channels
    /\ stops[s].pc = "dropped" => stops[s].held \in Entries

CheckInv == \A i \in IdleChecks : checks[i].pc # "none" => checks[i].job \in Jobs

(* A registered channel is open and owned by the job it is registered for. *)
ChannelInv ==
  /\ \A j \in Jobs : activeJobs[j] # NoChannel =>
       /\ activeJobs[j] <= made
       /\ closes[activeJobs[j]] = 0
       /\ owner[activeJobs[j]] = j
  /\ \A c \in Channels : closes[c] <= 1
  /\ \A c \in Channels : c > made => closes[c] = 0
  /\ \A c \in Channels : c <= made => owner[c] \in Jobs

IInv ==
  /\ TypeOK
  /\ DeliveryInv
  /\ PoolInv
  /\ ProcessorInv
  /\ StopInv
  /\ CheckInv
  /\ ChannelInv
  /\ NoStrandedMessage

-----------------------------------------------------------------------------
(* Records, sequences and the operators of AppState and Dispatcher. *)

LEMMA EntryFields ==
  ASSUME NEW e \in Entries
  PROVE  e.id \in Messages /\ JobOf[e.id] \in Jobs
  BY JobOfAssumption DEF Entries

LEMMA NoEntryIsNone == NoEntry \notin Entries
  BY NoneAssumption DEF NoEntry, Entries

LEMMA HeldFields ==
  ASSUME NEW e \in Entries \cup {NoEntry}
  PROVE  e.id \in Messages \cup {None}
  BY DEF Entries, NoEntry

LEMMA AppendType ==
  ASSUME NEW S, NEW s \in Seq(S), NEW e \in S
  PROVE  /\ Append(s, e) \in Seq(S)
         /\ Len(Append(s, e)) = Len(s) + 1
         /\ \A k \in 1..Len(s) : Append(s, e)[k] = s[k]
         /\ Append(s, e)[Len(s) + 1] = e
  OBVIOUS

LEMMA TailType ==
  ASSUME NEW S, NEW s \in Seq(S), s # <<>>
  PROVE  /\ Head(s) \in S
         /\ Tail(s) \in Seq(S)
         /\ Len(s) > 0
         /\ Head(s) = s[1]
         /\ Len(Tail(s)) = Len(s) - 1
         /\ \A k \in 1..Len(Tail(s)) : Tail(s)[k] = s[k + 1]
  OBVIOUS

LEMMA DeliveryFields ==
  ASSUME NEW d \in Deliveries
  PROVE  /\ d.entry \in Entries \cup {NoEntry}
         /\ d.ch \in Channels \cup {NoChannel}
         /\ \A pc \in DeliveryStates :
              /\ [d EXCEPT !.pc = pc] \in Deliveries
              /\ [d EXCEPT !.pc = pc].pc = pc
              /\ [d EXCEPT !.pc = pc].entry = d.entry
  BY DEF Deliveries

LEMMA NoDeliveryType == NoDelivery \in Deliveries /\ NoDelivery.pc = "none"
  BY DEF NoDelivery, Deliveries, DeliveryStates

LEMMA UpdateJobDataType ==
  ASSUME AppStateTypeOK, NEW j, NEW status \in JobStatus, NEW m \in Messages \cup {None},
         UpdateJobData(j, status, m)
  PROVE  jobs' \in [Jobs -> Rows] /\ snapshots' \in [Jobs -> SUBSET IdleChecks]
<1> DEFINE row == [status |-> status, msg |-> m]
<1>1. row \in Rows
  BY DEF Rows
<1>2. QED
  BY <1>1 DEF AppStateTypeOK, UpdateJobData

LEMMA RemoveJobType ==
  ASSUME AppStateTypeOK, NEW j, RemoveJob(j)
  PROVE  jobs' \in [Jobs -> Rows] /\ snapshots' \in [Jobs -> SUBSET IdleChecks]
<1>1. NoRow \in Rows
  BY DEF Rows
<1>2. QED
  BY <1>1 DEF AppStateTypeOK, RemoveJob

LEMMA FinishAcceptedType ==
  ASSUME MarkTypeOK, NEW j \in Jobs, NEW m, FinishAccepted(j, m), UNCHANGED completingJobs
  PROVE  MarkTypeOK'
<1>1. acceptedMessages[j] \in Nat
  BY DEF MarkTypeOK
<1>2. (IF acceptedMessages[j] - 1 <= 0 THEN 0 ELSE acceptedMessages[j] - 1) \in Nat
  BY <1>1
<1>3. acceptedMessages' \in [Jobs -> Nat]
  BY <1>2 DEF MarkTypeOK, FinishAccepted
<1>4. QED
  BY <1>3 DEF MarkTypeOK, FinishAccepted

LEMMA CloseLockedType ==
  ASSUME ChannelTypeOK, ChannelInv, NEW j, NEW c \in Channels, CloseLocked(j, c),
         j \in Jobs, UNCHANGED <<made, owner>>
  PROVE  /\ activeJobs' \in [Jobs -> Channels \cup {NoChannel}]
         /\ closes' \in [Channels -> Nat]
         /\ ChannelInv'
         /\ activeJobs'[j] # c
         /\ \A k \in Jobs : activeJobs'[k] # NoChannel => activeJobs'[k] = activeJobs[k]
<1> USE DispatcherAssumption DEF Channels, NoChannel
<1>1. CASE activeJobs[j] = c
  <2>1. closes[c] = 0 /\ c # 0 /\ owner[c] = j /\ c <= made
    BY <1>1 DEF ChannelInv
  <2>2. activeJobs' = [activeJobs EXCEPT ![j] = 0] /\ closes' = [closes EXCEPT ![c] = 1]
    BY <1>1, <2>1 DEF CloseLocked, ChannelTypeOK
  <2>3. \A k \in Jobs : activeJobs'[k] # 0 =>
          k # j /\ activeJobs'[k] = activeJobs[k] /\ activeJobs[k] # c
    BY <2>1, <2>2 DEF ChannelTypeOK, ChannelInv
  <2>4. ChannelInv'
    BY <2>1, <2>2, <2>3 DEF ChannelTypeOK, ChannelInv
  <2>5. QED
    BY <2>1, <2>2, <2>3, <2>4 DEF ChannelTypeOK
<1>2. CASE activeJobs[j] # c
  BY <1>2 DEF CloseLocked, ChannelTypeOK, ChannelInv
<1>3. QED
  BY <1>1, <1>2
(* What a step leaves alone keeps the facts about it. *)
LEMMA Frame ==
  ASSUME IInv
  PROVE  /\ UNCHANGED appStateVars => AppStateTypeOK'
         /\ UNCHANGED channelVars => ChannelTypeOK'
         /\ UNCHANGED markVars => MarkTypeOK'
         /\ UNCHANGED processorVars => ProcessorTypeOK'
         /\ UNCHANGED deliveryVars => DeliveryTypeOK'
         /\ UNCHANGED turnVars => TurnTypeOK'
         /\ UNCHANGED stopVars => StopTypeOK'
         /\ UNCHANGED stops => StopInv'
         /\ UNCHANGED checks => CheckTypeOK' /\ CheckInv'
         /\ UNCHANGED <<delivery, proc>> => DeliveryInv'
         /\ UNCHANGED <<pool, proc>> => PoolInv'
         /\ UNCHANGED <<proc, held, phase, made>> => ProcessorInv'
         /\ UNCHANGED <<activeJobs, made, owner, closes>> => ChannelInv'
         /\ UNCHANGED <<activeJobs, proc, queue>> => NoStrandedMessage'
<1>1. /\ UNCHANGED appStateVars => AppStateTypeOK'
      /\ UNCHANGED channelVars => ChannelTypeOK'
      /\ UNCHANGED markVars => MarkTypeOK'
      /\ UNCHANGED processorVars => ProcessorTypeOK'
      /\ UNCHANGED deliveryVars => DeliveryTypeOK'
      /\ UNCHANGED turnVars => TurnTypeOK'
      /\ UNCHANGED stopVars => StopTypeOK'
      /\ UNCHANGED checks => CheckTypeOK'
  BY DEF IInv, TypeOK, appStateVars, AppStateTypeOK, channelVars, ChannelTypeOK, markVars,
    MarkTypeOK, processorVars, ProcessorTypeOK, deliveryVars, DeliveryTypeOK, turnVars,
    TurnTypeOK, stopVars, StopTypeOK, CheckTypeOK
<1>2. UNCHANGED stops => StopInv'
  BY DEF IInv, StopInv
<1>3. UNCHANGED checks => CheckInv'
  BY DEF IInv, CheckInv
<1>4. UNCHANGED <<delivery, proc>> => DeliveryInv'
  BY DEF IInv, DeliveryInv
<1>5. UNCHANGED <<pool, proc>> => PoolInv'
  BY DEF IInv, PoolInv
<1>6. UNCHANGED <<proc, held, phase, made>> => ProcessorInv'
  BY DEF IInv, ProcessorInv
<1>7. UNCHANGED <<activeJobs, made, owner, closes>> => ChannelInv'
  BY DEF IInv, ChannelInv
<1>8. UNCHANGED <<activeJobs, proc, queue>> => NoStrandedMessage'
  BY DEF IInv, NoStrandedMessage
<1>9. QED
  BY <1>1, <1>2, <1>3, <1>4, <1>5, <1>6, <1>7, <1>8

(* A processor that has been started goes on to another of its states. *)
Started == ProcStates \ {"unborn", "created", "submitted"}

LEMMA ProcessorMoves ==
  ASSUME IInv, NEW c \in Channels, proc[c] \in Started, NEW p \in Started,
         proc' = [proc EXCEPT ![c] = p], UNCHANGED <<pool, delivery>>
  PROVE  proc' \in [Channels -> ProcStates] /\ DeliveryInv' /\ PoolInv'
<1>1. proc' \in [Channels -> ProcStates]
  BY DEF IInv, TypeOK, ProcessorTypeOK, Started
<1>2. DeliveryInv'
  BY DEF IInv, TypeOK, ProcessorTypeOK, DeliveryInv, Started
<1>3. PoolInv'
  BY ElementOfSeq DEF IInv, TypeOK, ProcessorTypeOK, PoolInv, Started
<1>4. QED
  BY <1>1, <1>2, <1>3

LEMMA EvictJobKeeps ==
  ASSUME IInv, NEW j \in Jobs, EvictJob(j), UNCHANGED <<made, owner, queue, proc>>
  PROVE  ChannelTypeOK' /\ ChannelInv' /\ NoStrandedMessage'
<1>1. CASE activeJobs[j] = NoChannel
  BY <1>1, Frame DEF EvictJob, channelVars
<1>2. CASE activeJobs[j] # NoChannel
  <2>1. activeJobs[j] \in Channels /\ CloseLocked(j, activeJobs[j])
    BY <1>2 DEF EvictJob, IInv, TypeOK, ChannelTypeOK
  <2>2. /\ activeJobs' \in [Jobs -> Channels \cup {NoChannel}]
        /\ closes' \in [Channels -> Nat]
        /\ ChannelInv'
        /\ \A k \in Jobs : activeJobs'[k] # NoChannel => activeJobs'[k] = activeJobs[k]
    BY <2>1, CloseLockedType DEF IInv, TypeOK
  <2>3. ChannelTypeOK'
    BY <2>2 DEF IInv, TypeOK, ChannelTypeOK
  <2>4. NoStrandedMessage'
    BY <2>2 DEF IInv, TypeOK, ChannelTypeOK, NoStrandedMessage
  <2>5. QED
    BY <2>2, <2>3, <2>4
<1>3. QED
  BY <1>1, <1>2

-----------------------------------------------------------------------------

LEMMA OfferStep ==
  ASSUME IInv, NEW t \in Deliverers, NEW m \in Messages, NEW kind \in {"start", "reply"},
         Offer(t, m, kind), UNCHANGED restVars
  PROVE  IInv'
<1> DEFINE e == [id |-> m, kind |-> kind]
           d == [pc |-> "check", entry |-> e, ch |-> NoChannel]
<1>1. AppStateTypeOK'
  BY DEF IInv, TypeOK, AppStateTypeOK, Offer, AddQueuedMessage
<1>2. e \in Entries /\ d \in Deliveries
  BY DEF Entries, Deliveries, DeliveryStates, NoChannel
<1>3. DeliveryTypeOK'
  <2>1. offers[m] - 1 \in Nat
    BY DEF IInv, TypeOK, DeliveryTypeOK, Offer
  <2>2. offers' = [offers EXCEPT ![m] = offers[m] - 1] /\ delivery' = [delivery EXCEPT ![t] = d]
    BY DEF Offer
  <2> HIDE DEF d
  <2>3. QED
    BY <1>2, <2>1, <2>2 DEF IInv, TypeOK, DeliveryTypeOK
<1>4. DeliveryInv'
  <2>1. delivery' = [delivery EXCEPT ![t] = d] /\ UNCHANGED proc
    BY DEF Offer, processorVars
  <2>2. QED
    BY <1>2, <2>1 DEF IInv, TypeOK, DeliveryTypeOK, DeliveryInv
<1>5. QED
  BY <1>1, <1>3, <1>4, Frame
    DEF IInv, TypeOK, Offer, restVars, stopVars, turnVars, channelVars, processorVars
LEMMA DispatchStep ==
  ASSUME IInv, NEW t \in Deliverers, Dispatch(t), UNCHANGED restVars
  PROVE  IInv'
<1> DEFINE d == delivery[t]
           j == JobOf[d.entry.id]
<1>1. d \in Deliveries /\ (d.pc # "none" => d.entry \in Entries)
  BY DEF IInv, TypeOK, DeliveryTypeOK, DeliveryInv
<1>2. UNCHANGED <<turnVars, stopVars, checks, stops, phase>>
  BY DEF restVars, turnVars, stopVars
<1>3. TurnTypeOK' /\ StopTypeOK' /\ CheckTypeOK' /\ StopInv' /\ CheckInv'
  BY <1>2, Frame
<1>4. ASSUME NEW next \in Deliveries, delivery' = [delivery EXCEPT ![t] = next],
             next.pc \notin {"none", "submit"} => next.entry = d.entry /\ d.pc # "none",
             next.pc # "submit", UNCHANGED <<offers, proc>>
      PROVE  DeliveryTypeOK' /\ DeliveryInv'
  BY <1>1, <1>4 DEF IInv, TypeOK, DeliveryTypeOK, DeliveryInv
<1>5. CASE DispatchCheckDone(t)
  <2> DEFINE next == IF d.entry.id \in doneMessages THEN NoDelivery ELSE [d EXCEPT !.pc = "mark"]
  <2>1. /\ next \in Deliveries
        /\ next.pc \in {"none", "mark"}
        /\ next.pc = "mark" => next.entry = d.entry
        /\ d.pc = "check"
        /\ delivery' = [delivery EXCEPT ![t] = next]
    BY <1>1, <1>5, DeliveryFields, NoDeliveryType DEF DispatchCheckDone, DeliveryStates
  <2>2. UNCHANGED <<offers, proc>>
    BY <1>5 DEF DispatchCheckDone, processorVars
  <2> HIDE DEF next
  <2>3. DeliveryTypeOK' /\ DeliveryInv'
    BY <1>4, <2>1, <2>2
  <2>4. QED
    BY <1>2, <1>3, <1>5, <2>2, <2>3, Frame
      DEF IInv, TypeOK, DispatchCheckDone, channelVars, processorVars
<1>6. CASE DispatchMark(t)
  <2> DEFINE next == IF d.entry.id \in inFlight THEN NoDelivery ELSE [d EXCEPT !.pc = "send"]
  <2>1. /\ next \in Deliveries
        /\ next.pc \in {"none", "send"}
        /\ next.pc = "send" => next.entry = d.entry
        /\ d.pc = "mark"
        /\ delivery' = [delivery EXCEPT ![t] = next]
    BY <1>1, <1>6, DeliveryFields, NoDeliveryType DEF DispatchMark, DeliveryStates
  <2>2. UNCHANGED <<offers, proc>>
    BY <1>6 DEF DispatchMark, processorVars
  <2> HIDE DEF next
  <2>3. DeliveryTypeOK' /\ DeliveryInv'
    BY <1>4, <2>1, <2>2
  <2>4. MarkTypeOK'
    BY <1>1, <1>6, <2>1, EntryFields DEF DispatchMark, IInv, TypeOK, MarkTypeOK
  <2>5. QED
    BY <1>2, <1>3, <1>6, <2>3, <2>4, Frame
      DEF IInv, TypeOK, DispatchMark, channelVars, processorVars
<1>7. CASE DispatchRefuse(t)
  <2>1. UNCHANGED <<offers, proc>> /\ delivery' = [delivery EXCEPT ![t] = NoDelivery]
    BY <1>7 DEF DispatchRefuse, processorVars
  <2>2. DeliveryTypeOK' /\ DeliveryInv'
    BY <1>4, <2>1, NoDeliveryType
  <2>3. MarkTypeOK'
    BY <1>7 DEF DispatchRefuse, IInv, TypeOK, MarkTypeOK
  <2>4. QED
    BY <1>2, <1>3, <1>7, <2>2, <2>3, Frame
      DEF IInv, TypeOK, DispatchRefuse, channelVars, processorVars
<1>8. CASE DispatchSend(t)
  <2> DEFINE c == activeJobs[j]
  <2>1. /\ j \in Jobs /\ c \in Channels /\ c # NoChannel /\ d.entry \in Entries
        /\ proc[c] # "gone"
    BY <1>1, <1>8, EntryFields
      DEF DispatchSend, IInv, TypeOK, ChannelTypeOK, NoStrandedMessage
  <2>2. UNCHANGED <<offers, proc>> /\ delivery' = [delivery EXCEPT ![t] = NoDelivery]
    BY <1>8 DEF DispatchSend, processorVars
  <2>3. DeliveryTypeOK' /\ DeliveryInv'
    BY <1>4, <2>2, NoDeliveryType
  <2>4. queue' = [queue EXCEPT ![c] = Append(queue[c], d.entry)]
    BY <1>8 DEF DispatchSend
  <2>5. ChannelTypeOK'
    <3>1. Append(queue[c], d.entry) \in Seq(Entries)
      BY <2>1, AppendType DEF IInv, TypeOK, ChannelTypeOK
    <3>2. QED
      BY <1>8, <2>1, <2>4, <3>1 DEF DispatchSend, IInv, TypeOK, ChannelTypeOK
  <2>6. MarkTypeOK'
    <3>1. acceptedMessages[j] + 1 \in Nat
      BY <2>1 DEF IInv, TypeOK, MarkTypeOK
    <3>2. QED
      BY <1>8, <3>1 DEF DispatchSend, IInv, TypeOK, MarkTypeOK
  <2>7. NoStrandedMessage'
    BY <1>8, <2>1, <2>2, <2>4 DEF DispatchSend, IInv, TypeOK, ChannelTypeOK, NoStrandedMessage
  <2>8. QED
    BY <1>2, <1>3, <1>8, <2>2, <2>3, <2>5, <2>6, <2>7, Frame
      DEF IInv, TypeOK, DispatchSend, processorVars
<1>9. CASE DispatchSendNew(t)
  <2> DEFINE c == made + 1
             next == [pc |-> "submit", entry |-> d.entry, ch |-> c]
  <2>1. /\ j \in Jobs /\ c \in Channels /\ d.pc = "send" /\ d.entry \in Entries
        /\ made < c /\ c # NoChannel
    BY <1>1, <1>9, EntryFields, DispatcherAssumption
      DEF DispatchSendNew, IInv, TypeOK, ChannelTypeOK, Channels, NoChannel
  <2>2. next \in Deliveries /\ next.pc = "submit" /\ next.entry = d.entry /\ next.ch = c
    BY <2>1 DEF Deliveries, DeliveryStates
  <2>3. /\ proc' = [proc EXCEPT ![c] = "created"]
        /\ delivery' = [delivery EXCEPT ![t] = next]
        /\ proc[c] = "unborn"
        /\ UNCHANGED <<pool, held, offers, phase, closes>>
    BY <1>2, <1>9, <2>1 DEF DispatchSendNew, IInv, ProcessorInv
  <2> HIDE DEF next
  <2>4. DeliveryTypeOK'
    BY <2>2, <2>3 DEF IInv, TypeOK, DeliveryTypeOK
  <2>5. DeliveryInv'
    BY <2>1, <2>2, <2>3 DEF IInv, TypeOK, DeliveryTypeOK, ProcessorTypeOK, DeliveryInv
  <2>6. ProcessorTypeOK'
    BY <2>1, <2>3 DEF IInv, TypeOK, ProcessorTypeOK, ProcStates
  <2>7. PoolInv'
    BY <2>1, <2>3, ElementOfSeq DEF IInv, TypeOK, ProcessorTypeOK, PoolInv
  <2>8. ChannelTypeOK'
    <3>1. Append(queue[c], d.entry) \in Seq(Entries)
      BY <2>1, AppendType DEF IInv, TypeOK, ChannelTypeOK
    <3>2. /\ queue' = [queue EXCEPT ![c] = Append(queue[c], d.entry)]
          /\ made' = c
          /\ owner' = [owner EXCEPT ![c] = j]
          /\ activeJobs' = [activeJobs EXCEPT ![j] = c]
          /\ closes' = closes
      BY <1>9, <2>3 DEF DispatchSendNew
    <3>3. queue' \in [Channels -> Seq(Entries)]
      BY <2>1, <3>1, <3>2 DEF IInv, TypeOK, ChannelTypeOK
    <3>4. QED
      BY <2>1, <3>2, <3>3 DEF IInv, TypeOK, ChannelTypeOK
  <2>9. MarkTypeOK'
    <3>1. acceptedMessages[j] + 1 \in Nat
      BY <2>1 DEF IInv, TypeOK, MarkTypeOK
    <3>2. QED
      BY <1>9, <3>1 DEF DispatchSendNew, IInv, TypeOK, MarkTypeOK
  <2>10. /\ made' = c
         /\ owner' = [owner EXCEPT ![c] = j]
         /\ activeJobs' = [activeJobs EXCEPT ![j] = c]
    BY <1>9 DEF DispatchSendNew
  <2>11. ProcessorInv'
    <3>1. \A k \in Channels : proc'[k] = (IF k = c THEN "created" ELSE proc[k])
      BY <2>3 DEF IInv, TypeOK, ProcessorTypeOK
    <3>2. phase[c] = "none"
      BY <2>1, <2>3 DEF IInv, ProcessorInv
    <3>3. \A k \in Channels : k > c => k > made /\ k # c
      BY <2>1 DEF IInv, TypeOK, ChannelTypeOK, Channels, NoChannel
    <3>4. QED
      BY <2>3, <2>10, <3>1, <3>2, <3>3 DEF IInv, ProcessorInv
  <2>12. ChannelInv'
    <3>1. closes' = closes /\ closes[c] = 0 /\ made \in Nat
      BY <2>1, <2>3, DispatcherAssumption
        DEF IInv, TypeOK, ChannelTypeOK, ChannelInv, Channels, NoChannel
    <3>2. \A k \in Jobs : activeJobs'[k] # NoChannel =>
            \/ k = j /\ activeJobs'[k] = c
            \/ k # j /\ activeJobs'[k] = activeJobs[k] /\ activeJobs[k] \in Channels /\ activeJobs[k] # c
      BY <2>1, <2>10, <3>1 DEF IInv, TypeOK, ChannelTypeOK, ChannelInv, Channels, NoChannel
    <3>3. \A k \in Channels : k <= c => k <= made \/ k = c
      BY <3>1 DEF Channels
    <3>4. \A k \in Channels : owner'[k] = (IF k = c THEN j ELSE owner[k])
      BY <2>10 DEF IInv, TypeOK, ChannelTypeOK
    <3>5. \A k \in Jobs : activeJobs'[k] # NoChannel =>
            /\ activeJobs'[k] <= made'
            /\ closes'[activeJobs'[k]] = 0
            /\ owner'[activeJobs'[k]] = k
      BY <2>1, <2>10, <3>1, <3>2, <3>4 DEF IInv, ChannelInv, Channels
    <3>6. \A k \in Channels : k > c => k > made
      BY <2>1, <3>1 DEF Channels
    <3>7. QED
      BY <2>1, <2>10, <3>1, <3>3, <3>4, <3>5, <3>6 DEF IInv, ChannelInv
  <2>13. NoStrandedMessage'
    BY <1>9, <2>1, <2>3, <2>10
      DEF DispatchSendNew, IInv, TypeOK, ChannelTypeOK, ProcessorTypeOK, NoStrandedMessage
  <2>14. QED
    BY <1>3, <1>9, <2>4, <2>5, <2>6, <2>7, <2>8, <2>9, <2>11, <2>12, <2>13, Frame
      DEF IInv, TypeOK, DispatchSendNew
<1>10. CASE DispatchSubmit(t)
  <2> DEFINE c == d.ch
  <2>1. c \in Channels /\ proc[c] = "created"
    BY <1>10 DEF DispatchSubmit, IInv, DeliveryInv
  <2>2. /\ pool' = Append(pool, c)
        /\ proc' = [proc EXCEPT ![c] = "submitted"]
        /\ delivery' = [delivery EXCEPT ![t] = NoDelivery]
        /\ UNCHANGED <<offers, held, phase, made>>
    BY <1>2, <1>10 DEF DispatchSubmit, channelVars
  <2>3. ProcessorTypeOK'
    BY <2>1, <2>2, AppendType DEF IInv, TypeOK, ProcessorTypeOK, ProcStates
  <2>4. DeliveryTypeOK'
    BY <2>2, NoDeliveryType DEF IInv, TypeOK, DeliveryTypeOK
  <2>5. DeliveryInv'
    BY <1>10, <2>1, <2>2, NoDeliveryType
      DEF DispatchSubmit, IInv, TypeOK, DeliveryTypeOK, ProcessorTypeOK, DeliveryInv
  <2>6. PoolInv'
    <3>1. /\ Len(pool) \in Nat
          /\ Len(pool') = Len(pool) + 1
          /\ pool'[Len(pool) + 1] = c
          /\ \A k \in 1..Len(pool) : pool'[k] = pool[k] /\ pool[k] \in Channels /\ pool[k] # c
      BY <2>1, <2>2, AppendType, ElementOfSeq, LenProperties
        DEF IInv, TypeOK, ProcessorTypeOK, PoolInv
    <3>2. \A k \in 1..Len(pool') : k \in 1..Len(pool) \/ k = Len(pool) + 1
      BY <3>1
    <3>3. QED
      BY <2>1, <2>2, <3>1, <3>2 DEF IInv, TypeOK, ProcessorTypeOK, PoolInv
  <2>7. ProcessorInv'
    BY <2>1, <2>2 DEF IInv, TypeOK, ProcessorTypeOK, ProcessorInv
  <2>8. NoStrandedMessage'
    BY <1>10, <2>1, <2>2
      DEF DispatchSubmit, channelVars, IInv, TypeOK, ChannelTypeOK, ProcessorTypeOK, NoStrandedMessage
  <2>9. QED
    BY <1>3, <1>10, <2>3, <2>4, <2>5, <2>6, <2>7, <2>8, Frame
      DEF IInv, TypeOK, DispatchSubmit, channelVars
<1>11. QED
  BY <1>5, <1>6, <1>7, <1>8, <1>9, <1>10 DEF Dispatch

LEMMA StartTaskStep ==
  ASSUME IInv, StartTask, UNCHANGED restVars
  PROVE  IInv'
<1> DEFINE c == Head(pool)
<1>1. /\ c \in Channels
      /\ proc[c] = "submitted"
      /\ Len(pool') \in Nat /\ Len(pool) \in Nat
      /\ pool' \in Seq(Channels)
      /\ \A k \in 1..Len(pool') : k + 1 \in 1..Len(pool) /\ pool'[k] = pool[k + 1]
      /\ 1 \in 1..Len(pool) /\ c = pool[1]
  BY TailType, LenProperties DEF StartTask, IInv, TypeOK, ProcessorTypeOK, PoolInv
<1>2. proc' = [proc EXCEPT ![c] = "receive"]
  BY DEF StartTask
<1>3. UNCHANGED <<held, delivery, phase, made, activeJobs, queue, owner, closes>>
  BY DEF StartTask, deliveryVars, restVars, turnVars, channelVars
<1>4. ProcessorTypeOK'
  BY <1>1, <1>2, <1>3 DEF IInv, TypeOK, ProcessorTypeOK, ProcStates
<1>5. DeliveryInv'
  BY <1>1, <1>2, <1>3 DEF IInv, TypeOK, ProcessorTypeOK, DeliveryInv
<1>6. PoolInv'
  <2>1. \A k \in 1..Len(pool') : pool'[k] \in Channels /\ pool'[k] # c /\ proc[pool'[k]] = "submitted"
    BY <1>1, ElementOfSeq DEF IInv, TypeOK, ProcessorTypeOK, PoolInv
  <2>2. QED
    BY <1>1, <1>2, <2>1 DEF IInv, TypeOK, ProcessorTypeOK, PoolInv
<1>7. ProcessorInv'
  BY <1>1, <1>2, <1>3 DEF IInv, TypeOK, ProcessorTypeOK, ProcessorInv
<1>8. NoStrandedMessage'
  BY <1>1, <1>2, <1>3 DEF IInv, TypeOK, ChannelTypeOK, ProcessorTypeOK, NoStrandedMessage
<1>9. QED
  BY <1>3, <1>4, <1>5, <1>6, <1>7, <1>8, Frame
    DEF IInv, TypeOK, StartTask, restVars, stopVars

LEMMA ProcessStep ==
  ASSUME IInv, NEW c \in Channels, Process(c), UNCHANGED restVars
  PROVE  IInv'
<1>1. UNCHANGED <<turnVars, stopVars, checks, stops, phase>>
  BY DEF restVars, turnVars, stopVars
<1>2. TurnTypeOK' /\ StopTypeOK' /\ CheckTypeOK' /\ StopInv' /\ CheckInv'
  BY <1>1, Frame
<1>3. /\ queue[c] \in Seq(Entries)
      /\ held[c] \in Entries \cup {NoEntry}
      /\ (proc[c] # "unborn" => owner[c] \in Jobs)
      /\ (proc[c] # "handle" => phase[c] = "none")
  BY DispatcherAssumption
    DEF IInv, TypeOK, ChannelTypeOK, ProcessorTypeOK, ProcessorInv, ChannelInv, Channels, NoChannel
<1>4. ASSUME queue[c] # <<>>
      PROVE  /\ Head(queue[c]) \in Entries
             /\ [queue EXCEPT ![c] = Tail(@)] \in [Channels -> Seq(Entries)]
  BY <1>3, <1>4, TailType DEF IInv, TypeOK, ChannelTypeOK
<1>5. CASE Receive(c)
  <2>1. /\ proc' = [proc EXCEPT ![c] = "handle"]
        /\ held' = [held EXCEPT ![c] = Head(queue[c])]
        /\ proc[c] = "receive" /\ queue[c] # <<>>
        /\ UNCHANGED <<pool, delivery, activeJobs, closes, owner, made>>
    BY <1>5 DEF Receive, deliveryVars
  <2>2. proc' \in [Channels -> ProcStates] /\ DeliveryInv' /\ PoolInv'
    BY <2>1, ProcessorMoves DEF Started, ProcStates
  <2>3. ChannelTypeOK' /\ ProcessorTypeOK'
    BY <1>4, <1>5, <2>1, <2>2 DEF Receive, IInv, TypeOK, ChannelTypeOK, ProcessorTypeOK
  <2>4. ProcessorInv'
    BY <1>1, <1>4, <2>1 DEF IInv, TypeOK, ProcessorTypeOK, ProcessorInv
  <2>5. NoStrandedMessage'
    BY <1>5, <2>1 DEF Receive, IInv, TypeOK, ChannelTypeOK, ProcessorTypeOK, NoStrandedMessage
  <2>6. QED
    BY <1>2, <1>5, <2>1, <2>2, <2>3, <2>4, <2>5, Frame DEF IInv, TypeOK, Receive
<1>6. CASE ReceiveClosed(c)
  <2>1. /\ proc' = [proc EXCEPT ![c] = "cleanup"]
        /\ proc[c] = "receive"
        /\ UNCHANGED <<pool, held, delivery, activeJobs, queue, made, owner, closes>>
    BY <1>6 DEF ReceiveClosed, deliveryVars, channelVars
  <2>2. proc' \in [Channels -> ProcStates] /\ DeliveryInv' /\ PoolInv'
    BY <2>1, ProcessorMoves DEF Started, ProcStates
  <2>3. ProcessorTypeOK' /\ ProcessorInv'
    BY <1>1, <2>1, <2>2 DEF IInv, TypeOK, ProcessorTypeOK, ProcessorInv
  <2>4. NoStrandedMessage'
    BY <2>1 DEF IInv, TypeOK, ChannelTypeOK, ProcessorTypeOK, NoStrandedMessage
  <2>5. QED
    BY <1>2, <1>6, <2>1, <2>2, <2>3, <2>4, Frame DEF IInv, TypeOK, ReceiveClosed
<1>7. CASE FinishHandled(c)
  <2>1. /\ proc' = [proc EXCEPT ![c] = "check"]
        /\ held' = [held EXCEPT ![c] = NoEntry]
        /\ proc[c] = "finish"
        /\ UNCHANGED <<pool, delivery, activeJobs, queue, made, owner, closes>>
    BY <1>7 DEF FinishHandled, deliveryVars, channelVars
  <2>2. proc' \in [Channels -> ProcStates] /\ DeliveryInv' /\ PoolInv'
    BY <2>1, ProcessorMoves DEF Started, ProcStates
  <2>3. ProcessorTypeOK' /\ ProcessorInv'
    BY <1>1, <2>1, <2>2 DEF IInv, TypeOK, ProcessorTypeOK, ProcessorInv
  <2>4. NoStrandedMessage'
    BY <2>1 DEF IInv, TypeOK, ChannelTypeOK, ProcessorTypeOK, NoStrandedMessage
  <2>5. MarkTypeOK'
    BY <1>3, <1>7, <2>1, FinishAcceptedType DEF FinishHandled, IInv, TypeOK
  <2>6. QED
    BY <1>2, <1>7, <2>1, <2>2, <2>3, <2>4, <2>5, Frame DEF IInv, TypeOK, FinishHandled
<1>8. CASE CheckJob(c)
  <2>1. PICK p \in {"cleanup", "close", "receive"} : proc' = [proc EXCEPT ![c] = p]
    BY <1>8 DEF CheckJob
  <2>2. /\ proc[c] = "check"
        /\ UNCHANGED <<pool, held, delivery, activeJobs, queue, made, owner, closes>>
    BY <1>8 DEF CheckJob, deliveryVars, channelVars
  <2>3. proc' \in [Channels -> ProcStates] /\ DeliveryInv' /\ PoolInv'
    BY <2>1, <2>2, ProcessorMoves DEF Started, ProcStates
  <2>4. ProcessorTypeOK' /\ ProcessorInv'
    BY <1>1, <2>1, <2>2, <2>3 DEF IInv, TypeOK, ProcessorTypeOK, ProcessorInv
  <2>5. NoStrandedMessage'
    BY <2>1, <2>2 DEF IInv, TypeOK, ChannelTypeOK, ProcessorTypeOK, NoStrandedMessage
  <2>6. QED
    BY <1>2, <1>8, <2>2, <2>3, <2>4, <2>5, Frame DEF IInv, TypeOK, CheckJob
<1>9. CASE CloseIfEmpty(c) \/ Cleanup(c)
  <2>1. CASE queue[c] # <<>> /\ CloseIfEmpty(c)
    <3>1. /\ proc' = [proc EXCEPT ![c] = "receive"]
          /\ proc[c] = "close"
          /\ UNCHANGED <<pool, held, delivery, activeJobs, queue, made, owner, closes>>
      BY <2>1 DEF CloseIfEmpty, deliveryVars, channelVars
    <3>2. proc' \in [Channels -> ProcStates] /\ DeliveryInv' /\ PoolInv'
      BY <3>1, ProcessorMoves DEF Started, ProcStates
    <3>3. ProcessorTypeOK' /\ ProcessorInv'
      BY <1>1, <3>1, <3>2 DEF IInv, TypeOK, ProcessorTypeOK, ProcessorInv
    <3>4. NoStrandedMessage'
      BY <3>1 DEF IInv, TypeOK, ChannelTypeOK, ProcessorTypeOK, NoStrandedMessage
    <3>5. QED
      BY <1>2, <2>1, <3>1, <3>2, <3>3, <3>4, Frame
        DEF IInv, TypeOK, CloseIfEmpty, channelVars
  <2>2. CASE Cleanup(c) \/ (queue[c] = <<>> /\ CloseIfEmpty(c))
    <3>1. PICK p \in {"cleanup", "drain"} : proc' = [proc EXCEPT ![c] = p]
      BY <2>2 DEF CloseIfEmpty, Cleanup
    <3>2. /\ proc[c] \in {"close", "cleanup"}
          /\ UNCHANGED <<pool, held, delivery, queue, made, owner>>
          /\ UNCHANGED <<appStateVars, markVars, deliveryVars>>
          /\ CloseLocked(owner[c], c)
      BY <2>2 DEF CloseIfEmpty, Cleanup, deliveryVars
    <3>3. proc' \in [Channels -> ProcStates] /\ DeliveryInv' /\ PoolInv'
      BY <3>1, <3>2, ProcessorMoves DEF Started, ProcStates
    <3>4. ProcessorTypeOK' /\ ProcessorInv'
      BY <1>1, <3>1, <3>2, <3>3 DEF IInv, TypeOK, ProcessorTypeOK, ProcessorInv
    <3>5. /\ activeJobs' \in [Jobs -> Channels \cup {NoChannel}]
          /\ closes' \in [Channels -> Nat]
          /\ ChannelInv'
          /\ activeJobs'[owner[c]] # c
          /\ \A k \in Jobs : activeJobs'[k] # NoChannel => activeJobs'[k] = activeJobs[k]
      BY <1>3, <3>2, CloseLockedType DEF IInv, TypeOK
    <3>6. ChannelTypeOK'
      BY <3>2, <3>5 DEF IInv, TypeOK, ChannelTypeOK
    <3>7. \A k \in Jobs : activeJobs'[k] # NoChannel => activeJobs'[k] # c
      BY <3>5 DEF IInv, ChannelInv
    <3>8. NoStrandedMessage'
      BY <3>1, <3>2, <3>5, <3>7
        DEF IInv, TypeOK, ChannelTypeOK, ProcessorTypeOK, NoStrandedMessage
    <3>9. QED
      BY <1>2, <3>2, <3>3, <3>4, <3>5, <3>6, <3>8, Frame DEF IInv, TypeOK
  <2>3. QED
    BY <1>9, <2>1, <2>2
<1>10. CASE DrainReceive(c)
  <2>1. /\ proc' = [proc EXCEPT ![c] = "dropped"]
        /\ held' = [held EXCEPT ![c] = Head(queue[c])]
        /\ proc[c] = "drain" /\ queue[c] # <<>>
        /\ UNCHANGED <<pool, delivery, activeJobs, closes, owner, made>>
    BY <1>10 DEF DrainReceive, deliveryVars
  <2>2. proc' \in [Channels -> ProcStates] /\ DeliveryInv' /\ PoolInv'
    BY <2>1, ProcessorMoves DEF Started, ProcStates
  <2>3. ChannelTypeOK' /\ ProcessorTypeOK'
    BY <1>4, <1>10, <2>1, <2>2 DEF DrainReceive, IInv, TypeOK, ChannelTypeOK, ProcessorTypeOK
  <2>4. ProcessorInv'
    BY <1>1, <1>4, <2>1 DEF IInv, TypeOK, ProcessorTypeOK, ProcessorInv
  <2>5. NoStrandedMessage'
    BY <1>10, <2>1
      DEF DrainReceive, IInv, TypeOK, ChannelTypeOK, ProcessorTypeOK, NoStrandedMessage
  <2>6. QED
    BY <1>2, <1>10, <2>1, <2>2, <2>3, <2>4, <2>5, Frame DEF IInv, TypeOK, DrainReceive
<1>11. CASE DrainFinish(c)
  <2>1. /\ proc' = [proc EXCEPT ![c] = "drain"]
        /\ held' = [held EXCEPT ![c] = NoEntry]
        /\ proc[c] = "dropped"
        /\ UNCHANGED <<pool, delivery, activeJobs, queue, made, owner, closes>>
    BY <1>11 DEF DrainFinish, deliveryVars, channelVars
  <2>2. proc' \in [Channels -> ProcStates] /\ DeliveryInv' /\ PoolInv'
    BY <2>1, ProcessorMoves DEF Started, ProcStates
  <2>3. ProcessorTypeOK' /\ ProcessorInv'
    BY <1>1, <2>1, <2>2 DEF IInv, TypeOK, ProcessorTypeOK, ProcessorInv
  <2>4. NoStrandedMessage'
    BY <2>1 DEF IInv, TypeOK, ChannelTypeOK, ProcessorTypeOK, NoStrandedMessage
  <2>5. MarkTypeOK'
    BY <1>3, <1>11, <2>1, FinishAcceptedType DEF DrainFinish, IInv, TypeOK
  <2>6. QED
    BY <1>2, <1>11, <2>1, <2>2, <2>3, <2>4, <2>5, Frame DEF IInv, TypeOK, DrainFinish
<1>12. CASE LeaveProcessor(c)
  <2>1. /\ proc' = [proc EXCEPT ![c] = "gone"]
        /\ proc[c] = "drain" /\ queue[c] = <<>>
        /\ UNCHANGED <<pool, held, delivery, activeJobs, queue, made, owner, closes>>
    BY <1>12 DEF LeaveProcessor, deliveryVars, channelVars
  <2>2. proc' \in [Channels -> ProcStates] /\ DeliveryInv' /\ PoolInv'
    BY <2>1, ProcessorMoves DEF Started, ProcStates
  <2>3. ProcessorTypeOK' /\ ProcessorInv'
    BY <1>1, <2>1, <2>2 DEF IInv, TypeOK, ProcessorTypeOK, ProcessorInv
  <2>4. NoStrandedMessage'
    BY <2>1 DEF IInv, TypeOK, ChannelTypeOK, ProcessorTypeOK, NoStrandedMessage
  <2>5. QED
    BY <1>2, <1>12, <2>1, <2>2, <2>3, <2>4, Frame DEF IInv, TypeOK, LeaveProcessor
<1>13. QED
  BY <1>5, <1>6, <1>7, <1>8, <1>9, <1>10, <1>11, <1>12 DEF Process

LEMMA TurnStep ==
  ASSUME IInv, NEW c \in Channels, HandleMessage(c)
  PROVE  IInv'
<1> DEFINE m == Message(c)
<1>1. m \in Messages \cup {None} /\ (phase[c] # "none" => m \in Messages /\ proc[c] = "handle")
  BY EntryFields, HeldFields DEF Message, IInv, TypeOK, ProcessorTypeOK, ProcessorInv
<1>2. ASSUME UNCHANGED <<dispatcherVars, stopVars, checks>>, AppStateTypeOK', TurnTypeOK',
             \A b \in Channels : phase'[b] # "none" => proc[b] = "handle"
      PROVE  IInv'
  <2>1. UNCHANGED <<channelVars, markVars, processorVars, deliveryVars, stops, checks,
                    delivery, proc, pool, held, made, activeJobs, owner, closes, queue>>
    BY <1>2 DEF dispatcherVars, channelVars, processorVars, deliveryVars, stopVars
  <2>2. ProcessorInv'
    BY <1>2, <2>1 DEF IInv, ProcessorInv
  <2>3. QED
    BY <1>2, <2>1, <2>2, Frame DEF IInv, TypeOK
<1>3. ASSUME NEW ph \in Phases, phase' = [phase EXCEPT ![c] = ph], phase[c] # "none",
             UNCHANGED <<turns, cancelled, dispatcherVars, stopVars, checks>>,
             outcome' \in [Channels -> Outcomes], replies' \in [Messages -> Nat],
             AppStateTypeOK'
      PROVE  IInv'
  <2>1. TurnTypeOK'
    BY <1>3 DEF IInv, TypeOK, TurnTypeOK
  <2>2. \A b \in Channels : phase'[b] # "none" => proc[b] = "handle"
    BY <1>1, <1>3 DEF IInv, TypeOK, TurnTypeOK, ProcessorInv
  <2>3. QED
    BY <1>2, <1>3, <2>1, <2>2
<1>4. /\ outcome \in [Channels -> Outcomes]
      /\ replies \in [Messages -> Nat]
      /\ "unwinding" \in Phases
      /\ \A r \in Outcomes : [outcome EXCEPT ![c] = r] \in [Channels -> Outcomes]
  BY DEF IInv, TypeOK, TurnTypeOK, Phases
<1>5. UNCHANGED appStateVars => AppStateTypeOK'
  BY Frame
<1>6. ASSUME NEW status \in JobStatus, UpdateJobData(Job(c), status, m),
             UNCHANGED <<queuedMessages, doneMessages>>
      PROVE  AppStateTypeOK'
  BY <1>1, <1>6, UpdateJobDataType DEF IInv, TypeOK, AppStateTypeOK
<1>7. CASE BeginTurn(c)
  <2>1. TurnTypeOK'
    BY <1>7 DEF BeginTurn, IInv, TypeOK, TurnTypeOK, Phases
  <2>2. \A b \in Channels : phase'[b] # "none" => proc[b] = "handle"
    BY <1>7 DEF BeginTurn, IInv, TypeOK, TurnTypeOK, ProcessorInv
  <2>3. QED
    BY <1>2, <1>5, <1>7, <2>1, <2>2 DEF BeginTurn
<1>8. CASE LeaveForPoller(c)
  BY <1>3, <1>4, <1>5, <1>8 DEF LeaveForPoller, Return, Outcomes
<1>9. CASE ReadJob(c)
  BY <1>3, <1>4, <1>5, <1>9 DEF ReadJob, Phases
<1>10. CASE AbandonJob(c)
  <2>1. AppStateTypeOK'
    BY <1>10, RemoveJobType DEF AbandonJob, IInv, TypeOK, AppStateTypeOK
  <2>2. QED
    BY <1>3, <1>4, <1>10, <2>1 DEF AbandonJob, Return, Outcomes
<1>11. CASE MarkInProgress(c)
  <2>1. AppStateTypeOK'
    BY <1>6, <1>11 DEF MarkInProgress, JobStatus
  <2>2. QED
    BY <1>3, <1>4, <1>11, <2>1 DEF MarkInProgress, Phases
<1>12. CASE TakeOffQueue(c)
  <2>1. AppStateTypeOK'
    BY <1>12 DEF TakeOffQueue, RemoveQueuedMessage, IInv, TypeOK, AppStateTypeOK
  <2>2. QED
    BY <1>3, <1>4, <1>12, <2>1 DEF TakeOffQueue, Phases
<1>13. CASE FinishTurnWithReply(c)
  <2>1. jobs' \in [Jobs -> Rows] /\ snapshots' \in [Jobs -> SUBSET IdleChecks]
    BY <1>1, <1>13, UpdateJobDataType
      DEF FinishTurnWithReply, CompleteTurn, JobStatus, IInv, TypeOK
  <2>2. AppStateTypeOK'
    BY <1>1, <1>13, <2>1
      DEF FinishTurnWithReply, CompleteTurn, FinishMessage, IInv, TypeOK, AppStateTypeOK
  <2>3. replies' \in [Messages -> Nat]
    <3>1. m \in Messages
      BY <1>1, <1>13 DEF FinishTurnWithReply
    <3>2. replies[m] + 1 \in Nat
      BY <1>4, <3>1
    <3>3. QED
      BY <1>4, <1>13, <3>2 DEF FinishTurnWithReply
  <2>4. PICK result \in {"replied", "failed"} : Return(c, result)
    BY <1>13 DEF FinishTurnWithReply
  <2>5. QED
    BY <1>3, <1>4, <1>13, <2>2, <2>3, <2>4 DEF FinishTurnWithReply, Return, Outcomes
<1>14. CASE FinishStoppedTurn(c)
  <2>1. AppStateTypeOK'
    BY <1>6, <1>14 DEF FinishStoppedTurn, JobStatus
  <2>2. QED
    BY <1>3, <1>4, <1>14, <2>1 DEF FinishStoppedTurn, Return, Outcomes
<1>15. CASE FailCLI(c)
  <2>1. AppStateTypeOK'
    BY <1>6, <1>15 DEF FailCLI, JobStatus
  <2>2. QED
    BY <1>3, <1>4, <1>15, <2>1 DEF FailCLI, Return, Outcomes
<1>16. CASE FailTurn(c)
  BY <1>3, <1>4, <1>5, <1>16 DEF FailTurn, Return, Outcomes
<1>17. CASE EndTurn(c)
  <2> DEFINE left == outcome[c] = "left"
  <2>1. PICK ph \in Phases : phase' = [phase EXCEPT ![c] = ph] /\ (left => ph = "none")
    BY <1>17 DEF EndTurn, Phases
  <2>2. PICK p \in {"finish", "handle"} :
          proc' = [proc EXCEPT ![c] = p] /\ (~left => p = "handle")
    BY <1>1, <1>17 DEF EndTurn, IInv, TypeOK, ProcessorTypeOK
  <2>3. /\ phase[c] = "unwinding" /\ proc[c] = "handle"
        /\ UNCHANGED <<appStateVars, channelVars, markVars, deliveryVars, stopVars, checks,
                       stops, delivery, pool, held, made, activeJobs, owner, closes, queue>>
    BY <1>1, <1>17 DEF EndTurn, channelVars, deliveryVars, stopVars
  <2>4. proc' \in [Channels -> ProcStates] /\ DeliveryInv' /\ PoolInv'
    BY <2>2, <2>3, ProcessorMoves DEF Started, ProcStates
  <2>5. TurnTypeOK'
    <3>1. outcome' \in [Channels -> Outcomes]
      BY <1>4, <1>17 DEF EndTurn, Outcomes
    <3>2. turns' \in [Jobs -> Channels \cup {NoChannel}]
      BY <1>17 DEF EndTurn, IInv, TypeOK, TurnTypeOK
    <3>3. QED
      BY <1>17, <2>1, <3>1, <3>2 DEF EndTurn, IInv, TypeOK, TurnTypeOK
  <2>6. ProcessorTypeOK'
    BY <2>3, <2>4 DEF IInv, TypeOK, ProcessorTypeOK
  <2>7. ProcessorInv'
    BY <1>1, <2>1, <2>2, <2>3, <2>5, <2>6
      DEF IInv, TypeOK, ProcessorTypeOK, TurnTypeOK, ProcessorInv
  <2>8. NoStrandedMessage'
    BY <2>2, <2>3 DEF IInv, TypeOK, ChannelTypeOK, ProcessorTypeOK, NoStrandedMessage
  <2>9. QED
    BY <2>3, <2>4, <2>5, <2>6, <2>7, <2>8, Frame DEF IInv, TypeOK
<1>18. CASE FailInProgressJob(c)
  <2>1. AppStateTypeOK'
    <3>1. CASE UpdateJobData(Job(c), "failed", m)
      BY <1>6, <1>18, <3>1 DEF FailInProgressJob, JobStatus
    <3>2. CASE UNCHANGED <<jobs, snapshots>>
      BY <1>5, <1>18, <3>2 DEF FailInProgressJob, appStateVars
    <3>3. QED
      BY <1>18, <3>1, <3>2 DEF FailInProgressJob, FailJobIfInProgress
  <2>2. QED
    BY <1>3, <1>4, <1>18, <2>1 DEF FailInProgressJob, Phases
<1>19. CASE RecordDone(c)
  <2>1. /\ proc' = [proc EXCEPT ![c] = "finish"]
        /\ phase' = [phase EXCEPT ![c] = "none"]
        /\ phase[c] = "recording" /\ proc[c] = "handle" /\ m \in Messages
        /\ FinishMessage(m)
        /\ UNCHANGED <<jobs, snapshots, channelVars, markVars, deliveryVars, stopVars, checks,
                       stops, delivery, pool, held, made, activeJobs, owner, closes, queue>>
        /\ UNCHANGED <<turns, cancelled, outcome, replies>>
    BY <1>1, <1>19 DEF RecordDone, channelVars, deliveryVars, stopVars
  <2>2. proc' \in [Channels -> ProcStates] /\ DeliveryInv' /\ PoolInv'
    BY <2>1, ProcessorMoves DEF Started, ProcStates
  <2>3. AppStateTypeOK'
    BY <2>1 DEF FinishMessage, IInv, TypeOK, AppStateTypeOK
  <2>4. TurnTypeOK'
    BY <2>1 DEF IInv, TypeOK, TurnTypeOK, Phases
  <2>5. ProcessorTypeOK'
    BY <2>1, <2>2 DEF IInv, TypeOK, ProcessorTypeOK
  <2>6. ProcessorInv'
    BY <2>1, <2>5 DEF IInv, TypeOK, ProcessorTypeOK, TurnTypeOK, ProcessorInv
  <2>7. NoStrandedMessage'
    BY <2>1 DEF IInv, TypeOK, ChannelTypeOK, ProcessorTypeOK, NoStrandedMessage
  <2>8. QED
    BY <2>1, <2>2, <2>3, <2>4, <2>5, <2>6, <2>7, Frame DEF IInv, TypeOK
<1>20. QED
  BY <1>7, <1>8, <1>9, <1>10, <1>11, <1>12, <1>13, <1>14, <1>15, <1>16, <1>17, <1>18, <1>19
    DEF HandleMessage

LEMMA StopFields ==
  ASSUME NEW r \in StopRequests
  PROVE  /\ r.job \in Jobs \cup {None}
         /\ r.ch \in Channels \cup {NoChannel}
         /\ r.held \in Entries \cup {NoEntry}
         /\ r.dropped \in SUBSET Entries
         /\ \A pc \in StopStates :
              /\ [r EXCEPT !.pc = pc] \in StopRequests
              /\ [r EXCEPT !.pc = pc].pc = pc
              /\ [r EXCEPT !.pc = pc].job = r.job
              /\ [r EXCEPT !.pc = pc].ch = r.ch
              /\ [r EXCEPT !.pc = pc].held = r.held
  BY DEF StopRequests

LEMMA NoStopType == NoStop \in StopRequests /\ NoStop.pc = "none"
  BY DEF NoStop, StopRequests, StopStates, NoChannel

LEMMA StopStep ==
  ASSUME IInv, NEW s \in Stoppers, Stop(s)
  PROVE  IInv'
<1> DEFINE r == stops[s]
<1>1. /\ r \in StopRequests
      /\ r.pc # "none" => r.job \in Jobs
      /\ r.pc \in {"drain", "dropped"} => r.ch \in Channels
      /\ r.pc = "dropped" => r.held \in Entries
  BY DEF IInv, TypeOK, StopTypeOK, StopInv
<1>2. ASSUME NEW next \in StopRequests, GoStop(s, next), UNCHANGED stopsLeft, r.pc # "none",
             next.pc # "none" => next.job = r.job,
             next.pc \in {"drain", "dropped"} => next.ch \in Channels,
             next.pc = "dropped" => next.held \in Entries
      PROVE  StopTypeOK' /\ StopInv'
  <2>1. stops' = [stops EXCEPT ![s] = next]
    BY <1>2 DEF GoStop
  <2>2. StopTypeOK'
    BY <1>2, <2>1 DEF IInv, TypeOK, StopTypeOK
  <2>3. StopInv'
    BY <1>1, <1>2, <2>1 DEF IInv, TypeOK, StopTypeOK, StopInv
  <2>4. QED
    BY <2>2, <2>3
<1>3. ASSUME UNCHANGED <<dispatcherVars, turnVars, checks>>, AppStateTypeOK',
             StopTypeOK', StopInv'
      PROVE  IInv'
  <2>1. UNCHANGED <<channelVars, markVars, processorVars, deliveryVars, delivery, proc, pool,
                    held, phase, made, activeJobs, owner, closes, queue>>
    BY <1>3 DEF dispatcherVars, channelVars, processorVars, deliveryVars, turnVars
  <2>2. QED
    BY <1>3, <2>1, Frame DEF IInv, TypeOK
<1>4. CASE FindChannel(s)
  <2> DEFINE c == activeJobs[r.job]
             next == [r EXCEPT !.ch = c, !.pc = IF c = NoChannel THEN "keep" ELSE "drain"]
  <2>1. r.pc = "find" /\ c \in Channels \cup {NoChannel} /\ NoChannel \notin Channels
    BY <1>1, <1>4
      DEF FindChannel, AtStop, IInv, TypeOK, ChannelTypeOK, Channels, NoChannel
  <2>2. /\ next \in StopRequests /\ next.job = r.job
        /\ next.pc \in {"keep", "drain"}
        /\ next.pc = "drain" => next.ch \in Channels
    BY <1>1, <2>1 DEF StopRequests, StopStates
  <2>3. GoStop(s, next) /\ UNCHANGED stopsLeft
    BY <1>4 DEF FindChannel
  <2> HIDE DEF next
  <2>4. StopTypeOK' /\ StopInv'
    BY <1>2, <2>1, <2>2, <2>3
  <2>5. QED
    BY <1>3, <1>4, <2>4, Frame DEF FindChannel
<1>5. CASE DropReceive(s)
  <2> DEFINE c == r.ch
             next == [r EXCEPT !.pc = "dropped", !.held = Head(queue[c])]
  <2>1. /\ r.pc = "drain" /\ c \in Channels /\ queue[c] \in Seq(Entries) /\ queue[c] # <<>>
    BY <1>1, <1>5 DEF DropReceive, AtStop, IInv, TypeOK, ChannelTypeOK
  <2>2. Head(queue[c]) \in Entries /\ Tail(queue[c]) \in Seq(Entries)
    BY <2>1, TailType
  <2>3. next \in StopRequests /\ next.job = r.job /\ next.ch = c /\ next.held \in Entries
    BY <1>1, <2>2 DEF StopRequests, StopStates
  <2>4. GoStop(s, next) /\ UNCHANGED stopsLeft
    BY <1>5 DEF DropReceive
  <2> HIDE DEF next
  <2>5. StopTypeOK' /\ StopInv'
    BY <1>1, <1>2, <2>1, <2>3, <2>4
  <2>6. ChannelTypeOK'
    BY <1>5, <2>2 DEF DropReceive, IInv, TypeOK, ChannelTypeOK
  <2>7. UNCHANGED <<delivery, proc, pool, held, phase, made, activeJobs, owner, closes>>
    BY <1>5 DEF DropReceive, deliveryVars, processorVars, turnVars
  <2>8. NoStrandedMessage'
    BY <1>5, <2>1, <2>7 DEF DropReceive, IInv, TypeOK, ChannelTypeOK, NoStrandedMessage
  <2>9. QED
    BY <1>5, <2>5, <2>6, <2>7, <2>8, Frame DEF DropReceive, IInv, TypeOK
<1>6. CASE DropFinish(s)
  <2> DEFINE next == [r EXCEPT !.pc = "drain", !.held = NoEntry, !.dropped = @ \cup {r.held}]
  <2>1. r.pc = "dropped" /\ r.held \in Entries /\ r.ch \in Channels /\ r.job \in Jobs
    BY <1>1, <1>6 DEF DropFinish, AtStop
  <2>2. next \in StopRequests /\ next.job = r.job /\ next.ch = r.ch /\ next.pc = "drain"
    BY <1>1, <2>1 DEF StopRequests, StopStates
  <2>3. GoStop(s, next) /\ UNCHANGED stopsLeft
    BY <1>6 DEF DropFinish
  <2> HIDE DEF next
  <2>4. StopTypeOK' /\ StopInv'
    BY <1>2, <2>1, <2>2, <2>3
  <2>5. MarkTypeOK'
    BY <1>6, <2>1, FinishAcceptedType DEF DropFinish, IInv, TypeOK
  <2>6. UNCHANGED <<delivery, proc, pool, held, phase, made, activeJobs, owner, closes, queue>>
    BY <1>6 DEF DropFinish, channelVars, deliveryVars, processorVars, turnVars
  <2>7. QED
    BY <1>6, <2>4, <2>5, <2>6, Frame DEF DropFinish, IInv, TypeOK
<1>7. CASE DropDone(s)
  <2>1. StopTypeOK' /\ StopInv'
    BY <1>1, <1>2, <1>7, StopFields DEF DropDone, AtStop, StopStates
  <2>2. QED
    BY <1>3, <1>7, <2>1, Frame DEF DropDone
<1>8. CASE KeepJobWithoutSession(s)
  <2>1. StopTypeOK' /\ StopInv'
    BY <1>1, <1>2, <1>8, StopFields DEF KeepJobWithoutSession, AtStop, StopStates
  <2>2. AppStateTypeOK'
    <3>1. ASSUME NEW e \in r.dropped, UpdateJobData(r.job, "completed", e.id)
          PROVE  jobs' \in [Jobs -> Rows] /\ snapshots' \in [Jobs -> SUBSET IdleChecks]
      <4>1. e.id \in Messages /\ "completed" \in JobStatus
        BY <1>1, <3>1, StopFields, EntryFields DEF JobStatus
      <4>2. QED
        BY <3>1, <4>1, UpdateJobDataType DEF IInv, TypeOK
    <3>2. jobs' \in [Jobs -> Rows] /\ snapshots' \in [Jobs -> SUBSET IdleChecks]
      BY <1>8, <3>1 DEF KeepJobWithoutSession, IInv, TypeOK, AppStateTypeOK
    <3>3. QED
      BY <1>8, <3>2 DEF KeepJobWithoutSession, IInv, TypeOK, AppStateTypeOK
  <2>3. QED
    BY <1>3, <1>8, <2>1, <2>2 DEF KeepJobWithoutSession
<1>9. CASE TakeJobOffQueue(s)
  <2> DEFINE evict == [r EXCEPT !.pc = "evict"]
  <2>1. PICK next \in {NoStop, evict} : GoStop(s, next)
    BY <1>9 DEF TakeJobOffQueue
  <2>2. /\ next \in StopRequests
        /\ next.pc \in {"none", "evict"}
        /\ next.pc = "evict" => next.job = r.job
    <3>1. evict \in StopRequests /\ evict.pc = "evict" /\ evict.job = r.job
      BY <1>1, StopFields DEF StopStates
    <3> HIDE DEF evict
    <3>2. QED
      BY <2>1, <3>1, NoStopType
  <2>3. StopTypeOK' /\ StopInv'
    BY <1>2, <1>9, <2>1, <2>2 DEF TakeJobOffQueue, AtStop
  <2>4. AppStateTypeOK'
    BY <1>9 DEF TakeJobOffQueue, RemoveQueuedMessagesForJob, IInv, TypeOK, AppStateTypeOK
  <2>5. QED
    BY <1>3, <1>9, <2>3, <2>4 DEF TakeJobOffQueue
<1>10. CASE EvictStopped(s)
  <2>1. r.pc = "evict" /\ r.job \in Jobs
    BY <1>1, <1>10 DEF EvictStopped, AtStop
  <2>2. StopTypeOK' /\ StopInv'
    BY <1>2, <1>10, <2>1, NoStopType DEF EvictStopped
  <2>3. ChannelTypeOK' /\ ChannelInv' /\ NoStrandedMessage'
    BY <1>10, <2>1, EvictJobKeeps DEF EvictStopped, processorVars
  <2>4. UNCHANGED <<delivery, proc, pool, held, phase, made>>
    BY <1>10 DEF EvictStopped, deliveryVars, processorVars, turnVars
  <2>5. QED
    BY <1>10, <2>2, <2>3, <2>4, Frame DEF EvictStopped, IInv, TypeOK
<1>11. QED
  BY <1>4, <1>5, <1>6, <1>7, <1>8, <1>9, <1>10 DEF Stop

LEMMA StopTurnStep ==
  ASSUME IInv, NEW s \in Stoppers, NEW j \in Jobs, StopTurn(s, j)
  PROVE  IInv'
<1> DEFINE next == [NoStop EXCEPT !.pc = "find", !.job = j, !.running = (turns[j] # NoChannel)]
<1>1. next \in StopRequests /\ next.job = j /\ next.pc = "find"
  BY DEF NoStop, StopRequests, StopStates, NoChannel
<1>2. stops' = [stops EXCEPT ![s] = next] /\ stopsLeft' = stopsLeft - 1 /\ stopsLeft > 0
  BY DEF StopTurn, GoStop
<1> HIDE DEF next
<1>3. StopTypeOK'
  <2>1. stopsLeft - 1 \in Nat
    BY <1>2 DEF IInv, TypeOK, StopTypeOK
  <2>2. QED
    BY <1>1, <1>2, <2>1 DEF IInv, TypeOK, StopTypeOK
<1>4. StopInv'
  BY <1>1, <1>2 DEF IInv, TypeOK, StopTypeOK, StopInv
<1>5. TurnTypeOK'
  BY DEF StopTurn, IInv, TypeOK, TurnTypeOK
<1>6. UNCHANGED <<channelVars, markVars, processorVars, deliveryVars, delivery, proc, pool,
                  held, phase, made, activeJobs, owner, closes, queue>>
  BY DEF StopTurn, dispatcherVars, channelVars, processorVars, deliveryVars
<1>7. QED
  BY <1>3, <1>4, <1>5, <1>6, Frame DEF StopTurn, IInv, TypeOK

LEMMA CheckFields ==
  ASSUME NEW r \in Checks
  PROVE  \A pc \in CheckStates :
           /\ [r EXCEPT !.pc = pc] \in Checks
           /\ [r EXCEPT !.pc = pc].pc = pc
           /\ [r EXCEPT !.pc = pc].job = r.job
  BY DEF Checks

LEMMA NoCheckType == NoCheck \in Checks /\ NoCheck.pc = "none"
  BY DEF NoCheck, Checks, CheckStates

LEMMA CheckStep ==
  ASSUME IInv, NEW i \in IdleChecks, Check(i)
  PROVE  IInv'
<1> DEFINE r == checks[i]
           j == r.job
<1>1. r \in Checks /\ (r.pc # "none" => j \in Jobs)
  BY DEF IInv, TypeOK, CheckTypeOK, CheckInv
<1>2. ASSUME NEW pc \in CheckStates, GoCheck(i, pc), r.pc # "none"
      PROVE  CheckTypeOK' /\ CheckInv'
  <2> DEFINE next == [r EXCEPT !.pc = pc]
  <2>1. next \in Checks /\ next.job = j
    BY <1>1, CheckFields
  <2>2. checks' = [checks EXCEPT ![i] = next]
    BY <1>2 DEF GoCheck
  <2> HIDE DEF next
  <2>3. QED
    BY <1>1, <1>2, <2>1, <2>2 DEF IInv, TypeOK, CheckTypeOK, CheckInv
<1>3. ASSUME EndCheck(i)
      PROVE  CheckTypeOK' /\ CheckInv'
  <2>1. checks' = [checks EXCEPT ![i] = NoCheck]
    BY <1>3 DEF EndCheck
  <2>2. QED
    BY <2>1, NoCheckType DEF IInv, TypeOK, CheckTypeOK, CheckInv
<1>4. ASSUME DropJobData(i) \/ UNCHANGED snapshots,
             UNCHANGED <<jobs, queuedMessages, doneMessages>>
      PROVE  AppStateTypeOK'
  BY <1>4 DEF DropJobData, IInv, TypeOK, AppStateTypeOK
<1>5. ASSUME UNCHANGED <<dispatcherVars, turnVars, stopVars>>, AppStateTypeOK', CheckTypeOK', CheckInv'
      PROVE  IInv'
  <2>1. UNCHANGED <<channelVars, markVars, processorVars, deliveryVars, stops, delivery, proc,
                    pool, held, phase, made, activeJobs, owner, closes, queue>>
    BY <1>5
      DEF dispatcherVars, channelVars, processorVars, deliveryVars, turnVars, stopVars
  <2>2. QED
    BY <1>5, <2>1, Frame DEF IInv, TypeOK
<1>6. ASSUME UNCHANGED <<channelVars, acceptedMessages, inFlight, processorVars, deliveryVars,
                         turnVars, stopVars>>,
             completingJobs' \in SUBSET Jobs, AppStateTypeOK', CheckTypeOK', CheckInv'
      PROVE  IInv'
  <2>1. UNCHANGED <<stops, delivery, proc, pool, held, phase, made, activeJobs, owner, closes,
                    queue>>
    BY <1>6 DEF channelVars, processorVars, deliveryVars, turnVars, stopVars
  <2>2. MarkTypeOK'
    BY <1>6 DEF IInv, TypeOK, MarkTypeOK
  <2>3. QED
    BY <1>6, <2>1, <2>2, Frame DEF IInv, TypeOK
<1>7. CASE CheckRunning(i)
  <2>1. EndCheck(i) \/ (GoCheck(i, "claim") /\ UNCHANGED snapshots)
    BY <1>7 DEF CheckRunning
  <2>2. CheckTypeOK' /\ CheckInv'
    BY <1>2, <1>3, <1>7, <2>1 DEF CheckRunning, AtCheck, CheckStates
  <2>3. AppStateTypeOK'
    BY <1>4, <1>7, <2>1 DEF CheckRunning, EndCheck
  <2>4. QED
    BY <1>5, <1>7, <2>2, <2>3 DEF CheckRunning
<1>8. CASE ClaimJob(i)
  <2>1. CheckTypeOK' /\ CheckInv'
    BY <1>2, <1>3, <1>8 DEF ClaimJob, AtCheck, CheckStates
  <2>2. AppStateTypeOK'
    BY <1>4, <1>8 DEF ClaimJob, EndCheck
  <2>3. completingJobs' \in SUBSET Jobs
    BY <1>1, <1>8 DEF ClaimJob, AtCheck, ClaimCompletion, IInv, TypeOK, MarkTypeOK
  <2>4. QED
    BY <1>6, <1>8, <2>1, <2>2, <2>3 DEF ClaimJob
<1>9. CASE RecheckRow(i)
  <2>1. PICK pc \in {"unqueue", "release"} : GoCheck(i, pc)
    BY <1>9 DEF RecheckRow
  <2>2. CheckTypeOK' /\ CheckInv'
    BY <1>2, <1>9, <2>1 DEF RecheckRow, AtCheck, CheckStates
  <2>3. AppStateTypeOK'
    BY <1>9, Frame DEF RecheckRow
  <2>4. QED
    BY <1>5, <1>9, <2>2, <2>3 DEF RecheckRow
<1>10. CASE ClearQueue(i)
  <2>1. CheckTypeOK' /\ CheckInv'
    BY <1>2, <1>10 DEF ClearQueue, AtCheck, CheckStates
  <2>2. AppStateTypeOK'
    BY <1>10 DEF ClearQueue, RemoveQueuedMessagesForJob, IInv, TypeOK, AppStateTypeOK
  <2>3. QED
    BY <1>5, <1>10, <2>1, <2>2 DEF ClearQueue
<1>11. CASE RemoveIdleJob(i)
  <2>1. CheckTypeOK' /\ CheckInv'
    BY <1>2, <1>11 DEF RemoveIdleJob, AtCheck, CheckStates
  <2>2. AppStateTypeOK'
    BY <1>11, RemoveJobType DEF RemoveIdleJob, IInv, TypeOK, AppStateTypeOK
  <2>3. QED
    BY <1>5, <1>11, <2>1, <2>2 DEF RemoveIdleJob
<1>12. CASE EvictIdle(i)
  <2>1. CheckTypeOK' /\ CheckInv' /\ j \in Jobs
    BY <1>1, <1>2, <1>12 DEF EvictIdle, AtCheck, CheckStates
  <2>2. UNCHANGED <<stops, delivery, proc, pool, held, phase, made>>
    BY <1>12 DEF EvictIdle, deliveryVars, processorVars, turnVars, stopVars
  <2>3. ChannelTypeOK' /\ ChannelInv' /\ NoStrandedMessage'
    BY <1>12, <2>1, <2>2, EvictJobKeeps DEF EvictIdle
  <2>4. QED
    BY <1>12, <2>1, <2>2, <2>3, Frame DEF EvictIdle, IInv, TypeOK
<1>13. CASE ReleaseJob(i)
  <2>1. CheckTypeOK' /\ CheckInv'
    BY <1>3, <1>13 DEF ReleaseJob
  <2>2. AppStateTypeOK'
    BY <1>4, <1>13 DEF ReleaseJob, EndCheck
  <2>3. completingJobs' \in SUBSET Jobs
    BY <1>13 DEF ReleaseJob, ReleaseCompletion, IInv, TypeOK, MarkTypeOK
  <2>4. QED
    BY <1>6, <1>13, <2>1, <2>2, <2>3 DEF ReleaseJob
<1>14. QED
  BY <1>7, <1>8, <1>9, <1>10, <1>11, <1>12, <1>13 DEF Check

LEMMA CheckIdleStep ==
  ASSUME IInv, NEW i \in IdleChecks, NEW j \in Jobs, CheckIdle(i, j)
  PROVE  IInv'
<1> DEFINE next == [pc |-> "running", job |-> j]
<1>1. next \in Checks /\ next.job = j
  BY DEF Checks, CheckStates
<1>2. checks' = [checks EXCEPT ![i] = next]
  BY DEF CheckIdle
<1> HIDE DEF next
<1>3. CheckTypeOK' /\ CheckInv'
  BY <1>1, <1>2 DEF IInv, TypeOK, CheckTypeOK, CheckInv
<1>4. AppStateTypeOK'
  BY DEF CheckIdle, ReadJobData, IInv, TypeOK, AppStateTypeOK
<1>5. UNCHANGED <<channelVars, markVars, processorVars, deliveryVars, stops, delivery, proc,
                  pool, held, phase, made, activeJobs, owner, closes, queue>>
  BY DEF CheckIdle, dispatcherVars, channelVars, processorVars, deliveryVars, turnVars, stopVars
<1>6. QED
  BY <1>3, <1>4, <1>5, Frame DEF CheckIdle, IInv, TypeOK

-----------------------------------------------------------------------------

LEMMA Initially == Init => IInv
<1> SUFFICES ASSUME Init PROVE IInv
  OBVIOUS
<1> USE DispatcherAssumption, MaxStopsAssumption DEF Init, AppStateInit, DispatcherInit
<1>1. AppStateTypeOK
  BY DEF AppStateTypeOK, Rows, NoRow, JobStatus
<1>2. ChannelTypeOK /\ MarkTypeOK
  BY DEF ChannelTypeOK, MarkTypeOK, Channels, NoChannel
<1>3. ProcessorTypeOK
  BY DEF ProcessorTypeOK, ProcStates
<1>4. DeliveryTypeOK /\ DeliveryInv
  BY NoDeliveryType DEF DeliveryTypeOK, DeliveryInv
<1>5. TurnTypeOK
  BY DEF TurnTypeOK, Phases, Outcomes
<1>6. StopTypeOK /\ StopInv
  BY NoStopType DEF StopTypeOK, StopInv
<1>7. CheckTypeOK /\ CheckInv
  BY NoCheckType DEF CheckTypeOK, CheckInv
<1>8. PoolInv /\ ProcessorInv
  BY DEF PoolInv, ProcessorInv
<1>9. ChannelInv /\ NoStrandedMessage
  BY DEF ChannelInv, NoStrandedMessage, Channels
<1>10. QED
  BY <1>1, <1>2, <1>3, <1>4, <1>5, <1>6, <1>7, <1>8, <1>9 DEF IInv, TypeOK

LEMMA Inductive == IInv /\ [Next]_vars => IInv'
<1> SUFFICES ASSUME IInv, [Next]_vars PROVE IInv'
  OBVIOUS
<1>1. CASE Next
  BY <1>1, OfferStep, DispatchStep, StartTaskStep, ProcessStep, TurnStep, StopTurnStep,
    StopStep, CheckIdleStep, CheckStep DEF Next
<1>2. CASE UNCHANGED vars
  <2>1. UNCHANGED <<appStateVars, channelVars, markVars, processorVars, deliveryVars, turnVars,
                    stopVars, checks, stops, delivery, proc, pool, held, phase, made,
                    activeJobs, owner, closes, queue>>
    BY <1>2
      DEF vars, dispatcherVars, channelVars, processorVars, deliveryVars, turnVars, stopVars
  <2>2. QED
    BY <2>1, Frame DEF IInv, TypeOK
<1>3. QED
  BY <1>1, <1>2

LEMMA InvImplied == IInv => TypeOK /\ NoChannelPanic /\ NoStrandedMessage
  BY DEF IInv, TypeOK, ChannelTypeOK, ChannelInv, NoChannelPanic, IsClosed

(* Every behaviour keeps the inductive invariant. *)
THEOREM Invariance == Spec => []IInv
  BY Initially, Inductive, PTL DEF Spec

(* Every shared map and every thread's local state keeps its type, however *)
(* deliveries, processors, stop requests and idle checks interleave.       *)
THEOREM TypeCorrect == Spec => []TypeOK
  BY Invariance, InvImplied, PTL

(* The agent never sends on a closed channel and never closes one twice:   *)
(* with any number of threads a registered channel is open and belongs to  *)
(* its job (dispatcher.go:88-113, 193-212, 240-247).                       *)
THEOREM NeverPanics == Spec => []NoChannelPanic
  BY Invariance, InvImplied, PTL

(* A registered channel always has a processor that has not begun to leave *)
(* and no processor leaves a message behind (dispatcher.go:152-189).       *)
THEOREM NothingStranded == Spec => []NoStrandedMessage
  BY Invariance, InvImplied, PTL

-----------------------------------------------------------------------------
(* Sites: where a message in flight is.                                    *)

Sites ==
  ({"queue", "hand"} \X Channels) \cup ({"stop"} \X Stoppers) \cup ({"send"} \X Deliverers)

Ids(entries) == {entries[k].id : k \in 1 .. Len(entries)}

Contents ==
  [p \in Sites |->
     CASE p[1] = "queue" -> Ids(queue[p[2]])
       [] p[1] = "hand" -> {held[p[2]].id} \ {None}
       [] p[1] = "stop" -> {stops[p[2]].held.id} \ {None}
       [] p[1] = "send" ->
            IF delivery[p[2]].pc = "send" THEN {delivery[p[2]].entry.id} ELSE {}]

(* A message in flight is at one site. *)
SiteInv ==
  /\ \A p, q \in Sites : p # q => Contents[p] \cap Contents[q] = {}
  /\ \A m : m \in inFlight <=> \E p \in Sites : m \in Contents[p]

(* It waits in its channel once. *)
QueueInv ==
  \A c \in Channels : \A k, l \in 1 .. Len(queue[c]) : queue[c][k].id = queue[c][l].id => k = l

(* A channel buffers no more than its capacity. *)
CapInv == \A c \in Channels : Len(queue[c]) <= ChannelCap

(* Only a thread at the right point holds a message, and a stop request     *)
(* empties a channel of its job.                                           *)
HandInv ==
  /\ \A c \in Channels : Holds(c) => proc[c] \in {"handle", "finish", "dropped"}
  /\ \A c \in Channels : c > made => queue[c] = <<>>
  /\ \A s \in Stoppers : stops[s].held # NoEntry => stops[s].pc = "dropped"
  /\ \A s \in Stoppers : stops[s].pc \in {"drain", "dropped"} =>
       stops[s].ch <= made /\ owner[stops[s].ch] = stops[s].job

(* What a channel, a processor or a stop request has is of its job. *)
SiteJob(p) == IF p[1] = "stop" THEN stops[p[2]].job ELSE owner[p[2]]
Accepts(p) == p[1] # "send"

JobInv == \A p \in Sites : Accepts(p) => \A m \in Contents[p] : JobOf[m] = SiteJob(p)

(* The count of a job's accepted messages is exact. *)
AcceptedSet == [j \in Jobs |->
  {m \in Messages : JobOf[m] = j /\ \E p \in Sites : Accepts(p) /\ m \in Contents[p]}]

CountInv ==
  \A j \in Jobs : IsFiniteSet(AcceptedSet[j]) /\ acceptedMessages[j] = Cardinality(AcceptedSet[j])

(* A claimed job has no accepted message. *)
ClaimInv == \A j \in completingJobs : acceptedMessages[j] = 0

(* A registered turn is one that a processor of the job runs. *)
RunningPhases == {"begun", "prepared", "marked", "working", "unwinding"}

TurnsInv ==
  \A j \in Jobs : turns[j] # NoChannel =>
    owner[turns[j]] = j /\ phase[turns[j]] \in RunningPhases

Claims(i) == checks[i].pc \in {"recheck", "unqueue", "remove", "evict", "release"}

(* A claim is one idle check's, and while it lasts only that check and stop *)
(* requests write the row.                                                 *)
RowInv ==
  /\ \A i \in IdleChecks : Claims(i) => checks[i].job \in completingJobs
  /\ \A i, k \in IdleChecks : Claims(i) /\ Claims(k) /\ checks[i].job = checks[k].job => i = k
  /\ stopsLeft <= MaxStops
  /\ stopsLeft = MaxStops => \A s \in Stoppers : stops[s].pc = "none"
  /\ RemovedRowIsCurrent

CInv ==
  /\ IInv
  /\ SiteInv
  /\ QueueInv
  /\ CapInv
  /\ HandInv
  /\ JobInv
  /\ CountInv
  /\ ClaimInv
  /\ TurnsInv
  /\ RowInv

-----------------------------------------------------------------------------
(* Queues and the ids in them. *)

LEMMA IdsAppend ==
  ASSUME NEW s \in Seq(Entries), NEW e \in Entries
  PROVE  /\ Ids(Append(s, e)) = Ids(s) \cup {e.id}
         /\ /\ e.id \notin Ids(s)
            /\ \A k, l \in 1 .. Len(s) : s[k].id = s[l].id => k = l
            => \A k, l \in 1 .. Len(Append(s, e)) :
                 Append(s, e)[k].id = Append(s, e)[l].id => k = l
<1> DEFINE u == Append(s, e)
<1>1. /\ Len(u) = Len(s) + 1 /\ Len(s) \in Nat
      /\ \A k \in 1 .. Len(s) : u[k] = s[k]
      /\ u[Len(s) + 1] = e
      /\ \A k \in 1 .. Len(u) : k \in 1 .. Len(s) \/ k = Len(s) + 1
      /\ \A k \in 1 .. Len(s) : k \in 1 .. Len(u)
      /\ Len(s) + 1 \in 1 .. Len(u)
  OBVIOUS
<1> HIDE DEF u
<1>2. Ids(u) = Ids(s) \cup {e.id}
  BY <1>1 DEF Ids
<1>3. ASSUME e.id \notin Ids(s), \A k, l \in 1 .. Len(s) : s[k].id = s[l].id => k = l
      PROVE  \A k, l \in 1 .. Len(u) : u[k].id = u[l].id => k = l
  <2>1. \A k \in 1 .. Len(s) : s[k].id # e.id
    BY <1>3 DEF Ids
  <2>2. QED
    BY <1>1, <1>3, <2>1
<1>4. QED
  BY <1>2, <1>3 DEF u

LEMMA IdsTail ==
  ASSUME NEW s \in Seq(Entries), s # <<>>,
         \A k, l \in 1 .. Len(s) : s[k].id = s[l].id => k = l
  PROVE  /\ Head(s) \in Entries /\ Head(s).id \in Ids(s)
         /\ Ids(Tail(s)) = Ids(s) \ {Head(s).id}
         /\ \A k, l \in 1 .. Len(Tail(s)) : Tail(s)[k].id = Tail(s)[l].id => k = l
<1> DEFINE u == Tail(s)
<1>1. /\ Head(s) = s[1] /\ Head(s) \in Entries /\ Len(s) \in Nat /\ 1 \in 1 .. Len(s)
      /\ Len(u) = Len(s) - 1
      /\ \A k \in 1 .. Len(u) : u[k] = s[k + 1] /\ k + 1 \in 1 .. Len(s) /\ k \in Nat /\ k + 1 # 1
      /\ \A k \in 1 .. Len(s) : k = 1 \/ (k - 1 \in 1 .. Len(u) /\ u[k - 1] = s[k])
  OBVIOUS
<1> HIDE DEF u
<1>2. Ids(u) = Ids(s) \ {s[1].id}
  <2>1. ASSUME NEW m \in Ids(u) PROVE m \in Ids(s) /\ m # s[1].id
    <3>1. PICK k \in 1 .. Len(u) : m = u[k].id
      BY DEF Ids
    <3>2. m = s[k + 1].id /\ k + 1 \in 1 .. Len(s) /\ k + 1 # 1
      BY <1>1, <3>1
    <3>3. QED
      BY <1>1, <3>2 DEF Ids
  <2>2. ASSUME NEW m \in Ids(s), m # s[1].id PROVE m \in Ids(u)
    <3>1. PICK k \in 1 .. Len(s) : m = s[k].id
      BY DEF Ids
    <3>2. QED
      BY <1>1, <2>2, <3>1 DEF Ids
  <2>3. QED
    BY <2>1, <2>2
<1>3. \A k, l \in 1 .. Len(u) : u[k].id = u[l].id => k = l
  <2>1. SUFFICES ASSUME NEW k \in 1 .. Len(u), NEW l \in 1 .. Len(u), u[k].id = u[l].id
                 PROVE  k = l
    OBVIOUS
  <2>2. k + 1 = l + 1
    BY <1>1, <2>1
  <2>3. QED
    BY <1>1, <2>2
<1>4. QED
  BY <1>1, <1>2, <1>3 DEF u, Ids

(* What the sites are and what is there. *)
LEMMA SitesSplit ==
  \A p \in Sites :
    \/ \E c \in Channels : p = <<"queue", c>>
    \/ \E c \in Channels : p = <<"hand", c>>
    \/ \E s \in Stoppers : p = <<"stop", s>>
    \/ \E t \in Deliverers : p = <<"send", t>>
  BY DEF Sites

LEMMA ContentsAt ==
  /\ \A c \in Channels :
       /\ <<"queue", c>> \in Sites /\ Contents[<<"queue", c>>] = Ids(queue[c])
       /\ <<"hand", c>> \in Sites /\ Contents[<<"hand", c>>] = {held[c].id} \ {None}
  /\ \A s \in Stoppers :
       <<"stop", s>> \in Sites /\ Contents[<<"stop", s>>] = {stops[s].held.id} \ {None}
  /\ \A t \in Deliverers :
       /\ <<"send", t>> \in Sites
       /\ Contents[<<"send", t>>] =
            IF delivery[t].pc = "send" THEN {delivery[t].entry.id} ELSE {}
<1>1. ASSUME NEW c \in Channels
      PROVE  /\ <<"queue", c>> \in Sites /\ Contents[<<"queue", c>>] = Ids(queue[c])
             /\ <<"hand", c>> \in Sites /\ Contents[<<"hand", c>>] = {held[c].id} \ {None}
  BY DEF Sites, Contents
<1>2. ASSUME NEW s \in Stoppers
      PROVE  <<"stop", s>> \in Sites /\ Contents[<<"stop", s>>] = {stops[s].held.id} \ {None}
  BY DEF Sites, Contents
<1>3. ASSUME NEW t \in Deliverers
      PROVE  /\ <<"send", t>> \in Sites
             /\ Contents[<<"send", t>>] =
                  IF delivery[t].pc = "send" THEN {delivery[t].entry.id} ELSE {}
  BY DEF Sites, Contents
<1>4. QED
  BY <1>1, <1>2, <1>3

LEMMA ContentsNext ==
  /\ \A c \in Channels :
       /\ Contents'[<<"queue", c>>] = Ids(queue'[c])
       /\ Contents'[<<"hand", c>>] = {held'[c].id} \ {None}
  /\ \A s \in Stoppers : Contents'[<<"stop", s>>] = {stops'[s].held.id} \ {None}
  /\ \A t \in Deliverers :
       Contents'[<<"send", t>>] =
         IF delivery'[t].pc = "send" THEN {delivery'[t].entry.id} ELSE {}
<1>1. ASSUME NEW c \in Channels
      PROVE  /\ Contents'[<<"queue", c>>] = Ids(queue'[c])
             /\ Contents'[<<"hand", c>>] = {held'[c].id} \ {None}
  BY DEF Sites, Contents
<1>2. ASSUME NEW s \in Stoppers
      PROVE  Contents'[<<"stop", s>>] = {stops'[s].held.id} \ {None}
  BY DEF Sites, Contents
<1>3. ASSUME NEW t \in Deliverers
      PROVE  Contents'[<<"send", t>>] =
               IF delivery'[t].pc = "send" THEN {delivery'[t].entry.id} ELSE {}
  BY DEF Sites, Contents
<1>4. QED
  BY <1>1, <1>2, <1>3

(* A site a step leaves alone. *)
SameSend(t) ==
  /\ delivery'[t].pc = "send" <=> delivery[t].pc = "send"
  /\ delivery[t].pc = "send" => delivery'[t].entry = delivery[t].entry

LEMMA ContentsFrame ==
  /\ \A c \in Channels : queue'[c] = queue[c] =>
       Contents'[<<"queue", c>>] = Contents[<<"queue", c>>]
  /\ \A c \in Channels : held'[c] = held[c] =>
       Contents'[<<"hand", c>>] = Contents[<<"hand", c>>]
  /\ \A s \in Stoppers : stops'[s].held = stops[s].held =>
       Contents'[<<"stop", s>>] = Contents[<<"stop", s>>]
  /\ \A t \in Deliverers : SameSend(t) => Contents'[<<"send", t>>] = Contents[<<"send", t>>]
<1>1. ASSUME NEW c \in Channels
      PROVE  /\ queue'[c] = queue[c] => Contents'[<<"queue", c>>] = Contents[<<"queue", c>>]
             /\ held'[c] = held[c] => Contents'[<<"hand", c>>] = Contents[<<"hand", c>>]
  BY ContentsAt, ContentsNext
<1>2. ASSUME NEW s \in Stoppers, stops'[s].held = stops[s].held
      PROVE  Contents'[<<"stop", s>>] = Contents[<<"stop", s>>]
  BY <1>2, ContentsAt, ContentsNext
<1>3. ASSUME NEW t \in Deliverers, SameSend(t)
      PROVE  Contents'[<<"send", t>>] = Contents[<<"send", t>>]
  <2>1. Contents[<<"send", t>>] = IF delivery[t].pc = "send" THEN {delivery[t].entry.id} ELSE {}
    BY ContentsAt
  <2>2. Contents'[<<"send", t>>] = IF delivery'[t].pc = "send" THEN {delivery'[t].entry.id} ELSE {}
    BY ContentsNext
  <2>3. QED
    BY <1>3, <2>1, <2>2 DEF SameSend
<1>4. QED
  BY <1>1, <1>2, <1>3

-----------------------------------------------------------------------------
(* The steps by what they do to the sites. *)

SameJobs ==
  \A p \in Sites : Accepts(p) /\ Contents[p] # {} => SiteJob(p)' = SiteJob(p)

Rests ==
  /\ \A x \in Sites : Contents'[x] = Contents[x]
  /\ inFlight' = inFlight /\ acceptedMessages' = acceptedMessages

Marks(m, p) ==
  /\ m \notin inFlight /\ inFlight' = inFlight \cup {m} /\ acceptedMessages' = acceptedMessages
  /\ ~Accepts(p) /\ Contents[p] = {} /\ Contents'[p] = {m}
  /\ \A x \in Sites : x # p => Contents'[x] = Contents[x]

Refuses(m, p) ==
  /\ inFlight' = inFlight \ {m} /\ acceptedMessages' = acceptedMessages
  /\ ~Accepts(p) /\ Contents[p] = {m} /\ Contents'[p] = {}
  /\ \A x \in Sites : x # p => Contents'[x] = Contents[x]

Sends(m, p, q) ==
  /\ inFlight' = inFlight /\ JobOf[m] \notin completingJobs
  /\ acceptedMessages' = [acceptedMessages EXCEPT ![JobOf[m]] = @ + 1]
  /\ ~Accepts(p) /\ Contents[p] = {m} /\ Contents'[p] = {}
  /\ Accepts(q) /\ Contents'[q] = Contents[q] \cup {m} /\ SiteJob(q)' = JobOf[m]
  /\ \A x \in Sites : x # p /\ x # q => Contents'[x] = Contents[x]

Takes(m, p, q) ==
  /\ inFlight' = inFlight /\ acceptedMessages' = acceptedMessages
  /\ Accepts(p) /\ m \in Contents[p] /\ Contents'[p] = Contents[p] \ {m}
  /\ Accepts(q) /\ Contents[q] = {} /\ Contents'[q] = {m} /\ SiteJob(q)' = JobOf[m]
  /\ \A x \in Sites : x # p /\ x # q => Contents'[x] = Contents[x]

Forgets(m, p) ==
  /\ inFlight' = inFlight \ {m}
  /\ acceptedMessages' = [acceptedMessages EXCEPT ![JobOf[m]] = IF @ - 1 <= 0 THEN 0 ELSE @ - 1]
  /\ Accepts(p) /\ Contents[p] = {m} /\ Contents'[p] = {}
  /\ \A x \in Sites : x # p => Contents'[x] = Contents[x]

Handled ==
  /\ SameJobs
  /\ \/ Rests
     \/ \E m \in Messages, p \in Sites : Marks(m, p) \/ Refuses(m, p) \/ Forgets(m, p)
     \/ \E m \in Messages, p, q \in Sites : p # q /\ (Sends(m, p, q) \/ Takes(m, p, q))

LEMMA SiteInvStep ==
  ASSUME SiteInv, Handled
  PROVE  SiteInv'
<1>1. CASE Rests
  BY <1>1 DEF SiteInv, Rests
<1>2. ASSUME NEW m \in Messages, NEW p \in Sites, Marks(m, p) PROVE SiteInv'
  BY <1>2 DEF SiteInv, Marks
<1>3. ASSUME NEW m \in Messages, NEW p \in Sites, Refuses(m, p) PROVE SiteInv'
  BY <1>3 DEF SiteInv, Refuses
<1>4. ASSUME NEW m \in Messages, NEW p \in Sites, Forgets(m, p) PROVE SiteInv'
  BY <1>4 DEF SiteInv, Forgets
<1>5. ASSUME NEW m \in Messages, NEW p \in Sites, NEW q \in Sites, p # q,
             Sends(m, p, q) \/ Takes(m, p, q)
      PROVE  SiteInv'
  <2>1. /\ inFlight' = inFlight /\ m \in Contents[p]
        /\ Contents'[p] = Contents[p] \ {m} /\ Contents'[q] = Contents[q] \cup {m}
        /\ \A x \in Sites : x # p /\ x # q => Contents'[x] = Contents[x]
    BY <1>5 DEF Sends, Takes
  <2>2. \A x, y \in Sites : x # y => Contents'[x] \cap Contents'[y] = {}
    BY <1>5, <2>1 DEF SiteInv
  <2>3. \A n : n \in inFlight' <=> \E x \in Sites : n \in Contents'[x]
    BY <1>5, <2>1 DEF SiteInv
  <2>4. QED
    BY <2>2, <2>3 DEF SiteInv
<1>6. QED
  BY <1>1, <1>2, <1>3, <1>4, <1>5 DEF Handled

LEMMA JobInvStep ==
  ASSUME SiteInv, JobInv, Handled
  PROVE  JobInv'
<1>1. CASE Rests
  BY <1>1 DEF JobInv, Handled, SameJobs, Rests, Accepts
<1>2. ASSUME NEW m \in Messages, NEW p \in Sites, Marks(m, p) \/ Refuses(m, p) \/ Forgets(m, p)
      PROVE  JobInv'
  <2>1. \A x \in Sites : Accepts(x) => Contents'[x] \subseteq Contents[x]
    BY <1>2 DEF Marks, Refuses, Forgets
  <2>2. QED
    BY <2>1 DEF JobInv, Handled, SameJobs, Accepts
<1>3. ASSUME NEW m \in Messages, NEW p \in Sites, NEW q \in Sites, p # q,
             Sends(m, p, q) \/ Takes(m, p, q)
      PROVE  JobInv'
  <2>1. /\ SiteJob(q)' = JobOf[m] /\ Contents'[q] \subseteq Contents[q] \cup {m}
        /\ \A x \in Sites : x # q => Contents'[x] \subseteq Contents[x]
    BY <1>3 DEF Sends, Takes
  <2>2. \A x \in Sites : Accepts(x) => \A n \in Contents[x] : JobOf[n] = SiteJob(x)'
    BY DEF JobInv, Handled, SameJobs
  <2>3. \A x \in Sites : Accepts(x) => \A n \in Contents'[x] : JobOf[n] = SiteJob(x)'
    BY <2>1, <2>2
  <2>4. QED
    BY <2>3 DEF JobInv, Accepts
<1>4. QED
  BY <1>1, <1>2, <1>3 DEF Handled

(* Which messages a job has accepted. *)
Accepted(m) == \E p \in Sites : Accepts(p) /\ m \in Contents[p]

LEMMA AcceptedAt ==
  \A j \in Jobs : AcceptedSet[j] = {m \in Messages : JobOf[m] = j /\ Accepted(m)}
  BY DEF AcceptedSet, Accepted

LEMMA AcceptedAtNext ==
  \A j \in Jobs : AcceptedSet'[j] = {m \in Messages : JobOf[m] = j /\ Accepted(m)'}
  BY DEF AcceptedSet, Accepted

LEMMA AcceptedSame ==
  ASSUME \A m : Accepted(m)' <=> Accepted(m)
  PROVE  \A j \in Jobs : AcceptedSet'[j] = AcceptedSet[j]
  BY AcceptedAt, AcceptedAtNext

LEMMA CountInvStep ==
  ASSUME TypeOK, SiteInv, CountInv, Handled
  PROVE  CountInv'
<1>t. acceptedMessages \in [Jobs -> Nat]
  BY DEF TypeOK, MarkTypeOK
<1>a. \A p \in Sites : Accepts(p)' <=> Accepts(p)
  BY DEF Accepts
<1>s. ASSUME \A m : Accepted(m)' <=> Accepted(m), acceptedMessages' = acceptedMessages
      PROVE  CountInv'
  BY <1>s, AcceptedSame DEF CountInv
<1>1. CASE Rests
  <2>1. \A m : Accepted(m)' <=> Accepted(m)
    BY <1>1, <1>a DEF Rests, Accepted
  <2>2. QED
    BY <1>1, <1>s, <2>1 DEF Rests
<1>2. ASSUME NEW m \in Messages, NEW p \in Sites, Marks(m, p) \/ Refuses(m, p) PROVE CountInv'
  <2>1. \A x \in Sites : Accepts(x) => Contents'[x] = Contents[x]
    BY <1>2 DEF Marks, Refuses
  <2>2. \A n : Accepted(n)' <=> Accepted(n)
    BY <1>a, <2>1 DEF Accepted
  <2>3. QED
    BY <1>2, <1>s, <2>2 DEF Marks, Refuses
<1>3. ASSUME NEW m \in Messages, NEW p \in Sites, NEW q \in Sites, p # q, Takes(m, p, q)
      PROVE  CountInv'
  <2>1. /\ Accepts(p) /\ Accepts(q) /\ m \in Contents[p] /\ m \in Contents'[q]
        /\ \A x \in Sites : \A n : n # m => (n \in Contents'[x] <=> n \in Contents[x])
    BY <1>3 DEF Takes
  <2>2. \A n : Accepted(n)' <=> Accepted(n)
    BY <1>a, <2>1 DEF Accepted
  <2>3. QED
    BY <1>3, <1>s, <2>2 DEF Takes
<1>4. ASSUME NEW m \in Messages, NEW p \in Sites, NEW q \in Sites, p # q, Sends(m, p, q)
      PROVE  CountInv'
  <2> DEFINE l == JobOf[m]
  <2>1. ~Accepted(m) /\ Accepted(m)'
    BY <1>4, <1>a DEF Sends, SiteInv, Accepted
  <2>2. \A x \in Sites : \A n : n # m => (n \in Contents'[x] <=> n \in Contents[x])
    BY <1>4 DEF Sends
  <2>3. \A n : n # m => (Accepted(n)' <=> Accepted(n))
    BY <1>a, <2>2 DEF Accepted
  <2>4. l \in Jobs
    BY JobOfAssumption
  <2>5. /\ AcceptedSet'[l] = AcceptedSet[l] \cup {m} /\ m \notin AcceptedSet[l]
        /\ \A j \in Jobs : j # l => AcceptedSet'[j] = AcceptedSet[j]
    BY <2>1, <2>3, <2>4, AcceptedAt, AcceptedAtNext, ZenonT(60)
  <2>6. /\ acceptedMessages'[l] = acceptedMessages[l] + 1
        /\ \A j \in Jobs : j # l => acceptedMessages'[j] = acceptedMessages[j]
    BY <1>4, <1>t, <2>4 DEF Sends
  <2> HIDE DEF l
  <2>7. /\ IsFiniteSet(AcceptedSet'[l])
        /\ Cardinality(AcceptedSet'[l]) = Cardinality(AcceptedSet[l]) + 1
    <3>1. IsFiniteSet(AcceptedSet[l])
      BY <2>4 DEF CountInv
    <3>2. /\ IsFiniteSet(AcceptedSet[l] \cup {m})
          /\ Cardinality(AcceptedSet[l] \cup {m}) = Cardinality(AcceptedSet[l]) + 1
      BY <2>5, <3>1, FS_AddElement
    <3>3. QED
      BY <2>5, <3>2
  <2>8. QED
    BY <2>4, <2>5, <2>6, <2>7 DEF CountInv
<1>5. ASSUME NEW m \in Messages, NEW p \in Sites, Forgets(m, p) PROVE CountInv'
  <2> DEFINE l == JobOf[m]
  <2>1. Accepted(m) /\ ~Accepted(m)'
    BY <1>5, <1>a DEF Forgets, SiteInv, Accepted
  <2>2. \A x \in Sites : \A n : n # m => (n \in Contents'[x] <=> n \in Contents[x])
    BY <1>5 DEF Forgets
  <2>3. \A n : n # m => (Accepted(n)' <=> Accepted(n))
    BY <1>a, <2>2 DEF Accepted
  <2>4. l \in Jobs
    BY JobOfAssumption
  <2>5. /\ AcceptedSet'[l] = AcceptedSet[l] \ {m} /\ m \in AcceptedSet[l]
        /\ \A j \in Jobs : j # l => AcceptedSet'[j] = AcceptedSet[j]
    BY <2>1, <2>3, <2>4, AcceptedAt, AcceptedAtNext, ZenonT(60)
  <2>6. /\ acceptedMessages'[l] =
             IF acceptedMessages[l] - 1 <= 0 THEN 0 ELSE acceptedMessages[l] - 1
        /\ \A j \in Jobs : j # l => acceptedMessages'[j] = acceptedMessages[j]
    BY <1>5, <1>t, <2>4 DEF Forgets
  <2> HIDE DEF l
  <2>7. /\ IsFiniteSet(AcceptedSet'[l])
        /\ Cardinality(AcceptedSet'[l]) = Cardinality(AcceptedSet[l]) - 1
        /\ Cardinality(AcceptedSet[l]) \in Nat
        /\ Cardinality(AcceptedSet[l]) # 0
    <3>1. IsFiniteSet(AcceptedSet[l])
      BY <2>4 DEF CountInv
    <3>2. /\ IsFiniteSet(AcceptedSet[l] \ {m})
          /\ Cardinality(AcceptedSet[l] \ {m}) = Cardinality(AcceptedSet[l]) - 1
      BY <2>5, <3>1, FS_RemoveElement
    <3>3. Cardinality(AcceptedSet[l]) \in Nat /\ Cardinality(AcceptedSet[l]) # 0
      BY <2>5, <3>1, FS_CardinalityType, FS_EmptySet
    <3>4. QED
      BY <2>5, <3>2, <3>3
  <2>8. acceptedMessages[l] = Cardinality(AcceptedSet[l])
    BY <2>4 DEF CountInv
  <2>9. acceptedMessages'[l] = Cardinality(AcceptedSet'[l])
    BY <2>6, <2>7, <2>8
  <2>10. QED
    BY <2>4, <2>5, <2>6, <2>7, <2>9 DEF CountInv
<1>6. QED
  BY <1>1, <1>2, <1>3, <1>4, <1>5 DEF Handled

-----------------------------------------------------------------------------
(* Every step is one of these effects. *)

LEMMA SitesRest ==
  ASSUME queue' = queue, held' = held, \A t \in Deliverers : SameSend(t),
         \A s \in Stoppers : stops'[s].held = stops[s].held,
         inFlight' = inFlight, acceptedMessages' = acceptedMessages
  PROVE  Rests
<1>1. /\ \A c \in Channels : Contents'[<<"queue", c>>] = Contents[<<"queue", c>>]
      /\ \A c \in Channels : Contents'[<<"hand", c>>] = Contents[<<"hand", c>>]
      /\ \A s \in Stoppers : Contents'[<<"stop", s>>] = Contents[<<"stop", s>>]
      /\ \A t \in Deliverers : Contents'[<<"send", t>>] = Contents[<<"send", t>>]
  BY ContentsFrame
<1>2. ASSUME NEW x \in Sites PROVE Contents'[x] = Contents[x]
  BY <1>1, SitesSplit
<1>3. QED
  BY <1>2 DEF Rests

(* Another site than p and q is left alone. *)
LEMMA OthersRest ==
  ASSUME NEW p, NEW q,
         \A c \in Channels : <<"queue", c>> \notin {p, q} => queue'[c] = queue[c],
         \A c \in Channels : <<"hand", c>> \notin {p, q} => held'[c] = held[c],
         \A s \in Stoppers : <<"stop", s>> \notin {p, q} => stops'[s].held = stops[s].held,
         \A t \in Deliverers : <<"send", t>> \notin {p, q} => SameSend(t)
  PROVE  \A x \in Sites : x # p /\ x # q => Contents'[x] = Contents[x]
<1>1. SUFFICES ASSUME NEW x \in Sites, x \notin {p, q} PROVE Contents'[x] = Contents[x]
  OBVIOUS
<1>2. ASSUME NEW c \in Channels, x = <<"queue", c>> PROVE Contents'[x] = Contents[x]
  BY <1>1, <1>2, ContentsFrame
<1>3. ASSUME NEW c \in Channels, x = <<"hand", c>> PROVE Contents'[x] = Contents[x]
  BY <1>1, <1>3, ContentsFrame
<1>4. ASSUME NEW s \in Stoppers, x = <<"stop", s>> PROVE Contents'[x] = Contents[x]
  BY <1>1, <1>4, ContentsFrame
<1>5. ASSUME NEW t \in Deliverers, x = <<"send", t>> PROVE Contents'[x] = Contents[x]
  BY <1>1, <1>5, ContentsFrame
<1>6. QED
  BY <1>2, <1>3, <1>4, <1>5, SitesSplit

LEMMA JobsRest ==
  ASSUME IInv, HandInv, \A c \in Channels : c <= made => owner'[c] = owner[c],
         \A s \in Stoppers : stops[s].pc = "dropped" => stops'[s].job = stops[s].job
  PROVE  SameJobs
<1>t. /\ made \in Nat /\ Channels \subseteq Nat
      /\ \A c \in Channels : c > made => proc[c] = "unborn"
  <2>1. ChannelTypeOK /\ ProcessorInv
    BY DEF IInv, TypeOK
  <2>2. made \in Channels \cup {NoChannel} /\ \A c \in Channels : c > made => proc[c] = "unborn"
    BY <2>1 DEF ChannelTypeOK, ProcessorInv
  <2>3. Channels \subseteq Nat /\ NoChannel \in Nat
    BY DispatcherAssumption DEF Channels, NoChannel
  <2>4. QED
    BY <2>2, <2>3
<1>1. ASSUME NEW c \in Channels, Contents[<<"queue", c>>] # {} PROVE owner'[c] = owner[c]
  <2>1. Ids(queue[c]) # {}
    BY <1>1, ContentsAt
  <2>2. queue[c] # <<>>
    BY <2>1 DEF Ids
  <2>3. c <= made
    BY <1>t, <2>2 DEF HandInv
  <2>4. QED
    BY <2>3
<1>2. ASSUME NEW c \in Channels, Contents[<<"hand", c>>] # {} PROVE owner'[c] = owner[c]
  <2>1. held[c] # NoEntry
    <3>1. {held[c].id} \ {None} # {}
      BY <1>2, ContentsAt
    <3>2. held[c].id # None
      BY <3>1
    <3>3. QED
      BY <3>2 DEF NoEntry
  <2>2. proc[c] # "unborn"
    BY <2>1 DEF HandInv, Holds
  <2>3. c <= made
    BY <1>t, <2>2
  <2>4. QED
    BY <2>3
<1>3. ASSUME NEW s \in Stoppers, Contents[<<"stop", s>>] # {} PROVE stops'[s].job = stops[s].job
  <2>1. stops[s].held # NoEntry
    <3>1. {stops[s].held.id} \ {None} # {}
      BY <1>3, ContentsAt
    <3>2. stops[s].held.id # None
      BY <3>1
    <3>3. QED
      BY <3>2 DEF NoEntry
  <2>2. QED
    BY <2>1 DEF HandInv
<1>4. ASSUME NEW p \in Sites, Accepts(p), Contents[p] # {} PROVE SiteJob(p)' = SiteJob(p)
  <2>1. ASSUME NEW c \in Channels, p = <<"queue", c>> PROVE SiteJob(p)' = SiteJob(p)
    BY <1>1, <1>4, <2>1 DEF SiteJob
  <2>2. ASSUME NEW c \in Channels, p = <<"hand", c>> PROVE SiteJob(p)' = SiteJob(p)
    BY <1>2, <1>4, <2>2 DEF SiteJob
  <2>3. ASSUME NEW s \in Stoppers, p = <<"stop", s>> PROVE SiteJob(p)' = SiteJob(p)
    BY <1>3, <1>4, <2>3 DEF SiteJob
  <2>4. ASSUME NEW t \in Deliverers, p = <<"send", t>> PROVE FALSE
    BY <1>4, <2>4 DEF Accepts
  <2>5. QED
    BY <2>1, <2>2, <2>3, <2>4, SitesSplit
<1>5. QED
  BY <1>4 DEF SameJobs

(* Only the call of t moves, and what it has is no longer about to be sent. *)
Sent(t) ==
  delivery'[t].pc # "send" /\ \A u \in Deliverers : u # t => delivery'[u] = delivery[u]

(* A message goes into the channel c. *)
LEMMA SendsTo ==
  ASSUME IInv, SiteInv, QueueInv,
         NEW t \in Deliverers, NEW c \in Channels,
         delivery[t].pc = "send", JobOf[delivery[t].entry.id] \notin completingJobs,
         queue' = [queue EXCEPT ![c] = Append(@, delivery[t].entry)],
         Sent(t), held' = held, stops' = stops, inFlight' = inFlight,
         acceptedMessages' = [acceptedMessages EXCEPT ![JobOf[delivery[t].entry.id]] = @ + 1],
         owner'[c] = JobOf[delivery[t].entry.id]
  PROVE  /\ delivery[t].entry.id \in Messages
         /\ Sends(delivery[t].entry.id, <<"send", t>>, <<"queue", c>>)
         /\ QueueInv'
<1> DEFINE e == delivery[t].entry
           p == <<"send", t>>
           q == <<"queue", c>>
<1>1. e \in Entries /\ e.id \in Messages
  BY EntryFields DEF IInv, DeliveryInv
<1>2. /\ delivery'[t].pc # "send" /\ \A u \in Deliverers : u # t => delivery'[u] = delivery[u]
      /\ queue \in [Channels -> Seq(Entries)]
      /\ queue'[c] = Append(queue[c], e) /\ \A b \in Channels : b # c => queue'[b] = queue[b]
  BY DEF IInv, TypeOK, ChannelTypeOK, Sent
<1> HIDE DEF e
<1>3. p \in Sites /\ q \in Sites /\ p # q /\ Contents[p] = {e.id} /\ Contents[q] = Ids(queue[c])
  BY ContentsAt DEF e
<1>4. e.id \notin Ids(queue[c])
  <2>1. \A x, y \in Sites : x # y => Contents[x] \cap Contents[y] = {}
    BY DEF SiteInv
  <2>2. {e.id} \cap Ids(queue[c]) = {}
    <3> HIDE DEF p, q
    <3>1. QED
      BY <1>3, <2>1
  <2>3. QED
    BY <2>2
<1>5. queue[c] \in Seq(Entries)
  BY <1>2
<1>6. /\ Ids(queue'[c]) = Ids(queue[c]) \cup {e.id}
      /\ \A k, l \in 1 .. Len(queue'[c]) : queue'[c][k].id = queue'[c][l].id => k = l
  BY <1>1, <1>2, <1>4, <1>5, IdsAppend DEF QueueInv
<1>7. Contents'[p] = {} /\ Contents'[q] = Contents[q] \cup {e.id}
  BY <1>2, <1>3, <1>6, ContentsNext
<1>8. \A x \in Sites : x # p /\ x # q => Contents'[x] = Contents[x]
  <2>1. \A b \in Channels : <<"queue", b>> \notin {p, q} => queue'[b] = queue[b]
    BY <1>2
  <2>2. \A u \in Deliverers : <<"send", u>> \notin {p, q} => SameSend(u)
    BY <1>2 DEF SameSend
  <2>3. QED
    <3>1. \A b \in Channels : <<"hand", b>> \notin {p, q} => held'[b] = held[b]
      OBVIOUS
    <3>2. \A s \in Stoppers : <<"stop", s>> \notin {p, q} => stops'[s].held = stops[s].held
      OBVIOUS
    <3> HIDE DEF p, q
    <3>3. QED
      BY <2>1, <2>2, <3>1, <3>2, OthersRest
<1>9. QueueInv'
  <2>1. \A b \in Channels : \A k, l \in 1 .. Len(queue'[b]) :
          queue'[b][k].id = queue'[b][l].id => k = l
    <3>1. SUFFICES ASSUME NEW b \in Channels
                   PROVE  \A k, l \in 1 .. Len(queue'[b]) :
                            queue'[b][k].id = queue'[b][l].id => k = l
      OBVIOUS
    <3>2. CASE b = c
      BY <1>6, <3>2
    <3>3. CASE b # c
      <4>1. queue'[b] = queue[b]
        BY <1>2, <3>3
      <4>2. \A k, l \in 1 .. Len(queue[b]) : queue[b][k].id = queue[b][l].id => k = l
        BY DEF QueueInv
      <4>3. QED
        BY <4>1, <4>2
    <3>4. QED
      BY <3>2, <3>3
  <2>2. QED
    BY <2>1 DEF QueueInv
<1>10. SiteJob(q)' = JobOf[e.id]
  BY DEF SiteJob, e
<1>11. QED
  BY <1>1, <1>3, <1>7, <1>8, <1>9, <1>10 DEF Sends, Accepts, e

(* The head of channel c is taken. *)
LEMMA TakenFrom ==
  ASSUME IInv, QueueInv, JobInv, NEW c \in Channels, queue[c] # <<>>,
         queue' = [queue EXCEPT ![c] = Tail(@)]
  PROVE  /\ Head(queue[c]) \in Entries /\ Head(queue[c]).id \in Messages
         /\ Head(queue[c]).id \in Contents[<<"queue", c>>]
         /\ JobOf[Head(queue[c]).id] = owner[c]
         /\ Contents'[<<"queue", c>>] = Contents[<<"queue", c>>] \ {Head(queue[c]).id}
         /\ \A b \in Channels : b # c => queue'[b] = queue[b]
         /\ QueueInv'
<1>1. /\ queue[c] \in Seq(Entries)
      /\ queue'[c] = Tail(queue[c]) /\ \A b \in Channels : b # c => queue'[b] = queue[b]
  BY DEF IInv, TypeOK, ChannelTypeOK
<1>2. \A k, l \in 1 .. Len(queue[c]) : queue[c][k].id = queue[c][l].id => k = l
  BY DEF QueueInv
<1>3. /\ Head(queue[c]) \in Entries /\ Head(queue[c]).id \in Ids(queue[c])
      /\ Ids(queue'[c]) = Ids(queue[c]) \ {Head(queue[c]).id}
      /\ \A k, l \in 1 .. Len(queue'[c]) : queue'[c][k].id = queue'[c][l].id => k = l
  <2> DEFINE s == queue[c]
  <2>1. s \in Seq(Entries) /\ s # <<>> /\ queue'[c] = Tail(s)
    BY <1>1
  <2>2. \A k, l \in 1 .. Len(s) : s[k].id = s[l].id => k = l
    BY <1>2
  <2> HIDE DEF s
  <2>3. /\ Head(s) \in Entries /\ Head(s).id \in Ids(s)
        /\ Ids(Tail(s)) = Ids(s) \ {Head(s).id}
        /\ \A k, l \in 1 .. Len(Tail(s)) : Tail(s)[k].id = Tail(s)[l].id => k = l
    BY <2>1, <2>2, IdsTail
  <2>4. QED
    BY <2>1, <2>3 DEF s
<1>4. /\ Contents[<<"queue", c>>] = Ids(queue[c]) /\ Contents'[<<"queue", c>>] = Ids(queue'[c])
      /\ <<"queue", c>> \in Sites
  BY ContentsAt, ContentsNext
<1>5. JobOf[Head(queue[c]).id] = owner[c]
  <2>1. Accepts(<<"queue", c>>) /\ SiteJob(<<"queue", c>>) = owner[c]
    BY DEF Accepts, SiteJob
  <2>2. QED
    BY <1>3, <1>4, <2>1 DEF JobInv
<1>6. QueueInv'
  <2>1. \A b \in Channels : \A k, l \in 1 .. Len(queue'[b]) :
          queue'[b][k].id = queue'[b][l].id => k = l
    BY <1>1, <1>3 DEF QueueInv
  <2>2. QED
    BY <2>1 DEF QueueInv
<1>7. QED
  BY <1>1, <1>3, <1>4, <1>5, <1>6, EntryFields


LEMMA HandFrame ==
  ASSUME HandInv, held' = held, stops' = stops, made' = made, owner' = owner,
         \A c \in Channels : c > made => queue'[c] = <<>>,
         \A c \in Channels : Holds(c) => proc'[c] \in {"handle", "finish", "dropped"}
  PROVE  HandInv'
  BY DEF HandInv, Holds

(* Deliveries. *)
LEMMA DeliveryHandles ==
  ASSUME IInv, HandInv, QueueInv, NEW t \in Deliverers, NEW d,
         delivery[t].pc # "send", d.pc # "send",
         delivery' = [delivery EXCEPT ![t] = d],
         UNCHANGED <<queue, held, stops, made, owner, acceptedMessages, inFlight>>,
         \A c \in Channels : Holds(c) => proc'[c] = proc[c]
  PROVE  Handled /\ QueueInv' /\ HandInv'
<1>1. /\ queue' = queue /\ held' = held /\ stops' = stops /\ made' = made /\ owner' = owner
      /\ acceptedMessages' = acceptedMessages /\ inFlight' = inFlight
  OBVIOUS
<1>2. \A u \in Deliverers : SameSend(u)
  <2>1. delivery'[t] = d /\ \A u \in Deliverers : u # t => delivery'[u] = delivery[u]
    BY DEF IInv, TypeOK, DeliveryTypeOK
  <2>2. QED
    BY <2>1 DEF SameSend
<1>3. Handled
  BY <1>1, <1>2, SitesRest, JobsRest DEF Handled
<1>4. HandInv'
  BY <1>1, HandFrame DEF HandInv
<1>5. QED
  BY <1>1, <1>3, <1>4 DEF QueueInv

LEMMA OfferHandles ==
  ASSUME IInv, HandInv, QueueInv, NEW t \in Deliverers, NEW m \in Messages,
         NEW kind \in {"start", "reply"}, Offer(t, m, kind), UNCHANGED restVars
  PROVE  Handled /\ QueueInv' /\ HandInv'
<1> DEFINE d == [pc |-> "check", entry |-> [id |-> m, kind |-> kind], ch |-> NoChannel]
<1>1. /\ d.pc # "send" /\ delivery[t].pc # "send" /\ delivery' = [delivery EXCEPT ![t] = d]
      /\ UNCHANGED <<queue, held, stops, made, owner, acceptedMessages, inFlight>>
      /\ proc' = proc
  BY DEF Offer, channelVars, markVars, processorVars, restVars, stopVars
<1> HIDE DEF d
<1>2. QED
  BY <1>1, DeliveryHandles

LEMMA DispatchHandles ==
  ASSUME IInv, HandInv, QueueInv, SiteInv, NEW t \in Deliverers, Dispatch(t), UNCHANGED restVars
  PROVE  Handled /\ QueueInv' /\ HandInv'
<1> DEFINE d == delivery[t]
           m == d.entry.id
           j == JobOf[m]
           p == <<"send", t>>
<1>r. stops' = stops
  BY DEF restVars, stopVars
<1>t. /\ d.pc # "none" => m \in Messages /\ j \in Jobs
      /\ delivery \in [Deliverers -> Deliveries] /\ d \in Deliveries
      /\ NoDelivery.pc = "none"
  BY EntryFields, NoDeliveryType DEF IInv, TypeOK, DeliveryTypeOK, DeliveryInv
<1>p. p \in Sites /\ ~Accepts(p) /\ (d.pc = "send" => Contents[p] = {m})
  BY ContentsAt DEF Accepts
<1>h. \A c \in Channels : Holds(c) => proc[c] \in {"handle", "finish", "dropped"}
  BY DEF HandInv
<1>1. CASE DispatchCheckDone(t)
  <2> DEFINE e == IF d.entry.id \in doneMessages THEN NoDelivery ELSE [d EXCEPT !.pc = "mark"]
  <2>1. /\ d.pc # "send" /\ delivery' = [delivery EXCEPT ![t] = e]
        /\ UNCHANGED <<queue, held, stops, made, owner, acceptedMessages, inFlight>>
        /\ proc' = proc
    BY <1>1, <1>r DEF DispatchCheckDone, channelVars, markVars, processorVars
  <2>2. e.pc # "send"
    BY <1>t, DeliveryFields DEF DeliveryStates
  <2> HIDE DEF e
  <2>3. QED
    BY <2>1, <2>2, DeliveryHandles
<1>2. CASE DispatchMark(t)
  <2>1. /\ d.pc = "mark" /\ inFlight' = inFlight \cup {m}
        /\ delivery' = [delivery EXCEPT ![t] =
             IF m \in inFlight THEN NoDelivery ELSE [d EXCEPT !.pc = "send"]]
        /\ queue' = queue /\ held' = held /\ made' = made /\ owner' = owner
        /\ acceptedMessages' = acceptedMessages /\ proc' = proc
    BY <1>2 DEF DispatchMark, channelVars, processorVars
  <2>2. CASE m \in inFlight
    <3>1. /\ d.pc # "send" /\ delivery' = [delivery EXCEPT ![t] = NoDelivery]
          /\ NoDelivery.pc # "send" /\ inFlight' = inFlight
      BY <1>t, <2>1, <2>2
    <3>2. UNCHANGED <<queue, held, stops, made, owner, acceptedMessages, inFlight>>
      BY <1>r, <2>1, <3>1
    <3>3. QED
      BY <2>1, <3>1, <3>2, DeliveryHandles
  <2>3. CASE m \notin inFlight
    <3>1. delivery'[t].pc = "send" /\ delivery'[t].entry = d.entry
      BY <1>t, <2>1, <2>3, DeliveryFields DEF DeliveryStates, Deliveries
    <3>2. \A u \in Deliverers : u # t => delivery'[u] = delivery[u]
      BY <1>t, <2>1
    <3>3. Contents[p] = {} /\ Contents'[p] = {m}
      BY <2>1, <3>1, ContentsAt, ContentsNext
    <3>4. \A x \in Sites : x # p => Contents'[x] = Contents[x]
      <4>1. \A u \in Deliverers : <<"send", u>> \notin {p, p} => SameSend(u)
        BY <3>2 DEF SameSend
      <4> HIDE DEF p
      <4>2. QED
        BY <1>r, <2>1, <4>1, OthersRest
    <3>5. Marks(m, p)
      BY <1>p, <2>1, <2>3, <3>3, <3>4 DEF Marks
    <3>6. SameJobs
      BY <1>r, <2>1, JobsRest
    <3>7. m \in Messages
      BY <1>t, <2>1
    <3>8. Handled
      BY <1>p, <3>5, <3>6, <3>7 DEF Handled
    <3>9. HandInv'
      BY <1>r, <1>h, <2>1, HandFrame DEF HandInv
    <3>10. QED
      BY <2>1, <3>8, <3>9 DEF QueueInv
  <2>4. QED
    BY <2>2, <2>3
<1>3. CASE DispatchRefuse(t)
  <2>1. /\ d.pc = "send" /\ inFlight' = inFlight \ {m}
        /\ delivery' = [delivery EXCEPT ![t] = NoDelivery]
        /\ queue' = queue /\ held' = held /\ made' = made /\ owner' = owner
        /\ acceptedMessages' = acceptedMessages /\ proc' = proc
    BY <1>3 DEF DispatchRefuse, channelVars, processorVars
  <2>2. delivery'[t].pc # "send" /\ \A u \in Deliverers : u # t => delivery'[u] = delivery[u]
    BY <1>t, <2>1
  <2>3. Contents'[p] = {}
    BY <2>2, ContentsNext
  <2>4. \A x \in Sites : x # p => Contents'[x] = Contents[x]
    <3>1. \A u \in Deliverers : <<"send", u>> \notin {p, p} => SameSend(u)
      BY <2>2 DEF SameSend
    <3> HIDE DEF p
    <3>2. QED
      BY <1>r, <2>1, <3>1, OthersRest
  <2>5. Refuses(m, p)
    BY <1>p, <2>1, <2>3, <2>4 DEF Refuses
  <2>6. SameJobs
    BY <1>r, <2>1, JobsRest
  <2>7. m \in Messages
    BY <1>t, <2>1
  <2>8. Handled
    BY <1>p, <2>5, <2>6, <2>7 DEF Handled
  <2>9. HandInv'
    BY <1>r, <1>h, <2>1, HandFrame DEF HandInv
  <2>10. QED
    BY <2>1, <2>8, <2>9 DEF QueueInv
<1>4. CASE DispatchSend(t)
  <2> DEFINE c == activeJobs[j]
  <2>1. /\ d.pc = "send" /\ j \notin completingJobs /\ c # NoChannel
        /\ queue' = [queue EXCEPT ![c] = Append(@, d.entry)]
        /\ acceptedMessages' = [acceptedMessages EXCEPT ![j] = @ + 1]
        /\ delivery' = [delivery EXCEPT ![t] = NoDelivery]
        /\ held' = held /\ made' = made /\ owner' = owner /\ inFlight' = inFlight /\ proc' = proc
    BY <1>4 DEF DispatchSend, processorVars
  <2>2. j \in Jobs
    BY <1>t, <2>1
  <2>3. ChannelTypeOK /\ ChannelInv
    BY DEF IInv, TypeOK
  <2>4. c \in Channels /\ c <= made /\ owner[c] = j
    BY <2>1, <2>2, <2>3 DEF ChannelTypeOK, ChannelInv
  <2>5. m \in Messages /\ Sends(m, p, <<"queue", c>>) /\ QueueInv'
    <3>1. Sent(t)
      BY <1>t, <2>1 DEF Sent
    <3>2. owner'[c] = j
      BY <2>1, <2>4
    <3> HIDE DEF c
    <3>3. QED
      BY <1>r, <2>1, <2>4, <3>1, <3>2, SendsTo
  <2>6. SameJobs
    BY <1>r, <2>1, JobsRest
  <2>7. <<"queue", c>> \in Sites /\ <<"queue", c>> # p
    BY <2>4, ContentsAt
  <2>8. Handled
    <3> HIDE DEF c, p, m
    <3>1. QED
      BY <1>p, <2>5, <2>6, <2>7 DEF Handled
  <2>9. \A b \in Channels : b > made => queue'[b] = <<>>
    <3>1. made \in Nat /\ Channels \subseteq Nat
      BY <2>3, DispatcherAssumption DEF ChannelTypeOK, Channels, NoChannel
    <3>2. \A b \in Channels : b # c => queue'[b] = queue[b]
      BY <2>1, <2>3 DEF ChannelTypeOK
    <3>3. ASSUME NEW b \in Channels, b > made PROVE b # c
      <4> HIDE DEF c
      <4>1. ~(b <= made)
        BY <3>1, <3>3
      <4>2. QED
        BY <2>4, <4>1
    <3>4. QED
      BY <3>2, <3>3 DEF HandInv
  <2>10. HandInv'
    BY <1>r, <1>h, <2>1, <2>9, HandFrame
  <2>11. QED
    BY <2>5, <2>8, <2>10
<1>5. CASE DispatchSendNew(t)
  <2> DEFINE c == made + 1
             n == [pc |-> "submit", entry |-> d.entry, ch |-> c]
  <2>1. /\ d.pc = "send" /\ j \notin completingJobs /\ made < MaxChannels
        /\ queue' = [queue EXCEPT ![c] = Append(@, d.entry)]
        /\ acceptedMessages' = [acceptedMessages EXCEPT ![j] = @ + 1]
        /\ delivery' = [delivery EXCEPT ![t] = n]
        /\ held' = held /\ made' = c /\ owner' = [owner EXCEPT ![c] = j]
        /\ inFlight' = inFlight /\ proc' = [proc EXCEPT ![c] = "created"]
    BY <1>5 DEF DispatchSendNew
  <2>2. n.pc # "send"
    OBVIOUS
  <2>3. ChannelTypeOK /\ ProcessorTypeOK /\ ProcessorInv
    BY DEF IInv, TypeOK
  <2>4. made \in Nat /\ Channels \subseteq Nat /\ c \in Channels /\ c > made
    BY <2>1, <2>3, DispatcherAssumption DEF ChannelTypeOK, Channels, NoChannel
  <2>5. /\ owner'[c] = j /\ \A b \in Channels : b # c => owner'[b] = owner[b]
        /\ proc[c] = "unborn" /\ \A b \in Channels : b # c => proc'[b] = proc[b]
        /\ \A b \in Channels : b # c => queue'[b] = queue[b]
    BY <2>1, <2>3, <2>4 DEF ChannelTypeOK, ProcessorTypeOK, ProcessorInv
  <2>6. \A b \in Channels : b <= made => b # c
    BY <2>4
  <2>7. m \in Messages /\ Sends(m, p, <<"queue", c>>) /\ QueueInv'
    <3>1. Sent(t)
      BY <1>t, <2>1, <2>2 DEF Sent
    <3>2. /\ queue' = [queue EXCEPT ![c] = Append(@, d.entry)] /\ owner'[c] = j /\ c \in Channels
          /\ acceptedMessages' = [acceptedMessages EXCEPT ![j] = @ + 1]
          /\ held' = held /\ stops' = stops /\ inFlight' = inFlight
          /\ d.pc = "send" /\ j \notin completingJobs
      BY <1>r, <2>1, <2>4, <2>5
    <3> HIDE DEF c, n
    <3>3. QED
      BY <3>1, <3>2, SendsTo
  <2>8. SameJobs
    BY <1>r, <2>5, <2>6, JobsRest
  <2>9. <<"queue", c>> \in Sites /\ <<"queue", c>> # p
    BY <2>4, ContentsAt
  <2>10. Handled
    <3> HIDE DEF c, p, m
    <3>1. QED
      BY <1>p, <2>7, <2>8, <2>9 DEF Handled
  <2>11. \A b \in Channels : Holds(b)' => proc'[b] \in {"handle", "finish", "dropped"}
    BY <1>h, <2>1, <2>5 DEF Holds
  <2>12. \A b \in Channels : b > made' => queue'[b] = <<>>
    <3>1. \A b \in Channels : b > made' => b > made /\ b # c
      BY <2>1, <2>4
    <3>2. QED
      BY <2>5, <3>1 DEF HandInv
  <2>13. \A s \in Stoppers : stops[s].pc \in {"drain", "dropped"} =>
           stops[s].ch <= made' /\ owner'[stops[s].ch] = stops[s].job
    <3>1. ASSUME NEW s \in Stoppers, stops[s].pc \in {"drain", "dropped"}
          PROVE  stops[s].ch <= made' /\ owner'[stops[s].ch] = stops[s].job
      <4>1. stops[s].ch \in Channels /\ stops[s].ch <= made /\ owner[stops[s].ch] = stops[s].job
        BY <3>1 DEF HandInv, IInv, StopInv
      <4>2. stops[s].ch <= made' /\ stops[s].ch # c
        BY <2>1, <2>4, <4>1
      <4>3. QED
        BY <2>5, <4>1, <4>2
    <3>2. QED
      BY <3>1
  <2>14. HandInv'
    BY <1>r, <2>11, <2>12, <2>13 DEF HandInv
  <2>15. QED
    BY <2>7, <2>10, <2>14
<1>6. CASE DispatchSubmit(t)
  <2>1. /\ d.pc = "submit" /\ delivery' = [delivery EXCEPT ![t] = NoDelivery]
        /\ UNCHANGED <<queue, held, stops, made, owner, acceptedMessages, inFlight>>
        /\ proc' = [proc EXCEPT ![d.ch] = "submitted"]
    BY <1>6, <1>r DEF DispatchSubmit, channelVars, markVars
  <2>2. proc[d.ch] = "created"
    BY <2>1 DEF IInv, DeliveryInv
  <2>3. \A c \in Channels : Holds(c) => proc'[c] = proc[c]
    <3>1. \A c \in Channels : c # d.ch => proc'[c] = proc[c]
      BY <2>1 DEF IInv, TypeOK, ProcessorTypeOK
    <3>2. QED
      BY <1>h, <2>2, <3>1
  <2>4. d.pc # "send" /\ NoDelivery.pc # "send"
    BY <1>t, <2>1
  <2>5. QED
    BY <2>1, <2>3, <2>4, DeliveryHandles
<1>7. QED
  BY <1>1, <1>2, <1>3, <1>4, <1>5, <1>6 DEF Dispatch


(* Processors. *)
LEMMA StillHandles ==
  ASSUME IInv, HandInv, QueueInv,
         UNCHANGED <<queue, held, stops, delivery, made, owner, acceptedMessages, inFlight>>,
         \A c \in Channels : Holds(c) => proc'[c] \in {"handle", "finish", "dropped"}
  PROVE  Handled /\ QueueInv' /\ HandInv'
<1>1. /\ queue' = queue /\ held' = held /\ stops' = stops /\ made' = made /\ owner' = owner
      /\ acceptedMessages' = acceptedMessages /\ inFlight' = inFlight /\ delivery' = delivery
  OBVIOUS
<1>2. \A u \in Deliverers : SameSend(u)
  BY <1>1 DEF SameSend
<1>3. Handled
  BY <1>1, <1>2, SitesRest, JobsRest DEF Handled
<1>4. HandInv'
  BY <1>1, HandFrame DEF HandInv
<1>5. QED
  BY <1>1, <1>3, <1>4 DEF QueueInv

LEMMA StartTaskHandles ==
  ASSUME IInv, HandInv, QueueInv, StartTask, UNCHANGED restVars
  PROVE  Handled /\ QueueInv' /\ HandInv'
<1> DEFINE c == Head(pool)
<1>1. /\ pool # <<>> /\ proc' = [proc EXCEPT ![c] = "receive"]
      /\ UNCHANGED <<queue, held, stops, delivery, made, owner, acceptedMessages, inFlight>>
  BY DEF StartTask, restVars, stopVars, channelVars, markVars, deliveryVars
<1>2. PoolInv /\ ProcessorTypeOK
  BY DEF IInv, TypeOK
<1>3. c = pool[1] /\ 1 \in 1 .. Len(pool)
  BY <1>1, <1>2 DEF ProcessorTypeOK
<1>4. proc[c] = "submitted"
  BY <1>2, <1>3 DEF PoolInv
<1>5. \A b \in Channels : b # c => proc'[b] = proc[b]
  BY <1>1, <1>2 DEF ProcessorTypeOK
<1>6. \A b \in Channels : Holds(b) => proc'[b] \in {"handle", "finish", "dropped"}
  BY <1>4, <1>5 DEF HandInv
<1>7. QED
  BY <1>1, <1>6, StillHandles

(* The processor of c takes the head of its channel, or lets go of what it has. *)
LEMMA TakesHandles ==
  ASSUME IInv, HandInv, QueueInv, JobInv, NEW c \in Channels, NEW pc \in {"handle", "dropped"},
         proc[c] \in {"receive", "drain"}, queue[c] # <<>>,
         queue' = [queue EXCEPT ![c] = Tail(@)], held' = [held EXCEPT ![c] = Head(queue[c])],
         proc' = [proc EXCEPT ![c] = pc],
         UNCHANGED <<stops, delivery, made, owner, acceptedMessages, inFlight>>
  PROVE  Handled /\ QueueInv' /\ HandInv'
<1> DEFINE e == Head(queue[c])
           p == <<"queue", c>>
           q == <<"hand", c>>
<1>1. /\ e \in Entries /\ e.id \in Messages /\ e.id \in Contents[p] /\ JobOf[e.id] = owner[c]
      /\ Contents'[p] = Contents[p] \ {e.id} /\ \A b \in Channels : b # c => queue'[b] = queue[b]
      /\ QueueInv'
  BY TakenFrom
<1>2. /\ held'[c] = e /\ \A b \in Channels : b # c => held'[b] = held[b]
      /\ proc'[c] = pc /\ \A b \in Channels : b # c => proc'[b] = proc[b]
  BY DEF IInv, TypeOK, ProcessorTypeOK
<1>3. /\ stops' = stops /\ delivery' = delivery /\ made' = made /\ owner' = owner
      /\ acceptedMessages' = acceptedMessages /\ inFlight' = inFlight
  OBVIOUS
<1> HIDE DEF e
<1>4. p \in Sites /\ q \in Sites /\ p # q /\ Accepts(p) /\ Accepts(q) /\ SiteJob(q)' = owner'[c]
  BY ContentsAt DEF Accepts, SiteJob
<1>5. Contents[q] = {} /\ Contents'[q] = {e.id}
  <2>1. held[c] = NoEntry
    BY DEF HandInv, Holds
  <2>2. {NoEntry.id} \ {None} = {} /\ {e.id} \ {None} = {e.id}
    BY <1>1, NoneAssumption DEF NoEntry
  <2>3. QED
    BY <1>2, <2>1, <2>2, ContentsAt, ContentsNext
<1>6. \A x \in Sites : x # p /\ x # q => Contents'[x] = Contents[x]
  <2>1. /\ \A b \in Channels : <<"queue", b>> \notin {p, q} => queue'[b] = queue[b]
        /\ \A b \in Channels : <<"hand", b>> \notin {p, q} => held'[b] = held[b]
    BY <1>1, <1>2
  <2>2. \A u \in Deliverers : <<"send", u>> \notin {p, q} => SameSend(u)
    BY <1>3 DEF SameSend
  <2>3. \A s \in Stoppers : <<"stop", s>> \notin {p, q} => stops'[s].held = stops[s].held
    BY <1>3
  <2> HIDE DEF p, q
  <2>4. QED
    BY <2>1, <2>2, <2>3, OthersRest
<1>7. Takes(e.id, p, q)
  BY <1>1, <1>3, <1>4, <1>5, <1>6 DEF Takes
<1>8. SameJobs
  BY <1>3, JobsRest
<1>9. Handled
  BY <1>1, <1>4, <1>7, <1>8 DEF Handled
<1>10. HandInv'
  <2>1. \A b \in Channels : held'[b] # NoEntry => proc'[b] \in {"handle", "finish", "dropped"}
    BY <1>2 DEF HandInv, Holds
  <2>2. \A b \in Channels : b > made' => queue'[b] = <<>>
    BY <1>1, <1>3 DEF HandInv
  <2>3. QED
    BY <1>3, <2>1, <2>2 DEF HandInv, Holds
<1>11. QED
  BY <1>1, <1>9, <1>10

LEMMA ForgetsHandles ==
  ASSUME IInv, HandInv, QueueInv, JobInv, NEW c \in Channels, NEW pc \in {"check", "drain"},
         proc[c] \in {"finish", "dropped"}, FinishAccepted(owner[c], held[c].id),
         held' = [held EXCEPT ![c] = NoEntry], proc' = [proc EXCEPT ![c] = pc],
         UNCHANGED <<queue, stops, delivery, made, owner>>
  PROVE  Handled /\ QueueInv' /\ HandInv'
<1> DEFINE m == held[c].id
           p == <<"hand", c>>
<1>1. held[c] \in Entries /\ m \in Messages
  BY EntryFields DEF IInv, ProcessorInv
<1>2. /\ held'[c] = NoEntry /\ \A b \in Channels : b # c => held'[b] = held[b]
      /\ \A b \in Channels : b # c => proc'[b] = proc[b]
  BY DEF IInv, TypeOK, ProcessorTypeOK
<1>3. /\ queue' = queue /\ stops' = stops /\ delivery' = delivery /\ made' = made /\ owner' = owner
  OBVIOUS
<1>4. p \in Sites /\ Accepts(p) /\ SiteJob(p) = owner[c]
  BY ContentsAt DEF Accepts, SiteJob
<1>5. Contents[p] = {m} /\ Contents'[p] = {}
  <2>1. {NoEntry.id} \ {None} = {} /\ {m} \ {None} = {m}
    BY <1>1, NoneAssumption DEF NoEntry
  <2>2. QED
    BY <1>2, <2>1, ContentsAt, ContentsNext
<1>6. \A x \in Sites : x # p => Contents'[x] = Contents[x]
  <2>1. \A b \in Channels : <<"hand", b>> \notin {p, p} => held'[b] = held[b]
    BY <1>2
  <2>2. \A u \in Deliverers : <<"send", u>> \notin {p, p} => SameSend(u)
    BY <1>3 DEF SameSend
  <2>3. /\ \A b \in Channels : <<"queue", b>> \notin {p, p} => queue'[b] = queue[b]
        /\ \A s \in Stoppers : <<"stop", s>> \notin {p, p} => stops'[s].held = stops[s].held
    BY <1>3
  <2> HIDE DEF p
  <2>4. QED
    BY <2>1, <2>2, <2>3, OthersRest
<1>7. JobOf[m] = owner[c]
  BY <1>4, <1>5 DEF JobInv
<1>8. Forgets(m, p)
  BY <1>4, <1>5, <1>6, <1>7 DEF Forgets, FinishAccepted
<1>9. SameJobs
  BY <1>3, JobsRest
<1>10. Handled
  BY <1>1, <1>4, <1>8, <1>9 DEF Handled
<1>11. HandInv'
  <2>1. \A b \in Channels : held'[b] # NoEntry => proc'[b] \in {"handle", "finish", "dropped"}
    BY <1>2 DEF HandInv, Holds
  <2>2. \A b \in Channels : b > made' => queue'[b] = <<>>
    BY <1>3 DEF HandInv
  <2>3. QED
    BY <1>3, <2>1, <2>2 DEF HandInv, Holds
<1>12. QED
  BY <1>3, <1>10, <1>11 DEF QueueInv

LEMMA ProcessHandles ==
  ASSUME IInv, HandInv, QueueInv, JobInv, NEW c \in Channels, Process(c), UNCHANGED restVars
  PROVE  Handled /\ QueueInv' /\ HandInv'
<1>r. stops' = stops
  BY DEF restVars, stopVars
<1>s. ASSUME UNCHANGED <<queue, held, delivery, made, owner, acceptedMessages, inFlight>>,
             proc[c] \notin {"handle", "finish", "dropped"},
             NEW pc, proc' = [proc EXCEPT ![c] = pc]
      PROVE  Handled /\ QueueInv' /\ HandInv'
  <2>1. \A b \in Channels : b # c => proc'[b] = proc[b]
    BY <1>s DEF IInv, TypeOK, ProcessorTypeOK
  <2>2. \A b \in Channels : Holds(b) => proc'[b] \in {"handle", "finish", "dropped"}
    BY <1>s, <2>1 DEF HandInv
  <2>3. QED
    BY <1>r, <1>s, <2>2, StillHandles
<1>1. CASE Receive(c)
  <2>1. /\ proc[c] = "receive" /\ queue[c] # <<>>
        /\ queue' = [queue EXCEPT ![c] = Tail(@)] /\ held' = [held EXCEPT ![c] = Head(queue[c])]
        /\ proc' = [proc EXCEPT ![c] = "handle"]
        /\ UNCHANGED <<delivery, made, owner, acceptedMessages, inFlight>>
    BY <1>1 DEF Receive, markVars, deliveryVars
  <2>2. QED
    BY <1>r, <2>1, TakesHandles
<1>2. CASE ReceiveClosed(c)
  <2>1. /\ proc[c] = "receive" /\ proc' = [proc EXCEPT ![c] = "cleanup"]
        /\ UNCHANGED <<queue, held, delivery, made, owner, acceptedMessages, inFlight>>
    BY <1>2 DEF ReceiveClosed, channelVars, markVars, deliveryVars
  <2>2. QED
    BY <1>s, <2>1
<1>3. CASE FinishHandled(c)
  <2>1. /\ proc[c] = "finish" /\ FinishAccepted(owner[c], held[c].id)
        /\ held' = [held EXCEPT ![c] = NoEntry] /\ proc' = [proc EXCEPT ![c] = "check"]
        /\ UNCHANGED <<queue, delivery, made, owner>>
    BY <1>3 DEF FinishHandled, channelVars, deliveryVars
  <2>2. QED
    BY <1>r, <2>1, ForgetsHandles
<1>4. CASE CheckJob(c)
  <2> DEFINE pc == CASE jobs[owner[c]].status = "absent" -> "cleanup"
                     [] jobs[owner[c]].status \in {"completed", "failed"} -> "close"
                     [] OTHER -> "receive"
  <2>1. /\ proc[c] = "check" /\ proc' = [proc EXCEPT ![c] = pc]
        /\ UNCHANGED <<queue, held, delivery, made, owner, acceptedMessages, inFlight>>
    BY <1>4 DEF CheckJob, channelVars, markVars, deliveryVars
  <2> HIDE DEF pc
  <2>2. QED
    BY <1>s, <2>1
<1>5. CASE CloseIfEmpty(c)
  <2>1. /\ proc[c] = "close"
        /\ \/ proc' = [proc EXCEPT ![c] = "receive"]
           \/ proc' = [proc EXCEPT ![c] = "cleanup"]
        /\ UNCHANGED <<queue, held, delivery, made, owner, acceptedMessages, inFlight>>
    BY <1>5 DEF CloseIfEmpty, markVars, deliveryVars
  <2>2. QED
    BY <1>s, <2>1
<1>6. CASE Cleanup(c)
  <2>1. /\ proc[c] = "cleanup" /\ proc' = [proc EXCEPT ![c] = "drain"]
        /\ UNCHANGED <<queue, held, delivery, made, owner, acceptedMessages, inFlight>>
    BY <1>6 DEF Cleanup, markVars, deliveryVars
  <2>2. QED
    BY <1>s, <2>1
<1>7. CASE DrainReceive(c)
  <2>1. /\ proc[c] = "drain" /\ queue[c] # <<>>
        /\ queue' = [queue EXCEPT ![c] = Tail(@)] /\ held' = [held EXCEPT ![c] = Head(queue[c])]
        /\ proc' = [proc EXCEPT ![c] = "dropped"]
        /\ UNCHANGED <<delivery, made, owner, acceptedMessages, inFlight>>
    BY <1>7 DEF DrainReceive, markVars, deliveryVars
  <2>2. QED
    BY <1>r, <2>1, TakesHandles
<1>8. CASE DrainFinish(c)
  <2>1. /\ proc[c] = "dropped" /\ FinishAccepted(owner[c], held[c].id)
        /\ held' = [held EXCEPT ![c] = NoEntry] /\ proc' = [proc EXCEPT ![c] = "drain"]
        /\ UNCHANGED <<queue, delivery, made, owner>>
    BY <1>8 DEF DrainFinish, channelVars, deliveryVars
  <2>2. QED
    BY <1>r, <2>1, ForgetsHandles
<1>9. CASE LeaveProcessor(c)
  <2>1. /\ proc[c] = "drain" /\ proc' = [proc EXCEPT ![c] = "gone"]
        /\ UNCHANGED <<queue, held, delivery, made, owner, acceptedMessages, inFlight>>
    BY <1>9 DEF LeaveProcessor, channelVars, markVars, deliveryVars
  <2>2. QED
    BY <1>s, <2>1
<1>10. QED
  BY <1>1, <1>2, <1>3, <1>4, <1>5, <1>6, <1>7, <1>8, <1>9 DEF Process


(* Turns leave the sites alone. *)
LEMMA TurnEffect ==
  ASSUME IInv, NEW c \in Channels, HandleMessage(c)
  PROVE  /\ UNCHANGED <<queue, held, stops, delivery, made, owner, acceptedMessages, inFlight>>
         /\ UNCHANGED <<completingJobs, stopsLeft, checks, activeJobs, closes, offers, pool>>
         /\ \A b \in Channels : proc'[b] = proc[b] \/ (b = c /\ proc'[b] = "finish")
<1> DEFINE Goal ==
      /\ UNCHANGED <<queue, held, stops, delivery, made, owner, acceptedMessages, inFlight>>
      /\ UNCHANGED <<completingJobs, stopsLeft, checks, activeJobs, closes, offers, pool>>
      /\ \A b \in Channels : proc'[b] = proc[b] \/ (b = c /\ proc'[b] = "finish")
<1>1. CASE UNCHANGED <<dispatcherVars, stopVars, checks>>
  BY <1>1 DEF dispatcherVars, channelVars, markVars, processorVars, deliveryVars, stopVars
<1>2. ASSUME UNCHANGED <<channelVars, markVars, pool, held, deliveryVars, stopVars, checks>>,
             NEW pc \in {"finish", proc[c]}, proc' = [proc EXCEPT ![c] = pc]
      PROVE  Goal
  <2>1. \A b \in Channels : proc'[b] = IF b = c THEN pc ELSE proc[b]
    BY <1>2 DEF IInv, TypeOK, ProcessorTypeOK
  <2>2. QED
    BY <1>2, <2>1 DEF channelVars, markVars, deliveryVars, stopVars
<1>3. CASE EndTurn(c)
  <2>1. UNCHANGED <<channelVars, markVars, pool, held, deliveryVars, stopVars, checks>>
    BY <1>3 DEF EndTurn
  <2>2. proc' = [proc EXCEPT ![c] = IF outcome[c] = "left" THEN "finish" ELSE proc[c]]
    BY <1>3 DEF EndTurn
  <2>3. QED
    BY <1>2, <2>1, <2>2
<1>4. CASE RecordDone(c)
  <2>1. UNCHANGED <<channelVars, markVars, pool, held, deliveryVars, stopVars, checks>>
    BY <1>4 DEF RecordDone
  <2>2. proc' = [proc EXCEPT ![c] = "finish"]
    BY <1>4 DEF RecordDone
  <2>3. QED
    BY <1>2, <2>1, <2>2
<1>5. CASE BeginTurn(c) \/ LeaveForPoller(c) \/ ReadJob(c) \/ AbandonJob(c) \/ MarkInProgress(c)
             \/ TakeOffQueue(c)
  BY <1>1, <1>5 DEF BeginTurn, LeaveForPoller, ReadJob, AbandonJob, MarkInProgress, TakeOffQueue
<1>6. CASE FinishTurnWithReply(c) \/ FinishStoppedTurn(c) \/ FailCLI(c) \/ FailTurn(c)
             \/ FailInProgressJob(c)
  BY <1>1, <1>6 DEF FinishTurnWithReply, FinishStoppedTurn, FailCLI, FailTurn, FailInProgressJob
<1>7. QED
  BY <1>3, <1>4, <1>5, <1>6 DEF HandleMessage

LEMMA TurnHandles ==
  ASSUME IInv, HandInv, QueueInv, NEW c \in Channels, HandleMessage(c)
  PROVE  Handled /\ QueueInv' /\ HandInv'
<1>1. /\ UNCHANGED <<queue, held, stops, delivery, made, owner, acceptedMessages, inFlight>>
      /\ \A b \in Channels : proc'[b] = proc[b] \/ proc'[b] = "finish"
  BY TurnEffect
<1>2. \A b \in Channels : Holds(b) => proc'[b] \in {"handle", "finish", "dropped"}
  BY <1>1 DEF HandInv
<1>3. QED
  BY <1>1, <1>2, StillHandles

(* Stop requests. *)
LEMMA StopMoves ==
  ASSUME IInv, HandInv, QueueInv, NEW s \in Stoppers, NEW r,
         stops' = [stops EXCEPT ![s] = r], r.held = stops[s].held,
         stops[s].pc # "dropped", r.pc # "dropped",
         r.pc = "drain" => r.ch <= made /\ owner[r.ch] = r.job,
         UNCHANGED <<queue, held, proc, delivery, made, owner, acceptedMessages, inFlight>>
  PROVE  Handled /\ QueueInv' /\ HandInv'
<1>1. /\ queue' = queue /\ held' = held /\ made' = made /\ owner' = owner /\ proc' = proc
      /\ acceptedMessages' = acceptedMessages /\ inFlight' = inFlight /\ delivery' = delivery
  OBVIOUS
<1>2. stops'[s] = r /\ \A u \in Stoppers : u # s => stops'[u] = stops[u]
  BY DEF IInv, TypeOK, StopTypeOK
<1>3. \A u \in Deliverers : SameSend(u)
  BY <1>1 DEF SameSend
<1>4. \A u \in Stoppers : stops'[u].held = stops[u].held
  BY <1>2
<1>5. \A u \in Stoppers : stops[u].pc = "dropped" => stops'[u].job = stops[u].job
  BY <1>2
<1>6. Handled
  BY <1>1, <1>3, <1>4, <1>5, SitesRest, JobsRest DEF Handled
<1>7. HandInv'
  <2>1. \A u \in Stoppers : stops'[u].held # NoEntry => stops'[u].pc = "dropped"
    BY <1>2 DEF HandInv
  <2>2. \A u \in Stoppers : stops'[u].pc \in {"drain", "dropped"} =>
          stops'[u].ch <= made /\ owner[stops'[u].ch] = stops'[u].job
    BY <1>2 DEF HandInv
  <2>3. QED
    BY <1>1, <2>1, <2>2 DEF HandInv, Holds
<1>8. QED
  BY <1>1, <1>6, <1>7 DEF QueueInv

LEMMA StopTurnHandles ==
  ASSUME IInv, HandInv, QueueInv, NEW s \in Stoppers, NEW j \in Jobs, StopTurn(s, j)
  PROVE  Handled /\ QueueInv' /\ HandInv'
<1> DEFINE r == [NoStop EXCEPT !.pc = "find", !.job = j, !.running = (turns[j] # NoChannel)]
<1>1. /\ stops' = [stops EXCEPT ![s] = r] /\ stops[s].pc = "none"
      /\ UNCHANGED <<queue, held, proc, delivery, made, owner, acceptedMessages, inFlight>>
  BY DEF StopTurn, AtStop, GoStop, dispatcherVars, channelVars, markVars, processorVars,
         deliveryVars
<1>2. r.pc = "find" /\ r.held = NoEntry
  BY DEF NoStop
<1>3. stops[s].held = NoEntry
  BY <1>1 DEF HandInv
<1> HIDE DEF r
<1>4. QED
  BY <1>1, <1>2, <1>3, StopMoves

LEMMA StopHandles ==
  ASSUME IInv, HandInv, QueueInv, JobInv, NEW s \in Stoppers, Stop(s)
  PROVE  Handled /\ QueueInv' /\ HandInv'
<1> DEFINE r == stops[s]
<1>t. /\ r \in StopRequests /\ (r.pc # "none" => r.job \in Jobs)
      /\ (r.pc \in {"drain", "dropped"} =>
            r.ch \in Channels /\ r.ch <= made /\ owner[r.ch] = r.job)
      /\ (r.pc # "dropped" => r.held = NoEntry)
      /\ (r.pc = "dropped" => r.held \in Entries)
  BY DEF IInv, TypeOK, StopTypeOK, StopInv, HandInv
<1>f. /\ \A x \in StopStates : [r EXCEPT !.pc = x].pc = x /\ [r EXCEPT !.pc = x].held = r.held
      /\ NoStop.pc = "none" /\ NoStop.held = NoEntry
  <2>1. r \in [pc : StopStates, job : Jobs \cup {None}, running : BOOLEAN,
               ch : Channels \cup {NoChannel}, held : Entries \cup {NoEntry},
               dropped : SUBSET Entries]
    BY <1>t DEF StopRequests
  <2>2. QED
    BY <2>1 DEF NoStop
<1>s. ASSUME stops' = [stops EXCEPT ![s] = NoStop] \/ \E x \in StopStates \ {"drain", "dropped"} :
               stops' = [stops EXCEPT ![s] = [r EXCEPT !.pc = x]],
             r.pc # "dropped",
             UNCHANGED <<queue, held, proc, delivery, made, owner, acceptedMessages, inFlight>>
      PROVE  Handled /\ QueueInv' /\ HandInv'
  <2>1. CASE stops' = [stops EXCEPT ![s] = NoStop]
    BY <1>t, <1>f, <1>s, <2>1, StopMoves
  <2>2. ASSUME NEW x \in StopStates \ {"drain", "dropped"},
               stops' = [stops EXCEPT ![s] = [r EXCEPT !.pc = x]]
        PROVE  Handled /\ QueueInv' /\ HandInv'
    <3> DEFINE u == [r EXCEPT !.pc = x]
    <3>1. u.pc = x /\ u.held = stops[s].held /\ stops' = [stops EXCEPT ![s] = u]
      BY <1>f, <2>2
    <3> HIDE DEF u
    <3>2. QED
      BY <1>s, <3>1, StopMoves
  <2>3. QED
    BY <1>s, <2>1, <2>2
<1>1. CASE FindChannel(s)
  <2> DEFINE c == activeJobs[r.job]
             u == [r EXCEPT !.ch = c, !.pc = IF c = NoChannel THEN "keep" ELSE "drain"]
  <2>1. /\ r.pc = "find" /\ stops' = [stops EXCEPT ![s] = u]
        /\ UNCHANGED <<queue, held, proc, delivery, made, owner, acceptedMessages, inFlight>>
    BY <1>1 DEF FindChannel, AtStop, GoStop, dispatcherVars, channelVars, markVars, processorVars,
                deliveryVars
  <2>2. ChannelInv
    BY DEF IInv
  <2>3. c # NoChannel => c <= made /\ owner[c] = r.job
    BY <1>t, <2>1, <2>2 DEF ChannelInv
  <2>4. /\ u.pc = (IF c = NoChannel THEN "keep" ELSE "drain") /\ u.ch = c /\ u.held = r.held
        /\ u.job = r.job
    BY <1>t DEF StopRequests
  <2>5. u.pc = "drain" => u.ch <= made /\ owner[u.ch] = u.job
    BY <2>3, <2>4
  <2>6. u.pc # "dropped" /\ u.held = stops[s].held /\ stops[s].pc # "dropped"
    BY <2>1, <2>4
  <2> HIDE DEF u
  <2>7. QED
    BY <2>1, <2>5, <2>6, StopMoves
<1>2. CASE DropReceive(s)
  <2> DEFINE c == r.ch
             e == Head(queue[c])
             u == [r EXCEPT !.pc = "dropped", !.held = e]
             p == <<"queue", c>>
             q == <<"stop", s>>
  <2>1. /\ r.pc = "drain" /\ queue[c] # <<>> /\ queue' = [queue EXCEPT ![c] = Tail(@)]
        /\ stops' = [stops EXCEPT ![s] = u]
        /\ held' = held /\ proc' = proc /\ delivery' = delivery /\ made' = made /\ owner' = owner
        /\ acceptedMessages' = acceptedMessages /\ inFlight' = inFlight
    BY <1>2 DEF DropReceive, AtStop, GoStop, markVars, processorVars, deliveryVars
  <2>2. c \in Channels /\ c <= made /\ owner[c] = r.job /\ r.held = NoEntry
    BY <1>t, <2>1
  <2>3. /\ e \in Entries /\ e.id \in Messages /\ e.id \in Contents[p] /\ JobOf[e.id] = owner[c]
        /\ Contents'[p] = Contents[p] \ {e.id} /\ \A b \in Channels : b # c => queue'[b] = queue[b]
        /\ QueueInv'
    BY <2>1, <2>2, TakenFrom
  <2>4. u.pc = "dropped" /\ u.held = e /\ u.ch = c /\ u.job = r.job
    BY <1>t DEF StopRequests
  <2>5. stops'[s] = u /\ \A x \in Stoppers : x # s => stops'[x] = stops[x]
    BY <2>1 DEF IInv, TypeOK, StopTypeOK
  <2> HIDE DEF u, e
  <2>6. p \in Sites /\ q \in Sites /\ p # q /\ Accepts(p) /\ Accepts(q) /\ SiteJob(q)' = r.job
    <3>1. stops'[s].job = r.job
      BY <2>4, <2>5
    <3>2. SiteJob(q)' = stops'[s].job
      BY DEF SiteJob
    <3>3. QED
      BY <2>2, <3>1, <3>2, ContentsAt DEF Accepts
  <2>7. Contents[q] = {} /\ Contents'[q] = {e.id}
    <3>1. {NoEntry.id} \ {None} = {} /\ {e.id} \ {None} = {e.id}
      BY <2>3, NoneAssumption DEF NoEntry
    <3>2. QED
      BY <2>2, <2>4, <2>5, <3>1, ContentsAt, ContentsNext
  <2>8. \A x \in Sites : x # p /\ x # q => Contents'[x] = Contents[x]
    <3>1. /\ \A b \in Channels : <<"queue", b>> \notin {p, q} => queue'[b] = queue[b]
          /\ \A b \in Channels : <<"hand", b>> \notin {p, q} => held'[b] = held[b]
          /\ \A x \in Stoppers : <<"stop", x>> \notin {p, q} => stops'[x].held = stops[x].held
          /\ \A x \in Deliverers : <<"send", x>> \notin {p, q} => SameSend(x)
      BY <2>1, <2>3, <2>5 DEF SameSend
    <3> HIDE DEF p, q
    <3>2. QED
      BY <3>1, OthersRest
  <2>9. SameJobs
    <3>1. \A x \in Stoppers : stops[x].pc = "dropped" => stops'[x].job = stops[x].job
      BY <2>4, <2>5
    <3>2. QED
      BY <2>1, <3>1, JobsRest
  <2>10. Takes(e.id, p, q)
    BY <2>1, <2>2, <2>3, <2>6, <2>7, <2>8 DEF Takes
  <2>11. Handled
    <3> HIDE DEF p, q
    <3>1. QED
      BY <2>3, <2>6, <2>9, <2>10 DEF Handled
  <2>12. HandInv'
    <3>1. \A x \in Stoppers : stops'[x].held # NoEntry => stops'[x].pc = "dropped"
      BY <2>4, <2>5 DEF HandInv
    <3>2. \A x \in Stoppers : stops'[x].pc \in {"drain", "dropped"} =>
            stops'[x].ch <= made /\ owner[stops'[x].ch] = stops'[x].job
      BY <2>2, <2>4, <2>5 DEF HandInv
    <3>3. \A b \in Channels : b > made => queue'[b] = <<>>
      BY <2>1, <2>3 DEF HandInv
    <3>4. QED
      BY <2>1, <3>1, <3>2, <3>3 DEF HandInv, Holds
  <2>13. QED
    BY <2>3, <2>11, <2>12
<1>3. CASE DropFinish(s)
  <2> DEFINE m == r.held.id
             p == <<"stop", s>>
             u == [r EXCEPT !.pc = "drain", !.held = NoEntry, !.dropped = @ \cup {r.held}]
  <2>1. /\ r.pc = "dropped" /\ FinishAccepted(r.job, m) /\ stops' = [stops EXCEPT ![s] = u]
        /\ queue' = queue /\ held' = held /\ proc' = proc /\ delivery' = delivery
        /\ made' = made /\ owner' = owner
    BY <1>3 DEF DropFinish, AtStop, GoStop, channelVars, processorVars, deliveryVars
  <2>2. r.held \in Entries /\ m \in Messages
    BY <1>t, <2>1, EntryFields
  <2>3. u.pc = "drain" /\ u.held = NoEntry /\ u.ch = r.ch /\ u.job = r.job
    BY <1>t DEF StopRequests
  <2>4. stops'[s] = u /\ \A x \in Stoppers : x # s => stops'[x] = stops[x]
    BY <2>1 DEF IInv, TypeOK, StopTypeOK
  <2> HIDE DEF u
  <2>5. p \in Sites /\ Accepts(p) /\ SiteJob(p) = r.job
    BY ContentsAt DEF Accepts, SiteJob
  <2>6. Contents[p] = {m} /\ Contents'[p] = {}
    <3>1. {NoEntry.id} \ {None} = {} /\ {m} \ {None} = {m}
      BY <2>2, NoneAssumption DEF NoEntry
    <3>2. QED
      BY <2>3, <2>4, <3>1, ContentsAt, ContentsNext
  <2>7. \A x \in Sites : x # p => Contents'[x] = Contents[x]
    <3>1. /\ \A b \in Channels : <<"queue", b>> \notin {p, p} => queue'[b] = queue[b]
          /\ \A b \in Channels : <<"hand", b>> \notin {p, p} => held'[b] = held[b]
          /\ \A x \in Stoppers : <<"stop", x>> \notin {p, p} => stops'[x].held = stops[x].held
          /\ \A x \in Deliverers : <<"send", x>> \notin {p, p} => SameSend(x)
      BY <2>1, <2>4 DEF SameSend
    <3> HIDE DEF p
    <3>2. QED
      BY <3>1, OthersRest
  <2>8. JobOf[m] = r.job
    BY <2>5, <2>6 DEF JobInv
  <2>9. Forgets(m, p)
    BY <2>1, <2>5, <2>6, <2>7, <2>8 DEF Forgets, FinishAccepted
  <2>10. SameJobs
    <3>1. \A x \in Stoppers : stops[x].pc = "dropped" => stops'[x].job = stops[x].job
      BY <2>3, <2>4
    <3>2. QED
      BY <2>1, <3>1, JobsRest
  <2>11. Handled
    BY <2>2, <2>5, <2>9, <2>10 DEF Handled
  <2>12. HandInv'
    <3>1. \A x \in Stoppers : stops'[x].held # NoEntry => stops'[x].pc = "dropped"
      BY <2>3, <2>4 DEF HandInv
    <3>2. \A x \in Stoppers : stops'[x].pc \in {"drain", "dropped"} =>
            stops'[x].ch <= made /\ owner[stops'[x].ch] = stops'[x].job
      BY <1>t, <2>1, <2>3, <2>4 DEF HandInv
    <3>3. \A b \in Channels : b > made => queue'[b] = <<>>
      BY <2>1 DEF HandInv
    <3>4. QED
      BY <2>1, <3>1, <3>2, <3>3 DEF HandInv, Holds
  <2>13. QED
    BY <2>1, <2>11, <2>12 DEF QueueInv
<1>4. CASE DropDone(s)
  <2>1. /\ r.pc = "drain" /\ stops' = [stops EXCEPT ![s] = [r EXCEPT !.pc = "keep"]]
        /\ UNCHANGED <<queue, held, proc, delivery, made, owner, acceptedMessages, inFlight>>
    BY <1>4 DEF DropDone, AtStop, GoStop, dispatcherVars, channelVars, markVars, processorVars,
                deliveryVars
  <2>2. "keep" \in StopStates \ {"drain", "dropped"}
    BY DEF StopStates
  <2>3. QED
    BY <1>s, <2>1, <2>2
<1>5. CASE KeepJobWithoutSession(s)
  <2>1. /\ r.pc = "keep" /\ stops' = [stops EXCEPT ![s] = [r EXCEPT !.pc = "unqueue"]]
        /\ UNCHANGED <<queue, held, proc, delivery, made, owner, acceptedMessages, inFlight>>
    BY <1>5 DEF KeepJobWithoutSession, AtStop, GoStop, dispatcherVars, channelVars, markVars,
                processorVars, deliveryVars
  <2>2. "unqueue" \in StopStates \ {"drain", "dropped"}
    BY DEF StopStates
  <2>3. QED
    BY <1>s, <2>1, <2>2
<1>6. CASE TakeJobOffQueue(s)
  <2>1. /\ r.pc = "unqueue"
        /\ \/ stops' = [stops EXCEPT ![s] = NoStop]
           \/ stops' = [stops EXCEPT ![s] = [r EXCEPT !.pc = "evict"]]
        /\ UNCHANGED <<queue, held, proc, delivery, made, owner, acceptedMessages, inFlight>>
    BY <1>6 DEF TakeJobOffQueue, AtStop, GoStop, dispatcherVars, channelVars, markVars,
                processorVars, deliveryVars
  <2>2. "evict" \in StopStates \ {"drain", "dropped"}
    BY DEF StopStates
  <2>3. QED
    BY <1>s, <2>1, <2>2
<1>7. CASE EvictStopped(s)
  <2>1. /\ r.pc = "evict" /\ stops' = [stops EXCEPT ![s] = NoStop]
        /\ UNCHANGED <<queue, held, proc, delivery, made, owner, acceptedMessages, inFlight>>
    BY <1>7 DEF EvictStopped, AtStop, GoStop, markVars, processorVars, deliveryVars
  <2>2. QED
    BY <1>s, <2>1
<1>8. QED
  BY <1>1, <1>2, <1>3, <1>4, <1>5, <1>6, <1>7 DEF Stop

(* Idle checks and stuttering. *)
LEMMA CheckHandles ==
  ASSUME IInv, HandInv, QueueInv, NEW i \in IdleChecks,
         (\E j \in Jobs : CheckIdle(i, j)) \/ Check(i)
  PROVE  Handled /\ QueueInv' /\ HandInv'
<1>1. UNCHANGED <<queue, held, proc, stops, delivery, made, owner, acceptedMessages, inFlight>>
  <2>1. CASE \E j \in Jobs : CheckIdle(i, j)
    BY <2>1 DEF CheckIdle, dispatcherVars, channelVars, markVars, processorVars, deliveryVars,
                stopVars
  <2>2. CASE CheckRunning(i) \/ RecheckRow(i) \/ ClearQueue(i) \/ RemoveIdleJob(i)
    BY <2>2 DEF CheckRunning, RecheckRow, ClearQueue, RemoveIdleJob, dispatcherVars, channelVars,
                markVars, processorVars, deliveryVars, stopVars
  <2>3. CASE ClaimJob(i) \/ ReleaseJob(i)
    BY <2>3 DEF ClaimJob, ReleaseJob, channelVars, processorVars, deliveryVars, stopVars
  <2>4. CASE EvictIdle(i)
    BY <2>4 DEF EvictIdle, markVars, processorVars, deliveryVars, stopVars
  <2>5. QED
    BY <2>1, <2>2, <2>3, <2>4 DEF Check
<1>2. /\ UNCHANGED <<queue, held, stops, delivery, made, owner, acceptedMessages, inFlight>>
      /\ proc' = proc
  BY <1>1
<1>3. \A b \in Channels : Holds(b) => proc'[b] \in {"handle", "finish", "dropped"}
  BY <1>2 DEF HandInv
<1>4. QED
  BY <1>2, <1>3, StillHandles

LEMMA StepHandles ==
  ASSUME CInv, [Next]_vars
  PROVE  Handled /\ QueueInv' /\ HandInv'
<1>i. IInv /\ SiteInv /\ QueueInv /\ HandInv /\ JobInv
  BY DEF CInv
<1>1. CASE Next
  BY <1>i, <1>1, OfferHandles, DispatchHandles, StartTaskHandles, ProcessHandles, TurnHandles,
     StopTurnHandles, StopHandles, CheckHandles DEF Next
<1>2. CASE UNCHANGED vars
  <2>1. UNCHANGED <<queue, held, stops, delivery, made, owner, acceptedMessages, inFlight>>
        /\ proc' = proc
    BY <1>2 DEF vars, dispatcherVars, channelVars, markVars, processorVars, deliveryVars, stopVars
  <2>2. \A b \in Channels : Holds(b) => proc'[b] \in {"handle", "finish", "dropped"}
    BY <1>i, <2>1 DEF HandInv
  <2>3. QED
    BY <1>i, <2>1, <2>2, StillHandles
<1>3. QED
  BY <1>1, <1>2

-----------------------------------------------------------------------------
(* Claims. *)

(* A message waiting or in hand is counted. *)
LEMMA WorkIsCounted ==
  ASSUME IInv, JobInv, CountInv, NEW c \in Channels, owner[c] \in Jobs,
         Holds(c) \/ queue[c] # <<>>
  PROVE  acceptedMessages[owner[c]] # 0
<1> DEFINE j == owner[c]
<1>1. \E m \in Messages, p \in {<<"queue", c>>, <<"hand", c>>} : m \in Contents[p]
  <2>1. CASE Holds(c)
    <3>1. held[c] \in Entries
      BY <2>1 DEF Holds, IInv, TypeOK, ProcessorTypeOK
    <3>2. held[c].id \in Messages /\ held[c].id # None
      BY <3>1, EntryFields, NoneAssumption
    <3>3. held[c].id \in Contents[<<"hand", c>>]
      <4>1. Contents[<<"hand", c>>] = {held[c].id} \ {None}
        BY ContentsAt
      <4>2. QED
        BY <3>2, <4>1
    <3>4. QED
      BY <3>2, <3>3
  <2>2. CASE queue[c] # <<>>
    <3>1. queue[c] \in Seq(Entries)
      BY DEF IInv, TypeOK, ChannelTypeOK
    <3>2. queue[c][1] \in Entries /\ 1 \in 1 .. Len(queue[c])
      BY <2>2, <3>1
    <3>3. queue[c][1].id \in Messages /\ queue[c][1].id \in Ids(queue[c])
      BY <3>2, EntryFields DEF Ids
    <3>4. QED
      BY <3>3, ContentsAt
  <2>3. QED
    BY <2>1, <2>2
<1>2. PICK m \in Messages, p \in {<<"queue", c>>, <<"hand", c>>} : m \in Contents[p]
  BY <1>1
<1>3. p \in Sites /\ Accepts(p) /\ SiteJob(p) = j
  <2>1. p \in Sites /\ p[1] \in {"queue", "hand"} /\ p[2] = c
    <3>1. <<"queue", c>> \in Sites /\ <<"hand", c>> \in Sites
      BY ContentsAt
    <3>2. QED
      BY <1>2, <3>1
  <2>2. QED
    BY <2>1 DEF Accepts, SiteJob
<1>4. JobOf[m] = j
  BY <1>2, <1>3 DEF JobInv
<1>5. m \in AcceptedSet[j]
  BY <1>2, <1>3, <1>4 DEF AcceptedSet
<1> HIDE DEF j
<1>6. IsFiniteSet(AcceptedSet[j]) /\ acceptedMessages[j] = Cardinality(AcceptedSet[j])
  BY DEF CountInv, j
<1>7. Cardinality(AcceptedSet[j]) # 0
  BY <1>5, <1>6, FS_EmptySet
<1>8. QED
  BY <1>6, <1>7 DEF j

(* A running turn's processor has a channel of its job. *)
LEMMA TurnHolds ==
  ASSUME IInv, NEW c \in Channels, phase[c] # "none"
  PROVE  c <= made /\ owner[c] \in Jobs /\ Holds(c) /\ held[c].id \in Messages
<1>1. ProcessorInv /\ ChannelInv /\ ChannelTypeOK
  BY DEF IInv, TypeOK
<1>2. proc[c] = "handle" /\ held[c] \in Entries
  BY <1>1 DEF ProcessorInv
<1>3. made \in Nat /\ c \in Nat
  BY <1>1, DispatcherAssumption DEF ChannelTypeOK, Channels, NoChannel
<1>4. c <= made
  BY <1>1, <1>2, <1>3 DEF ProcessorInv
<1>5. owner[c] \in Jobs
  BY <1>1, <1>4 DEF ChannelInv
<1>6. QED
  BY <1>2, <1>4, <1>5, NoEntryIsNone, EntryFields DEF Holds

(* What a step does to owners, turns and claims. *)
LEMMA OwnersKept ==
  ASSUME IInv, [Next]_vars
  PROVE  \A c \in Channels : c <= made => owner'[c] = owner[c]
<1>1. CASE owner' = owner
  BY <1>1
<1>2. ASSUME NEW t \in Deliverers, DispatchSendNew(t)
      PROVE  \A c \in Channels : c <= made => owner'[c] = owner[c]
  <2>1. ChannelTypeOK /\ owner' = [owner EXCEPT ![made + 1] = JobOf[delivery[t].entry.id]]
    BY <1>2 DEF DispatchSendNew, IInv, TypeOK
  <2>2. made \in Nat /\ Channels \subseteq Nat
    BY <2>1, DispatcherAssumption DEF ChannelTypeOK, Channels, NoChannel
  <2>3. ASSUME NEW c \in Channels, c <= made PROVE owner'[c] = owner[c]
    <3>1. c # made + 1
      BY <2>2, <2>3
    <3>2. QED
      BY <2>1, <3>1 DEF ChannelTypeOK
  <2>4. QED
    BY <2>3
<1>3. ASSUME NEW t \in Deliverers, Dispatch(t)
      PROVE  owner' = owner \/ DispatchSendNew(t)
  BY <1>3 DEF Dispatch, DispatchCheckDone, DispatchMark, DispatchRefuse, DispatchSend,
              DispatchSubmit, channelVars
<1>4. ASSUME NEW c \in Channels, Process(c) PROVE owner' = owner
  BY <1>4 DEF Process, Receive, ReceiveClosed, FinishHandled, CheckJob, CloseIfEmpty, Cleanup,
              DrainReceive, DrainFinish, LeaveProcessor, channelVars
<1>5. ASSUME NEW c \in Channels, HandleMessage(c) PROVE owner' = owner
  BY <1>5, TurnEffect
<1>6. ASSUME NEW s \in Stoppers, Stop(s) PROVE owner' = owner
  BY <1>6 DEF Stop, FindChannel, DropReceive, DropFinish, DropDone, KeepJobWithoutSession,
              TakeJobOffQueue, EvictStopped, dispatcherVars, channelVars
<1>7. ASSUME NEW i \in IdleChecks, Check(i) PROVE owner' = owner
  BY <1>7 DEF Check, CheckRunning, ClaimJob, RecheckRow, ClearQueue, RemoveIdleJob, EvictIdle,
              ReleaseJob, dispatcherVars, channelVars
<1>8. CASE UNCHANGED vars
  BY <1>8, <1>1 DEF vars, dispatcherVars, channelVars
<1>9. CASE Next
  <2>1. ASSUME NEW t \in Deliverers, NEW m \in Messages, NEW kind \in {"start", "reply"},
               Offer(t, m, kind)
        PROVE  owner' = owner
    BY <2>1 DEF Offer, channelVars
  <2>2. ASSUME StartTask PROVE owner' = owner
    BY <2>2 DEF StartTask, channelVars
  <2>3. ASSUME NEW s \in Stoppers, NEW j \in Jobs, StopTurn(s, j) PROVE owner' = owner
    BY <2>3 DEF StopTurn, dispatcherVars, channelVars
  <2>4. ASSUME NEW i \in IdleChecks, NEW j \in Jobs, CheckIdle(i, j) PROVE owner' = owner
    BY <2>4 DEF CheckIdle, dispatcherVars, channelVars
  <2>5. owner' = owner \/ \E t \in Deliverers : DispatchSendNew(t)
    BY <1>3, <1>4, <1>5, <1>6, <1>7, <1>9, <2>1, <2>2, <2>3, <2>4 DEF Next
  <2>6. QED
    BY <1>1, <1>2, <2>5
<1>10. QED
  BY <1>8, <1>9

LEMMA TurnsStep ==
  ASSUME IInv, TurnsInv, [Next]_vars
  PROVE  TurnsInv'
<1>t. /\ turns \in [Jobs -> Channels \cup {NoChannel}] /\ phase \in [Channels -> Phases]
      /\ outcome \in [Channels -> Outcomes]
  BY DEF IInv, TypeOK, TurnTypeOK
<1>o. \A c \in Channels : c <= made => owner'[c] = owner[c]
  BY OwnersKept
<1>k. \A j \in Jobs : turns[j] # NoChannel => turns[j] \in Channels /\ owner'[turns[j]] = j
  <2>1. ASSUME NEW j \in Jobs, turns[j] # NoChannel
        PROVE  turns[j] \in Channels /\ owner'[turns[j]] = j
    <3>1. turns[j] \in Channels /\ owner[turns[j]] = j /\ phase[turns[j]] # "none"
      BY <1>t, <2>1 DEF TurnsInv, RunningPhases
    <3>2. turns[j] <= made
      BY <3>1, TurnHolds
    <3>3. QED
      BY <1>o, <3>1, <3>2
  <2>2. QED
    BY <2>1
<1>f. ASSUME turns' = turns, \A b \in Channels : phase'[b] = phase[b] \/ phase'[b] \in RunningPhases
                                           \/ phase[b] \notin RunningPhases
      PROVE  TurnsInv'
  BY <1>f, <1>k DEF TurnsInv
<1>1. ASSUME NEW c \in Channels, HandleMessage(c) PROVE TurnsInv'
  <2>s. owner' = owner
    BY <1>1, TurnEffect
  <2>p. ASSUME NEW x, phase' = [phase EXCEPT ![c] = x], turns' = turns,
               x \in RunningPhases \/ phase[c] \notin RunningPhases
        PROVE  TurnsInv'
    <3>1. \A b \in Channels : phase'[b] = IF b = c THEN x ELSE phase[b]
      BY <1>t, <2>p
    <3>2. QED
      BY <1>f, <2>p, <3>1
  <2>1. CASE BeginTurn(c)
    <3>1. /\ proc[c] = "handle" /\ turns' = [turns EXCEPT ![owner[c]] = c]
          /\ phase' = [phase EXCEPT ![c] = "begun"]
      BY <2>1 DEF BeginTurn, Job
    <3>2. phase'[c] \in RunningPhases /\ \A b \in Channels : b # c => phase'[b] = phase[b]
      BY <1>t, <3>1 DEF RunningPhases
    <3>3. \A j \in Jobs : turns'[j] = IF j = owner[c] THEN c ELSE turns[j]
      BY <1>t, <3>1
    <3>4. \A j \in Jobs : turns'[j] # NoChannel =>
            owner[turns'[j]] = j /\ phase'[turns'[j]] \in RunningPhases
      BY <1>k, <2>s, <3>2, <3>3 DEF TurnsInv
    <3>5. QED
      BY <2>s, <3>4 DEF TurnsInv
  <2>2. CASE EndTurn(c)
    <3>1. /\ turns' = [turns EXCEPT ![owner[c]] = IF turns[owner[c]] = c THEN NoChannel
                                                  ELSE turns[owner[c]]]
          /\ \A b \in Channels : b # c => phase'[b] = phase[b]
      BY <1>t, <2>2 DEF EndTurn, Job
    <3>2. \A j \in Jobs : turns'[j] = IF j = owner[c] /\ turns[j] = c THEN NoChannel ELSE turns[j]
      BY <1>t, <3>1
    <3>3. \A j \in Jobs : turns'[j] # NoChannel => turns'[j] = turns[j] /\ turns[j] # c
      BY <1>k, <2>s, <3>2
    <3>4. \A j \in Jobs : turns'[j] # NoChannel =>
            owner[turns'[j]] = j /\ phase'[turns'[j]] \in RunningPhases
      BY <1>k, <2>s, <3>1, <3>3 DEF TurnsInv
    <3>5. QED
      BY <2>s, <3>4 DEF TurnsInv
  <2>3. CASE LeaveForPoller(c) \/ AbandonJob(c) \/ FinishTurnWithReply(c) \/ FinishStoppedTurn(c)
             \/ FailCLI(c) \/ FailTurn(c)
    <3>1. phase' = [phase EXCEPT ![c] = "unwinding"] /\ turns' = turns
      BY <2>3 DEF LeaveForPoller, AbandonJob, FinishTurnWithReply, FinishStoppedTurn, FailCLI,
                  FailTurn, Return
    <3>2. QED
      BY <2>p, <3>1 DEF RunningPhases
  <2>4. CASE ReadJob(c) \/ MarkInProgress(c) \/ TakeOffQueue(c)
    <3>1. /\ \E x \in {"prepared", "marked", "working"} : phase' = [phase EXCEPT ![c] = x]
          /\ turns' = turns
      BY <2>4 DEF ReadJob, MarkInProgress, TakeOffQueue
    <3>2. QED
      BY <2>p, <3>1 DEF RunningPhases
  <2>5. CASE FailInProgressJob(c) \/ RecordDone(c)
    <3>1. /\ \E x \in {"recording", "none"} : phase' = [phase EXCEPT ![c] = x]
          /\ turns' = turns /\ phase[c] \in {"failing", "recording"}
      BY <2>5 DEF FailInProgressJob, RecordDone
    <3>2. phase[c] \notin RunningPhases
      BY <3>1 DEF RunningPhases
    <3>3. QED
      BY <2>p, <3>1, <3>2
  <2>6. QED
    BY <1>1, <2>1, <2>2, <2>3, <2>4, <2>5 DEF HandleMessage
<1>2. ASSUME UNCHANGED <<turns, phase>> PROVE TurnsInv'
  BY <1>2, <1>f
<1>3. CASE UNCHANGED vars
  BY <1>2, <1>3 DEF vars, turnVars
<1>4. CASE Next
  <2>1. ASSUME UNCHANGED restVars PROVE TurnsInv'
    BY <1>2, <2>1 DEF restVars, turnVars
  <2>2. ASSUME NEW s \in Stoppers, NEW j \in Jobs, StopTurn(s, j) PROVE TurnsInv'
    BY <1>2, <2>2 DEF StopTurn
  <2>3. ASSUME NEW s \in Stoppers, Stop(s) PROVE TurnsInv'
    BY <1>2, <2>3 DEF Stop, FindChannel, DropReceive, DropFinish, DropDone, KeepJobWithoutSession,
                TakeJobOffQueue, EvictStopped, turnVars
  <2>4. ASSUME NEW i \in IdleChecks, NEW j \in Jobs, CheckIdle(i, j) PROVE TurnsInv'
    BY <1>2, <2>4 DEF CheckIdle, turnVars
  <2>5. ASSUME NEW i \in IdleChecks, Check(i) PROVE TurnsInv'
    BY <1>2, <2>5 DEF Check, CheckRunning, ClaimJob, RecheckRow, ClearQueue, RemoveIdleJob,
                EvictIdle, ReleaseJob, turnVars
  <2>6. QED
    BY <1>1, <1>4, <2>1, <2>2, <2>3, <2>4, <2>5 DEF Next
<1>5. QED
  BY <1>3, <1>4


(* Only an idle check changes the claims, and it claims a job with no      *)
(* accepted message.                                                       *)
LEMMA ClaimsMove ==
  ASSUME IInv, [Next]_vars
  PROVE  \/ completingJobs' = completingJobs
         \/ /\ \A j \in completingJobs' : j \in completingJobs \/ acceptedMessages[j] = 0
            /\ acceptedMessages' = acceptedMessages
<1>1. ASSUME NEW t \in Deliverers, Dispatch(t) PROVE completingJobs' = completingJobs
  BY <1>1 DEF Dispatch, DispatchCheckDone, DispatchMark, DispatchRefuse, DispatchSend,
              DispatchSendNew, DispatchSubmit, markVars
<1>2. ASSUME NEW c \in Channels, Process(c) PROVE completingJobs' = completingJobs
  BY <1>2 DEF Process, Receive, ReceiveClosed, FinishHandled, CheckJob, CloseIfEmpty, Cleanup,
              DrainReceive, DrainFinish, LeaveProcessor, markVars
<1>3. ASSUME NEW c \in Channels, HandleMessage(c) PROVE completingJobs' = completingJobs
  BY <1>3, TurnEffect
<1>4. ASSUME NEW s \in Stoppers, Stop(s) PROVE completingJobs' = completingJobs
  BY <1>4 DEF Stop, FindChannel, DropReceive, DropFinish, DropDone, KeepJobWithoutSession,
              TakeJobOffQueue, EvictStopped, dispatcherVars, markVars
<1>5. ASSUME NEW i \in IdleChecks, ClaimJob(i)
      PROVE  /\ \A j \in completingJobs' : j \in completingJobs \/ acceptedMessages[j] = 0
             /\ acceptedMessages' = acceptedMessages
  BY <1>5 DEF ClaimJob, CanClaimCompletion, ClaimCompletion
<1>6. ASSUME NEW i \in IdleChecks, ReleaseJob(i)
      PROVE  completingJobs' \subseteq completingJobs /\ acceptedMessages' = acceptedMessages
  BY <1>6 DEF ReleaseJob, ReleaseCompletion
<1>7. ASSUME NEW i \in IdleChecks,
             CheckRunning(i) \/ RecheckRow(i) \/ ClearQueue(i) \/ RemoveIdleJob(i) \/ EvictIdle(i)
      PROVE  completingJobs' = completingJobs
  BY <1>7 DEF CheckRunning, RecheckRow, ClearQueue, RemoveIdleJob, EvictIdle, dispatcherVars,
              markVars
<1>8. CASE UNCHANGED vars
  BY <1>8 DEF vars, dispatcherVars, markVars
<1>9. CASE Next
  <2>1. ASSUME NEW t \in Deliverers, NEW m \in Messages, NEW kind \in {"start", "reply"},
               Offer(t, m, kind)
        PROVE  completingJobs' = completingJobs
    BY <2>1 DEF Offer, markVars
  <2>2. ASSUME StartTask PROVE completingJobs' = completingJobs
    BY <2>2 DEF StartTask, markVars
  <2>3. ASSUME NEW s \in Stoppers, NEW j \in Jobs, StopTurn(s, j)
        PROVE  completingJobs' = completingJobs
    BY <2>3 DEF StopTurn, dispatcherVars, markVars
  <2>4. ASSUME NEW i \in IdleChecks, NEW j \in Jobs, CheckIdle(i, j)
        PROVE  completingJobs' = completingJobs
    BY <2>4 DEF CheckIdle, dispatcherVars, markVars
  <2>5. \/ completingJobs' = completingJobs
        \/ \E i \in IdleChecks : ClaimJob(i) \/ ReleaseJob(i)
    BY <1>1, <1>2, <1>3, <1>4, <1>7, <1>9, <2>1, <2>2, <2>3, <2>4 DEF Next, Check
  <2>6. QED
    BY <1>5, <1>6, <2>5
<1>10. QED
  BY <1>8, <1>9

LEMMA ClaimInvStep ==
  ASSUME IInv, ClaimInv, Handled, [Next]_vars
  PROVE  ClaimInv'
<1>t. acceptedMessages \in [Jobs -> Nat] /\ completingJobs \subseteq Jobs
  BY DEF IInv, TypeOK, MarkTypeOK
<1>1. CASE completingJobs' = completingJobs
  <2>1. CASE acceptedMessages' = acceptedMessages
    BY <1>1, <2>1 DEF ClaimInv
  <2>2. ASSUME NEW m \in Messages, JobOf[m] \notin completingJobs,
               acceptedMessages' = [acceptedMessages EXCEPT ![JobOf[m]] = @ + 1]
        PROVE  ClaimInv'
    <3>1. \A j \in completingJobs : acceptedMessages'[j] = acceptedMessages[j]
      BY <1>t, <2>2
    <3>2. QED
      BY <1>1, <3>1 DEF ClaimInv
  <2>3. ASSUME NEW m \in Messages,
               acceptedMessages' = [acceptedMessages EXCEPT
                 ![JobOf[m]] = IF @ - 1 <= 0 THEN 0 ELSE @ - 1]
        PROVE  ClaimInv'
    <3>1. \A j \in completingJobs : acceptedMessages[j] = 0 => acceptedMessages'[j] = 0
      BY <1>t, <2>3
    <3>2. QED
      BY <1>1, <3>1 DEF ClaimInv
  <2>4. QED
    BY <2>1, <2>2, <2>3 DEF Handled, Rests, Marks, Refuses, Forgets, Sends, Takes
<1>2. CASE /\ \A j \in completingJobs' : j \in completingJobs \/ acceptedMessages[j] = 0
           /\ acceptedMessages' = acceptedMessages
  BY <1>2 DEF ClaimInv
<1>3. QED
  BY <1>1, <1>2, ClaimsMove

-----------------------------------------------------------------------------
(* The rows of claimed jobs. *)

LEMMA RowFrame ==
  ASSUME IInv, RowInv, checks' = checks, completingJobs' = completingJobs,
         stopsLeft' <= MaxStops,
         stopsLeft' = MaxStops =>
           /\ stopsLeft = MaxStops /\ stops' = stops
           /\ \A j \in completingJobs : snapshots[j] \subseteq snapshots'[j]
  PROVE  RowInv'
<1>1. /\ \A i \in IdleChecks : Claims(i)' <=> Claims(i)
      /\ \A i \in IdleChecks : Claims(i) => checks[i].job \in completingJobs
  BY DEF Claims, RowInv
<1>2. ASSUME NEW i \in IdleChecks, checks[i].pc \in {"unqueue", "remove"}, stopsLeft' = MaxStops
      PROVE  i \in snapshots'[checks[i].job]
  <2>1. Claims(i) /\ i \in snapshots[checks[i].job]
    BY <1>2 DEF RowInv, RemovedRowIsCurrent, AtCheck, Claims
  <2>2. QED
    BY <1>1, <1>2, <2>1
<1>3. RemovedRowIsCurrent'
  BY <1>2 DEF RemovedRowIsCurrent, AtCheck
<1>4. QED
  BY <1>1, <1>3 DEF RowInv

LEMMA CheckMoves ==
  ASSUME IInv, RowInv, NEW i \in IdleChecks, NEW x, checks' = [checks EXCEPT ![i] = x],
         stops' = stops, stopsLeft' = stopsLeft,
         \A k \in IdleChecks : k # i /\ Claims(k) => checks[k].job \in completingJobs',
         Claims(i)' => x.job \in completingJobs',
         Claims(i)' => \A k \in IdleChecks : k # i /\ Claims(k) => checks[k].job # x.job,
         \A k \in IdleChecks : k # i /\ Claims(k) /\ k \in snapshots[checks[k].job]
           => k \in snapshots'[checks[k].job] \/ checks[k].pc \notin {"unqueue", "remove"},
         x.pc \in {"unqueue", "remove"} /\ stopsLeft = MaxStops => i \in snapshots'[x.job]
  PROVE  RowInv'
<1>1. checks'[i] = x /\ \A k \in IdleChecks : k # i => checks'[k] = checks[k]
  BY DEF IInv, TypeOK, CheckTypeOK
<1>2. \A k \in IdleChecks : k # i => (Claims(k)' <=> Claims(k))
  BY <1>1 DEF Claims
<1>3. \A k \in IdleChecks : Claims(k)' => checks'[k].job \in completingJobs'
  BY <1>1, <1>2
<1>4. \A k, l \in IdleChecks : Claims(k)' /\ Claims(l)' /\ checks'[k].job = checks'[l].job => k = l
  BY <1>1, <1>2 DEF RowInv
<1>5. ASSUME NEW k \in IdleChecks, checks'[k].pc \in {"unqueue", "remove"}, stopsLeft = MaxStops
      PROVE  k \in snapshots'[checks'[k].job]
  <2>1. CASE k = i
    BY <1>1, <1>5, <2>1
  <2>2. CASE k # i
    <3>1. Claims(k) /\ k \in snapshots[checks[k].job]
      BY <1>1, <1>5, <2>2 DEF Claims, RowInv, RemovedRowIsCurrent, AtCheck
    <3>2. QED
      BY <1>1, <1>5, <2>2, <3>1
  <2>3. QED
    BY <2>1, <2>2
<1>6. RemovedRowIsCurrent'
  BY <1>5 DEF RemovedRowIsCurrent, AtCheck
<1>7. QED
  BY <1>3, <1>4, <1>6 DEF RowInv


(* A turn writes the row of a job that is not claimed. *)
LEMMA TurnRow ==
  ASSUME IInv, JobInv, CountInv, ClaimInv, RowInv, NEW c \in Channels, HandleMessage(c)
  PROVE  RowInv'
<1>t. snapshots \in [Jobs -> SUBSET IdleChecks] /\ completingJobs \subseteq Jobs
  BY DEF IInv, TypeOK, AppStateTypeOK, MarkTypeOK
<1>e. UNCHANGED <<stops, completingJobs, stopsLeft, checks>>
  BY TurnEffect
<1>1. \/ snapshots' = snapshots
      \/ phase[c] # "none" /\ snapshots' = [snapshots EXCEPT ![owner[c]] = {}]
  <2>1. CASE AbandonJob(c) \/ MarkInProgress(c) \/ FinishTurnWithReply(c) \/ FinishStoppedTurn(c)
             \/ FailCLI(c)
    BY <2>1 DEF AbandonJob, MarkInProgress, FinishTurnWithReply, FinishStoppedTurn, FailCLI,
                RemoveJob, UpdateJobData, CompleteTurn, Job
  <2>2. CASE FailInProgressJob(c)
    BY <2>2 DEF FailInProgressJob, FailJobIfInProgress, UpdateJobData, Job
  <2>3. CASE BeginTurn(c) \/ LeaveForPoller(c) \/ ReadJob(c) \/ TakeOffQueue(c) \/ FailTurn(c)
             \/ EndTurn(c) \/ RecordDone(c)
    BY <2>3 DEF BeginTurn, LeaveForPoller, ReadJob, TakeOffQueue, FailTurn, EndTurn, RecordDone,
                appStateVars
  <2>4. QED
    BY <2>1, <2>2, <2>3 DEF HandleMessage
<1>2. \A j \in completingJobs : snapshots[j] \subseteq snapshots'[j]
  <2>1. CASE phase[c] # "none" /\ snapshots' = [snapshots EXCEPT ![owner[c]] = {}]
    <3>1. owner[c] \in Jobs /\ Holds(c)
      BY <2>1, TurnHolds
    <3>2. owner[c] \notin completingJobs
      BY <3>1, WorkIsCounted DEF ClaimInv
    <3>3. \A j \in completingJobs : snapshots'[j] = snapshots[j]
      BY <1>t, <2>1, <3>2
    <3>4. QED
      BY <3>3
  <2>2. QED
    BY <1>1, <2>1
<1>3. stopsLeft' <= MaxStops /\ stopsLeft' = stopsLeft
  BY <1>e DEF RowInv
<1>4. QED
  BY <1>e, <1>2, <1>3, RowFrame

LEMMA CheckRow ==
  ASSUME IInv, RowInv, NEW i \in IdleChecks, Check(i)
  PROVE  RowInv'
<1> DEFINE j == checks[i].job
<1>t. /\ snapshots \in [Jobs -> SUBSET IdleChecks] /\ completingJobs \subseteq Jobs
      /\ checks[i] \in Checks /\ (checks[i].pc # "none" => j \in Jobs)
  BY DEF IInv, TypeOK, AppStateTypeOK, MarkTypeOK, CheckTypeOK, CheckInv
<1>p. /\ \A pc : [checks[i] EXCEPT !.pc = pc].pc = pc /\ [checks[i] EXCEPT !.pc = pc].job = j
      /\ NoCheck.pc = "none"
  BY <1>t DEF Checks, NoCheck
<1>c. checks \in [IdleChecks -> Checks]
  BY DEF IInv, TypeOK, CheckTypeOK
<1>i. /\ \A k \in IdleChecks : Claims(k) => checks[k].job \in completingJobs
      /\ \A k \in IdleChecks : k # i /\ Claims(i) /\ Claims(k) => checks[k].job # j
  BY DEF RowInv
<1>g. ASSUME NEW pc, GoCheck(i, pc)
      PROVE  \E x : checks' = [checks EXCEPT ![i] = x] /\ x.pc = pc /\ x.job = j
  <2>1. checks' = [checks EXCEPT ![i] = [checks[i] EXCEPT !.pc = pc]]
    BY <1>c, <1>g DEF GoCheck
  <2>2. QED
    BY <1>p, <2>1
<1>e. ASSUME EndCheck(i), stops' = stops, stopsLeft' = stopsLeft,
             \A k \in IdleChecks : k # i /\ Claims(k) => checks[k].job \in completingJobs'
      PROVE  RowInv'
  <2>1. /\ checks' = [checks EXCEPT ![i] = NoCheck]
        /\ \A l \in Jobs : snapshots'[l] = snapshots[l] \ {i}
    BY <1>e DEF EndCheck, DropJobData
  <2>2. checks'[i] = NoCheck
    BY <1>c, <2>1
  <2>3. ~Claims(i)'
    BY <1>p, <2>2 DEF Claims
  <2>4. \A k \in IdleChecks : k # i /\ Claims(k) /\ k \in snapshots[checks[k].job]
          => k \in snapshots'[checks[k].job]
    BY <1>t, <1>i, <2>1
  <2>5. NoCheck.pc \notin {"unqueue", "remove"}
    BY <1>p
  <2>6. QED
    BY <1>e, <2>1, <2>3, <2>4, <2>5, CheckMoves
<1>m. ASSUME NEW pc, GoCheck(i, pc), stops' = stops, stopsLeft' = stopsLeft,
             completingJobs' = completingJobs,
             Claims(i) \/ pc \notin {"recheck", "unqueue", "remove", "evict", "release"},
             \A k \in IdleChecks : k # i /\ Claims(k) /\ k \in snapshots[checks[k].job]
               => k \in snapshots'[checks[k].job],
             pc \in {"unqueue", "remove"} /\ stopsLeft = MaxStops => i \in snapshots'[j]
      PROVE  RowInv'
  <2>1. PICK x : checks' = [checks EXCEPT ![i] = x] /\ x.pc = pc /\ x.job = j
    BY <1>g, <1>m
  <2>2. checks'[i] = x
    BY <1>c, <2>1
  <2>3. Claims(i)' => Claims(i)
    BY <1>m, <2>1, <2>2 DEF Claims
  <2>4. /\ Claims(i)' => x.job \in completingJobs'
        /\ Claims(i)' => \A k \in IdleChecks : k # i /\ Claims(k) => checks[k].job # x.job
    BY <1>i, <1>m, <2>1, <2>3
  <2> HIDE DEF j
  <2>5. QED
    BY <1>i, <1>m, <2>1, <2>4, CheckMoves
<1>1. CASE CheckRunning(i)
  <2>1. /\ stops' = stops /\ stopsLeft' = stopsLeft /\ completingJobs' = completingJobs
        /\ EndCheck(i) \/ (GoCheck(i, "claim") /\ snapshots' = snapshots)
    BY <1>1 DEF CheckRunning, stopVars, dispatcherVars, markVars
  <2>2. QED
    BY <1>e, <1>i, <1>m, <2>1
<1>2. CASE ClaimJob(i)
  <2>1. stops' = stops /\ stopsLeft' = stopsLeft /\ checks[i].pc = "claim"
    BY <1>2 DEF ClaimJob, stopVars, AtCheck
  <2>2. CASE CanClaimCompletion(j)
    <3>1. /\ j \notin completingJobs /\ completingJobs' = completingJobs \cup {j}
          /\ GoCheck(i, "recheck") /\ snapshots' = snapshots
      BY <1>2, <2>2 DEF ClaimJob, CanClaimCompletion, ClaimCompletion
    <3>2. PICK x : checks' = [checks EXCEPT ![i] = x] /\ x.pc = "recheck" /\ x.job = j
      BY <1>g, <3>1
    <3>3. /\ \A k \in IdleChecks : k # i /\ Claims(k) => checks[k].job \in completingJobs'
          /\ x.job \in completingJobs'
          /\ \A k \in IdleChecks : k # i /\ Claims(k) => checks[k].job # x.job
          /\ x.pc \notin {"unqueue", "remove"}
      BY <1>i, <3>1, <3>2
    <3>4. QED
      BY <2>1, <3>1, <3>2, <3>3, CheckMoves
  <2>3. CASE ~CanClaimCompletion(j)
    <3>1. completingJobs' = completingJobs /\ EndCheck(i)
      BY <1>2, <2>3 DEF ClaimJob
    <3>2. QED
      BY <1>e, <1>i, <2>1, <3>1
  <2>4. QED
    BY <2>2, <2>3
<1>3. CASE RecheckRow(i)
  <2> DEFINE pc == IF HasRow(j) /\ i \in snapshots[j] THEN "unqueue" ELSE "release"
  <2>1. /\ checks[i].pc = "recheck" /\ GoCheck(i, pc) /\ stops' = stops /\ stopsLeft' = stopsLeft
        /\ completingJobs' = completingJobs /\ snapshots' = snapshots
    BY <1>3 DEF RecheckRow, AtCheck, stopVars, dispatcherVars, markVars, appStateVars
  <2>2. Claims(i) /\ (pc \in {"unqueue", "remove"} => i \in snapshots'[j])
    BY <2>1 DEF Claims
  <2> HIDE DEF pc
  <2>3. QED
    BY <1>m, <2>1, <2>2
<1>4. CASE ClearQueue(i)
  <2>1. /\ checks[i].pc = "unqueue" /\ GoCheck(i, "remove") /\ stops' = stops
        /\ stopsLeft' = stopsLeft /\ completingJobs' = completingJobs /\ snapshots' = snapshots
    BY <1>4 DEF ClearQueue, AtCheck, stopVars, dispatcherVars, markVars
  <2>2. Claims(i) /\ (stopsLeft = MaxStops => i \in snapshots[j])
    BY <2>1 DEF Claims, RowInv, RemovedRowIsCurrent, AtCheck
  <2>3. QED
    BY <1>m, <2>1, <2>2
<1>5. CASE RemoveIdleJob(i)
  <2>1. /\ checks[i].pc = "remove" /\ GoCheck(i, "evict") /\ stops' = stops
        /\ stopsLeft' = stopsLeft /\ completingJobs' = completingJobs
        /\ snapshots' = [snapshots EXCEPT ![j] = {}]
    BY <1>5 DEF RemoveIdleJob, AtCheck, stopVars, dispatcherVars, markVars, RemoveJob
  <2>2. Claims(i)
    BY <2>1 DEF Claims
  <2>3. \A k \in IdleChecks : k # i /\ Claims(k) /\ k \in snapshots[checks[k].job]
          => k \in snapshots'[checks[k].job]
    BY <1>t, <1>i, <2>1, <2>2
  <2>4. QED
    BY <1>m, <2>1, <2>2, <2>3
<1>6. CASE EvictIdle(i)
  <2>1. /\ checks[i].pc = "evict" /\ GoCheck(i, "release") /\ stops' = stops
        /\ stopsLeft' = stopsLeft /\ completingJobs' = completingJobs /\ snapshots' = snapshots
    BY <1>6 DEF EvictIdle, AtCheck, stopVars, markVars, appStateVars
  <2>2. Claims(i)
    BY <2>1 DEF Claims
  <2>3. QED
    BY <1>m, <2>1, <2>2
<1>7. CASE ReleaseJob(i)
  <2>1. /\ checks[i].pc = "release" /\ EndCheck(i) /\ stops' = stops /\ stopsLeft' = stopsLeft
        /\ completingJobs' = completingJobs \ {j}
    BY <1>7 DEF ReleaseJob, AtCheck, stopVars, ReleaseCompletion
  <2>2. Claims(i)
    BY <2>1 DEF Claims
  <2>3. \A k \in IdleChecks : k # i /\ Claims(k) => checks[k].job \in completingJobs'
    BY <1>i, <2>1, <2>2
  <2>4. QED
    BY <1>e, <2>1, <2>3
<1>8. QED
  BY <1>1, <1>2, <1>3, <1>4, <1>5, <1>6, <1>7 DEF Check

LEMMA RowInvStep ==
  ASSUME IInv, JobInv, CountInv, ClaimInv, RowInv, [Next]_vars
  PROVE  RowInv'
<1>n. stopsLeft \in Nat /\ stopsLeft <= MaxStops /\ MaxStops \in Nat
  BY MaxStopsAssumption DEF IInv, TypeOK, StopTypeOK, RowInv
<1>s. ASSUME UNCHANGED <<snapshots, checks, completingJobs, stops, stopsLeft>> PROVE RowInv'
  BY <1>n, <1>s, RowFrame
<1>1. ASSUME NEW t \in Deliverers, NEW m \in Messages, NEW kind \in {"start", "reply"},
             Offer(t, m, kind), UNCHANGED restVars
      PROVE  RowInv'
  BY <1>s, <1>1 DEF Offer, markVars, restVars, stopVars
<1>2. ASSUME NEW t \in Deliverers, Dispatch(t), UNCHANGED restVars PROVE RowInv'
  BY <1>s, <1>2 DEF Dispatch, DispatchCheckDone, DispatchMark, DispatchRefuse, DispatchSend,
     DispatchSendNew, DispatchSubmit, appStateVars, markVars, restVars, stopVars
<1>3. ASSUME StartTask, UNCHANGED restVars PROVE RowInv'
  BY <1>s, <1>3 DEF StartTask, appStateVars, markVars, restVars, stopVars
<1>4. ASSUME NEW c \in Channels, Process(c), UNCHANGED restVars PROVE RowInv'
  BY <1>s, <1>4 DEF Process, Receive, ReceiveClosed, FinishHandled, CheckJob, CloseIfEmpty,
     Cleanup, DrainReceive, DrainFinish, LeaveProcessor, appStateVars, markVars, restVars, stopVars
<1>5. ASSUME NEW c \in Channels, HandleMessage(c) PROVE RowInv'
  BY <1>5, TurnRow
<1>6. ASSUME NEW s \in Stoppers, NEW j \in Jobs, StopTurn(s, j) PROVE RowInv'
  <2>1. /\ checks' = checks /\ completingJobs' = completingJobs
        /\ stopsLeft > 0 /\ stopsLeft' = stopsLeft - 1
    BY <1>6 DEF StopTurn, dispatcherVars, markVars
  <2>2. stopsLeft' <= MaxStops /\ stopsLeft' # MaxStops
    BY <1>n, <2>1
  <2>3. QED
    BY <2>1, <2>2, RowFrame
<1>7. ASSUME NEW s \in Stoppers, Stop(s) PROVE RowInv'
  <2>1. /\ checks' = checks /\ completingJobs' = completingJobs /\ stopsLeft' = stopsLeft
        /\ stops[s].pc # "none"
    BY <1>7 DEF Stop, FindChannel, DropReceive, DropFinish, DropDone, KeepJobWithoutSession,
                TakeJobOffQueue, EvictStopped, AtStop, dispatcherVars, markVars
  <2>2. stopsLeft' <= MaxStops /\ stopsLeft' # MaxStops
    BY <1>n, <2>1 DEF RowInv
  <2>3. QED
    BY <2>1, <2>2, RowFrame
<1>8. ASSUME NEW i \in IdleChecks, NEW j \in Jobs, CheckIdle(i, j) PROVE RowInv'
  <2> DEFINE x == [pc |-> "running", job |-> j]
  <2>1. /\ checks[i].pc = "none" /\ snapshots' = [snapshots EXCEPT ![j] = @ \cup {i}]
        /\ checks' = [checks EXCEPT ![i] = x]
        /\ stops' = stops /\ stopsLeft' = stopsLeft /\ completingJobs' = completingJobs
    BY <1>8 DEF CheckIdle, AtCheck, ReadJobData, dispatcherVars, markVars, stopVars
  <2>2. x.pc = "running" /\ checks'[i] = x
    BY <2>1 DEF IInv, TypeOK, CheckTypeOK
  <2>3. ~Claims(i)'
    BY <2>2 DEF Claims
  <2>4. \A k \in IdleChecks : Claims(k) => checks[k].job \in completingJobs
    BY DEF RowInv
  <2>5. \A l \in Jobs : snapshots[l] \subseteq snapshots'[l]
    BY <2>1 DEF IInv, TypeOK, AppStateTypeOK
  <2>6. completingJobs \subseteq Jobs
    BY DEF IInv, TypeOK, MarkTypeOK
  <2> HIDE DEF x
  <2>7. QED
    BY <2>1, <2>2, <2>3, <2>4, <2>5, <2>6, CheckMoves
<1>9. ASSUME NEW i \in IdleChecks, Check(i) PROVE RowInv'
  BY <1>9, CheckRow
<1>10. CASE UNCHANGED vars
  BY <1>s, <1>10 DEF vars, appStateVars, dispatcherVars, markVars, stopVars
<1>11. QED
  BY <1>1, <1>2, <1>3, <1>4, <1>5, <1>6, <1>7, <1>8, <1>9, <1>10 DEF Next


(* A channel grows only while it has room. *)
LEMMA CapInvStep ==
  ASSUME IInv, HandInv, CapInv, [Next]_vars
  PROVE  CapInv'
<1>t. ChannelTypeOK /\ ChannelInv
  BY DEF IInv, TypeOK
<1>q. queue \in [Channels -> Seq(Entries)] /\ ChannelCap \in Nat \ {0}
  BY <1>t, DispatcherAssumption DEF ChannelTypeOK
<1>u. ASSUME queue' = queue PROVE CapInv'
  BY <1>u DEF CapInv
<1>d. ASSUME NEW c \in Channels, queue[c] # <<>>, queue' = [queue EXCEPT ![c] = Tail(@)]
      PROVE  CapInv'
  <2>1. queue[c] \in Seq(Entries) /\ queue'[c] = Tail(queue[c])
        /\ \A b \in Channels : b # c => queue'[b] = queue[b]
    BY <1>q, <1>d
  <2>2. Len(queue'[c]) = Len(queue[c]) - 1 /\ Len(queue[c]) \in Nat
    <3> DEFINE s == queue[c]
    <3>1. s \in Seq(Entries) /\ s # <<>> /\ queue'[c] = Tail(s)
      BY <1>d, <2>1
    <3> HIDE DEF s
    <3>2. Len(Tail(s)) = Len(s) - 1 /\ Len(s) \in Nat
      BY <3>1, TailType
    <3>3. QED
      BY <3>1, <3>2 DEF s
  <2>3. Len(queue'[c]) <= ChannelCap
    BY <1>q, <2>2 DEF CapInv
  <2>4. QED
    BY <2>1, <2>3 DEF CapInv
<1>a. ASSUME NEW c \in Channels, NEW e \in Entries, Len(queue[c]) < ChannelCap,
             queue' = [queue EXCEPT ![c] = Append(@, e)]
      PROVE  CapInv'
  <2>1. queue[c] \in Seq(Entries) /\ queue'[c] = Append(queue[c], e)
        /\ \A b \in Channels : b # c => queue'[b] = queue[b]
    BY <1>q, <1>a
  <2>2. Len(queue'[c]) = Len(queue[c]) + 1 /\ Len(queue[c]) \in Nat
    BY <2>1
  <2>3. Len(queue'[c]) <= ChannelCap
    BY <1>q, <1>a, <2>2
  <2>4. QED
    BY <2>1, <2>3 DEF CapInv
<1>1. ASSUME NEW t \in Deliverers, Dispatch(t) PROVE CapInv'
  <2> DEFINE e == delivery[t].entry
             j == JobOf[e.id]
  <2>1. delivery[t].pc # "none" => e \in Entries /\ j \in Jobs
    BY EntryFields DEF IInv, DeliveryInv
  <2>2. CASE DispatchSend(t)
    <3>1. /\ delivery[t].pc = "send" /\ activeJobs[j] # NoChannel
          /\ Len(queue[activeJobs[j]]) < ChannelCap
          /\ queue' = [queue EXCEPT ![activeJobs[j]] = Append(@, e)]
      BY <2>2 DEF DispatchSend
    <3>2. e \in Entries /\ activeJobs[j] \in Channels
      BY <1>t, <2>1, <3>1 DEF ChannelTypeOK
    <3>3. QED
      BY <1>a, <3>1, <3>2
  <2>3. CASE DispatchSendNew(t)
    <3>1. /\ delivery[t].pc = "send" /\ made < MaxChannels
          /\ queue' = [queue EXCEPT ![made + 1] = Append(@, e)]
      BY <2>3 DEF DispatchSendNew
    <3>2. made \in Nat /\ made + 1 \in Channels /\ made + 1 > made
      BY <1>t, <3>1, DispatcherAssumption DEF ChannelTypeOK, Channels, NoChannel
    <3>3. queue[made + 1] = <<>>
      BY <3>2 DEF HandInv
    <3>4. Len(queue[made + 1]) < ChannelCap
      BY <1>q, <3>3
    <3>5. e \in Entries
      BY <2>1, <3>1
    <3>6. QED
      BY <1>a, <3>1, <3>2, <3>4, <3>5
  <2>4. CASE DispatchCheckDone(t) \/ DispatchMark(t) \/ DispatchRefuse(t) \/ DispatchSubmit(t)
    BY <1>u, <2>4 DEF DispatchCheckDone, DispatchMark, DispatchRefuse, DispatchSubmit, channelVars
  <2>5. QED
    BY <1>1, <2>2, <2>3, <2>4 DEF Dispatch
<1>2. ASSUME NEW c \in Channels, Process(c) PROVE CapInv'
  <2>1. CASE Receive(c) \/ DrainReceive(c)
    BY <1>d, <2>1 DEF Receive, DrainReceive
  <2>2. CASE ~(Receive(c) \/ DrainReceive(c))
    BY <1>2, <1>u, <2>2 DEF Process, ReceiveClosed, FinishHandled, CheckJob, CloseIfEmpty, Cleanup,
       DrainFinish, LeaveProcessor, channelVars
  <2>3. QED
    BY <2>1, <2>2
<1>3. ASSUME NEW s \in Stoppers, Stop(s) PROVE CapInv'
  <2>1. CASE DropReceive(s)
    <3>1. /\ stops[s].pc = "drain" /\ queue[stops[s].ch] # <<>>
          /\ queue' = [queue EXCEPT ![stops[s].ch] = Tail(@)]
      BY <2>1 DEF DropReceive, AtStop
    <3>2. stops[s].ch \in Channels
      BY <3>1 DEF IInv, StopInv
    <3>3. QED
      BY <1>d, <3>1, <3>2
  <2>2. CASE ~DropReceive(s)
    BY <1>3, <1>u, <2>2 DEF Stop, FindChannel, DropFinish, DropDone, KeepJobWithoutSession,
       TakeJobOffQueue, EvictStopped, dispatcherVars, channelVars
  <2>3. QED
    BY <2>1, <2>2
<1>4. ASSUME NEW c \in Channels, HandleMessage(c) PROVE CapInv'
  BY <1>4, <1>u, TurnEffect
<1>5. ASSUME NEW i \in IdleChecks, Check(i) PROVE CapInv'
  BY <1>5, <1>u DEF Check, CheckRunning, ClaimJob, RecheckRow, ClearQueue, RemoveIdleJob, EvictIdle,
     ReleaseJob, dispatcherVars, channelVars
<1>6. ASSUME NEW i \in IdleChecks, NEW j \in Jobs, CheckIdle(i, j) PROVE CapInv'
  BY <1>6, <1>u DEF CheckIdle, dispatcherVars, channelVars
<1>7. ASSUME NEW s \in Stoppers, NEW j \in Jobs, StopTurn(s, j) PROVE CapInv'
  BY <1>7, <1>u DEF StopTurn, dispatcherVars, channelVars
<1>8. ASSUME StartTask PROVE CapInv'
  BY <1>8, <1>u DEF StartTask, channelVars
<1>9. ASSUME NEW t \in Deliverers, NEW m \in Messages, NEW kind \in {"start", "reply"},
             Offer(t, m, kind)
      PROVE  CapInv'
  BY <1>9, <1>u DEF Offer, channelVars
<1>10. CASE UNCHANGED vars
  BY <1>10, <1>u DEF vars, dispatcherVars, channelVars
<1>11. QED
  BY <1>1, <1>2, <1>3, <1>4, <1>5, <1>6, <1>7, <1>8, <1>9, <1>10 DEF Next

-----------------------------------------------------------------------------

LEMMA ClaimsInitially == Init => CInv
<1> SUFFICES ASSUME Init PROVE CInv
  OBVIOUS
<1>i. IInv
  BY Initially
<1>1. /\ \A c \in Channels : queue[c] = <<>> /\ held[c] = NoEntry
      /\ \A s \in Stoppers : stops[s] = NoStop
      /\ \A t \in Deliverers : delivery[t] = NoDelivery
      /\ inFlight = {} /\ completingJobs = {} /\ \A j \in Jobs : acceptedMessages[j] = 0
      /\ \A j \in Jobs : turns[j] = NoChannel
      /\ stopsLeft = MaxStops /\ \A i \in IdleChecks : checks[i] = NoCheck
  BY DEF Init, DispatcherInit
<1>2. /\ {NoEntry.id} \ {None} = {} /\ NoStop.held = NoEntry /\ NoStop.pc = "none"
      /\ NoDelivery.pc # "send" /\ Ids(<<>>) = {} /\ NoCheck.pc = "none"
  BY DEF NoEntry, NoStop, NoDelivery, Ids, NoCheck
<1>3. \A p \in Sites : Contents[p] = {}
  <2>1. /\ \A c \in Channels : Contents[<<"queue", c>>] = {} /\ Contents[<<"hand", c>>] = {}
        /\ \A s \in Stoppers : Contents[<<"stop", s>>] = {}
        /\ \A t \in Deliverers : Contents[<<"send", t>>] = {}
    BY <1>1, <1>2, ContentsAt
  <2>2. QED
    BY <2>1, SitesSplit
<1>4. SiteInv /\ JobInv
  BY <1>1, <1>3 DEF SiteInv, JobInv
<1>5. QueueInv /\ CapInv /\ HandInv
  <2>1. Len(<<>>) = 0 /\ 1 .. 0 = {} /\ 0 <= ChannelCap
    BY DispatcherAssumption
  <2>2. QED
    BY <1>1, <1>2, <2>1 DEF QueueInv, CapInv, HandInv, Holds
<1>6. CountInv
  <2>1. \A j \in Jobs : AcceptedSet[j] = {}
    BY <1>3 DEF AcceptedSet
  <2>2. QED
    BY <1>1, <2>1, FS_EmptySet DEF CountInv
<1>7. ClaimInv /\ TurnsInv
  BY <1>1 DEF ClaimInv, TurnsInv
<1>8. RowInv
  BY <1>1, <1>2, MaxStopsAssumption DEF RowInv, Claims, RemovedRowIsCurrent, AtCheck
<1>9. QED
  BY <1>i, <1>4, <1>5, <1>6, <1>7, <1>8 DEF CInv

LEMMA ClaimsInductive == CInv /\ [Next]_vars => CInv'
<1> SUFFICES ASSUME CInv, [Next]_vars PROVE CInv'
  OBVIOUS
<1>i. /\ IInv /\ TypeOK /\ SiteInv /\ QueueInv /\ CapInv /\ HandInv /\ JobInv /\ CountInv
      /\ ClaimInv /\ TurnsInv /\ RowInv
  BY DEF CInv, IInv
<1>1. IInv'
  BY <1>i, Inductive
<1>2. Handled /\ QueueInv' /\ HandInv'
  BY StepHandles
<1>3. SiteInv' /\ JobInv' /\ CountInv'
  BY <1>i, <1>2, SiteInvStep, JobInvStep, CountInvStep
<1>4. CapInv' /\ TurnsInv' /\ ClaimInv' /\ RowInv'
  BY <1>i, <1>2, CapInvStep, TurnsStep, ClaimInvStep, RowInvStep
<1>5. QED
  BY <1>1, <1>2, <1>3, <1>4 DEF CInv

THEOREM ClaimsInvariance == Spec => []CInv
  BY ClaimsInitially, ClaimsInductive, PTL DEF Spec

-----------------------------------------------------------------------------
(* The places InFlightWhileHeld counts. *)

At(m) == {p \in Channels \X (1..ChannelCap) :
            p[2] <= Len(queue[p[1]]) /\ queue[p[1]][p[2]].id = m}
InHand(m) == {c \in Channels : held[c].id = m}
InStop(m) == {s \in Stoppers : stops[s].held.id = m}
Sending(m) == {t \in Deliverers : delivery[t].pc = "send" /\ delivery[t].entry.id = m}

LEMMA Places ==
  ASSUME IInv, QueueInv, CapInv, NEW m \in Messages
  PROVE  /\ \A p \in At(m) : m \in Contents[<<"queue", p[1]>>] /\ p[1] \in Channels
         /\ \A p, q \in At(m) : p[1] = q[1] => p = q
         /\ \A c \in Channels : m \in Contents[<<"queue", c>>] => \E p \in At(m) : p[1] = c
         /\ InHand(m) = {c \in Channels : m \in Contents[<<"hand", c>>]}
         /\ InStop(m) = {s \in Stoppers : m \in Contents[<<"stop", s>>]}
         /\ Sending(m) = {t \in Deliverers : m \in Contents[<<"send", t>>]}
<1>n. m # None
  BY NoneAssumption
<1>q. ChannelCap \in Nat /\ \A c \in Channels : queue[c] \in Seq(Entries)
  BY DispatcherAssumption DEF IInv, TypeOK, ChannelTypeOK
<1>a. ASSUME NEW p \in At(m)
      PROVE  \E c \in Channels, k \in 1 .. ChannelCap :
               p = <<c, k>> /\ k \in 1 .. Len(queue[c]) /\ queue[c][k].id = m
  <2>1. PICK c \in Channels, k \in 1 .. ChannelCap : p = <<c, k>>
    BY DEF At
  <2>2. k <= Len(queue[c]) /\ queue[c][k].id = m
    BY <2>1 DEF At
  <2>3. k \in 1 .. Len(queue[c])
    BY <1>q, <2>2
  <2>4. QED
    BY <2>1, <2>2, <2>3
<1>1. ASSUME NEW p \in At(m) PROVE m \in Contents[<<"queue", p[1]>>] /\ p[1] \in Channels
  <2>1. PICK c \in Channels, k \in 1 .. ChannelCap :
          p = <<c, k>> /\ k \in 1 .. Len(queue[c]) /\ queue[c][k].id = m
    BY <1>a
  <2>2. m \in Ids(queue[c])
    BY <2>1 DEF Ids
  <2>3. QED
    BY <2>1, <2>2, ContentsAt
<1>2. ASSUME NEW p \in At(m), NEW q \in At(m), p[1] = q[1] PROVE p = q
  <2>1. PICK c \in Channels, k \in 1 .. ChannelCap :
          p = <<c, k>> /\ k \in 1 .. Len(queue[c]) /\ queue[c][k].id = m
    BY <1>a
  <2>2. PICK b \in Channels, l \in 1 .. ChannelCap :
          q = <<b, l>> /\ l \in 1 .. Len(queue[b]) /\ queue[b][l].id = m
    BY <1>a
  <2>3. b = c
    BY <1>2, <2>1, <2>2
  <2>4. k = l
    BY <2>1, <2>2, <2>3 DEF QueueInv
  <2>5. QED
    BY <2>1, <2>2, <2>3, <2>4
<1>3. ASSUME NEW c \in Channels, m \in Contents[<<"queue", c>>] PROVE \E p \in At(m) : p[1] = c
  <2>1. m \in Ids(queue[c])
    BY <1>3, ContentsAt
  <2>2. PICK k \in 1 .. Len(queue[c]) : queue[c][k].id = m
    BY <2>1 DEF Ids
  <2>3. k \in Nat /\ k <= Len(queue[c]) /\ k >= 1 /\ Len(queue[c]) \in Nat
    BY <1>q, <2>2
  <2>4. k \in 1 .. ChannelCap
    BY <1>q, <2>3 DEF CapInv
  <2>5. <<c, k>> \in At(m)
    BY <2>2, <2>3, <2>4 DEF At
  <2>6. QED
    BY <2>5
<1>4. /\ InHand(m) = {c \in Channels : m \in Contents[<<"hand", c>>]}
      /\ InStop(m) = {s \in Stoppers : m \in Contents[<<"stop", s>>]}
      /\ Sending(m) = {t \in Deliverers : m \in Contents[<<"send", t>>]}
  <2>1. /\ \A c \in Channels : m \in Contents[<<"hand", c>>] <=> held[c].id = m
        /\ \A s \in Stoppers : m \in Contents[<<"stop", s>>] <=> stops[s].held.id = m
        /\ \A t \in Deliverers : m \in Contents[<<"send", t>>] <=>
             delivery[t].pc = "send" /\ delivery[t].entry.id = m
    <3>1. \A e \in {held[c] : c \in Channels} \cup {stops[s].held : s \in Stoppers} :
            m \in {e.id} \ {None} <=> e.id = m
      BY <1>n
    <3>2. \A c \in Channels : m \in Contents[<<"hand", c>>] <=> held[c].id = m
      BY <3>1, ContentsAt
    <3>3. \A s \in Stoppers : m \in Contents[<<"stop", s>>] <=> stops[s].held.id = m
      BY <3>1, ContentsAt
    <3>4. ASSUME NEW t \in Deliverers
          PROVE  m \in Contents[<<"send", t>>] <=>
                   delivery[t].pc = "send" /\ delivery[t].entry.id = m
      <4>1. Contents[<<"send", t>>] =
              IF delivery[t].pc = "send" THEN {delivery[t].entry.id} ELSE {}
        BY ContentsAt
      <4>2. QED
        BY <4>1
    <3>5. QED
      BY <3>2, <3>3, <3>4
  <2>2. QED
    BY <2>1 DEF InHand, InStop, Sending
<1>5. QED
  BY <1>1, <1>2, <1>3, <1>4

(* What holds a message holds it alone. *)
LEMMA Alone ==
  ASSUME IInv, SiteInv, QueueInv, CapInv, NEW m \in Messages
  PROVE  Cardinality(At(m)) + Cardinality(InHand(m)) + Cardinality(InStop(m))
           + Cardinality(Sending(m)) = (IF m \in inFlight THEN 1 ELSE 0)
<1> DEFINE a == At(m)
           h == InHand(m)
           r == InStop(m)
           d == Sending(m)
<1>p. /\ \A p \in a : m \in Contents[<<"queue", p[1]>>] /\ p[1] \in Channels
      /\ \A p, q \in a : p[1] = q[1] => p = q
      /\ \A c \in Channels : m \in Contents[<<"queue", c>>] => \E p \in a : p[1] = c
      /\ h = {c \in Channels : m \in Contents[<<"hand", c>>]}
      /\ r = {s \in Stoppers : m \in Contents[<<"stop", s>>]}
      /\ d = {t \in Deliverers : m \in Contents[<<"send", t>>]}
  BY Places
<1>s. /\ \A c \in Channels : <<"queue", c>> \in Sites /\ <<"hand", c>> \in Sites
      /\ \A s \in Stoppers : <<"stop", s>> \in Sites
      /\ \A t \in Deliverers : <<"send", t>> \in Sites
  BY ContentsAt
<1> HIDE DEF a, h, r, d
<1>u. \A x, y \in Sites : m \in Contents[x] /\ m \in Contents[y] => x = y
  BY DEF SiteInv
<1>0. Cardinality({}) = 0 /\ \A x : Cardinality({x}) = 1
  BY FS_EmptySet, FS_Singleton
<1>1. CASE m \notin inFlight
  <2>1. \A x \in Sites : m \notin Contents[x]
    BY <1>1 DEF SiteInv
  <2>2. a = {} /\ h = {} /\ r = {} /\ d = {}
    BY <1>p, <1>s, <2>1
  <2>3. QED
    BY <1>0, <1>1, <2>2 DEF a, h, r, d
<1>2. CASE m \in inFlight
  <2>1. PICK x \in Sites : m \in Contents[x]
    BY <1>2 DEF SiteInv
  <2>2. \A y \in Sites : m \in Contents[y] => y = x
    BY <1>u, <2>1
  <2>3. ASSUME NEW c \in Channels, x = <<"queue", c>>
        PROVE  \E p : a = {p} /\ h = {} /\ r = {} /\ d = {}
    <3>1. PICK p \in a : p[1] = c
      BY <1>p, <2>1, <2>3
    <3>2. \A q \in a : q = p
      <4>1. ASSUME NEW q \in a PROVE q = p
        <5>1. <<"queue", q[1]>> = x
          BY <1>p, <1>s, <2>2
        <5>2. q[1] = c
          BY <2>3, <5>1
        <5>3. QED
          BY <1>p, <3>1, <5>2
      <4>2. QED
        BY <4>1
    <3>3. h = {} /\ r = {} /\ d = {}
      BY <1>p, <1>s, <2>2, <2>3
    <3>4. QED
      BY <3>1, <3>2, <3>3
  <2>4. ASSUME NEW c \in Channels, x = <<"hand", c>>
        PROVE  a = {} /\ h = {c} /\ r = {} /\ d = {}
    <3>1. a = {} /\ r = {} /\ d = {}
      BY <1>p, <1>s, <2>2, <2>4
    <3>2. h = {c}
      BY <1>p, <1>s, <2>1, <2>2, <2>4
    <3>3. QED
      BY <3>1, <3>2
  <2>5. ASSUME NEW s \in Stoppers, x = <<"stop", s>>
        PROVE  a = {} /\ h = {} /\ r = {s} /\ d = {}
    <3>1. a = {} /\ h = {} /\ d = {}
      BY <1>p, <1>s, <2>2, <2>5
    <3>2. r = {s}
      BY <1>p, <1>s, <2>1, <2>2, <2>5
    <3>3. QED
      BY <3>1, <3>2
  <2>6. ASSUME NEW t \in Deliverers, x = <<"send", t>>
        PROVE  a = {} /\ h = {} /\ r = {} /\ d = {t}
    <3>1. a = {} /\ h = {} /\ r = {}
      BY <1>p, <1>s, <2>2, <2>6
    <3>2. d = {t}
      BY <1>p, <1>s, <2>1, <2>2, <2>6
    <3>3. QED
      BY <3>1, <3>2
  <2>7. Cardinality(a) + Cardinality(h) + Cardinality(r) + Cardinality(d) = 1
    <3>1. \E y : \/ a = {y} /\ h = {} /\ r = {} /\ d = {}
                 \/ a = {} /\ h = {y} /\ r = {} /\ d = {}
                 \/ a = {} /\ h = {} /\ r = {y} /\ d = {}
                 \/ a = {} /\ h = {} /\ r = {} /\ d = {y}
      BY <2>3, <2>4, <2>5, <2>6, SitesSplit
    <3>2. PICK y : \/ a = {y} /\ h = {} /\ r = {} /\ d = {}
                   \/ a = {} /\ h = {y} /\ r = {} /\ d = {}
                   \/ a = {} /\ h = {} /\ r = {y} /\ d = {}
                   \/ a = {} /\ h = {} /\ r = {} /\ d = {y}
      BY <3>1
    <3>3. Cardinality({y}) = 1
      BY <1>0
    <3>4. QED
      BY <1>0, <3>2, <3>3
  <2>8. QED
    BY <1>2, <2>7 DEF a, h, r, d
<1>3. QED
  BY <1>1, <1>2

(* The messages AcceptedIsExact counts. *)
LEMMA Counted ==
  ASSUME IInv, JobInv, NEW j \in Jobs
  PROVE  AcceptedSet[j] =
           {m \in Messages :
              \/ \E c \in Channels :
                   owner[c] = j /\ \E k \in 1..Len(queue[c]) : queue[c][k].id = m
              \/ \E c \in Channels : owner[c] = j /\ held[c].id = m
              \/ \E s \in Stoppers : stops[s].job = j /\ stops[s].held.id = m}
<1>1. ASSUME NEW m \in Messages
      PROVE  m \in AcceptedSet[j] <=>
               \/ \E c \in Channels :
                    owner[c] = j /\ \E k \in 1..Len(queue[c]) : queue[c][k].id = m
               \/ \E c \in Channels : owner[c] = j /\ held[c].id = m
               \/ \E s \in Stoppers : stops[s].job = j /\ stops[s].held.id = m
  <2>n. \A x : m \in {x} \ {None} <=> x = m
    BY NoneAssumption
  <2>c. /\ \A c \in Channels : m \in Contents[<<"queue", c>>] <=>
             \E k \in 1..Len(queue[c]) : queue[c][k].id = m
        /\ \A c \in Channels : m \in Contents[<<"hand", c>>] <=> held[c].id = m
        /\ \A s \in Stoppers : m \in Contents[<<"stop", s>>] <=> stops[s].held.id = m
    <3>1. \A c \in Channels : m \in Contents[<<"queue", c>>] <=>
            \E k \in 1..Len(queue[c]) : queue[c][k].id = m
      <4>1. \A c \in Channels : Contents[<<"queue", c>>] = Ids(queue[c])
        BY ContentsAt
      <4>2. ASSUME NEW c \in Channels
            PROVE  m \in Ids(queue[c]) <=> \E k \in 1..Len(queue[c]) : queue[c][k].id = m
        BY DEF Ids
      <4>3. QED
        BY <4>1, <4>2
    <3>2. /\ \A c \in Channels : Contents[<<"hand", c>>] = {held[c].id} \ {None}
          /\ \A s \in Stoppers : Contents[<<"stop", s>>] = {stops[s].held.id} \ {None}
      BY ContentsAt
    <3>3. \A c \in Channels : m \in Contents[<<"hand", c>>] <=> held[c].id = m
      BY <2>n, <3>2
    <3>4. \A s \in Stoppers : m \in Contents[<<"stop", s>>] <=> stops[s].held.id = m
      BY <2>n, <3>2
    <3>5. QED
      BY <3>1, <3>3, <3>4
  <2>j. /\ \A c \in Channels : m \in Contents[<<"queue", c>>] => JobOf[m] = owner[c]
        /\ \A c \in Channels : m \in Contents[<<"hand", c>>] => JobOf[m] = owner[c]
        /\ \A s \in Stoppers : m \in Contents[<<"stop", s>>] => JobOf[m] = stops[s].job
    BY ContentsAt DEF JobInv, Accepts, SiteJob
  <2>1. m \in AcceptedSet[j] <=>
          \/ \E c \in Channels : owner[c] = j /\ m \in Contents[<<"queue", c>>]
          \/ \E c \in Channels : owner[c] = j /\ m \in Contents[<<"hand", c>>]
          \/ \E s \in Stoppers : stops[s].job = j /\ m \in Contents[<<"stop", s>>]
    <3>1. ASSUME m \in AcceptedSet[j]
          PROVE  \/ \E c \in Channels : owner[c] = j /\ m \in Contents[<<"queue", c>>]
                 \/ \E c \in Channels : owner[c] = j /\ m \in Contents[<<"hand", c>>]
                 \/ \E s \in Stoppers : stops[s].job = j /\ m \in Contents[<<"stop", s>>]
      <4>1. JobOf[m] = j /\ \E p \in Sites : Accepts(p) /\ m \in Contents[p]
        BY <3>1 DEF AcceptedSet
      <4>2. PICK p \in Sites : Accepts(p) /\ m \in Contents[p]
        BY <4>1
      <4>3. \A t : p # <<"send", t>>
        BY <4>2 DEF Accepts
      <4>4. QED
        BY <2>j, <4>1, <4>2, <4>3, SitesSplit
    <3>2. ASSUME \/ \E c \in Channels : owner[c] = j /\ m \in Contents[<<"queue", c>>]
                 \/ \E c \in Channels : owner[c] = j /\ m \in Contents[<<"hand", c>>]
                 \/ \E s \in Stoppers : stops[s].job = j /\ m \in Contents[<<"stop", s>>]
          PROVE  m \in AcceptedSet[j]
      <4>1. /\ \A c \in Channels : Accepts(<<"queue", c>>) /\ Accepts(<<"hand", c>>)
            /\ \A s \in Stoppers : Accepts(<<"stop", s>>)
        BY DEF Accepts
      <4>2. JobOf[m] = j /\ \E p \in Sites : Accepts(p) /\ m \in Contents[p]
        BY <2>j, <3>2, <4>1, ContentsAt
      <4>3. QED
        BY <4>2 DEF AcceptedSet
    <3>3. QED
      BY <3>1, <3>2
  <2>2. QED
    BY <2>c, <2>1
<1>2. AcceptedSet[j] \subseteq Messages
  BY DEF AcceptedSet
<1>3. QED
  BY <1>1, <1>2

LEMMA ClaimsImplied ==
  CInv => InFlightWhileHeld /\ AcceptedIsExact /\ ClaimExcludesWork /\ RemovedRowIsCurrent
<1> SUFFICES ASSUME CInv
             PROVE  InFlightWhileHeld /\ AcceptedIsExact /\ ClaimExcludesWork /\ RemovedRowIsCurrent
  OBVIOUS
<1>i. /\ IInv /\ SiteInv /\ QueueInv /\ CapInv /\ JobInv /\ CountInv
      /\ ClaimInv /\ TurnsInv /\ RowInv
      /\ completingJobs \subseteq Jobs /\ turns \in [Jobs -> Channels \cup {NoChannel}]
  BY DEF CInv, IInv, TypeOK, MarkTypeOK, TurnTypeOK
<1>1. InFlightWhileHeld
  <2>1. \A m \in Messages :
          Cardinality(At(m)) + Cardinality(InHand(m)) + Cardinality(InStop(m))
            + Cardinality(Sending(m)) = (IF m \in inFlight THEN 1 ELSE 0)
    BY <1>i, Alone
  <2>2. QED
    BY <2>1 DEF InFlightWhileHeld, At, InHand, InStop, Sending
<1>2. ASSUME NEW j \in completingJobs
      PROVE  /\ turns[j] = NoChannel
             /\ \A c \in Channels : owner[c] = j => queue[c] = <<>> /\ ~Holds(c)
  <2>1. j \in Jobs /\ acceptedMessages[j] = 0
    BY <1>i DEF ClaimInv
  <2>2. ASSUME NEW c \in Channels, owner[c] = j PROVE queue[c] = <<>> /\ ~Holds(c)
    BY <1>i, <2>1, <2>2, WorkIsCounted
  <2>3. ASSUME turns[j] # NoChannel PROVE FALSE
    <3>1. turns[j] \in Channels /\ owner[turns[j]] = j /\ phase[turns[j]] # "none"
      BY <1>i, <2>1, <2>3 DEF TurnsInv, RunningPhases
    <3>2. Holds(turns[j])
      BY <1>i, <3>1, TurnHolds
    <3>3. QED
      BY <2>2, <3>1, <3>2
  <2>4. QED
    BY <2>2, <2>3
<1>3. ClaimExcludesWork
  BY <1>2 DEF ClaimExcludesWork
<1>4. RemovedRowIsCurrent
  BY <1>i DEF RowInv
<1>5. AcceptedIsExact
  <2>1. \A j \in Jobs : acceptedMessages[j] = Cardinality(AcceptedSet[j])
    BY <1>i DEF CountInv
  <2>2. QED
    BY <1>i, <2>1, Counted DEF AcceptedIsExact
<1>6. QED
  BY <1>1, <1>3, <1>4, <1>5

(* A message is in one place at a time, and in one exactly while its mark   *)
(* says it is in flight, so a second delivery is always told from the first *)
(* (dispatcher.go:25-27, 58-113).                                          *)
THEOREM InFlight == Spec => []InFlightWhileHeld
  BY ClaimsInvariance, ClaimsImplied, PTL

(* A job's count of accepted messages is the number of its messages in     *)
(* channels and in the hands of processors and stop requests               *)
(* (dispatcher.go:28-30, 163-172).                                         *)
THEOREM CountExact == Spec => []AcceptedIsExact
  BY ClaimsInvariance, ClaimsImplied, PTL

(* While an idle check holds the claim on a job, none of the job's channels *)
(* has a message, none of its processors holds one and no turn is          *)
(* registered (dispatcher.go:249-262, messages.go:1037-1075).               *)
THEOREM ClaimsExclude == Spec => []ClaimExcludesWork
  BY ClaimsInvariance, ClaimsImplied, PTL

(* The row an idle check removes is the one it read, whatever turns and    *)
(* other checks do, until a stop request comes (messages.go:1040-1064).    *)
THEOREM RowCurrent == Spec => []RemovedRowIsCurrent
  BY ClaimsInvariance, ClaimsImplied, PTL

-----------------------------------------------------------------------------
(* Without stop requests the dispatcher implements the lanes of JobLanes,   *)
(* and a job has one turn at a time.                                       *)
(*                                                                         *)
(* Stop requests are left out because with one both fail: between finding  *)
(* the job idle and evicting it, a message may have been accepted, and the *)
(* job then has two channels with work (stop_turn.go:53-75).  An idle      *)
(* check evicts too, but under a claim, and a claimed job has no work.     *)

NoStops == MaxStops = 0

Serves(c) == proc[c] \in {"handle", "finish"}
Leaves(c) == proc[c] \in {"drain", "dropped", "gone"}
Registered(c) == activeJobs[owner[c]] = c

(* A channel that is registered no longer has nothing to run, or its       *)
(* processor only gives messages back.                                     *)
Spent(c) == (queue[c] = <<>> /\ ~Holds(c)) \/ Leaves(c)

LaneInv == \A c \in Channels : c <= made /\ ~Registered(c) => Spent(c)

LInv ==
  /\ CInv
  /\ LaneInv

-----------------------------------------------------------------------------
(* The steps by what they do to the channels. *)

NothingMoves ==
  /\ activeJobs' = activeJobs /\ made' = made /\ owner' = owner /\ queue' = queue /\ held' = held
  /\ \A c \in Channels : (Serves(c)' <=> Serves(c)) /\ (Leaves(c) => Leaves(c)')

Joins(c, e) ==
  /\ e \in Entries /\ owner[c] \in Jobs /\ activeJobs[owner[c]] = c
  /\ queue' = [queue EXCEPT ![c] = Append(@, e)]
  /\ activeJobs' = activeJobs /\ made' = made /\ owner' = owner /\ held' = held /\ proc' = proc

Opens(c, j, e) ==
  /\ e \in Entries /\ j \in Jobs
  /\ c > made /\ made' = c /\ \A b \in Channels : b <= c => b = c \/ b <= made
  /\ activeJobs[j] = NoChannel /\ queue[c] = <<>>
  /\ activeJobs' = [activeJobs EXCEPT ![j] = c] /\ owner' = [owner EXCEPT ![c] = j]
  /\ queue' = [queue EXCEPT ![c] = Append(@, e)]
  /\ proc' = [proc EXCEPT ![c] = "created"] /\ held' = held

Starts(c) ==
  /\ proc[c] = "receive" /\ queue[c] # <<>>
  /\ queue' = [queue EXCEPT ![c] = Tail(@)] /\ held' = [held EXCEPT ![c] = Head(queue[c])]
  /\ proc' = [proc EXCEPT ![c] = "handle"]
  /\ activeJobs' = activeJobs /\ made' = made /\ owner' = owner

Ends(c) ==
  /\ proc[c] = "finish"
  /\ held' = [held EXCEPT ![c] = NoEntry] /\ proc' = [proc EXCEPT ![c] = "check"]
  /\ activeJobs' = activeJobs /\ made' = made /\ owner' = owner /\ queue' = queue

Closes(c) ==
  /\ owner[c] \in Jobs /\ activeJobs[owner[c]] = c /\ ~Serves(c)
  /\ activeJobs' = [activeJobs EXCEPT ![owner[c]] = NoChannel]
  /\ made' = made /\ owner' = owner /\ queue' = queue /\ held' = held
  /\ Spent(c)' /\ \A b \in Channels : (b # c => proc'[b] = proc[b]) /\ (Serves(b)' <=> Serves(b))

Drains(c) ==
  /\ Leaves(c) /\ Leaves(c)' /\ ~Serves(c) /\ ~Serves(c)'
  /\ \A b \in Channels : b # c => queue'[b] = queue[b] /\ held'[b] = held[b] /\ proc'[b] = proc[b]
  /\ activeJobs' = activeJobs /\ made' = made /\ owner' = owner

LaneMoves ==
  \/ NothingMoves
  \/ \E c \in Channels : Starts(c) \/ Ends(c) \/ Closes(c) \/ Drains(c)
  \/ \E c \in Channels, e \in Entries : Joins(c, e)
  \/ \E c \in Channels, j \in Jobs, e \in Entries : Opens(c, j, e)

LEMMA ProcMoves ==
  ASSUME IInv, NEW c \in Channels, NEW pc, proc' = [proc EXCEPT ![c] = pc]
  PROVE  proc'[c] = pc /\ \A b \in Channels : b # c => proc'[b] = proc[b]
  BY DEF IInv, TypeOK, ProcessorTypeOK

LEMMA NothingMovesWhen ==
  ASSUME UNCHANGED <<activeJobs, made, owner, queue, held>>,
         \A c \in Channels : \/ proc'[c] = proc[c]
                             \/ Serves(c) /\ proc'[c] = "finish"
                             \/ ~Serves(c) /\ ~Leaves(c) /\ proc'[c] \notin {"handle", "finish"}
                             \/ proc[c] \in {"drain", "cleanup"} /\ proc'[c] \in {"gone", "drain"}
  PROVE  LaneMoves
<1>1. ASSUME NEW c \in Channels PROVE (Serves(c)' <=> Serves(c)) /\ (Leaves(c) => Leaves(c)')
  BY DEF Serves, Leaves
<1>2. activeJobs' = activeJobs /\ made' = made /\ owner' = owner /\ queue' = queue /\ held' = held
  OBVIOUS
<1>3. NothingMoves
  BY <1>1, <1>2 DEF NothingMoves
<1>4. QED
  BY <1>3 DEF LaneMoves

LEMMA DispatchMoves ==
  ASSUME IInv, HandInv, NEW t \in Deliverers, Dispatch(t)
  PROVE  LaneMoves
<1> DEFINE d == delivery[t]
           e == d.entry
           j == JobOf[e.id]
<1>t. d.pc # "none" => e \in Entries /\ j \in Jobs
  BY EntryFields DEF IInv, DeliveryInv
<1>c. ChannelTypeOK /\ ChannelInv
  BY DEF IInv, TypeOK
<1>1. CASE DispatchCheckDone(t) \/ DispatchMark(t) \/ DispatchRefuse(t)
  <2>1. UNCHANGED <<activeJobs, made, owner, queue, held>> /\ proc' = proc
    BY <1>1 DEF DispatchCheckDone, DispatchMark, DispatchRefuse, channelVars, processorVars
  <2>2. QED
    BY <2>1, NothingMovesWhen
<1>2. CASE DispatchSend(t)
  <2> DEFINE c == activeJobs[j]
  <2>1. /\ d.pc = "send" /\ c # NoChannel /\ queue' = [queue EXCEPT ![c] = Append(@, e)]
        /\ activeJobs' = activeJobs /\ made' = made /\ owner' = owner /\ held' = held /\ proc' = proc
    BY <1>2 DEF DispatchSend, processorVars
  <2>2. e \in Entries /\ j \in Jobs /\ c \in Channels /\ owner[c] = j
    BY <1>t, <1>c, <2>1 DEF ChannelTypeOK, ChannelInv
  <2>3. Joins(c, e)
    BY <2>1, <2>2 DEF Joins
  <2>4. QED
    BY <2>2, <2>3 DEF LaneMoves
<1>3. CASE DispatchSendNew(t)
  <2> DEFINE c == made + 1
  <2>1. /\ d.pc = "send" /\ made < MaxChannels /\ activeJobs[j] = NoChannel
        /\ activeJobs' = [activeJobs EXCEPT ![j] = c] /\ owner' = [owner EXCEPT ![c] = j]
        /\ queue' = [queue EXCEPT ![c] = Append(@, e)] /\ made' = c
        /\ proc' = [proc EXCEPT ![c] = "created"] /\ held' = held
    BY <1>3 DEF DispatchSendNew
  <2>2. made \in Nat /\ Channels \subseteq Nat /\ c \in Channels
    BY <1>c, <2>1, DispatcherAssumption DEF ChannelTypeOK, Channels, NoChannel
  <2>3. c > made /\ \A b \in Channels : b <= c => b = c \/ b <= made
    BY <2>2
  <2>4. e \in Entries /\ j \in Jobs /\ queue[c] = <<>>
    BY <1>t, <2>1, <2>2, <2>3 DEF HandInv
  <2>5. Opens(c, j, e)
    BY <2>1, <2>3, <2>4 DEF Opens
  <2>6. QED
    BY <2>2, <2>4, <2>5 DEF LaneMoves
<1>4. CASE DispatchSubmit(t)
  <2>1. /\ d.pc = "submit" /\ proc' = [proc EXCEPT ![d.ch] = "submitted"]
        /\ UNCHANGED <<activeJobs, made, owner, queue, held>>
    BY <1>4 DEF DispatchSubmit, channelVars
  <2>2. d.ch \in Channels /\ proc[d.ch] = "created"
    BY <2>1 DEF IInv, DeliveryInv
  <2>3. proc'[d.ch] = "submitted" /\ \A b \in Channels : b # d.ch => proc'[b] = proc[b]
    BY <2>1, <2>2, ProcMoves
  <2>4. ~Serves(d.ch) /\ ~Leaves(d.ch)
    BY <2>2 DEF Serves, Leaves
  <2>5. QED
    BY <2>1, <2>3, <2>4, NothingMovesWhen
<1>5. QED
  BY <1>1, <1>2, <1>3, <1>4 DEF Dispatch

LEMMA TaskMoves ==
  ASSUME IInv, StartTask
  PROVE  LaneMoves
<1> DEFINE c == Head(pool)
<1>1. /\ pool # <<>> /\ proc' = [proc EXCEPT ![c] = "receive"]
      /\ UNCHANGED <<activeJobs, made, owner, queue, held>>
  BY DEF StartTask, channelVars
<1>2. PoolInv /\ ProcessorTypeOK
  BY DEF IInv, TypeOK
<1>3. c = pool[1] /\ 1 \in 1 .. Len(pool) /\ c \in Channels
  BY <1>1, <1>2 DEF ProcessorTypeOK
<1>4. proc[c] = "submitted"
  BY <1>2, <1>3 DEF PoolInv
<1> HIDE DEF c
<1>5. proc'[c] = "receive" /\ \A b \in Channels : b # c => proc'[b] = proc[b]
  BY <1>1, <1>3, ProcMoves
<1>6. ~Serves(c) /\ ~Leaves(c)
  BY <1>4 DEF Serves, Leaves
<1>7. QED
  BY <1>1, <1>5, <1>6, NothingMovesWhen

(* What a close does where it finds the channel registered. *)
LEMMA ClosesWhen ==
  ASSUME IInv, NEW c \in Channels, owner[c] \in Jobs, CloseLocked(owner[c], c), proc[c] # "finish",
         UNCHANGED <<made, owner, queue, held>>, NEW pc \in {"cleanup", "drain", proc[c]},
         proc' = [proc EXCEPT ![c] = pc], pc = proc[c] => ~Serves(c),
         pc = "cleanup" => proc[c] = "close", pc = "drain" => proc[c] = "cleanup",
         pc # "drain" => queue[c] = <<>> /\ ~Holds(c)
  PROVE  LaneMoves
<1>1. proc'[c] = pc /\ \A b \in Channels : b # c => proc'[b] = proc[b]
  BY ProcMoves
<1>2. made' = made /\ owner' = owner /\ queue' = queue /\ held' = held
  OBVIOUS
<1>3. ~Serves(c) /\ ~Serves(c)'
  BY <1>1 DEF Serves
<1>4. CASE activeJobs[owner[c]] = c
  <2>1. activeJobs' = [activeJobs EXCEPT ![owner[c]] = NoChannel]
    BY <1>4 DEF CloseLocked
  <2>2. Spent(c)'
    BY <1>1, <1>2 DEF Spent, Holds, Leaves
  <2>3. \A b \in Channels : Serves(b)' <=> Serves(b)
    BY <1>1, <1>3 DEF Serves
  <2>4. Closes(c)
    BY <1>1, <1>2, <1>3, <1>4, <2>1, <2>2, <2>3 DEF Closes
  <2>5. QED
    BY <2>4 DEF LaneMoves
<1>5. CASE activeJobs[owner[c]] # c
  <2>1. activeJobs' = activeJobs
    BY <1>5 DEF CloseLocked
  <2>2. Leaves(c) => Leaves(c)'
    BY <1>1 DEF Leaves
  <2>3. \A b \in Channels : (Serves(b)' <=> Serves(b)) /\ (Leaves(b) => Leaves(b)')
    BY <1>1, <1>3, <2>2 DEF Serves, Leaves
  <2>4. NothingMoves
    BY <1>2, <2>1, <2>3 DEF NothingMoves
  <2>5. QED
    BY <2>4 DEF LaneMoves
<1>6. QED
  BY <1>4, <1>5


LEMMA Live ==
  ASSUME IInv, NEW c \in Channels, proc[c] # "unborn"
  PROVE  c <= made /\ owner[c] \in Jobs
<1>1. ProcessorInv /\ ChannelInv /\ ChannelTypeOK
  BY DEF IInv, TypeOK
<1>2. made \in Nat /\ c \in Nat
  BY <1>1, DispatcherAssumption DEF ChannelTypeOK, Channels, NoChannel
<1>3. ~(c > made)
  BY <1>1 DEF ProcessorInv
<1>4. c <= made
  BY <1>2, <1>3
<1>5. QED
  BY <1>1, <1>4 DEF ChannelInv

LEMMA ProcessMoves ==
  ASSUME IInv, HandInv, NEW c \in Channels, Process(c)
  PROVE  LaneMoves
<1>n. ASSUME UNCHANGED <<activeJobs, made, owner, queue, held>>, NEW pc,
             proc' = [proc EXCEPT ![c] = pc],
             \/ proc[c] \in {"receive", "check", "close"} /\ pc \in {"receive", "close", "cleanup"}
             \/ proc[c] = "drain" /\ pc = "gone"
      PROVE  LaneMoves
  <2>1. proc'[c] = pc /\ \A b \in Channels : b # c => proc'[b] = proc[b]
    BY <1>n, ProcMoves
  <2>2. \/ ~Serves(c) /\ ~Leaves(c) /\ proc'[c] \notin {"handle", "finish"}
        \/ proc[c] = "drain" /\ proc'[c] = "gone"
    BY <1>n, <2>1 DEF Serves, Leaves
  <2>3. QED
    BY <1>n, <2>1, <2>2, NothingMovesWhen
<1>o. proc[c] # "unborn" => owner[c] \in Jobs
  BY Live
<1>h. /\ queue \in [Channels -> Seq(Entries)] /\ held \in [Channels -> Entries \cup {NoEntry}]
      /\ proc \in [Channels -> ProcStates]
  BY DEF IInv, TypeOK, ChannelTypeOK, ProcessorTypeOK
<1>1. CASE Receive(c)
  <2>1. Starts(c)
    BY <1>1 DEF Receive, Starts
  <2>2. QED
    BY <2>1 DEF LaneMoves
<1>2. CASE ReceiveClosed(c)
  <2>1. /\ UNCHANGED <<activeJobs, made, owner, queue, held>> /\ proc[c] = "receive"
        /\ proc' = [proc EXCEPT ![c] = "cleanup"]
    BY <1>2 DEF ReceiveClosed, channelVars
  <2>2. QED
    BY <1>n, <2>1
<1>3. CASE FinishHandled(c)
  <2>1. Ends(c)
    BY <1>3 DEF FinishHandled, Ends, channelVars
  <2>2. QED
    BY <2>1 DEF LaneMoves
<1>4. CASE CheckJob(c)
  <2> DEFINE pc == CASE jobs[owner[c]].status = "absent" -> "cleanup"
                     [] jobs[owner[c]].status \in {"completed", "failed"} -> "close"
                     [] OTHER -> "receive"
  <2>1. /\ UNCHANGED <<activeJobs, made, owner, queue, held>> /\ proc[c] = "check"
        /\ proc' = [proc EXCEPT ![c] = pc]
    BY <1>4 DEF CheckJob, channelVars
  <2>2. pc \in {"receive", "close", "cleanup"}
    OBVIOUS
  <2> HIDE DEF pc
  <2>3. QED
    BY <1>n, <2>1, <2>2
<1>5. CASE CloseIfEmpty(c)
  <2>1. CASE queue[c] # <<>>
    <3>1. /\ UNCHANGED <<activeJobs, made, owner, queue, held>> /\ proc[c] = "close"
          /\ proc' = [proc EXCEPT ![c] = "receive"]
      BY <1>5, <2>1 DEF CloseIfEmpty
    <3>2. QED
      BY <1>n, <3>1
  <2>2. CASE queue[c] = <<>>
    <3>1. /\ UNCHANGED <<made, owner, queue, held>> /\ proc[c] = "close"
          /\ proc' = [proc EXCEPT ![c] = "cleanup"] /\ CloseLocked(owner[c], c)
      BY <1>5, <2>2 DEF CloseIfEmpty
    <3>2. ~Holds(c)
      BY <3>1 DEF HandInv
    <3>3. QED
      BY <1>o, <2>2, <3>1, <3>2, ClosesWhen
  <2>3. QED
    BY <2>1, <2>2
<1>6. CASE Cleanup(c)
  <2>1. /\ UNCHANGED <<made, owner, queue, held>> /\ proc[c] = "cleanup"
        /\ proc' = [proc EXCEPT ![c] = "drain"] /\ CloseLocked(owner[c], c)
    BY <1>6 DEF Cleanup
  <2>2. QED
    BY <1>o, <2>1, ClosesWhen
<1>7. ASSUME DrainReceive(c) \/ DrainFinish(c) PROVE LaneMoves
  <2>1. /\ proc[c] \in {"drain", "dropped"} /\ \E pc \in {"drain", "dropped"} : proc' = [proc EXCEPT ![c] = pc]
        /\ activeJobs' = activeJobs /\ made' = made /\ owner' = owner
        /\ \A b \in Channels : b # c => queue'[b] = queue[b] /\ held'[b] = held[b]
    BY <1>7, <1>h DEF DrainReceive, DrainFinish, channelVars
  <2>2. proc'[c] \in {"drain", "dropped"} /\ \A b \in Channels : b # c => proc'[b] = proc[b]
    BY <2>1, ProcMoves
  <2>3. Drains(c)
    BY <2>1, <2>2 DEF Drains, Leaves, Serves
  <2>4. QED
    BY <2>3 DEF LaneMoves
<1>8. CASE LeaveProcessor(c)
  <2>1. /\ UNCHANGED <<activeJobs, made, owner, queue, held>> /\ proc[c] = "drain"
        /\ proc' = [proc EXCEPT ![c] = "gone"]
    BY <1>8 DEF LeaveProcessor, channelVars
  <2>2. QED
    BY <1>n, <2>1
<1>9. QED
  BY <1>1, <1>2, <1>3, <1>4, <1>5, <1>6, <1>7, <1>8 DEF Process

LEMMA TurnMoves ==
  ASSUME IInv, NEW c \in Channels, HandleMessage(c)
  PROVE  LaneMoves
<1>1. /\ UNCHANGED <<activeJobs, made, owner, queue, held>>
      /\ \A b \in Channels : proc'[b] = proc[b] \/ (b = c /\ proc'[b] = "finish")
  BY TurnEffect
<1>2. proc[c] = "handle"
  <2>1. CASE BeginTurn(c)
    BY <2>1 DEF BeginTurn
  <2>2. CASE ~BeginTurn(c)
    <3>1. phase[c] # "none"
      BY <2>2 DEF HandleMessage, LeaveForPoller, ReadJob, AbandonJob, MarkInProgress, TakeOffQueue,
         FinishTurnWithReply, FinishStoppedTurn, FailCLI, FailTurn, EndTurn, FailInProgressJob,
         RecordDone
    <3>2. QED
      BY <3>1 DEF IInv, ProcessorInv
  <2>3. QED
    BY <2>1, <2>2
<1>3. Serves(c)
  BY <1>2 DEF Serves
<1>4. QED
  BY <1>1, <1>3, NothingMovesWhen

(* An idle check evicts a job it has claimed, and such a job has no work. *)
LEMMA EvictMoves ==
  ASSUME CInv, NEW i \in IdleChecks, EvictIdle(i)
  PROVE  LaneMoves
<1> DEFINE j == checks[i].job
<1>1. /\ checks[i].pc = "evict" /\ EvictJob(j)
      /\ made' = made /\ owner' = owner /\ queue' = queue /\ held' = held /\ proc' = proc
  BY DEF EvictIdle, AtCheck, processorVars
<1>2. /\ IInv /\ RowInv /\ ClaimExcludesWork /\ ChannelTypeOK /\ ChannelInv /\ ProcessorInv
      /\ proc \in [Channels -> ProcStates] /\ completingJobs \subseteq Jobs
  BY ClaimsImplied DEF CInv, IInv, TypeOK, ProcessorTypeOK, MarkTypeOK
<1>3. j \in completingJobs /\ j \in Jobs
  BY <1>1, <1>2 DEF RowInv, Claims
<1> HIDE DEF j
<1>4. CASE activeJobs[j] = NoChannel
  <2>1. UNCHANGED <<activeJobs, made, owner, queue, held>> /\ proc' = proc
    BY <1>1, <1>4 DEF EvictJob
  <2>2. QED
    BY <2>1, NothingMovesWhen
<1>5. ASSUME NEW c \in Channels, activeJobs[j] = c PROVE LaneMoves
  <2>1. owner[c] = j /\ c # NoChannel
    BY <1>2, <1>3, <1>5, DispatcherAssumption DEF ChannelInv, Channels, NoChannel
  <2>2. queue[c] = <<>> /\ ~Holds(c)
    BY <1>2, <1>3, <2>1 DEF ClaimExcludesWork
  <2>3. ~Serves(c) /\ proc[c] # "finish"
    BY <1>2, <2>1, <2>2, NoEntryIsNone DEF ProcessorInv, Holds, Serves
  <2>4. CloseLocked(owner[c], c)
    BY <1>1, <1>5, <2>1 DEF EvictJob
  <2>5. activeJobs' = [activeJobs EXCEPT ![owner[c]] = NoChannel] /\ activeJobs[owner[c]] = c
    BY <1>5, <2>1, <2>4 DEF CloseLocked
  <2>6. Spent(c)'
    BY <1>1, <2>2 DEF Spent, Holds
  <2>7. \A b \in Channels : proc'[b] = proc[b] /\ (Serves(b)' <=> Serves(b))
    BY <1>1 DEF Serves
  <2>8. Closes(c)
    BY <1>1, <1>3, <2>1, <2>3, <2>5, <2>6, <2>7 DEF Closes
  <2>9. QED
    BY <2>8 DEF LaneMoves
<1>6. activeJobs[j] \in Channels \cup {NoChannel}
  BY <1>2, <1>3 DEF ChannelTypeOK
<1>7. QED
  BY <1>4, <1>5, <1>6

LEMMA StepMoves ==
  ASSUME NoStops, CInv, [Next]_vars
  PROVE  LaneMoves
<1>i. IInv /\ HandInv
  BY DEF CInv
<1>s. stopsLeft = 0 /\ \A s \in Stoppers : stops[s].pc = "none"
  <2>1. stopsLeft \in Nat /\ stopsLeft <= 0
    BY DEF CInv, IInv, TypeOK, StopTypeOK, RowInv, NoStops
  <2>2. stopsLeft = 0
    BY <2>1
  <2>3. QED
    BY <2>2 DEF CInv, RowInv, NoStops
<1>n. ASSUME UNCHANGED <<activeJobs, made, owner, queue, held, proc>> PROVE LaneMoves
  BY <1>n, NothingMovesWhen
<1>1. ASSUME NEW t \in Deliverers, NEW m \in Messages, NEW kind \in {"start", "reply"},
             Offer(t, m, kind)
      PROVE  LaneMoves
  BY <1>1, <1>n DEF Offer, channelVars, processorVars
<1>2. ASSUME NEW s \in Stoppers, NEW j \in Jobs, StopTurn(s, j) PROVE FALSE
  BY <1>2, <1>s DEF StopTurn
<1>3. ASSUME NEW s \in Stoppers, Stop(s) PROVE FALSE
  BY <1>3, <1>s DEF Stop, FindChannel, DropReceive, DropFinish, DropDone, KeepJobWithoutSession,
     TakeJobOffQueue, EvictStopped, AtStop
<1>4. ASSUME NEW i \in IdleChecks, NEW j \in Jobs, CheckIdle(i, j) PROVE LaneMoves
  BY <1>4, <1>n DEF CheckIdle, dispatcherVars, channelVars, processorVars
<1>5. ASSUME NEW i \in IdleChecks, Check(i) PROVE LaneMoves
  <2>1. CASE EvictIdle(i)
    BY <2>1, EvictMoves
  <2>2. CASE ~EvictIdle(i)
    BY <1>5, <1>n, <2>2 DEF Check, CheckRunning, ClaimJob, RecheckRow, ClearQueue, RemoveIdleJob,
       ReleaseJob, dispatcherVars, channelVars, processorVars
  <2>3. QED
    BY <2>1, <2>2
<1>6. CASE UNCHANGED vars
  BY <1>6, <1>n DEF vars, dispatcherVars, channelVars, processorVars
<1>7. QED
  BY <1>i, <1>1, <1>2, <1>3, <1>4, <1>5, <1>6, DispatchMoves, TaskMoves, ProcessMoves, TurnMoves
  DEF Next


-----------------------------------------------------------------------------
(* A channel whose processor serves is registered, and every step keeps    *)
(* LaneInv.                                                                *)

LEMMA ServedChannel ==
  ASSUME IInv, LaneInv, NEW c \in Channels, Serves(c) \/ (queue[c] # <<>> /\ proc[c] = "receive")
  PROVE  Registered(c) /\ owner[c] \in Jobs
<1>1. proc[c] \notin {"unborn", "drain", "dropped", "gone"}
  BY DEF Serves
<1>2. c <= made /\ owner[c] \in Jobs
  BY <1>1, Live
<1>3. Serves(c) => Holds(c)
  BY NoEntryIsNone DEF IInv, ProcessorInv, Serves, Holds
<1>4. ~Spent(c)
  BY <1>1, <1>3 DEF Spent, Leaves
<1>5. QED
  BY <1>2, <1>4 DEF LaneInv

LEMMA LaneInvStep ==
  ASSUME IInv, LaneInv, LaneMoves
  PROVE  LaneInv'
<1> SUFFICES ASSUME NEW b \in Channels, b <= made', ~Registered(b)'
             PROVE  Spent(b)'
  BY DEF LaneInv
<1>t. /\ ChannelTypeOK /\ ProcessorTypeOK /\ ChannelInv
      /\ activeJobs \in [Jobs -> Channels \cup {NoChannel}] /\ owner \in [Channels -> Jobs \cup {None}]
      /\ queue \in [Channels -> Seq(Entries)] /\ held \in [Channels -> Entries \cup {NoEntry}]
      /\ proc \in [Channels -> ProcStates] /\ NoChannel \notin Channels
  BY DispatcherAssumption DEF IInv, TypeOK, ChannelTypeOK, ProcessorTypeOK, Channels, NoChannel
<1>0. b <= made => owner[b] \in Jobs
  BY <1>t DEF ChannelInv
<1>w. b <= made /\ ~Registered(b) => Spent(b)
  BY DEF LaneInv
<1>s. ASSUME Spent(b), queue'[b] = queue[b], held'[b] = held[b], Leaves(b) => Leaves(b)'
      PROVE  Spent(b)'
  BY <1>s DEF Spent, Holds
<1>1. CASE NothingMoves
  <2>1. ~Registered(b) /\ b <= made
    BY <1>1 DEF NothingMoves, Registered
  <2>2. queue'[b] = queue[b] /\ held'[b] = held[b] /\ (Leaves(b) => Leaves(b)')
    BY <1>1 DEF NothingMoves
  <2>3. QED
    BY <1>w, <1>s, <2>1, <2>2
<1>2. ASSUME NEW c \in Channels, NEW e \in Entries, Joins(c, e) PROVE Spent(b)'
  <2>1. ~Registered(b) /\ b <= made /\ Registered(c)
    BY <1>2 DEF Joins, Registered
  <2>2. b # c
    BY <2>1
  <2>3. queue'[b] = queue[b] /\ held'[b] = held[b] /\ (Leaves(b) => Leaves(b)')
    BY <1>2, <1>t, <2>2 DEF Joins, Leaves
  <2>4. QED
    BY <1>w, <1>s, <2>1, <2>3
<1>3. ASSUME NEW c \in Channels, NEW j \in Jobs, NEW e \in Entries, Opens(c, j, e) PROVE Spent(b)'
  <2>1. owner'[c] = j /\ activeJobs'[j] = c
    BY <1>3, <1>t DEF Opens
  <2>2. b # c
    BY <2>1 DEF Registered
  <2>3. b <= made
    BY <1>3, <2>2 DEF Opens
  <2>4. owner'[b] = owner[b] /\ (owner[b] # j => activeJobs'[owner[b]] = activeJobs[owner[b]])
    BY <1>3, <1>t, <1>0, <2>2, <2>3 DEF Opens
  <2>5. ~Registered(b)
    BY <1>3, <1>t, <2>4 DEF Opens, Registered
  <2>6. queue'[b] = queue[b] /\ held'[b] = held[b] /\ (Leaves(b) => Leaves(b)')
    BY <1>3, <1>t, <2>2 DEF Opens, Leaves
  <2>7. QED
    BY <1>w, <1>s, <2>3, <2>5, <2>6
<1>4. ASSUME NEW c \in Channels, Starts(c) \/ Ends(c) PROVE Spent(b)'
  <2>1. ~Registered(b) /\ b <= made
    BY <1>4 DEF Starts, Ends, Registered
  <2>2. Registered(c)
    BY <1>4, ServedChannel DEF Starts, Ends, Serves
  <2>3. b # c
    BY <2>1, <2>2
  <2>4. queue'[b] = queue[b] /\ held'[b] = held[b] /\ (Leaves(b) => Leaves(b)')
    BY <1>4, <1>t, <2>3 DEF Starts, Ends, Leaves
  <2>5. QED
    BY <1>w, <1>s, <2>1, <2>4
<1>5. ASSUME NEW c \in Channels, Closes(c) PROVE Spent(b)'
  <2>1. CASE b = c
    BY <1>5, <2>1 DEF Closes
  <2>2. CASE b # c
    <3>1. b <= made /\ owner'[b] = owner[b]
      BY <1>5 DEF Closes
    <3>2. ~Registered(b)
      BY <1>5, <1>t, <1>0, <2>2, <3>1 DEF Closes, Registered
    <3>3. queue'[b] = queue[b] /\ held'[b] = held[b] /\ (Leaves(b) => Leaves(b)')
      BY <1>5, <2>2 DEF Closes, Leaves
    <3>4. QED
      BY <1>w, <1>s, <3>1, <3>2, <3>3
  <2>3. QED
    BY <2>1, <2>2
<1>6. ASSUME NEW c \in Channels, Drains(c) PROVE Spent(b)'
  <2>1. CASE b = c
    BY <1>6, <2>1 DEF Drains, Spent
  <2>2. CASE b # c
    <3>1. b <= made /\ ~Registered(b)
      BY <1>6 DEF Drains, Registered
    <3>2. queue'[b] = queue[b] /\ held'[b] = held[b] /\ (Leaves(b) => Leaves(b)')
      BY <1>6, <2>2 DEF Drains, Leaves
    <3>3. QED
      BY <1>w, <1>s, <3>1, <3>2
  <2>3. QED
    BY <2>1, <2>2
<1>7. QED
  BY <1>1, <1>2, <1>3, <1>4, <1>5, <1>6 DEF LaneMoves

LEMMA LanesInitially == Init => LInv
<1> SUFFICES ASSUME Init PROVE LInv
  OBVIOUS
<1>1. made = 0 /\ \A c \in Channels : ~(c <= 0)
  BY DispatcherAssumption DEF Init, DispatcherInit, Channels
<1>2. LaneInv
  BY <1>1 DEF LaneInv
<1>3. QED
  BY <1>2, ClaimsInitially DEF LInv

LEMMA LanesInductive ==
  ASSUME NoStops
  PROVE  LInv /\ [Next]_vars => LInv'
<1> SUFFICES ASSUME LInv, [Next]_vars PROVE LInv'
  OBVIOUS
<1>1. CInv /\ LaneInv /\ IInv
  BY DEF LInv, CInv
<1>2. CInv'
  BY <1>1, ClaimsInductive
<1>3. LaneInv'
  BY <1>1, StepMoves, LaneInvStep
<1>4. QED
  BY <1>2, <1>3 DEF LInv

THEOREM LanesInvariance ==
  ASSUME NoStops
  PROVE  Spec => []LInv
<1>1. LInv /\ [Next]_vars => LInv'
  BY LanesInductive
<1>2. QED
  BY <1>1, LanesInitially, PTL DEF Spec

LEMMA OneTurnImplied == LInv => OneTurnPerJob
<1> SUFFICES ASSUME LInv, NEW c \in Channels, NEW d \in Channels, c # d, HasTurn(c), HasTurn(d)
             PROVE  owner[c] # owner[d]
  BY DEF OneTurnPerJob
<1>1. IInv /\ LaneInv
  BY DEF LInv, CInv
<1>2. Serves(c) /\ Serves(d)
  BY <1>1 DEF IInv, ProcessorInv, HasTurn, Serves
<1>3. Registered(c) /\ Registered(d)
  BY <1>1, <1>2, ServedChannel
<1>4. QED
  BY <1>3 DEF Registered

(* Without stop requests a job has one turn at a time, whatever the        *)
(* deliveries, removed rows, idle checks and full channels do              *)
(* (dispatcher.go:21-22, 122-150).                                         *)
THEOREM OneTurn ==
  ASSUME NoStops
  PROVE  Spec => []OneTurnPerJob
<1>1. Spec => []LInv
  BY LanesInvariance
<1>2. QED
  BY <1>1, OneTurnImplied, PTL


-----------------------------------------------------------------------------
(* What a lane is: the ids in the channel registered for its job, and the  *)
(* message its processor serves.                                           *)

IdSeq(s) == [k \in 1 .. Len(s) |-> s[k].id]

LaneValues ==
  /\ LaneWaiting = [j \in Jobs |-> LaneWaiting[j]]
  /\ LaneRunning = [j \in Jobs |-> LaneRunning[j]]
  /\ \A j \in Jobs : activeJobs[j] = NoChannel => LaneWaiting[j] = <<>> /\ LaneRunning[j] = None
  /\ \A j \in Jobs : \A c \in Channels : activeJobs[j] = c =>
       /\ LaneWaiting[j] = IdSeq(queue[c])
       /\ Serves(c) => LaneRunning[j] = held[c].id
       /\ ~Serves(c) => LaneRunning[j] = None

LEMMA IdSeqFacts ==
  ASSUME NEW s \in Seq(Entries)
  PROVE  /\ IdSeq(s) \in Seq(Messages)
         /\ s = <<>> <=> IdSeq(s) = <<>>
         /\ \A e \in Entries : IdSeq(Append(s, e)) = Append(IdSeq(s), e.id)
         /\ s # <<>> => Head(s) \in Entries /\ Head(s).id = Head(IdSeq(s)) /\ IdSeq(Tail(s)) = Tail(IdSeq(s))
<1> DEFINE q == IdSeq(s)
<1>1. \A k \in 1 .. Len(s) : s[k] \in Entries /\ s[k].id \in Messages
  BY EntryFields
<1>2. q \in Seq(Messages) /\ Len(q) = Len(s) /\ \A k \in 1 .. Len(s) : q[k] = s[k].id
  BY <1>1 DEF IdSeq
<1>3. s = <<>> <=> IdSeq(s) = <<>>
  BY <1>2
<1>4. ASSUME NEW e \in Entries PROVE IdSeq(Append(s, e)) = Append(IdSeq(s), e.id)
  <2>1. Append(s, e) \in Seq(Entries) /\ Len(Append(s, e)) = Len(s) + 1 /\ e.id \in Messages
    BY EntryFields
  <2>2. \A k \in 1 .. Len(s) + 1 : Append(s, e)[k] = IF k = Len(s) + 1 THEN e ELSE s[k]
    OBVIOUS
  <2> DEFINE l == IdSeq(Append(s, e))
             r == Append(q, e.id)
  <2>3. l \in Seq(Messages) /\ Len(l) = Len(s) + 1
    <3>1. \A k \in 1 .. Len(s) + 1 : Append(s, e)[k].id \in Messages
      BY <1>1, <2>1, <2>2
    <3>2. QED
      BY <2>1, <3>1 DEF IdSeq
  <2>4. r \in Seq(Messages) /\ Len(r) = Len(s) + 1
    BY <1>2, <2>1
  <2>5. \A k \in 1 .. Len(s) + 1 : l[k] = r[k]
    BY <1>2, <2>1, <2>2 DEF IdSeq
  <2> HIDE DEF l, r
  <2>6. l = r
    BY <2>3, <2>4, <2>5
  <2>7. QED
    BY <2>6 DEF l, r
<1>5. ASSUME s # <<>>
      PROVE  Head(s) \in Entries /\ Head(s).id = Head(IdSeq(s)) /\ IdSeq(Tail(s)) = Tail(IdSeq(s))
  <2>1. Head(s) = s[1] /\ 1 \in 1 .. Len(s) /\ Head(q) = q[1] /\ Len(s) >= 1
    BY <1>2, <1>5
  <2>2. /\ Tail(s) \in Seq(Entries) /\ Len(Tail(s)) = Len(s) - 1
        /\ \A k \in 1 .. Len(s) - 1 : Tail(s)[k] = s[k + 1]
    BY <1>5
  <2> DEFINE l == IdSeq(Tail(s))
             r == Tail(q)
  <2>3. l \in Seq(Messages) /\ Len(l) = Len(s) - 1
    <3>1. \A k \in 1 .. Len(s) - 1 : Tail(s)[k].id \in Messages
      BY <1>1, <2>1, <2>2
    <3>2. QED
      BY <2>1, <2>2, <3>1 DEF IdSeq
  <2>4. r \in Seq(Messages) /\ Len(r) = Len(s) - 1 /\ \A k \in 1 .. Len(s) - 1 : r[k] = q[k + 1]
    BY <1>2, <2>1
  <2>5. \A k \in 1 .. Len(s) - 1 : l[k] = r[k]
    BY <1>2, <2>1, <2>2, <2>4 DEF IdSeq
  <2> HIDE DEF l, r
  <2>6. l = r
    BY <2>1, <2>3, <2>4, <2>5
  <2>7. QED
    BY <1>1, <1>2, <2>1, <2>6 DEF l, r
<1>6. QED
  BY <1>2, <1>3, <1>4, <1>5

LEMMA LaneValuesHold == LInv => LaneValues
<1> SUFFICES ASSUME LInv PROVE LaneValues
  OBVIOUS
<1>1. IInv /\ LaneInv
  BY DEF LInv, CInv
<1>2. \A c \in Channels : Serves(c) => activeJobs[owner[c]] = c
  BY <1>1, ServedChannel DEF Registered
<1>3. /\ \A j \in Jobs : \A c \in Channels : activeJobs[j] = c => owner[c] = j
      /\ NoChannel \notin Channels
  BY <1>1, DispatcherAssumption DEF IInv, ChannelInv, Channels, NoChannel
<1>4. LaneWaiting = [j \in Jobs |-> LaneWaiting[j]]
  BY DEF LaneWaiting
<1>5. LaneRunning = [j \in Jobs |-> LaneRunning[j]]
  BY DEF LaneRunning
<1>6. ASSUME NEW j \in Jobs, activeJobs[j] = NoChannel
      PROVE  LaneWaiting[j] = <<>> /\ LaneRunning[j] = None
  <2>1. ~\E c \in Channels : owner[c] = j /\ proc[c] \in {"handle", "finish"}
    BY <1>2, <1>3, <1>6 DEF Serves
  <2>2. QED
    BY <1>6, <2>1 DEF LaneWaiting, LaneRunning
<1>7. ASSUME NEW j \in Jobs, NEW c \in Channels, activeJobs[j] = c
      PROVE  /\ LaneWaiting[j] = IdSeq(queue[c])
             /\ Serves(c) => LaneRunning[j] = held[c].id
             /\ ~Serves(c) => LaneRunning[j] = None
  <2>1. LaneWaiting[j] = IdSeq(queue[c])
    BY <1>3, <1>7 DEF LaneWaiting, IdSeq
  <2>2. \A b \in Channels : owner[b] = j /\ proc[b] \in {"handle", "finish"} => b = c
    BY <1>2, <1>7 DEF Serves
  <2>3. ASSUME Serves(c) PROVE LaneRunning[j] = held[c].id
    <3>1. owner[c] = j /\ proc[c] \in {"handle", "finish"}
      BY <1>3, <1>7, <2>3 DEF Serves
    <3>2. (CHOOSE b \in Channels : owner[b] = j /\ proc[b] \in {"handle", "finish"}) = c
      BY <2>2, <3>1
    <3>3. LaneRunning[j] = Message(c)
      BY <3>1, <3>2 DEF LaneRunning
    <3>4. QED
      BY <3>3 DEF Message
  <2>4. ASSUME ~Serves(c) PROVE LaneRunning[j] = None
    <3>1. ~\E b \in Channels : owner[b] = j /\ proc[b] \in {"handle", "finish"}
      BY <2>2, <2>4 DEF Serves
    <3>2. QED
      BY <3>1 DEF LaneRunning
  <2>5. QED
    BY <2>1, <2>3, <2>4
<1>8. QED
  BY <1>4, <1>5, <1>6, <1>7 DEF LaneValues

LEMMA OneLaneMoves ==
  ASSUME NEW S, NEW f, NEW g, f = [i \in S |-> f[i]], g = [i \in S |-> g[i]],
         NEW j \in S, NEW v, g[j] = v, \A i \in S : i # j => g[i] = f[i]
  PROVE  g = [f EXCEPT ![j] = v]
<1>1. \A i \in S : g[i] = [f EXCEPT ![j] = v][i]
  OBVIOUS
<1>2. [f EXCEPT ![j] = v] = [i \in S |-> [f EXCEPT ![j] = v][i]]
  OBVIOUS
<1>3. QED
  BY <1>1, <1>2


SameLane(i) ==
  /\ activeJobs'[i] = activeJobs[i]
  /\ \A c \in Channels : activeJobs[i] = c =>
       queue'[c] = queue[c] /\ held'[c] = held[c] /\ (Serves(c)' <=> Serves(c))

LEMMA SameLaneStays ==
  ASSUME LaneValues, LaneValues', NEW i \in Jobs, activeJobs[i] \in Channels \cup {NoChannel},
         SameLane(i)
  PROVE  LaneWaiting'[i] = LaneWaiting[i] /\ LaneRunning'[i] = LaneRunning[i]
<1>1. CASE activeJobs[i] = NoChannel
  <2>1. activeJobs'[i] = NoChannel
    BY <1>1 DEF SameLane
  <2>2. QED
    BY <1>1, <2>1 DEF LaneValues
<1>2. ASSUME NEW c \in Channels, activeJobs[i] = c
      PROVE  LaneWaiting'[i] = LaneWaiting[i] /\ LaneRunning'[i] = LaneRunning[i]
  <2>1. /\ activeJobs'[i] = c /\ queue'[c] = queue[c] /\ held'[c] = held[c]
        /\ (Serves(c)' <=> Serves(c))
    BY <1>2 DEF SameLane
  <2>2. /\ LaneWaiting[i] = IdSeq(queue[c]) /\ LaneWaiting'[i] = IdSeq(queue'[c])
        /\ Serves(c) => LaneRunning[i] = held[c].id
        /\ ~Serves(c) => LaneRunning[i] = None
        /\ Serves(c)' => LaneRunning'[i] = held'[c].id
        /\ ~Serves(c)' => LaneRunning'[i] = None
    BY <1>2, <2>1 DEF LaneValues
  <2>3. LaneWaiting'[i] = LaneWaiting[i]
    BY <2>1, <2>2
  <2>4. LaneRunning'[i] = LaneRunning[i]
    BY <2>1, <2>2
  <2>5. QED
    BY <2>3, <2>4
<1>3. QED
  BY <1>1, <1>2

LEMMA LaneSteps ==
  ASSUME LInv, LaneValues, LaneValues', LaneMoves
  PROVE  [Lanes!LanesNext]_(Lanes!laneVars)
<1>i. IInv /\ LaneInv
  BY DEF LInv, CInv
<1>t. /\ activeJobs \in [Jobs -> Channels \cup {NoChannel}] /\ owner \in [Channels -> Jobs \cup {None}]
      /\ queue \in [Channels -> Seq(Entries)] /\ held \in [Channels -> Entries \cup {NoEntry}]
      /\ proc \in [Channels -> ProcStates] /\ NoChannel \notin Channels
  BY <1>i, DispatcherAssumption DEF IInv, TypeOK, ChannelTypeOK, ProcessorTypeOK, Channels, NoChannel
<1>r. \A i \in Jobs : \A c \in Channels : activeJobs[i] = c =>
        /\ c <= made /\ owner[c] = i
        /\ proc[c] \notin {"unborn", "drain", "dropped", "gone"}
  BY <1>i, <1>t, InvImplied DEF IInv, ChannelInv, NoStrandedMessage
<1>m. \A b \in Channels : b > made => ~(b <= made)
  BY <1>i, DispatcherAssumption DEF IInv, TypeOK, ChannelTypeOK, Channels, NoChannel
<1>f. /\ LaneWaiting = [i \in Jobs |-> LaneWaiting[i]] /\ LaneWaiting' = [i \in Jobs |-> LaneWaiting'[i]]
      /\ LaneRunning = [i \in Jobs |-> LaneRunning[i]] /\ LaneRunning' = [i \in Jobs |-> LaneRunning'[i]]
  BY DEF LaneValues
<1>o. ASSUME NEW i \in Jobs, SameLane(i)
      PROVE  LaneWaiting'[i] = LaneWaiting[i] /\ LaneRunning'[i] = LaneRunning[i]
  BY <1>o, <1>t, SameLaneStays
<1>u. ASSUME \A i \in Jobs : SameLane(i) PROVE UNCHANGED Lanes!laneVars
  <2>1. \A i \in Jobs : LaneWaiting'[i] = LaneWaiting[i] /\ LaneRunning'[i] = LaneRunning[i]
    BY <1>u, <1>o
  <2>2. LaneWaiting' = LaneWaiting
    BY <1>f, <2>1
  <2>3. LaneRunning' = LaneRunning
    BY <1>f, <2>1
  <2>4. QED
    BY <2>2, <2>3 DEF Lanes!laneVars
<1>x. ASSUME NEW j \in Jobs, \A i \in Jobs : i # j => SameLane(i)
      PROVE  /\ LaneWaiting' = [LaneWaiting EXCEPT ![j] = LaneWaiting'[j]]
             /\ LaneRunning' = [LaneRunning EXCEPT ![j] = LaneRunning'[j]]
             /\ LaneRunning'[j] = LaneRunning[j] => LaneRunning' = LaneRunning
             /\ LaneWaiting'[j] = LaneWaiting[j] => LaneWaiting' = LaneWaiting
  <2>1. \A i \in Jobs : i # j => LaneWaiting'[i] = LaneWaiting[i] /\ LaneRunning'[i] = LaneRunning[i]
    BY <1>x, <1>o
  <2>2. LaneWaiting' = [LaneWaiting EXCEPT ![j] = LaneWaiting'[j]]
    BY <1>f, <2>1, OneLaneMoves
  <2>3. LaneRunning' = [LaneRunning EXCEPT ![j] = LaneRunning'[j]]
    BY <1>f, <2>1, OneLaneMoves
  <2>4. ASSUME LaneRunning'[j] = LaneRunning[j] PROVE LaneRunning' = LaneRunning
    <3>1. \A i \in Jobs : LaneRunning'[i] = LaneRunning[i]
      BY <2>1, <2>4
    <3>2. QED
      BY <1>f, <3>1
  <2>5. ASSUME LaneWaiting'[j] = LaneWaiting[j] PROVE LaneWaiting' = LaneWaiting
    <3>1. \A i \in Jobs : LaneWaiting'[i] = LaneWaiting[i]
      BY <2>1, <2>5
    <3>2. QED
      BY <1>f, <3>1
  <2>6. QED
    BY <2>2, <2>3, <2>4, <2>5
<1>1. CASE NothingMoves
  <2>1. \A i \in Jobs : SameLane(i)
    BY <1>1 DEF NothingMoves, SameLane
  <2>2. QED
    BY <1>u, <2>1
<1>2. ASSUME NEW c \in Channels, NEW e \in Entries, Joins(c, e) PROVE Lanes!LanesNext
  <2> DEFINE j == owner[c]
             q == queue[c]
  <2>1. /\ activeJobs' = activeJobs /\ held' = held /\ proc' = proc /\ activeJobs[j] = c
        /\ queue' = [queue EXCEPT ![c] = Append(q, e)]
    BY <1>2 DEF Joins
  <2>2. j \in Jobs
    BY <1>2 DEF Joins
  <2>3. ASSUME NEW i \in Jobs, i # j PROVE SameLane(i)
    <3>1. activeJobs[i] # c
      BY <1>r, <2>3
    <3>2. QED
      BY <1>t, <2>1, <3>1 DEF SameLane, Serves
  <2>4. LaneWaiting[j] = IdSeq(q) /\ LaneWaiting'[j] = IdSeq(Append(q, e))
    <3>1. queue'[c] = Append(q, e) /\ activeJobs'[j] = c
      BY <1>t, <2>1
    <3> HIDE DEF j
    <3>2. QED
      BY <2>1, <2>2, <3>1 DEF LaneValues
  <2>5. LaneRunning'[j] = LaneRunning[j]
    <3>1. held'[c] = held[c] /\ (Serves(c)' <=> Serves(c)) /\ activeJobs'[j] = c
      BY <2>1 DEF Serves
    <3> HIDE DEF j
    <3>2. QED
      BY <2>1, <2>2, <3>1 DEF LaneValues
  <2>6. IdSeq(Append(q, e)) = Append(IdSeq(q), e.id) /\ e.id \in Messages
    BY <1>t, IdSeqFacts, EntryFields
  <2> HIDE DEF j
  <2>7. Lanes!Accept(j, e.id)
    BY <1>x, <2>2, <2>3, <2>4, <2>5, <2>6 DEF Lanes!Accept
  <2>8. QED
    BY <2>2, <2>6, <2>7 DEF Lanes!LanesNext
<1>3. ASSUME NEW c \in Channels, NEW j \in Jobs, NEW e \in Entries, Opens(c, j, e)
      PROVE  Lanes!LanesNext
  <2>1. activeJobs[j] = NoChannel /\ LaneWaiting[j] = <<>> /\ LaneRunning[j] = None
    BY <1>3 DEF Opens, LaneValues
  <2>2. activeJobs'[j] = c /\ queue'[c] = Append(<<>>, e) /\ ~Serves(c)'
    BY <1>3, <1>t DEF Opens, Serves
  <2>3. LaneWaiting'[j] = IdSeq(Append(<<>>, e)) /\ LaneRunning'[j] = None
    BY <2>2 DEF LaneValues
  <2>4. /\ <<>> \in Seq(Entries) /\ IdSeq(<<>>) = <<>> /\ e.id \in Messages
        /\ IdSeq(Append(<<>>, e)) = Append(IdSeq(<<>>), e.id)
    <3> DEFINE s == <<>>
    <3>1. s \in Seq(Entries) /\ s = <<>> /\ e.id \in Messages
      BY EntryFields
    <3> HIDE DEF s
    <3>2. IdSeq(s) = <<>> /\ IdSeq(Append(s, e)) = Append(IdSeq(s), e.id)
      BY <3>1, IdSeqFacts
    <3>3. QED
      BY <3>1, <3>2
  <2>5. ASSUME NEW i \in Jobs, i # j PROVE SameLane(i)
    <3>1. activeJobs[i] # c
      BY <1>3, <1>m, <1>r DEF Opens
    <3>2. activeJobs'[i] = activeJobs[i]
      BY <1>3, <1>t, <2>5 DEF Opens
    <3>3. \A b \in Channels : b # c => queue'[b] = queue[b] /\ held'[b] = held[b] /\ proc'[b] = proc[b]
      BY <1>3, <1>t DEF Opens
    <3>4. QED
      BY <3>1, <3>2, <3>3 DEF SameLane, Serves
  <2>6. Lanes!Accept(j, e.id)
    BY <1>x, <2>1, <2>3, <2>4, <2>5 DEF Lanes!Accept
  <2>7. QED
    BY <2>4, <2>6 DEF Lanes!LanesNext
<1>4. ASSUME NEW c \in Channels, Starts(c) PROVE Lanes!LanesNext
  <2> DEFINE j == owner[c]
             q == queue[c]
  <2>1. j \in Jobs /\ activeJobs[j] = c
    BY <1>i, <1>4, ServedChannel DEF Starts, Registered
  <2>2. /\ activeJobs' = activeJobs /\ ~Serves(c) /\ Serves(c)' /\ q # <<>>
        /\ queue'[c] = Tail(q) /\ held'[c] = Head(q)
    BY <1>4, <1>t DEF Starts, Serves
  <2>3. \A b \in Channels : b # c => queue'[b] = queue[b] /\ held'[b] = held[b] /\ proc'[b] = proc[b]
    BY <1>4, <1>t DEF Starts
  <2>4. ASSUME NEW i \in Jobs, i # j PROVE SameLane(i)
    <3>1. activeJobs[i] # c
      BY <1>r, <2>4
    <3>2. QED
      BY <2>2, <2>3, <3>1 DEF SameLane, Serves
  <2>5. /\ q \in Seq(Entries) /\ IdSeq(q) # <<>>
        /\ Head(q).id = Head(IdSeq(q)) /\ IdSeq(Tail(q)) = Tail(IdSeq(q))
    BY <1>t, <2>2, IdSeqFacts
  <2> HIDE DEF j, q
  <2>6. /\ LaneWaiting[j] = IdSeq(q) /\ LaneRunning[j] = None
        /\ LaneWaiting'[j] = IdSeq(Tail(q)) /\ LaneRunning'[j] = Head(q).id
    <3>1. activeJobs'[j] = c
      BY <2>1, <2>2
    <3>2. QED
      BY <2>1, <2>2, <3>1 DEF LaneValues, q
  <2>7. Lanes!Run(j)
    BY <1>x, <2>1, <2>4, <2>5, <2>6 DEF Lanes!Run
  <2>8. QED
    BY <2>1, <2>7 DEF Lanes!LanesNext
<1>5. ASSUME NEW c \in Channels, Ends(c) PROVE Lanes!LanesNext
  <2> DEFINE j == owner[c]
  <2>1. j \in Jobs /\ activeJobs[j] = c
    BY <1>i, <1>5, ServedChannel DEF Ends, Serves, Registered
  <2>2. activeJobs' = activeJobs /\ Serves(c) /\ ~Serves(c)' /\ queue' = queue
    BY <1>5, <1>t DEF Ends, Serves
  <2>3. \A b \in Channels : b # c => held'[b] = held[b] /\ proc'[b] = proc[b]
    BY <1>5, <1>t DEF Ends
  <2>4. ASSUME NEW i \in Jobs, i # j PROVE SameLane(i)
    <3>1. activeJobs[i] # c
      BY <1>r, <2>4
    <3>2. QED
      BY <2>2, <2>3, <3>1 DEF SameLane, Serves
  <2>5. held[c].id # None
    <3>1. held[c] \in Entries
      BY <1>i, <1>5 DEF IInv, ProcessorInv, Ends
    <3>2. QED
      BY <3>1, EntryFields, NoneAssumption
  <2> HIDE DEF j
  <2>6. /\ LaneRunning[j] = held[c].id /\ LaneRunning'[j] = None
        /\ LaneWaiting[j] = IdSeq(queue[c]) /\ LaneWaiting'[j] = IdSeq(queue[c])
    <3>1. activeJobs'[j] = c
      BY <2>1, <2>2
    <3>2. QED
      BY <2>1, <2>2, <3>1 DEF LaneValues
  <2>7. Lanes!Finish(j)
    BY <1>x, <2>1, <2>4, <2>5, <2>6 DEF Lanes!Finish
  <2>8. QED
    BY <2>1, <2>7 DEF Lanes!LanesNext
<1>6. ASSUME NEW c \in Channels, Closes(c) PROVE Lanes!LanesNext \/ UNCHANGED Lanes!laneVars
  <2> DEFINE j == owner[c]
  <2>1. j \in Jobs /\ activeJobs[j] = c /\ activeJobs'[j] = NoChannel /\ ~Serves(c)
    BY <1>6, <1>t DEF Closes
  <2>2. queue' = queue /\ held' = held /\ \A b \in Channels : Serves(b)' <=> Serves(b)
    BY <1>6 DEF Closes
  <2>3. ASSUME NEW i \in Jobs, i # j PROVE SameLane(i)
    <3>1. activeJobs'[i] = activeJobs[i]
      BY <1>6, <1>t, <2>3 DEF Closes
    <3>2. QED
      BY <2>2, <3>1 DEF SameLane
  <2> HIDE DEF j
  <2>4. LaneRunning[j] = None /\ LaneRunning'[j] = None /\ LaneWaiting'[j] = <<>>
    BY <2>1 DEF LaneValues
  <2>5. LaneRunning' = LaneRunning /\ LaneWaiting' = [LaneWaiting EXCEPT ![j] = <<>>]
    BY <1>x, <2>1, <2>3, <2>4
  <2>6. CASE LaneWaiting[j] = <<>>
    <3>1. LaneWaiting' = LaneWaiting
      BY <1>x, <2>1, <2>3, <2>4, <2>6
    <3>2. QED
      BY <2>5, <3>1 DEF Lanes!laneVars
  <2>7. CASE LaneWaiting[j] # <<>>
    <3>1. Lanes!GiveUp(j)
      BY <2>4, <2>5, <2>7 DEF Lanes!GiveUp
    <3>2. QED
      BY <2>1, <3>1 DEF Lanes!LanesNext
  <2>8. QED
    BY <2>6, <2>7
<1>7. ASSUME NEW c \in Channels, Drains(c) PROVE UNCHANGED Lanes!laneVars
  <2>1. ASSUME NEW i \in Jobs PROVE SameLane(i)
    <3>1. activeJobs[i] # c
      BY <1>r, <1>7 DEF Drains, Leaves
    <3>2. QED
      BY <1>7, <3>1 DEF Drains, SameLane, Serves
  <2>2. QED
    BY <1>u, <2>1
<1>8. QED
  BY <1>1, <1>2, <1>3, <1>4, <1>5, <1>6, <1>7 DEF LaneMoves

(* Without stop requests the dispatcher implements JobLanes: per job,      *)
(* messages run one at a time in the order they were accepted, and waiting *)
(* ones are given up only all together and while none runs                 *)
(* (dispatcher.go:21-22, 58-60, 122-150).                                  *)
THEOREM LanesRefinement ==
  ASSUME NoStops
  PROVE  Spec => ImplementsLanes
<1>1. Init => Lanes!LanesInit
  <2> SUFFICES ASSUME Init PROVE Lanes!LanesInit
    OBVIOUS
  <2>1. \A j \in Jobs : activeJobs[j] = NoChannel
    BY DEF Init, DispatcherInit
  <2>2. LaneValues
    BY LanesInitially, LaneValuesHold
  <2>3. LaneWaiting = [j \in Jobs |-> <<>>] /\ LaneRunning = [j \in Jobs |-> None]
    BY <2>1, <2>2 DEF LaneValues
  <2>4. QED
    BY <2>3 DEF Lanes!LanesInit
<1>2. LInv /\ [Next]_vars => LInv'
  BY LanesInductive
<1>3. ASSUME LInv, LaneValues, LaneValues', [Next]_vars
      PROVE  [Lanes!LanesNext]_(Lanes!laneVars)
  <2>1. CInv
    BY <1>3 DEF LInv
  <2>2. LaneMoves
    BY <1>3, <2>1, StepMoves
  <2>3. QED
    BY <1>3, <2>2, LaneSteps
<1>4. QED
  BY <1>1, <1>2, <1>3, LanesInitially, LaneValuesHold, PTL DEF Spec, ImplementsLanes, Lanes!LanesSpec

=============================================================================
