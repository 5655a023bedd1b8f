-------------------------- MODULE TurnJournalProofs --------------------------
(***************************************************************************)
(* DoneIsTold, OneAnswer and InProgressIsRun of the turn journal hold for  *)
(* every set of jobs and messages and any number of failed writes and of   *)
(* lives of the process.                                                   *)
(*                                                                         *)
(* None is inductive by itself.  They rest on what memory and the file     *)
(* have in common (the file is never ahead in what is done and what is     *)
(* left to send, since every write puts all of memory there), on a message *)
(* being in flight once, undone until it is answered, and on a turn that   *)
(* ends having settled the row that names its message.                     *)
(***************************************************************************)
EXTENDS TurnJournal, FiniteSetTheorems, TLAPS

Turns ==
  [pc : TurnSteps, message : Messages \cup {NoMessage}, start : BOOLEAN, notice : Kinds]

InProgress(s, j) == s.rows[j].status = "in_progress"

Unanswered == {"prepare", "row", "unqueue", "cli", "failRow", "stopRow", "commit", "answer"}

AllReplies == received \cup mem.outbox \cup disk.outbox

(* JournalTypeOK with all that it says of turns and of recovery. *)
TypeInv ==
  /\ JournalTypeOK
  /\ turn \in [Jobs -> Turns]
  /\ toRecover \in [rows : SUBSET Jobs, messages : Queues]

(* Lanes, turns and rows hold messages of their job, and a process that is  *)
(* down works on nothing and has a life left.                              *)
ShapeInv ==
  /\ \A j \in Jobs : \A i \in 1 .. Len(lanes[j]) : JobOf[lanes[j][i][1]] = j
  /\ \A s \in {mem, disk} : \A j \in Jobs : InProgress(s, j) =>
       s.rows[j].message \in Messages /\ JobOf[s.rows[j].message] = j
  /\ process = "down" =>
       life < MaxLives /\ \A j \in Jobs : lanes[j] = <<>> /\ turn[j] = NoTurn

(* What RecoverJobs has still to look at is as the file left it. *)
RecoverInv ==
  \A j \in toRecover.rows : lanes[j] = <<>> /\ turn[j] = NoTurn /\ InProgress(mem, j)

(* A message is in flight once, and not done before it is answered. *)
LaneAt(j) ==
  /\ \A i, k \in 1 .. Len(lanes[j]) : i # k => lanes[j][i][1] # lanes[j][k][1]
  /\ \A i \in 1 .. Len(lanes[j]) :
       /\ lanes[j][i][1] \notin mem.done
       /\ turn[j].pc # "none" => lanes[j][i][1] # turn[j].message
  /\ turn[j].pc \in Unanswered => turn[j].message \notin mem.done

LaneInv == \A j \in Jobs : LaneAt(j)

(* What is done is told; so is what a turn is about to finish.  The file is *)
(* behind memory in both.                                                  *)
DoneInv ==
  /\ DoneIsTold
  /\ \A j \in Jobs : turn[j].pc \in {"after", "finish", "ack"} =>
       Told(turn[j].message, mem.outbox \cup received)
  /\ Running => disk.done \subseteq mem.done /\ disk.outbox \subseteq mem.outbox \cup received

(* A row in progress names a message that is not done, and a turn has      *)
(* settled its row before it ends.                                         *)
RowAt(j) ==
  /\ InProgress(mem, j) => mem.rows[j].message \notin mem.done
  /\ turn[j].pc \in {"after", "notice", "finish", "ack"} => ~FailsJob(j, turn[j].message)
  /\ process = "up" /\ j \notin skipped /\ InProgress(mem, j) =>
       j \in toRecover.rows \/ InFlight(mem.rows[j].message)

RowInv ==
  /\ \A j \in Jobs : RowAt(j)
  /\ \A j \in Jobs : InProgress(disk, j) => disk.rows[j].message \notin disk.done

(* Answers of this life and of all; errors of this life. *)
AnswerInv ==
  /\ \A r \in AllReplies : r[3] <= life
  /\ Running => \A m \in Messages :
       /\ <<m, "answer", life>> \in AllReplies => m \in mem.done
       /\ <<m, "error", life>> \in AllReplies =>
            m \in mem.done \/ (turn[JobOf[m]].pc = "finish" /\ turn[JobOf[m]].message = m)
  /\ \A j \in Jobs : turn[j].pc \in {"fail", "notice"} =>
       /\ turn[j].notice # "answer"
       /\ turn[j].notice = "error" => <<turn[j].message, "answer", life>> \notin AllReplies
  /\ \A m \in Messages, n \in 1 .. MaxLives :
       <<m, "answer", n>> \notin AllReplies \/ <<m, "error", n>> \notin AllReplies
  /\ ~setAside => \A r \in AllReplies : r[2] = "answer" =>
       /\ r[1] \in disk.done
       /\ \A q \in AllReplies : q[1] = r[1] /\ q[2] = "answer" => q = r

(* An error after an answer is one of a life that has stored the answer.   *)
Answered(m, n) == <<m, "answer", n>> \in received \cup disk.outbox

LateTurn(j) ==
  turn[j].pc = "after" \/ (turn[j].pc \in {"fail", "notice"} /\ turn[j].notice = "late")

LateInv ==
  ~setAside =>
    /\ \A m \in Messages, n \in 1 .. MaxLives :
         <<m, "late", n>> \in AllReplies => Answered(m, n)
    /\ \A j \in Jobs : LateTurn(j) => Answered(turn[j].message, life)

IInv ==
  /\ TypeInv
  /\ ShapeInv
  /\ RecoverInv
  /\ LaneInv
  /\ DoneInv
  /\ RowInv
  /\ AnswerInv
  /\ LateInv

-----------------------------------------------------------------------------
(* What the operations on the state do to its parts. *)

LEMMA RowOps ==
  ASSUME mem \in States, NEW j \in Jobs
  PROVE  /\ \A r \in Rows :
              LET s == UpdateJobData(j, r) IN
              /\ s \in States /\ s.rows[j] = r /\ s.done = mem.done /\ s.outbox = mem.outbox
              /\ \A i \in Jobs : i # j => s.rows[i] = mem.rows[i]
         /\ LET s == RemoveJob(j) IN
              /\ s \in States /\ s.rows[j] = NoRow /\ s.done = mem.done /\ s.outbox = mem.outbox
              /\ \A i \in Jobs : i # j => s.rows[i] = mem.rows[i]
         /\ LET s == FailJobIfInProgress(j) IN
              /\ s \in States /\ s.rows[j].status = "failed"
              /\ s.done = mem.done /\ s.outbox = mem.outbox
              /\ \A i \in Jobs : i # j => s.rows[i] = mem.rows[i]
<1>1. NoRow \in Rows
  BY DEF NoRow, Rows
<1>2. \A r \in Rows :
        LET s == WithRow(j, r) IN
        /\ s \in States /\ s.rows[j] = r /\ s.done = mem.done /\ s.outbox = mem.outbox
        /\ \A i \in Jobs : i # j => s.rows[i] = mem.rows[i]
  BY DEF States, WithRow
<1>3. LET s == FailJobIfInProgress(j) IN
        /\ s \in States /\ s.rows[j].status = "failed"
        /\ s.done = mem.done /\ s.outbox = mem.outbox
        /\ \A i \in Jobs : i # j => s.rows[i] = mem.rows[i]
  <2> DEFINE r == [mem.rows[j] EXCEPT !.status = "failed"]
  <2>1. r \in Rows /\ r.status = "failed"
    BY DEF States, Rows
  <2>2. FailJobIfInProgress(j) = WithRow(j, r)
    BY DEF FailJobIfInProgress, WithRow, States, Rows
  <2>3. QED
    BY <1>2, <2>1, <2>2, ZenonT(60)
<1>4. QED
  BY <1>1, <1>2, <1>3 DEF UpdateJobData, RemoveJob

LEMMA MessageOps ==
  ASSUME mem \in States, NEW m \in Messages
  PROVE  /\ \A kind \in {"none", "start", "user"} :
              LET s == AddQueuedMessage(m, kind) IN
              s \in States /\ s.rows = mem.rows /\ s.done = mem.done /\ s.outbox = mem.outbox
         /\ LET s == RemoveQueuedMessage(m) IN
              s \in States /\ s.rows = mem.rows /\ s.done = mem.done /\ s.outbox = mem.outbox
         /\ LET s == FinishMessage(m) IN
              /\ s \in States /\ s.rows = mem.rows /\ s.outbox = mem.outbox
              /\ s.done = mem.done \cup {m}
  BY DEF States, Queues, AddQueuedMessage, RemoveQueuedMessage, FinishMessage

LEMMA OutboxOps ==
  ASSUME mem \in States, NEW r \in Replies
  PROVE  /\ LET s == AddOutboxMessage(r) IN
              /\ s \in States /\ s.rows = mem.rows /\ s.done = mem.done
              /\ s.outbox = mem.outbox \cup {r}
         /\ LET s == RemoveOutboxMessage(r) IN
              /\ s \in States /\ s.rows = mem.rows /\ s.done = mem.done
              /\ s.outbox = mem.outbox \ {r}
  BY DEF States, AddOutboxMessage, RemoveOutboxMessage

LEMMA CompletedOps ==
  ASSUME mem \in States, NEW j \in Jobs, NEW m \in Messages, NEW r \in Replies
  PROVE  LET s == Completed(j, m, r) IN
         /\ s \in States /\ s.rows[j].status = "completed"
         /\ \A i \in Jobs : i # j => s.rows[i] = mem.rows[i]
         /\ s.done = mem.done \cup {m} /\ s.outbox = mem.outbox \cup {r}
<1> DEFINE row == [status |-> "completed", message |-> m, session |-> TRUE]
           f == FinishMessage(m)
<1>1. row \in Rows /\ row.status = "completed"
  BY DEF Rows
<1>2. /\ f \in States /\ f.rows = mem.rows /\ f.outbox = mem.outbox
      /\ f.done = mem.done \cup {m}
  BY MessageOps
<1>3. Completed(j, m, r) = [f EXCEPT !.rows[j] = row, !.outbox = @ \cup {r}]
  BY DEF Completed
<1> HIDE DEF row, f
<1> DEFINE g == [f EXCEPT !.rows[j] = row]
<1>4. /\ g \in States /\ g.rows[j] = row /\ g.done = f.done /\ g.outbox = f.outbox
      /\ \A i \in Jobs : i # j => g.rows[i] = f.rows[i]
  BY <1>1, <1>2 DEF States
<1>5. Completed(j, m, r) = [g EXCEPT !.outbox = @ \cup {r}]
  BY <1>2, <1>3 DEF States
<1> HIDE DEF g
<1>6. LET s == [g EXCEPT !.outbox = @ \cup {r}] IN
        /\ s \in States /\ s.rows = g.rows /\ s.done = g.done /\ s.outbox = g.outbox \cup {r}
  BY <1>4 DEF States
<1>7. QED
  BY <1>1, <1>2, <1>4, <1>5, <1>6

(* A write leaves memory changed, and the file as it was or like memory.   *)
LEMMA Persist ==
  \A new : persistStateLocked(new) => mem' = new /\ (disk' = new \/ disk' = disk)
  BY DEF persistStateLocked, WriteWorks, WriteFails


-----------------------------------------------------------------------------
(* The steps by what they do to the parts that the invariants are about.   *)

Saves == disk' = mem' \/ disk' = disk
Same == mem'.rows = mem.rows /\ mem'.done = mem.done /\ mem'.outbox = mem.outbox
ProcessKept == process' = process /\ life' = life /\ setAside' = setAside

(* Anything but the queue of messages, the backend's offers and the will to *)
(* go on.                                                                  *)
Quiet ==
  /\ Same /\ Saves /\ (Running \/ disk' = disk)
  /\ lanes' = lanes /\ turn' = turn /\ received' = received /\ skipped' = skipped
  /\ life' = life /\ setAside' = setAside /\ toRecover'.rows = toRecover.rows
  /\ process' = process \/ (process = "up" /\ process' = "stopping")

Enters(m) ==
  /\ Running /\ toRecover.rows = {}
  /\ m \notin mem.done /\ ~InFlight(m)
  /\ \E kind \in {"start", "user"} : lanes' = [lanes EXCEPT ![JobOf[m]] = Append(@, <<m, kind>>)]
  /\ Same /\ Saves /\ ProcessKept
  /\ turn' = turn /\ received' = received /\ skipped' = skipped
  /\ toRecover'.rows = toRecover.rows

Resumes(j) ==
  /\ Running /\ j \in toRecover.rows /\ toRecover'.rows = toRecover.rows \ {j}
  /\ \E kind \in {"start", "user"} : lanes' = [lanes EXCEPT ![j] = <<<<mem.rows[j].message, kind>>>>]
  /\ mem' = mem /\ disk' = disk /\ ProcessKept
  /\ turn' = turn /\ received' = received /\ skipped' = skipped

GivesUp(j) ==
  /\ Running /\ j \in toRecover.rows /\ toRecover'.rows = toRecover.rows \ {j}
  /\ turn'[j].pc = "notice" /\ turn'[j].notice = "notResumed"
  /\ turn'[j].message = mem.rows[j].message
  /\ mem'.rows[j] = NoRow
  /\ \A i \in Jobs : i # j => turn'[i] = turn[i] /\ mem'.rows[i] = mem.rows[i]
  /\ mem'.done = mem.done /\ mem'.outbox = mem.outbox /\ Saves /\ ProcessKept
  /\ lanes' = lanes /\ received' = received /\ skipped' = skipped

Skips(j) ==
  /\ Running /\ j \in toRecover.rows /\ toRecover'.rows = toRecover.rows \ {j}
  /\ skipped' = skipped \cup {j}
  /\ mem' = mem /\ disk' = disk /\ ProcessKept
  /\ lanes' = lanes /\ turn' = turn /\ received' = received

Begins(j) ==
  /\ Running /\ turn[j].pc = "none" /\ lanes[j] # <<>>
  /\ lanes' = [lanes EXCEPT ![j] = Tail(@)]
  /\ \/ turn' = turn /\ mem.rows[j] = NoRow
     \/ /\ turn'[j].pc = "prepare" /\ turn'[j].message = Head(lanes[j])[1]
        /\ \A i \in Jobs : i # j => turn'[i] = turn[i]
  /\ mem' = mem /\ disk' = disk /\ ProcessKept
  /\ received' = received /\ skipped' = skipped /\ toRecover' = toRecover

(* A step of a turn. *)
WorksOn(j) ==
  /\ Running /\ turn[j].pc # "none"
  /\ \A i \in Jobs : i # j => turn'[i] = turn[i] /\ mem'.rows[i] = mem.rows[i]
  /\ Saves /\ ProcessKept
  /\ lanes' = lanes /\ received' = received /\ skipped' = skipped /\ toRecover' = toRecover

Advances(j) ==
  /\ WorksOn(j) /\ Same /\ turn'[j].message = turn[j].message
  /\ \/ turn[j].pc \in Unanswered /\ turn'[j].pc \in Unanswered
     \/ turn[j].pc \in Unanswered /\ turn'[j].pc = "fail" /\ turn'[j].notice = "error"
     \/ turn[j].pc = "after" /\ turn'[j].pc = "finish"
     \/ turn[j].pc = "after" /\ turn'[j].pc = "fail" /\ turn'[j].notice = "late"

SetsRow(j) ==
  /\ WorksOn(j) /\ turn[j].pc \in Unanswered /\ turn'[j].message = turn[j].message
  /\ mem'.done = mem.done /\ mem'.outbox = mem.outbox
  /\ InProgress(mem', j) => mem'.rows[j].message = turn[j].message
  /\ \/ turn'[j].pc = "unqueue"
     \/ turn'[j].pc = "fail" /\ turn'[j].notice = "error"
     \/ turn'[j].pc = "notice" /\ turn'[j].notice = "stopped" /\ ~InProgress(mem', j)

Stops(j) ==
  /\ WorksOn(j) /\ turn[j].pc = "fail" /\ process = "stopping"
  /\ turn'[j].pc = "none" /\ turn'[j] = NoTurn /\ mem' = mem

Fails(j) ==
  /\ WorksOn(j) /\ turn[j].pc = "fail"
  /\ turn'[j].pc = "notice" /\ turn'[j].message = turn[j].message
  /\ turn'[j].notice = turn[j].notice
  /\ mem'.done = mem.done /\ mem'.outbox = mem.outbox
  /\ InProgress(mem', j) => mem'.rows[j] = mem.rows[j] /\ ~FailsJob(j, turn[j].message)

Answers(j) ==
  /\ WorksOn(j) /\ turn[j].pc = "answer"
  /\ turn'[j].pc = "after" /\ turn'[j].message = turn[j].message
  /\ disk' = mem' /\ ~InProgress(mem', j)
  /\ mem'.done = mem.done \cup {turn[j].message}
  /\ mem'.outbox = mem.outbox \cup {<<turn[j].message, "answer", life>>}

Notices(j) ==
  /\ WorksOn(j) /\ turn[j].pc = "notice"
  /\ turn'[j].pc = "finish" /\ turn'[j].message = turn[j].message
  /\ mem'.rows[j] = mem.rows[j] /\ mem'.done = mem.done
  /\ mem'.outbox = mem.outbox \cup {<<turn[j].message, turn[j].notice, life>>}

Finishes(j) ==
  /\ WorksOn(j) /\ turn[j].pc = "finish"
  /\ turn'[j].pc = "ack" /\ turn'[j].message = turn[j].message
  /\ mem'.rows[j] = mem.rows[j] /\ mem'.done = mem.done \cup {turn[j].message}
  /\ mem'.outbox = mem.outbox

Acks(j) ==
  /\ WorksOn(j) /\ turn[j].pc = "ack" /\ turn'[j] = NoTurn /\ mem' = mem /\ disk' = disk

Delivers(r) ==
  /\ Running /\ r \in mem.outbox /\ received' = received \cup {r}
  /\ mem'.rows = mem.rows /\ mem'.done = mem.done /\ mem'.outbox = mem.outbox \ {r}
  /\ Saves /\ ProcessKept
  /\ lanes' = lanes /\ turn' = turn /\ skipped' = skipped /\ toRecover' = toRecover

Exits ==
  /\ process' = "down" /\ life < MaxLives /\ mem' = NewAppState /\ toRecover'.rows = {}
  /\ lanes' = [j \in Jobs |-> <<>>] /\ turn' = [j \in Jobs |-> NoTurn]
  /\ disk' = disk /\ received' = received /\ skipped' = skipped
  /\ life' = life /\ setAside' = setAside

Restores ==
  /\ process = "down" /\ process' = "up" /\ life' = life + 1
  /\ \/ mem' = disk /\ disk' = disk /\ setAside' = setAside
     \/ mem' = NewAppState /\ disk' = NewAppState /\ setAside' = TRUE
  /\ toRecover'.rows = {j \in Jobs : InProgress(mem', j)}
  /\ lanes' = lanes /\ turn' = turn /\ received' = received /\ skipped' = skipped

Moved ==
  \/ Quiet
  \/ \E m \in Messages : Enters(m)
  \/ \E j \in Jobs :
       \/ Resumes(j) \/ GivesUp(j) \/ Skips(j) \/ Begins(j) \/ Advances(j) \/ SetsRow(j)
       \/ Stops(j) \/ Fails(j) \/ Answers(j) \/ Notices(j) \/ Finishes(j) \/ Acks(j)
  \/ \E r \in Replies : Delivers(r)
  \/ Exits
  \/ Restores

USE DEF stateVars, processVars, workVars, outsideVars

LEMMA StepMoves ==
  ASSUME IInv, [JournalNext]_journalVars
  PROVE  Moved
<1>t. /\ mem \in States /\ disk \in States /\ turn \in [Jobs -> Turns]
      /\ toRecover \in [rows : SUBSET Jobs, messages : Queues]
      /\ lanes \in [Jobs -> Seq(Deliveries)] /\ life \in 1 .. MaxLives
  BY DEF IInv, TypeInv, JournalTypeOK
<1>m. \A j \in Jobs : turn[j].pc # "none" => Msg(j) \in Messages /\ JobOf[Msg(j)] = j
  BY DEF IInv, TypeInv, JournalTypeOK, Msg
<1>g. \A j \in Jobs, pc \in TurnSteps : Goto(j, pc) =>
        /\ turn'[j].pc = pc /\ turn'[j].message = turn[j].message /\ turn'[j].notice = turn[j].notice
        /\ \A i \in Jobs : i # j => turn'[i] = turn[i]
  BY <1>t DEF Goto, Turns
<1>f. \A j \in Jobs : Fail(j) =>
        /\ turn'[j].pc = "fail" /\ turn'[j].message = turn[j].message /\ turn'[j].notice = "error"
        /\ \A i \in Jobs : i # j => turn'[i] = turn[i]
  BY <1>t DEF Fail, Turns
<1>e. \A j \in Jobs : EndTurn(j) => turn'[j] = NoTurn /\ \A i \in Jobs : i # j => turn'[i] = turn[i]
  BY <1>t DEF EndTurn
<1>s. \A s \in {"prepare", "row", "unqueue", "cli", "failRow", "stopRow", "commit", "answer",
                 "after", "fail", "notice", "finish", "ack"} : s \in TurnSteps /\ s # "none"
  BY DEF TurnSteps
<1>d. \A m \in Messages, kind \in {"start", "user"} : Dispatch(m, kind) =>
        \/ lanes' = lanes
        \/ /\ m \notin mem.done /\ ~InFlight(m)
           /\ \E k \in {"start", "user"} : lanes' = [lanes EXCEPT ![JobOf[m]] = Append(@, <<m, k>>)]
  BY DEF Dispatch
<1>q. \A m \in Messages, kind \in {"start", "user"} : PersistQueuedMessage(m, kind) => Same /\ Saves
  BY <1>t, MessageOps, Persist DEF PersistQueuedMessage, Same, Saves
<1>1. ASSUME NEW m \in Messages, SendMessage(m) PROVE Moved
  <2>1. CASE UNCHANGED <<stateVars, lanes>>
    BY <1>1, <2>1 DEF SendMessage, Moved, Quiet, Running, Same, Saves
  <2> DEFINE kind == IF m \in First THEN "start" ELSE "user"
  <2>2. CASE toRecover = NothingToRecover /\ process = "up" /\ PersistQueuedMessage(m, kind) /\ Dispatch(m, kind)
    <3>1. kind \in {"start", "user"} /\ Same /\ Saves
      BY <1>q, <2>2
    <3> HIDE DEF kind
    <3>2. CASE lanes' = lanes
      BY <1>1, <3>1, <3>2 DEF SendMessage, Moved, Quiet, Running
    <3>3. CASE lanes' # lanes
      <4>1. Enters(m)
        BY <1>1, <1>d, <2>2, <3>1, <3>3 DEF SendMessage, Enters, NothingToRecover, Running, ProcessKept
      <4>2. QED
        BY <4>1 DEF Moved
    <3>4. QED
      BY <3>2, <3>3
  <2>3. QED
    BY <1>1, <2>1, <2>2 DEF SendMessage
<1>2. ASSUME NEW m \in Messages, PollMessage(m) PROVE Moved
  <2> DEFINE kind == IF mem.rows[JobOf[m]] = NoRow THEN "start" ELSE "user"
  <2>1. kind \in {"start", "user"} /\ Same /\ Saves /\ Dispatch(m, kind)
    BY <1>2, <1>q DEF PollMessage
  <2> HIDE DEF kind
  <2>2. CASE lanes' = lanes
    BY <1>2, <2>1, <2>2 DEF PollMessage, Moved, Quiet, Running
  <2>3. CASE lanes' # lanes
    <3>1. Enters(m)
      BY <1>2, <1>d, <2>1, <2>3 DEF PollMessage, Enters, NothingToRecover, Running, ProcessKept
    <3>2. QED
      BY <3>1 DEF Moved
  <2>4. QED
    BY <2>2, <2>3
<1>3. ASSUME NEW m \in Messages, AckAgain(m) PROVE Moved
  BY <1>3 DEF AckAgain, Moved, Quiet, Running, Same, Saves
<1>4. ASSUME NEW m \in Messages, Expire(m) PROVE Moved
  BY <1>4 DEF Expire, Moved, Quiet, Running, Same, Saves
<1>5. ASSUME NEW m \in Messages, RecoverMessage(m) PROVE Moved
  <2> DEFINE kind == toRecover.messages[m]
  <2>1. toRecover'.rows = toRecover.rows /\ toRecover.rows = {} /\ kind \in {"start", "user"}
    BY <1>t, <1>5 DEF RecoverMessage, Queues
  <2>2. CASE persistStateLocked(RemoveQueuedMessage(m)) /\ UNCHANGED lanes
    <3>1. Same /\ Saves
      BY <1>t, <2>2, MessageOps, Persist DEF Same, Saves
    <3>2. QED
      BY <1>5, <2>1, <2>2, <3>1 DEF RecoverMessage, Moved, Quiet, Running
  <2>3. CASE UNCHANGED stateVars /\ (UNCHANGED lanes \/ Dispatch(m, kind))
    <3>1. Same /\ Saves
      BY <2>3 DEF Same, Saves
    <3> HIDE DEF kind
    <3>2. CASE lanes' = lanes
      BY <1>5, <2>1, <3>1, <3>2 DEF RecoverMessage, Moved, Quiet, Running
    <3>3. CASE lanes' # lanes
      <4>1. Enters(m)
        BY <1>5, <1>d, <2>1, <2>3, <3>1, <3>3 DEF RecoverMessage, Enters, ProcessKept
      <4>2. QED
        BY <4>1 DEF Moved
    <3>4. QED
      BY <3>2, <3>3
  <2>4. QED
    BY <1>5, <2>2, <2>3 DEF RecoverMessage
<1>6. ASSUME NEW j \in Jobs, BeginTurn(j) PROVE Moved
  <2> DEFINE m == Head(lanes[j])[1]
             start == Head(lanes[j])[2] = "start"
  <2>1. turn[j].pc = "none"
    BY <1>6 DEF BeginTurn, NoTurn
  <2>2. CASE ~start /\ mem.rows[j] = NoRow
    BY <1>6, <2>1, <2>2 DEF BeginTurn, Moved, Begins, ProcessKept
  <2>3. CASE ~(~start /\ mem.rows[j] = NoRow)
    <3>1. turn' = [turn EXCEPT ![j] =
                 [NoTurn EXCEPT !.pc = "prepare", !.message = m,
                                !.start = start \/ ~mem.rows[j].session]]
      BY <1>6, <2>3 DEF BeginTurn
    <3>2. turn'[j].pc = "prepare" /\ turn'[j].message = m /\ \A i \in Jobs : i # j => turn'[i] = turn[i]
      BY <1>t, <3>1 DEF NoTurn
    <3>3. QED
      BY <1>6, <2>1, <3>2 DEF BeginTurn, Moved, Begins, ProcessKept
  <2>4. QED
    BY <2>2, <2>3
<1>7. ASSUME NEW j \in Jobs, Prepare(j) PROVE Moved
  <2>1. CASE UNCHANGED stateVars
    <3>1. Advances(j)
      BY <1>t, <1>s, <1>g, <1>f, <1>7, <2>1
      DEF Prepare, At, Advances, WorksOn, Same, Saves, ProcessKept, Unanswered
    <3>2. QED
      BY <3>1 DEF Moved
  <2>2. CASE Fail(j) /\ persistStateLocked(RemoveJob(j))
    <3> DEFINE s == RemoveJob(j)
    <3>1. /\ s.rows[j] = NoRow /\ s.done = mem.done /\ s.outbox = mem.outbox
          /\ \A i \in Jobs : i # j => s.rows[i] = mem.rows[i]
          /\ mem' = s /\ (disk' = s \/ disk' = disk)
      BY <1>t, <2>2, RowOps, Persist
    <3> HIDE DEF s
    <3>2. SetsRow(j)
      BY <1>t, <1>s, <1>f, <1>7, <2>2, <3>1
      DEF Prepare, At, SetsRow, WorksOn, Saves, ProcessKept, Unanswered, InProgress, NoRow
    <3>3. QED
      BY <3>2 DEF Moved
  <2>3. QED
    BY <1>7, <2>1, <2>2 DEF Prepare
<1>8. ASSUME NEW j \in Jobs, RecordInProgress(j) PROVE Moved
  <2> DEFINE r == [status |-> "in_progress", message |-> Msg(j),
                                  session |-> ~turn[j].start /\ mem.rows[j].session]
             s == UpdateJobData(j, r)
  <2>1. r \in Rows /\ r.message = turn[j].message
    BY <1>t, <1>m, <1>s, <1>8 DEF RecordInProgress, At, Rows, Msg, Turns
  <2>2. /\ s.rows[j] = r /\ s.done = mem.done /\ s.outbox = mem.outbox
        /\ \A i \in Jobs : i # j => s.rows[i] = mem.rows[i]
    BY <1>t, <2>1, RowOps
  <2>3. /\ mem' = s /\ turn[j].pc = "row"
        /\ \/ disk' = s /\ Goto(j, "unqueue")
           \/ disk' = disk /\ Fail(j)
    BY <1>8 DEF RecordInProgress, WriteWorks, WriteFails, At
  <2> HIDE DEF s, r
  <2>4. SetsRow(j)
    BY <1>t, <1>s, <1>g, <1>f, <1>8, <2>1, <2>2, <2>3
    DEF RecordInProgress, At, SetsRow, WorksOn, Saves, ProcessKept, Unanswered, InProgress
  <2>5. QED
    BY <2>4 DEF Moved
<1>9. ASSUME NEW j \in Jobs, TakeOffQueue(j) PROVE Moved
  <2>1. Same /\ Saves
    BY <1>t, <1>m, <1>s, <1>9, MessageOps, Persist DEF TakeOffQueue, At, Same, Saves
  <2>2. Advances(j)
    BY <1>t, <1>s, <1>g, <1>9, <2>1
    DEF TakeOffQueue, At, Advances, WorksOn, Same, ProcessKept, Unanswered
  <2>3. QED
    BY <2>2 DEF Moved
<1>10. ASSUME NEW j \in Jobs, RunCLI(j) PROVE Moved
  <2>1. Advances(j)
    BY <1>t, <1>s, <1>g, <1>f, <1>10
    DEF RunCLI, At, Advances, WorksOn, Same, Saves, ProcessKept, Unanswered
  <2>2. QED
    BY <2>1 DEF Moved
<1>11. ASSUME NEW j \in Jobs, RecordFailed(j) PROVE Moved
  <2>1. PICK session \in BOOLEAN :
          persistStateLocked(UpdateJobData(j, [status |-> "failed", message |-> Msg(j), session |-> session]))
    BY <1>11 DEF RecordFailed
  <2> DEFINE r == [status |-> "failed", message |-> Msg(j), session |-> session]
             s == UpdateJobData(j, r)
  <2>2. r \in Rows /\ r.status = "failed"
    BY <1>m, <1>s, <1>11 DEF RecordFailed, At, Rows
  <2>3. /\ s.rows[j] = r /\ s.done = mem.done /\ s.outbox = mem.outbox
        /\ \A i \in Jobs : i # j => s.rows[i] = mem.rows[i]
    BY <1>t, <2>2, RowOps
  <2>4. mem' = s /\ (disk' = s \/ disk' = disk) /\ turn[j].pc = "failRow"
    BY <1>11, <2>1, Persist DEF RecordFailed, At
  <2> HIDE DEF s, r
  <2>5. SetsRow(j)
    BY <1>t, <1>s, <1>f, <1>11, <2>2, <2>3, <2>4
    DEF RecordFailed, At, SetsRow, WorksOn, Saves, ProcessKept, Unanswered, InProgress
  <2>6. QED
    BY <2>5 DEF Moved
<1>12. ASSUME NEW j \in Jobs, finishStoppedTurn(j) PROVE Moved
  <2>1. PICK session \in BOOLEAN :
          LET new == UpdateJobData(j, [status |-> "completed", message |-> Msg(j),
                                       session |-> session])
          IN /\ mem' = new
             /\ \/ WriteWorks(new)
                   /\ turn' = [turn EXCEPT ![j].pc = "notice", ![j].notice = "stopped"]
                \/ WriteFails /\ Fail(j)
    BY <1>12 DEF finishStoppedTurn
  <2> DEFINE r == [status |-> "completed", message |-> Msg(j), session |-> session]
             s == UpdateJobData(j, r)
  <2>2. r \in Rows /\ r.status = "completed"
    BY <1>m, <1>s, <1>12 DEF finishStoppedTurn, At, Rows
  <2>3. /\ s.rows[j] = r /\ s.done = mem.done /\ s.outbox = mem.outbox
        /\ \A i \in Jobs : i # j => s.rows[i] = mem.rows[i]
    BY <1>t, <2>2, RowOps
  <2>4. /\ mem' = s /\ turn[j].pc = "stopRow"
        /\ \/ disk' = s /\ turn' = [turn EXCEPT ![j].pc = "notice", ![j].notice = "stopped"]
           \/ disk' = disk /\ Fail(j)
    BY <1>12, <2>1 DEF finishStoppedTurn, WriteWorks, WriteFails, At
  <2>5. turn' = [turn EXCEPT ![j].pc = "notice", ![j].notice = "stopped"] =>
          /\ turn'[j].pc = "notice" /\ turn'[j].notice = "stopped" /\ turn'[j].message = turn[j].message
          /\ \A i \in Jobs : i # j => turn'[i] = turn[i]
    BY <1>t DEF Turns
  <2> HIDE DEF s, r
  <2>6. SetsRow(j)
    BY <1>t, <1>s, <1>f, <1>12, <2>2, <2>3, <2>4, <2>5
    DEF finishStoppedTurn, At, SetsRow, WorksOn, Saves, ProcessKept, Unanswered, InProgress
  <2>7. QED
    BY <2>6 DEF Moved
<1>13. ASSUME NEW j \in Jobs, AutoCommit(j) PROVE Moved
  <2>1. Advances(j)
    BY <1>t, <1>s, <1>g, <1>f, <1>13
    DEF AutoCommit, At, Advances, WorksOn, Same, Saves, ProcessKept, Unanswered
  <2>2. QED
    BY <2>1 DEF Moved
<1>14. ASSUME NEW j \in Jobs, finishTurnWithReply(j) PROVE Moved
  <2> DEFINE m == Msg(j)
             r == Reply(j, "answer")
             s == Completed(j, m, r)
  <2>1. /\ turn[j].pc = "answer" /\ m \in Messages /\ JobOf[m] = j /\ r \in Replies
        /\ r = <<m, "answer", life>> /\ Running
    BY <1>t, <1>m, <1>s, <1>14 DEF finishTurnWithReply, At, Reply, Replies, Kinds
  <2>2. r \notin disk.outbox
    <3>1. m \notin mem.done
      BY <2>1 DEF IInv, LaneInv, LaneAt, Unanswered, Msg
    <3>2. <<m, "answer", life>> \notin AllReplies
      BY <2>1, <3>1 DEF IInv, AnswerInv
    <3>3. QED
      BY <2>1, <3>2 DEF AllReplies
  <2>3. CASE mem' = s /\ disk' = s
    <3>1. /\ s.rows[j].status = "completed" /\ \A i \in Jobs : i # j => s.rows[i] = mem.rows[i]
          /\ s.done = mem.done \cup {m} /\ s.outbox = mem.outbox \cup {r}
      BY <1>t, <2>1, CompletedOps
    <3> HIDE DEF s
    <3>2. Goto(j, "after")
      BY <1>14, <2>3, <3>1 DEF finishTurnWithReply
    <3>3. Answers(j)
      BY <1>s, <1>g, <1>14, <2>1, <2>3, <3>1, <3>2
      DEF finishTurnWithReply, Answers, WorksOn, Saves, ProcessKept, InProgress, Msg
    <3>4. QED
      BY <3>3 DEF Moved
  <2>4. CASE UNCHANGED <<mem, disk>>
    <3>1. Fail(j)
      BY <1>14, <2>2, <2>4 DEF finishTurnWithReply
    <3>2. Advances(j)
      BY <1>s, <1>f, <1>14, <2>1, <2>4, <3>1
      DEF finishTurnWithReply, Advances, WorksOn, Same, Saves, ProcessKept, Unanswered
    <3>3. QED
      BY <3>2 DEF Moved
  <2>5. QED
    BY <1>14, <2>3, <2>4 DEF finishTurnWithReply, CompleteTurn, WriteWorks, WriteFails
<1>15. ASSUME NEW j \in Jobs, AfterAnswer(j) PROVE Moved
  <2>1. turn' = [turn EXCEPT ![j].pc = "fail", ![j].notice = "late"] =>
          /\ turn'[j].pc = "fail" /\ turn'[j].notice = "late" /\ turn'[j].message = turn[j].message
          /\ \A i \in Jobs : i # j => turn'[i] = turn[i]
    BY <1>t DEF Turns
  <2>2. Advances(j)
    BY <1>t, <1>s, <1>g, <1>15, <2>1
    DEF AfterAnswer, At, Advances, WorksOn, Same, Saves, ProcessKept
  <2>3. QED
    BY <2>2 DEF Moved
<1>16. ASSUME NEW j \in Jobs, failInProgressJob(j) PROVE Moved
  <2>1. CASE process = "stopping" /\ EndTurn(j) /\ UNCHANGED stateVars
    <3>1. mem' = mem /\ disk' = disk /\ turn'[j] = NoTurn
          /\ \A i \in Jobs : i # j => turn'[i] = turn[i]
      BY <1>e, <2>1
    <3>2. Stops(j)
      BY <1>s, <1>16, <2>1, <3>1
      DEF failInProgressJob, At, Stops, WorksOn, Saves, ProcessKept, NoTurn
    <3>3. QED
      BY <3>2 DEF Moved
  <2>2. CASE FailsJob(j, Msg(j)) /\ Goto(j, "notice") /\ persistStateLocked(FailJobIfInProgress(j))
    <3> DEFINE s == FailJobIfInProgress(j)
    <3>1. /\ s.rows[j].status = "failed" /\ s.done = mem.done /\ s.outbox = mem.outbox
          /\ \A i \in Jobs : i # j => s.rows[i] = mem.rows[i]
          /\ mem' = s /\ (disk' = s \/ disk' = disk)
      BY <1>t, <2>2, RowOps, Persist
    <3> HIDE DEF s
    <3>2. Fails(j)
      BY <1>s, <1>g, <1>16, <2>2, <3>1
      DEF failInProgressJob, At, Fails, WorksOn, Saves, ProcessKept, InProgress
    <3>3. QED
      BY <3>2 DEF Moved
  <2>3. CASE ~FailsJob(j, Msg(j)) /\ Goto(j, "notice") /\ UNCHANGED stateVars
    <3>1. Fails(j)
      BY <1>s, <1>g, <1>16, <2>3
      DEF failInProgressJob, At, Fails, WorksOn, Saves, ProcessKept, Msg
    <3>2. QED
      BY <3>1 DEF Moved
  <2>4. QED
    BY <1>16, <2>1, <2>2, <2>3 DEF failInProgressJob
<1>17. ASSUME NEW j \in Jobs, SendNotice(j) PROVE Moved
  <2> DEFINE r == Reply(j, turn[j].notice)
             s == AddOutboxMessage(r)
  <2>1. turn[j].pc = "notice" /\ r \in Replies /\ r = <<turn[j].message, turn[j].notice, life>>
    BY <1>t, <1>m, <1>s, <1>17 DEF SendNotice, At, Reply, Replies, Msg, Turns
  <2>2. /\ s.rows = mem.rows /\ s.done = mem.done /\ s.outbox = mem.outbox \cup {r}
        /\ mem' = s /\ (disk' = s \/ disk' = disk)
    BY <1>t, <1>17, <2>1, OutboxOps, Persist DEF SendNotice
  <2> HIDE DEF s, r
  <2>3. Notices(j)
    BY <1>s, <1>g, <1>17, <2>1, <2>2 DEF SendNotice, At, Notices, WorksOn, Saves, ProcessKept
  <2>4. QED
    BY <2>3 DEF Moved
<1>18. ASSUME NEW j \in Jobs, finishMessage(j) PROVE Moved
  <2> DEFINE s == FinishMessage(Msg(j))
  <2>1. /\ s.rows = mem.rows /\ s.outbox = mem.outbox /\ s.done = mem.done \cup {turn[j].message}
        /\ mem' = s /\ (disk' = s \/ disk' = disk)
    BY <1>t, <1>m, <1>s, <1>18, MessageOps, Persist DEF finishMessage, At, Msg
  <2> HIDE DEF s
  <2>2. Finishes(j)
    BY <1>s, <1>g, <1>18, <2>1 DEF finishMessage, At, Finishes, WorksOn, Saves, ProcessKept
  <2>3. QED
    BY <2>2 DEF Moved
<1>19. ASSUME NEW j \in Jobs, AckMessage(j) PROVE Moved
  <2>1. Acks(j)
    BY <1>s, <1>e, <1>19 DEF AckMessage, At, Acks, WorksOn, Saves, ProcessKept
  <2>2. QED
    BY <2>1 DEF Moved
<1>20. ASSUME NEW j \in Jobs, RecoverRow(j) PROVE Moved
  <2> DEFINE m == mem.rows[j].message
  <2>1. /\ Running /\ j \in toRecover.rows /\ toRecover'.rows = toRecover.rows \ {j}
        /\ lanes[j] = <<>> /\ turn[j] = NoTurn /\ m \in Messages /\ JobOf[m] = j
    BY <1>t, <1>20 DEF RecoverRow, IInv, ShapeInv, RecoverInv
  <2> DEFINE kind == IF mem.rows[j].session THEN "user" ELSE "start"
  <2>2. CASE Dispatch(m, kind) /\ UNCHANGED <<stateVars, turn, skipped>>
    <3>1. m \notin mem.done
      BY <2>1 DEF IInv, RowInv, RowAt, RecoverInv
    <3>2. ~InFlight(m)
      BY <2>1 DEF InFlight, Waiting, NoTurn
    <3>3. \E k \in {"start", "user"} : lanes' = [lanes EXCEPT ![j] = <<<<m, k>>>>]
      <4>1. lanes' = [lanes EXCEPT ![j] = Append(lanes[j], <<m, kind>>)]
        BY <2>1, <2>2, <3>1, <3>2 DEF Dispatch
      <4>2. Append(lanes[j], <<m, kind>>) = <<<<m, kind>>>>
        BY <2>1
      <4>3. QED
        BY <4>1, <4>2
    <3>4. Resumes(j)
      BY <1>20, <2>1, <2>2, <3>3 DEF RecoverRow, Resumes, ProcessKept
    <3>5. QED
      BY <3>4 DEF Moved
  <2>3. CASE /\ persistStateLocked(RemoveJob(j)) /\ UNCHANGED <<lanes, skipped>>
             /\ turn' = [turn EXCEPT ![j] =
                  [NoTurn EXCEPT !.pc = "notice", !.message = m, !.notice = "notResumed"]]
    <3> DEFINE s == RemoveJob(j)
    <3>1. /\ s.rows[j] = NoRow /\ s.done = mem.done /\ s.outbox = mem.outbox
          /\ \A i \in Jobs : i # j => s.rows[i] = mem.rows[i]
          /\ mem' = s /\ (disk' = s \/ disk' = disk)
      BY <1>t, <2>3, RowOps, Persist
    <3>2. /\ turn'[j].pc = "notice" /\ turn'[j].message = m /\ turn'[j].notice = "notResumed"
          /\ \A i \in Jobs : i # j => turn'[i] = turn[i]
      BY <1>t, <2>3 DEF NoTurn
    <3> HIDE DEF s
    <3>3. GivesUp(j)
      BY <1>20, <2>1, <2>3, <3>1, <3>2 DEF RecoverRow, GivesUp, Saves, ProcessKept
    <3>4. QED
      BY <3>3 DEF Moved
  <2>4. CASE skipped' = skipped \cup {j} /\ UNCHANGED <<stateVars, lanes, turn>>
    BY <1>20, <2>1, <2>4 DEF RecoverRow, Moved, Skips, ProcessKept
  <2>5. QED
    BY <1>20, <2>2, <2>3, <2>4 DEF RecoverRow
<1>21. ASSUME NEW r \in mem.outbox, SendReply(r) PROVE Moved
  <2>1. r \in Replies
    BY <1>t DEF States
  <2> DEFINE s == RemoveOutboxMessage(r)
  <2>2. /\ s.rows = mem.rows /\ s.done = mem.done /\ s.outbox = mem.outbox \ {r}
        /\ mem' = s /\ (disk' = s \/ disk' = disk)
    BY <1>t, <1>21, <2>1, OutboxOps, Persist DEF SendReply
  <2> HIDE DEF s
  <2>3. Delivers(r)
    BY <1>21, <2>2 DEF SendReply, Delivers, Saves, ProcessKept
  <2>4. QED
    BY <2>1, <2>3 DEF Moved
<1>22. ASSUME MarkShuttingDown PROVE Moved
  BY <1>22 DEF MarkShuttingDown, Moved, Quiet, Running, Same, Saves
<1>23. ASSUME Exit PROVE Moved
  BY <1>23 DEF Exit, Moved, Exits, NothingToRecover
<1>24. ASSUME RestoreAppState PROVE Moved
  BY <1>24 DEF RestoreAppState, LoadState, Moved, Restores, InProgress
<1>25. CASE UNCHANGED journalVars
  BY <1>25 DEF journalVars, Moved, Quiet, Running, Same, Saves
<1> QED
  BY <1>1, <1>2, <1>3, <1>4, <1>5, <1>6, <1>7, <1>8, <1>9, <1>10, <1>11, <1>12, <1>13,
     <1>14, <1>15, <1>16, <1>17, <1>18, <1>19, <1>20, <1>21, <1>22, <1>23, <1>24, <1>25
  DEF JournalNext, TurnStep


LEMMA RecoverInvStep ==
  ASSUME IInv, Moved
  PROVE  RecoverInv'
<1>t. /\ mem \in States /\ disk \in States /\ turn \in [Jobs -> Turns]
      /\ toRecover.rows \subseteq Jobs
      /\ lanes \in [Jobs -> Seq(Deliveries)] /\ life \in 1 .. MaxLives
      /\ process \in {"up", "stopping", "down"}
      /\ \A j \in Jobs : turn[j].pc # "none" => turn[j].message \in Messages /\ JobOf[turn[j].message] = j
  BY DEF IInv, TypeInv, JournalTypeOK
<1>i. ShapeInv /\ RecoverInv
  BY DEF IInv
<1>1. ASSUME Quiet PROVE RecoverInv'
  BY <1>t, <1>i, <1>1 DEF Quiet, Same, Saves, RecoverInv, InProgress
<1>2. ASSUME NEW m \in Messages, Enters(m) PROVE RecoverInv'
  BY <1>2 DEF Enters, RecoverInv
<1>3. ASSUME NEW j \in Jobs, Resumes(j) PROVE RecoverInv'
  BY <1>t, <1>i, <1>3 DEF Resumes, ProcessKept, Running, RecoverInv, InProgress
<1>4. ASSUME NEW j \in Jobs, GivesUp(j) PROVE RecoverInv'
  BY <1>t, <1>i, <1>4 DEF GivesUp, Saves, ProcessKept, Running, RecoverInv, InProgress
<1>5. ASSUME NEW j \in Jobs, Skips(j) PROVE RecoverInv'
  BY <1>t, <1>i, <1>5 DEF Skips, ProcessKept, Running, RecoverInv, InProgress
<1>6. ASSUME NEW j \in Jobs, Begins(j) PROVE RecoverInv'
  BY <1>t, <1>i, <1>6 DEF Begins, RecoverInv, InProgress
<1>7. ASSUME NEW j \in Jobs, Advances(j) PROVE RecoverInv'
  <2>1. j \notin toRecover.rows
    BY <1>i, <1>7 DEF Advances, WorksOn, RecoverInv, NoTurn
  <2>2. toRecover' = toRecover /\ lanes' = lanes
        /\ \A i \in Jobs : i # j => turn'[i] = turn[i] /\ mem'.rows[i] = mem.rows[i]
    BY <1>7 DEF Advances, WorksOn
  <2>3. QED
    BY <1>t, <1>i, <2>1, <2>2 DEF RecoverInv, InProgress
<1>8. ASSUME NEW j \in Jobs, SetsRow(j) PROVE RecoverInv'
  <2>1. j \notin toRecover.rows
    BY <1>i, <1>8 DEF SetsRow, WorksOn, RecoverInv, NoTurn
  <2>2. toRecover' = toRecover /\ lanes' = lanes
        /\ \A i \in Jobs : i # j => turn'[i] = turn[i] /\ mem'.rows[i] = mem.rows[i]
    BY <1>8 DEF SetsRow, WorksOn
  <2>3. QED
    BY <1>t, <1>i, <2>1, <2>2 DEF RecoverInv, InProgress
<1>9. ASSUME NEW j \in Jobs, Stops(j) PROVE RecoverInv'
  <2>1. j \notin toRecover.rows
    BY <1>i, <1>9 DEF Stops, WorksOn, RecoverInv, NoTurn
  <2>2. toRecover' = toRecover /\ lanes' = lanes
        /\ \A i \in Jobs : i # j => turn'[i] = turn[i] /\ mem'.rows[i] = mem.rows[i]
    BY <1>9 DEF Stops, WorksOn
  <2>3. QED
    BY <1>t, <1>i, <2>1, <2>2 DEF RecoverInv, InProgress
<1>10. ASSUME NEW j \in Jobs, Fails(j) PROVE RecoverInv'
  <2>1. j \notin toRecover.rows
    BY <1>i, <1>10 DEF Fails, WorksOn, RecoverInv, NoTurn
  <2>2. toRecover' = toRecover /\ lanes' = lanes
        /\ \A i \in Jobs : i # j => turn'[i] = turn[i] /\ mem'.rows[i] = mem.rows[i]
    BY <1>10 DEF Fails, WorksOn
  <2>3. QED
    BY <1>t, <1>i, <2>1, <2>2 DEF RecoverInv, InProgress
<1>11. ASSUME NEW j \in Jobs, Answers(j) PROVE RecoverInv'
  <2>1. j \notin toRecover.rows
    BY <1>i, <1>11 DEF Answers, WorksOn, RecoverInv, NoTurn
  <2>2. toRecover' = toRecover /\ lanes' = lanes
        /\ \A i \in Jobs : i # j => turn'[i] = turn[i] /\ mem'.rows[i] = mem.rows[i]
    BY <1>11 DEF Answers, WorksOn
  <2>3. QED
    BY <1>t, <1>i, <2>1, <2>2 DEF RecoverInv, InProgress
<1>12. ASSUME NEW j \in Jobs, Notices(j) PROVE RecoverInv'
  <2>1. j \notin toRecover.rows
    BY <1>i, <1>12 DEF Notices, WorksOn, RecoverInv, NoTurn
  <2>2. toRecover' = toRecover /\ lanes' = lanes
        /\ \A i \in Jobs : i # j => turn'[i] = turn[i] /\ mem'.rows[i] = mem.rows[i]
    BY <1>12 DEF Notices, WorksOn
  <2>3. QED
    BY <1>t, <1>i, <2>1, <2>2 DEF RecoverInv, InProgress
<1>13. ASSUME NEW j \in Jobs, Finishes(j) PROVE RecoverInv'
  <2>1. j \notin toRecover.rows
    BY <1>i, <1>13 DEF Finishes, WorksOn, RecoverInv, NoTurn
  <2>2. toRecover' = toRecover /\ lanes' = lanes
        /\ \A i \in Jobs : i # j => turn'[i] = turn[i] /\ mem'.rows[i] = mem.rows[i]
    BY <1>13 DEF Finishes, WorksOn
  <2>3. QED
    BY <1>t, <1>i, <2>1, <2>2 DEF RecoverInv, InProgress
<1>14. ASSUME NEW j \in Jobs, Acks(j) PROVE RecoverInv'
  <2>1. j \notin toRecover.rows
    BY <1>i, <1>14 DEF Acks, WorksOn, RecoverInv, NoTurn
  <2>2. toRecover' = toRecover /\ lanes' = lanes
        /\ \A i \in Jobs : i # j => turn'[i] = turn[i] /\ mem'.rows[i] = mem.rows[i]
    BY <1>14 DEF Acks, WorksOn
  <2>3. QED
    BY <1>t, <1>i, <2>1, <2>2 DEF RecoverInv, InProgress
<1>15. ASSUME NEW r \in Replies, Delivers(r) PROVE RecoverInv'
  BY <1>t, <1>i, <1>15 DEF Delivers, Saves, ProcessKept, Running, RecoverInv, InProgress
<1>16. ASSUME Exits PROVE RecoverInv'
  BY <1>t, <1>i, <1>16 DEF Exits, NewAppState, NoRow, NoTurn, Running, RecoverInv, InProgress
<1>17. ASSUME Restores PROVE RecoverInv'
  <2>1. \A j \in Jobs : lanes'[j] = <<>> /\ turn'[j] = NoTurn
    BY <1>t, <1>i, <1>17 DEF Restores, ShapeInv
  <2>2. QED
    BY <1>17, <2>1 DEF Restores, RecoverInv
<1> QED
  BY <1>1, <1>2, <1>3, <1>4, <1>5, <1>6, <1>7, <1>8, <1>9, <1>10, <1>11, <1>12, <1>13,
     <1>14, <1>15, <1>16, <1>17
  DEF Moved


LEMMA AppendLane ==
  ASSUME NEW s \in Seq(Deliveries), NEW e \in Deliveries
  PROVE  /\ Len(Append(s, e)) = Len(s) + 1 /\ Len(s) \in Nat
         /\ \A i \in 1 .. Len(s) : Append(s, e)[i] = s[i]
         /\ Append(s, e)[Len(s) + 1] = e
         /\ \A i \in 1 .. Len(Append(s, e)) : i \in 1 .. Len(s) \/ i = Len(s) + 1
  OBVIOUS

LEMMA TailLane ==
  ASSUME NEW s \in Seq(Deliveries), s # <<>>
  PROVE  /\ Head(s) = s[1] /\ Head(s) \in Deliveries
         /\ Len(s) \in Nat /\ Len(s) > 0 /\ Len(Tail(s)) = Len(s) - 1
         /\ \A i \in 1 .. Len(Tail(s)) : Tail(s)[i] = s[i + 1] /\ i + 1 \in 1 .. Len(s)
         /\ \A i \in 1 .. Len(s) : i = 1 \/ i - 1 \in 1 .. Len(Tail(s))
  OBVIOUS

LEMMA ShapeInvStep ==
  ASSUME IInv, Moved
  PROVE  ShapeInv'
<1>t. /\ mem \in States /\ disk \in States /\ turn \in [Jobs -> Turns]
      /\ toRecover.rows \subseteq Jobs
      /\ lanes \in [Jobs -> Seq(Deliveries)] /\ life \in 1 .. MaxLives
      /\ process \in {"up", "stopping", "down"}
      /\ \A j \in Jobs : turn[j].pc # "none" => turn[j].message \in Messages /\ JobOf[turn[j].message] = j
  BY DEF IInv, TypeInv, JournalTypeOK
<1>i. ShapeInv /\ RecoverInv
  BY DEF IInv
<1>1. ASSUME Quiet PROVE ShapeInv'
  BY <1>t, <1>i, <1>1 DEF Quiet, Same, Saves, ShapeInv, InProgress
<1>2. ASSUME NEW m \in Messages, Enters(m) PROVE ShapeInv'
  <2>1. PICK kind \in {"start", "user"} : lanes' = [lanes EXCEPT ![JobOf[m]] = Append(@, <<m, kind>>)]
    BY <1>2 DEF Enters
  <2>2. JobOf[m] \in Jobs /\ <<m, kind>> \in Deliveries
    BY JournalAssumption DEF Deliveries
  <2>3. \A j \in Jobs : \A i \in 1 .. Len(lanes'[j]) : JobOf[lanes'[j][i][1]] = j
    <3>1. TAKE j \in Jobs
    <3>2. CASE j = JobOf[m]
      <4>1. lanes'[j] = Append(lanes[j], <<m, kind>>)
        BY <1>t, <2>1, <2>2, <3>2
      <4>2. QED
        BY <1>t, <1>i, <2>2, <3>2, <4>1, AppendLane DEF ShapeInv
    <3>3. CASE j # JobOf[m]
      BY <1>t, <1>i, <2>1, <3>3 DEF ShapeInv
    <3>4. QED
      BY <3>2, <3>3
  <2>4. QED
    BY <1>t, <1>i, <1>2, <2>3 DEF Enters, Same, Saves, ProcessKept, Running, ShapeInv, InProgress
<1>3. ASSUME NEW j \in Jobs, Resumes(j) PROVE ShapeInv'
  <2>1. PICK kind \in {"start", "user"} : lanes' = [lanes EXCEPT ![j] = <<<<mem.rows[j].message, kind>>>>]
    BY <1>3 DEF Resumes
  <2>2. \A i \in Jobs : \A k \in 1 .. Len(lanes'[i]) : JobOf[lanes'[i][k][1]] = i
    <3>1. TAKE i \in Jobs
    <3>2. CASE i = j
      BY <1>t, <1>i, <1>3, <2>1, <3>2 DEF Resumes, RecoverInv, ShapeInv
    <3>3. CASE i # j
      BY <1>t, <1>i, <2>1, <3>3 DEF ShapeInv
    <3>4. QED
      BY <3>2, <3>3
  <2>3. QED
    BY <1>t, <1>i, <1>3, <2>2 DEF Resumes, ProcessKept, Running, ShapeInv, InProgress
<1>4. ASSUME NEW j \in Jobs, GivesUp(j) PROVE ShapeInv'
  <2>1. \A i \in Jobs : InProgress(mem', i) =>
          mem'.rows[i].message \in Messages /\ JobOf[mem'.rows[i].message] = i
    BY <1>t, <1>i, <1>4 DEF GivesUp, Saves, ProcessKept, ShapeInv, InProgress, NoRow
  <2>2. /\ disk' = mem' \/ disk' = disk
        /\ lanes' = lanes /\ process' = process /\ process # "down"
    BY <1>4 DEF GivesUp, Saves, ProcessKept, Running
  <2>3. QED
    BY <1>i, <2>1, <2>2 DEF ShapeInv, InProgress
<1>5. ASSUME NEW j \in Jobs, Skips(j) PROVE ShapeInv'
  BY <1>t, <1>i, <1>5 DEF Skips, ProcessKept, Running, ShapeInv, InProgress
<1>6. ASSUME NEW j \in Jobs, Begins(j) PROVE ShapeInv'
  <2>1. \A i \in Jobs : \A k \in 1 .. Len(lanes'[i]) : JobOf[lanes'[i][k][1]] = i
    <3>1. TAKE i \in Jobs
    <3>2. CASE i = j
      <4>1. lanes'[j] = Tail(lanes[j]) /\ lanes[j] \in Seq(Deliveries) /\ lanes[j] # <<>>
        BY <1>t, <1>6 DEF Begins
      <4>2. QED
        BY <1>i, <3>2, <4>1, TailLane DEF ShapeInv
    <3>3. CASE i # j
      BY <1>t, <1>i, <1>6, <3>3 DEF Begins, ShapeInv
    <3>4. QED
      BY <3>2, <3>3
  <2>2. QED
    BY <1>t, <1>i, <1>6, <2>1 DEF Begins, ProcessKept, Running, ShapeInv, InProgress
<1>7. ASSUME NEW j \in Jobs, Advances(j) PROVE ShapeInv'
  <2>1. \A i \in Jobs : InProgress(mem', i) =>
          mem'.rows[i].message \in Messages /\ JobOf[mem'.rows[i].message] = i
    BY <1>t, <1>i, <1>7 DEF Advances, WorksOn, Same, Saves, ProcessKept, Unanswered, ShapeInv, InProgress, NoRow
  <2>2. /\ disk' = mem' \/ disk' = disk
        /\ lanes' = lanes /\ process' = process /\ process # "down"
    BY <1>7 DEF Advances, WorksOn, Same, Saves, ProcessKept, Unanswered, Running
  <2>3. QED
    BY <1>i, <2>1, <2>2 DEF ShapeInv, InProgress
<1>8. ASSUME NEW j \in Jobs, SetsRow(j) PROVE ShapeInv'
  <2>1. \A i \in Jobs : InProgress(mem', i) =>
          mem'.rows[i].message \in Messages /\ JobOf[mem'.rows[i].message] = i
    <3>1. \A i \in Jobs : i # j => mem'.rows[i] = mem.rows[i]
      BY <1>8 DEF SetsRow, WorksOn
    <3>2. InProgress(mem', j) => mem'.rows[j].message \in Messages /\ JobOf[mem'.rows[j].message] = j
      BY <1>t, <1>i, <1>8 DEF SetsRow, WorksOn, ShapeInv, InProgress
    <3>3. QED
      BY <1>i, <3>1, <3>2 DEF ShapeInv, InProgress
  <2>2. /\ disk' = mem' \/ disk' = disk
        /\ lanes' = lanes /\ process' = process /\ process # "down"
    BY <1>8 DEF SetsRow, WorksOn, Saves, ProcessKept, Unanswered, Running
  <2>3. QED
    BY <1>i, <2>1, <2>2 DEF ShapeInv, InProgress
<1>9. ASSUME NEW j \in Jobs, Stops(j) PROVE ShapeInv'
  <2>1. \A i \in Jobs : InProgress(mem', i) =>
          mem'.rows[i].message \in Messages /\ JobOf[mem'.rows[i].message] = i
    BY <1>t, <1>i, <1>9 DEF Stops, WorksOn, Saves, ProcessKept, NoTurn, ShapeInv, InProgress, NoRow
  <2>2. /\ disk' = mem' \/ disk' = disk
        /\ lanes' = lanes /\ process' = process /\ process # "down"
    BY <1>9 DEF Stops, WorksOn, Saves, ProcessKept, NoTurn, Running
  <2>3. QED
    BY <1>i, <2>1, <2>2 DEF ShapeInv, InProgress
<1>10. ASSUME NEW j \in Jobs, Fails(j) PROVE ShapeInv'
  <2>1. \A i \in Jobs : InProgress(mem', i) =>
          mem'.rows[i].message \in Messages /\ JobOf[mem'.rows[i].message] = i
    <3>1. \A i \in Jobs : i # j => mem'.rows[i] = mem.rows[i]
      BY <1>10 DEF Fails, WorksOn
    <3>2. InProgress(mem', j) => mem'.rows[j].message \in Messages /\ JobOf[mem'.rows[j].message] = j
      BY <1>t, <1>i, <1>10 DEF Fails, WorksOn, ShapeInv, InProgress
    <3>3. QED
      BY <1>i, <3>1, <3>2 DEF ShapeInv, InProgress
  <2>2. /\ disk' = mem' \/ disk' = disk
        /\ lanes' = lanes /\ process' = process /\ process # "down"
    BY <1>10 DEF Fails, WorksOn, Saves, ProcessKept, Running
  <2>3. QED
    BY <1>i, <2>1, <2>2 DEF ShapeInv, InProgress
<1>11. ASSUME NEW j \in Jobs, Answers(j) PROVE ShapeInv'
  <2>1. \A i \in Jobs : InProgress(mem', i) =>
          mem'.rows[i].message \in Messages /\ JobOf[mem'.rows[i].message] = i
    BY <1>t, <1>i, <1>11, SMTT(30) DEF Answers, WorksOn, Saves, ProcessKept, ShapeInv, InProgress, NoRow
  <2>2. /\ disk' = mem' \/ disk' = disk
        /\ lanes' = lanes /\ process' = process /\ process # "down"
    BY <1>11 DEF Answers, WorksOn, Saves, ProcessKept, Running
  <2>3. QED
    BY <1>i, <2>1, <2>2 DEF ShapeInv, InProgress
<1>12. ASSUME NEW j \in Jobs, Notices(j) PROVE ShapeInv'
  <2>1. \A i \in Jobs : InProgress(mem', i) =>
          mem'.rows[i].message \in Messages /\ JobOf[mem'.rows[i].message] = i
    BY <1>t, <1>i, <1>12 DEF Notices, WorksOn, Saves, ProcessKept, ShapeInv, InProgress, NoRow
  <2>2. /\ disk' = mem' \/ disk' = disk
        /\ lanes' = lanes /\ process' = process /\ process # "down"
    BY <1>12 DEF Notices, WorksOn, Saves, ProcessKept, Running
  <2>3. QED
    BY <1>i, <2>1, <2>2 DEF ShapeInv, InProgress
<1>13. ASSUME NEW j \in Jobs, Finishes(j) PROVE ShapeInv'
  <2>1. \A i \in Jobs : InProgress(mem', i) =>
          mem'.rows[i].message \in Messages /\ JobOf[mem'.rows[i].message] = i
    BY <1>t, <1>i, <1>13 DEF Finishes, WorksOn, Saves, ProcessKept, ShapeInv, InProgress, NoRow
  <2>2. /\ disk' = mem' \/ disk' = disk
        /\ lanes' = lanes /\ process' = process /\ process # "down"
    BY <1>13 DEF Finishes, WorksOn, Saves, ProcessKept, Running
  <2>3. QED
    BY <1>i, <2>1, <2>2 DEF ShapeInv, InProgress
<1>14. ASSUME NEW j \in Jobs, Acks(j) PROVE ShapeInv'
  <2>1. \A i \in Jobs : InProgress(mem', i) =>
          mem'.rows[i].message \in Messages /\ JobOf[mem'.rows[i].message] = i
    BY <1>t, <1>i, <1>14 DEF Acks, WorksOn, Saves, ProcessKept, NoTurn, ShapeInv, InProgress, NoRow
  <2>2. /\ disk' = mem' \/ disk' = disk
        /\ lanes' = lanes /\ process' = process /\ process # "down"
    BY <1>14 DEF Acks, WorksOn, Saves, ProcessKept, NoTurn, Running
  <2>3. QED
    BY <1>i, <2>1, <2>2 DEF ShapeInv, InProgress
<1>15. ASSUME NEW r \in Replies, Delivers(r) PROVE ShapeInv'
  BY <1>t, <1>i, <1>15 DEF Delivers, Saves, ProcessKept, Running, ShapeInv, InProgress
<1>16. ASSUME Exits PROVE ShapeInv'
  BY <1>t, <1>i, <1>16 DEF Exits, NewAppState, NoRow, NoTurn, Running, ShapeInv, InProgress
<1>17. ASSUME Restores PROVE ShapeInv'
  BY <1>t, <1>i, <1>17 DEF Restores, NewAppState, NoRow, NoTurn, Running, ShapeInv, InProgress
<1> QED
  BY <1>1, <1>2, <1>3, <1>4, <1>5, <1>6, <1>7, <1>8, <1>9, <1>10, <1>11, <1>12, <1>13,
     <1>14, <1>15, <1>16, <1>17
  DEF Moved


LEMMA LaneInvStep ==
  ASSUME IInv, Moved
  PROVE  LaneInv'
<1>t. /\ mem \in States /\ disk \in States /\ turn \in [Jobs -> Turns]
      /\ toRecover.rows \subseteq Jobs
      /\ lanes \in [Jobs -> Seq(Deliveries)] /\ life \in 1 .. MaxLives
      /\ process \in {"up", "stopping", "down"}
      /\ \A j \in Jobs : turn[j].pc # "none" => turn[j].message \in Messages /\ JobOf[turn[j].message] = j
  BY DEF IInv, TypeInv, JournalTypeOK
<1>i. ShapeInv /\ RecoverInv /\ LaneInv /\ RowInv
  BY DEF IInv
<1>1. ASSUME Quiet PROVE LaneInv'
  BY <1>t, <1>i, <1>1 DEF Quiet, Same, Saves, LaneInv, LaneAt, Unanswered
<1>2. ASSUME NEW m \in Messages, Enters(m) PROVE LaneInv'
  <2> DEFINE l == JobOf[m]
  <2>1. PICK kind \in {"start", "user"} : lanes' = [lanes EXCEPT ![l] = Append(@, <<m, kind>>)]
    BY <1>2 DEF Enters
  <2>2. l \in Jobs /\ <<m, kind>> \in Deliveries
    BY JournalAssumption DEF Deliveries
  <2>3. /\ lanes'[l] = Append(lanes[l], <<m, kind>>) /\ lanes[l] \in Seq(Deliveries)
        /\ \A j \in Jobs : j # l => lanes'[j] = lanes[j]
    BY <1>t, <2>1, <2>2
  <2>4. turn' = turn /\ mem'.done = mem.done /\ m \notin mem.done /\ ~InFlight(m)
    BY <1>2 DEF Enters, Same
  <2>5. (\A i \in 1 .. Len(lanes[l]) : lanes[l][i][1] # m) /\ (turn[l].pc # "none" => turn[l].message # m)
    BY <2>4 DEF InFlight, Waiting
  <2>6. \A j \in Jobs : j # l => LaneAt(j)'
    BY <1>i, <2>3, <2>4 DEF LaneInv, LaneAt
  <2>7. LaneAt(l)'
    <3> HIDE DEF l
    <3>1. LaneAt(l)
      BY <1>i, <2>2 DEF LaneInv
    <3>2. /\ Len(lanes'[l]) = Len(lanes[l]) + 1 /\ Len(lanes[l]) \in Nat
          /\ \A i \in 1 .. Len(lanes[l]) : lanes'[l][i] = lanes[l][i]
          /\ lanes'[l][Len(lanes[l]) + 1][1] = m
          /\ \A i \in 1 .. Len(lanes'[l]) : i \in 1 .. Len(lanes[l]) \/ i = Len(lanes[l]) + 1
      BY <2>2, <2>3, AppendLane
    <3>3. QED
      BY <2>4, <2>5, <3>1, <3>2 DEF LaneAt
  <2>8. QED
    BY <2>2, <2>6, <2>7 DEF LaneInv
<1>3. ASSUME NEW j \in Jobs, Resumes(j) PROVE LaneInv'
  <2>1. PICK kind \in {"start", "user"} : lanes' = [lanes EXCEPT ![j] = <<<<mem.rows[j].message, kind>>>>]
    BY <1>3 DEF Resumes
  <2>2. lanes'[j] = <<<<mem.rows[j].message, kind>>>> /\ \A i \in Jobs : i # j => lanes'[i] = lanes[i]
    BY <1>t, <2>1
  <2>3. turn' = turn /\ mem' = mem /\ turn[j] = NoTurn /\ mem.rows[j].message \notin mem.done
    BY <1>i, <1>3 DEF Resumes, RecoverInv, RowInv, RowAt
  <2>4. Len(lanes'[j]) = 1 /\ lanes'[j][1][1] = mem.rows[j].message
    BY <2>2
  <2>5. LaneAt(j)'
    BY <2>3, <2>4 DEF LaneAt, NoTurn, Unanswered
  <2>6. \A i \in Jobs : i # j => LaneAt(i)'
    BY <1>i, <2>2, <2>3 DEF LaneInv, LaneAt
  <2>7. QED
    BY <2>5, <2>6 DEF LaneInv
<1>4. ASSUME NEW j \in Jobs, GivesUp(j) PROVE LaneInv'
  <2>1. lanes[j] = <<>> /\ lanes' = lanes /\ mem'.done = mem.done /\ turn'[j].pc = "notice"
        /\ \A i \in Jobs : i # j => turn'[i] = turn[i]
    BY <1>i, <1>4 DEF GivesUp, RecoverInv
  <2>2. QED
    BY <1>i, <2>1 DEF LaneInv, LaneAt, Unanswered
<1>5. ASSUME NEW j \in Jobs, Skips(j) PROVE LaneInv'
  BY <1>t, <1>i, <1>5 DEF Skips, ProcessKept, Running, LaneInv, LaneAt, Unanswered
<1>6. ASSUME NEW j \in Jobs, Begins(j) PROVE LaneInv'
  <2>1. /\ lanes'[j] = Tail(lanes[j]) /\ lanes[j] \in Seq(Deliveries) /\ lanes[j] # <<>>
        /\ \A i \in Jobs : i # j => lanes'[i] = lanes[i]
    BY <1>t, <1>6 DEF Begins
  <2>2. /\ mem' = mem /\ turn[j].pc = "none" /\ \A i \in Jobs : i # j => turn'[i] = turn[i]
        /\ turn'[j] = turn[j] \/ turn'[j].message = Head(lanes[j])[1]
    BY <1>6 DEF Begins
  <2>3. LaneAt(j)
    BY <1>i DEF LaneInv
  <2>4. /\ Head(lanes[j]) = lanes[j][1] /\ 1 \in 1 .. Len(lanes[j])
        /\ \A i \in 1 .. Len(lanes'[j]) :
             lanes'[j][i] = lanes[j][i + 1] /\ i + 1 \in 1 .. Len(lanes[j]) /\ i \in Nat /\ i + 1 # 1
    BY <2>1, TailLane
  <2>5. LaneAt(j)'
    <3>1. \A i, k \in 1 .. Len(lanes'[j]) : i # k => lanes'[j][i][1] # lanes'[j][k][1]
      <4>1. \A a, b \in 1 .. Len(lanes[j]) : a # b => lanes[j][a][1] # lanes[j][b][1]
        BY <2>3 DEF LaneAt
      <4>2. SUFFICES ASSUME NEW i \in 1 .. Len(lanes'[j]), NEW k \in 1 .. Len(lanes'[j]), i # k
                     PROVE  lanes'[j][i][1] # lanes'[j][k][1]
        OBVIOUS
      <4>3. /\ i + 1 \in 1 .. Len(lanes[j]) /\ k + 1 \in 1 .. Len(lanes[j])
            /\ lanes'[j][i] = lanes[j][i + 1] /\ lanes'[j][k] = lanes[j][k + 1]
        BY <2>4
      <4>4. i + 1 # k + 1
        BY <2>4, <4>2
      <4>5. QED
        BY <4>1, <4>3, <4>4
    <3>2. \A i \in 1 .. Len(lanes'[j]) :
            lanes'[j][i][1] \notin mem.done /\ lanes'[j][i][1] # Head(lanes[j])[1]
      BY <2>3, <2>4 DEF LaneAt
    <3>3. Head(lanes[j])[1] \notin mem.done
      BY <2>3, <2>4 DEF LaneAt
    <3>4. QED
      BY <2>2, <3>1, <3>2, <3>3 DEF LaneAt, Unanswered
  <2>6. \A i \in Jobs : i # j => LaneAt(i)'
    BY <1>i, <2>1, <2>2 DEF LaneInv, LaneAt
  <2>7. QED
    BY <2>5, <2>6 DEF LaneInv
<1>7. ASSUME NEW j \in Jobs, Advances(j) PROVE LaneInv'
  <2>1. lanes' = lanes /\ \A i \in Jobs : i # j => turn'[i] = turn[i]
    BY <1>7 DEF Advances, WorksOn
  <2>2. /\ mem'.done = mem.done \/ mem'.done = mem.done \cup {turn[j].message}
        /\ turn[j].pc # "none"
    BY <1>7 DEF Advances, WorksOn, Same, Unanswered
  <2>3. \A i \in Jobs : i # j =>
          /\ \A k \in 1 .. Len(lanes[i]) : lanes[i][k][1] # turn[j].message
          /\ turn[i].pc # "none" => turn[i].message # turn[j].message
    BY <1>t, <1>i, <2>2 DEF ShapeInv
  <2>4. \A i \in Jobs : i # j => LaneAt(i)'
    BY <1>i, <2>1, <2>2, <2>3 DEF LaneInv, LaneAt, Unanswered
  <2>5. LaneAt(j)'
    BY <1>i, <1>7, <2>1, <2>2 DEF Advances, WorksOn, Same, Unanswered, LaneInv, LaneAt, Unanswered
  <2>6. QED
    BY <2>4, <2>5 DEF LaneInv
<1>8. ASSUME NEW j \in Jobs, SetsRow(j) PROVE LaneInv'
  <2>1. lanes' = lanes /\ \A i \in Jobs : i # j => turn'[i] = turn[i]
    BY <1>8 DEF SetsRow, WorksOn
  <2>2. /\ mem'.done = mem.done \/ mem'.done = mem.done \cup {turn[j].message}
        /\ turn[j].pc # "none"
    BY <1>8 DEF SetsRow, WorksOn, Unanswered
  <2>3. \A i \in Jobs : i # j =>
          /\ \A k \in 1 .. Len(lanes[i]) : lanes[i][k][1] # turn[j].message
          /\ turn[i].pc # "none" => turn[i].message # turn[j].message
    BY <1>t, <1>i, <2>2 DEF ShapeInv
  <2>4. \A i \in Jobs : i # j => LaneAt(i)'
    BY <1>i, <2>1, <2>2, <2>3 DEF LaneInv, LaneAt, Unanswered
  <2>5. LaneAt(j)'
    BY <1>i, <1>8, <2>1, <2>2 DEF SetsRow, WorksOn, Unanswered, LaneInv, LaneAt, Unanswered
  <2>6. QED
    BY <2>4, <2>5 DEF LaneInv
<1>9. ASSUME NEW j \in Jobs, Stops(j) PROVE LaneInv'
  <2>1. lanes' = lanes /\ \A i \in Jobs : i # j => turn'[i] = turn[i]
    BY <1>9 DEF Stops, WorksOn
  <2>2. /\ mem'.done = mem.done \/ mem'.done = mem.done \cup {turn[j].message}
        /\ turn[j].pc # "none"
    BY <1>9 DEF Stops, WorksOn, NoTurn
  <2>3. \A i \in Jobs : i # j =>
          /\ \A k \in 1 .. Len(lanes[i]) : lanes[i][k][1] # turn[j].message
          /\ turn[i].pc # "none" => turn[i].message # turn[j].message
    BY <1>t, <1>i, <2>2 DEF ShapeInv
  <2>4. \A i \in Jobs : i # j => LaneAt(i)'
    BY <1>i, <2>1, <2>2, <2>3 DEF LaneInv, LaneAt, Unanswered
  <2>5. LaneAt(j)'
    BY <1>i, <1>9, <2>1, <2>2 DEF Stops, WorksOn, NoTurn, LaneInv, LaneAt, Unanswered
  <2>6. QED
    BY <2>4, <2>5 DEF LaneInv
<1>10. ASSUME NEW j \in Jobs, Fails(j) PROVE LaneInv'
  <2>1. lanes' = lanes /\ \A i \in Jobs : i # j => turn'[i] = turn[i]
    BY <1>10 DEF Fails, WorksOn
  <2>2. /\ mem'.done = mem.done \/ mem'.done = mem.done \cup {turn[j].message}
        /\ turn[j].pc # "none"
    BY <1>10 DEF Fails, WorksOn
  <2>3. \A i \in Jobs : i # j =>
          /\ \A k \in 1 .. Len(lanes[i]) : lanes[i][k][1] # turn[j].message
          /\ turn[i].pc # "none" => turn[i].message # turn[j].message
    BY <1>t, <1>i, <2>2 DEF ShapeInv
  <2>4. \A i \in Jobs : i # j => LaneAt(i)'
    BY <1>i, <2>1, <2>2, <2>3 DEF LaneInv, LaneAt, Unanswered
  <2>5. LaneAt(j)'
    BY <1>i, <1>10, <2>1, <2>2 DEF Fails, WorksOn, LaneInv, LaneAt, Unanswered
  <2>6. QED
    BY <2>4, <2>5 DEF LaneInv
<1>11. ASSUME NEW j \in Jobs, Answers(j) PROVE LaneInv'
  <2>1. lanes' = lanes /\ \A i \in Jobs : i # j => turn'[i] = turn[i]
    BY <1>11 DEF Answers, WorksOn
  <2>2. /\ mem'.done = mem.done \/ mem'.done = mem.done \cup {turn[j].message}
        /\ turn[j].pc # "none"
    BY <1>11 DEF Answers, WorksOn
  <2>3. \A i \in Jobs : i # j =>
          /\ \A k \in 1 .. Len(lanes[i]) : lanes[i][k][1] # turn[j].message
          /\ turn[i].pc # "none" => turn[i].message # turn[j].message
    BY <1>t, <1>i, <2>2 DEF ShapeInv
  <2>4. \A i \in Jobs : i # j => LaneAt(i)'
    BY <1>i, <2>1, <2>2, <2>3 DEF LaneInv, LaneAt, Unanswered
  <2>5. LaneAt(j)'
    BY <1>i, <1>11, <2>1, <2>2 DEF Answers, WorksOn, LaneInv, LaneAt, Unanswered
  <2>6. QED
    BY <2>4, <2>5 DEF LaneInv
<1>12. ASSUME NEW j \in Jobs, Notices(j) PROVE LaneInv'
  <2>1. lanes' = lanes /\ \A i \in Jobs : i # j => turn'[i] = turn[i]
    BY <1>12 DEF Notices, WorksOn
  <2>2. /\ mem'.done = mem.done \/ mem'.done = mem.done \cup {turn[j].message}
        /\ turn[j].pc # "none"
    BY <1>12 DEF Notices, WorksOn
  <2>3. \A i \in Jobs : i # j =>
          /\ \A k \in 1 .. Len(lanes[i]) : lanes[i][k][1] # turn[j].message
          /\ turn[i].pc # "none" => turn[i].message # turn[j].message
    BY <1>t, <1>i, <2>2 DEF ShapeInv
  <2>4. \A i \in Jobs : i # j => LaneAt(i)'
    BY <1>i, <2>1, <2>2, <2>3 DEF LaneInv, LaneAt, Unanswered
  <2>5. LaneAt(j)'
    BY <1>i, <1>12, <2>1, <2>2 DEF Notices, WorksOn, LaneInv, LaneAt, Unanswered
  <2>6. QED
    BY <2>4, <2>5 DEF LaneInv
<1>13. ASSUME NEW j \in Jobs, Finishes(j) PROVE LaneInv'
  <2>1. lanes' = lanes /\ \A i \in Jobs : i # j => turn'[i] = turn[i]
    BY <1>13 DEF Finishes, WorksOn
  <2>2. /\ mem'.done = mem.done \/ mem'.done = mem.done \cup {turn[j].message}
        /\ turn[j].pc # "none"
    BY <1>13 DEF Finishes, WorksOn
  <2>3. \A i \in Jobs : i # j =>
          /\ \A k \in 1 .. Len(lanes[i]) : lanes[i][k][1] # turn[j].message
          /\ turn[i].pc # "none" => turn[i].message # turn[j].message
    BY <1>t, <1>i, <2>2 DEF ShapeInv
  <2>4. \A i \in Jobs : i # j => LaneAt(i)'
    BY <1>i, <2>1, <2>2, <2>3 DEF LaneInv, LaneAt, Unanswered
  <2>5. LaneAt(j)'
    BY <1>i, <1>13, <2>1, <2>2 DEF Finishes, WorksOn, LaneInv, LaneAt, Unanswered
  <2>6. QED
    BY <2>4, <2>5 DEF LaneInv
<1>14. ASSUME NEW j \in Jobs, Acks(j) PROVE LaneInv'
  <2>1. lanes' = lanes /\ \A i \in Jobs : i # j => turn'[i] = turn[i]
    BY <1>14 DEF Acks, WorksOn
  <2>2. /\ mem'.done = mem.done \/ mem'.done = mem.done \cup {turn[j].message}
        /\ turn[j].pc # "none"
    BY <1>14 DEF Acks, WorksOn, NoTurn
  <2>3. \A i \in Jobs : i # j =>
          /\ \A k \in 1 .. Len(lanes[i]) : lanes[i][k][1] # turn[j].message
          /\ turn[i].pc # "none" => turn[i].message # turn[j].message
    BY <1>t, <1>i, <2>2 DEF ShapeInv
  <2>4. \A i \in Jobs : i # j => LaneAt(i)'
    BY <1>i, <2>1, <2>2, <2>3 DEF LaneInv, LaneAt, Unanswered
  <2>5. LaneAt(j)'
    BY <1>i, <1>14, <2>1, <2>2 DEF Acks, WorksOn, NoTurn, LaneInv, LaneAt, Unanswered
  <2>6. QED
    BY <2>4, <2>5 DEF LaneInv
<1>15. ASSUME NEW r \in Replies, Delivers(r) PROVE LaneInv'
  BY <1>t, <1>i, <1>15 DEF Delivers, Saves, ProcessKept, Running, LaneInv, LaneAt, Unanswered
<1>16. ASSUME Exits PROVE LaneInv'
  BY <1>16 DEF Exits, NewAppState, NoTurn, LaneInv, LaneAt, Unanswered
<1>17. ASSUME Restores PROVE LaneInv'
  <2>1. \A j \in Jobs : lanes'[j] = <<>> /\ turn'[j] = NoTurn
    BY <1>t, <1>i, <1>17 DEF Restores, ShapeInv
  <2>2. QED
    BY <2>1 DEF LaneInv, LaneAt, NoTurn, Unanswered
<1> QED
  BY <1>1, <1>2, <1>3, <1>4, <1>5, <1>6, <1>7, <1>8, <1>9, <1>10, <1>11, <1>12, <1>13,
     <1>14, <1>15, <1>16, <1>17
  DEF Moved


LEMMA ToldMore ==
  \A m, A, B : Told(m, A) /\ A \subseteq B => Told(m, B)
  BY DEF Told

LEMMA SendingTells ==
  \A m, kind, n, A : <<m, kind, n>> \in A => Told(m, A)
  BY DEF Told

(* A step of a running process keeps what is done told if it loses no reply *)
(* and no message becomes done, or a turn ready to say so, without one.    *)
LEMMA DoneMoves ==
  ASSUME DoneInv, Running, Saves,
         received \subseteq received',
         mem.outbox \cup received \subseteq mem'.outbox \cup received',
         mem.done \subseteq mem'.done,
         \A m \in mem'.done : m \in mem.done \/ Told(m, mem'.outbox \cup received'),
         \A j \in Jobs : turn'[j].pc \in {"after", "finish", "ack"} =>
           Told(turn'[j].message, mem'.outbox \cup received')
  PROVE  DoneInv'
<1>1. \A m \in mem'.done : Told(m, mem'.outbox \cup received')
  <2>1. \A m \in mem.done : Told(m, mem.outbox \cup received)
    BY DEF DoneInv, DoneIsTold
  <2>2. QED
    BY <2>1, ToldMore
<1>2. \A m \in disk'.done : Told(m, disk'.outbox \cup received')
  <2>1. CASE disk' = mem'
    BY <1>1, <2>1
  <2>2. CASE disk' = disk
    <3>1. \A m \in disk.done : Told(m, disk.outbox \cup received)
      BY DEF DoneInv, DoneIsTold
    <3>2. disk.outbox \cup received \subseteq disk'.outbox \cup received'
      BY <2>2
    <3>3. QED
      BY <2>2, <3>1, <3>2, ToldMore
  <2>3. QED
    BY <2>1, <2>2 DEF Saves
<1>3. disk'.done \subseteq mem'.done /\ disk'.outbox \subseteq mem'.outbox \cup received'
  BY DEF DoneInv, Saves
<1>4. QED
  BY <1>1, <1>2, <1>3 DEF DoneInv, DoneIsTold

LEMMA DoneInvStep ==
  ASSUME IInv, Moved
  PROVE  DoneInv'
<1>i. ShapeInv /\ DoneInv
  BY DEF IInv
<1>1. ASSUME Quiet PROVE DoneInv'
  <2>1. CASE Running
    <3>1. /\ Saves /\ received' = received /\ turn' = turn
          /\ mem'.outbox = mem.outbox /\ mem'.done = mem.done
      BY <1>1 DEF Quiet, Same
    <3>2. \A i \in Jobs : turn'[i].pc \in {"after", "finish", "ack"} =>
            Told(turn'[i].message, mem'.outbox \cup received')
      BY <1>i, <3>1 DEF DoneInv
    <3>3. QED
      BY <1>i, <2>1, <3>1, <3>2, DoneMoves
  <2>2. CASE ~Running
    BY <1>i, <1>1, <2>2 DEF Quiet, Same, Running, DoneInv, DoneIsTold
  <2>3. QED
    BY <2>1, <2>2
<1>2. ASSUME NEW m \in Messages, Enters(m) PROVE DoneInv'
  <2>1. /\ Running /\ Saves /\ received \subseteq received'
        /\ mem.outbox \cup received \subseteq mem'.outbox \cup received' /\ mem'.done = mem.done
    BY <1>2 DEF Enters, Same, Saves
  <2>2. \A i \in Jobs : turn'[i].pc \in {"after", "finish", "ack"} =>
          turn[i].pc \in {"after", "finish", "ack"} /\ turn'[i].message = turn[i].message
    BY <1>2 DEF Enters, Same, Saves
  <2>3. \A i \in Jobs : turn'[i].pc \in {"after", "finish", "ack"} =>
          Told(turn'[i].message, mem'.outbox \cup received')
    BY <1>i, <2>1, <2>2, ToldMore DEF DoneInv
  <2>4. QED
    BY <1>i, <2>1, <2>3, DoneMoves
<1>3. ASSUME NEW j \in Jobs, Resumes(j) PROVE DoneInv'
  <2>1. /\ Running /\ Saves /\ received \subseteq received'
        /\ mem.outbox \cup received \subseteq mem'.outbox \cup received' /\ mem'.done = mem.done
    BY <1>3 DEF Resumes, Saves
  <2>2. \A i \in Jobs : turn'[i].pc \in {"after", "finish", "ack"} =>
          turn[i].pc \in {"after", "finish", "ack"} /\ turn'[i].message = turn[i].message
    BY <1>3 DEF Resumes
  <2>3. \A i \in Jobs : turn'[i].pc \in {"after", "finish", "ack"} =>
          Told(turn'[i].message, mem'.outbox \cup received')
    BY <1>i, <2>1, <2>2, ToldMore DEF DoneInv
  <2>4. QED
    BY <1>i, <2>1, <2>3, DoneMoves
<1>4. ASSUME NEW j \in Jobs, GivesUp(j) PROVE DoneInv'
  <2>1. /\ Running /\ Saves /\ received \subseteq received'
        /\ mem.outbox \cup received \subseteq mem'.outbox \cup received' /\ mem'.done = mem.done
    BY <1>4 DEF GivesUp, Saves
  <2>2. \A i \in Jobs : turn'[i].pc \in {"after", "finish", "ack"} =>
          turn[i].pc \in {"after", "finish", "ack"} /\ turn'[i].message = turn[i].message
    BY <1>4 DEF GivesUp, Saves
  <2>3. \A i \in Jobs : turn'[i].pc \in {"after", "finish", "ack"} =>
          Told(turn'[i].message, mem'.outbox \cup received')
    BY <1>i, <2>1, <2>2, ToldMore DEF DoneInv
  <2>4. QED
    BY <1>i, <2>1, <2>3, DoneMoves
<1>5. ASSUME NEW j \in Jobs, Skips(j) PROVE DoneInv'
  <2>1. /\ Running /\ Saves /\ received \subseteq received'
        /\ mem.outbox \cup received \subseteq mem'.outbox \cup received' /\ mem'.done = mem.done
    BY <1>5 DEF Skips, Saves
  <2>2. \A i \in Jobs : turn'[i].pc \in {"after", "finish", "ack"} =>
          turn[i].pc \in {"after", "finish", "ack"} /\ turn'[i].message = turn[i].message
    BY <1>5 DEF Skips
  <2>3. \A i \in Jobs : turn'[i].pc \in {"after", "finish", "ack"} =>
          Told(turn'[i].message, mem'.outbox \cup received')
    BY <1>i, <2>1, <2>2, ToldMore DEF DoneInv
  <2>4. QED
    BY <1>i, <2>1, <2>3, DoneMoves
<1>6. ASSUME NEW j \in Jobs, Begins(j) PROVE DoneInv'
  <2>1. /\ Running /\ Saves /\ received \subseteq received'
        /\ mem.outbox \cup received \subseteq mem'.outbox \cup received' /\ mem'.done = mem.done
    BY <1>6 DEF Begins, Saves
  <2>2. \A i \in Jobs : turn'[i].pc \in {"after", "finish", "ack"} =>
          turn[i].pc \in {"after", "finish", "ack"} /\ turn'[i].message = turn[i].message
    BY <1>6 DEF Begins
  <2>3. \A i \in Jobs : turn'[i].pc \in {"after", "finish", "ack"} =>
          Told(turn'[i].message, mem'.outbox \cup received')
    BY <1>i, <2>1, <2>2, ToldMore DEF DoneInv
  <2>4. QED
    BY <1>i, <2>1, <2>3, DoneMoves
<1>7. ASSUME NEW j \in Jobs, Advances(j) PROVE DoneInv'
  <2>1. /\ Running /\ Saves /\ received \subseteq received'
        /\ mem.outbox \cup received \subseteq mem'.outbox \cup received' /\ mem'.done = mem.done
    BY <1>7 DEF Advances, WorksOn, Same, Saves
  <2>2. \A i \in Jobs : turn'[i].pc \in {"after", "finish", "ack"} =>
          turn[i].pc \in {"after", "finish", "ack"} /\ turn'[i].message = turn[i].message
    BY <1>7 DEF Advances, WorksOn, Same, Saves, Unanswered
  <2>3. \A i \in Jobs : turn'[i].pc \in {"after", "finish", "ack"} =>
          Told(turn'[i].message, mem'.outbox \cup received')
    BY <1>i, <2>1, <2>2, ToldMore DEF DoneInv
  <2>4. QED
    BY <1>i, <2>1, <2>3, DoneMoves
<1>8. ASSUME NEW j \in Jobs, SetsRow(j) PROVE DoneInv'
  <2>1. /\ Running /\ Saves /\ received \subseteq received'
        /\ mem.outbox \cup received \subseteq mem'.outbox \cup received' /\ mem'.done = mem.done
    BY <1>8 DEF SetsRow, WorksOn, Saves
  <2>2. \A i \in Jobs : turn'[i].pc \in {"after", "finish", "ack"} =>
          turn[i].pc \in {"after", "finish", "ack"} /\ turn'[i].message = turn[i].message
    BY <1>8 DEF SetsRow, WorksOn, Saves, Unanswered
  <2>3. \A i \in Jobs : turn'[i].pc \in {"after", "finish", "ack"} =>
          Told(turn'[i].message, mem'.outbox \cup received')
    BY <1>i, <2>1, <2>2, ToldMore DEF DoneInv
  <2>4. QED
    BY <1>i, <2>1, <2>3, DoneMoves
<1>9. ASSUME NEW j \in Jobs, Stops(j) PROVE DoneInv'
  <2>1. /\ Running /\ Saves /\ received \subseteq received'
        /\ mem.outbox \cup received \subseteq mem'.outbox \cup received' /\ mem'.done = mem.done
    BY <1>9 DEF Stops, WorksOn, Saves
  <2>2. \A i \in Jobs : turn'[i].pc \in {"after", "finish", "ack"} =>
          turn[i].pc \in {"after", "finish", "ack"} /\ turn'[i].message = turn[i].message
    BY <1>9 DEF Stops, WorksOn, Saves, NoTurn
  <2>3. \A i \in Jobs : turn'[i].pc \in {"after", "finish", "ack"} =>
          Told(turn'[i].message, mem'.outbox \cup received')
    BY <1>i, <2>1, <2>2, ToldMore DEF DoneInv
  <2>4. QED
    BY <1>i, <2>1, <2>3, DoneMoves
<1>10. ASSUME NEW j \in Jobs, Fails(j) PROVE DoneInv'
  <2>1. /\ Running /\ Saves /\ received \subseteq received'
        /\ mem.outbox \cup received \subseteq mem'.outbox \cup received' /\ mem'.done = mem.done
    BY <1>10 DEF Fails, WorksOn, Saves
  <2>2. \A i \in Jobs : turn'[i].pc \in {"after", "finish", "ack"} =>
          turn[i].pc \in {"after", "finish", "ack"} /\ turn'[i].message = turn[i].message
    BY <1>10 DEF Fails, WorksOn, Saves
  <2>3. \A i \in Jobs : turn'[i].pc \in {"after", "finish", "ack"} =>
          Told(turn'[i].message, mem'.outbox \cup received')
    BY <1>i, <2>1, <2>2, ToldMore DEF DoneInv
  <2>4. QED
    BY <1>i, <2>1, <2>3, DoneMoves
<1>11. ASSUME NEW j \in Jobs, Answers(j) PROVE DoneInv'
  <2>1. /\ Running /\ Saves /\ received' = received
        /\ mem.outbox \subseteq mem'.outbox /\ mem.done \subseteq mem'.done
        /\ mem'.done \subseteq mem.done \cup {turn[j].message}
    BY <1>11 DEF Answers, WorksOn
  <2>2. Told(turn[j].message, mem'.outbox \cup received')
    <3>1. <<turn[j].message, "answer", life>> \in mem'.outbox \cup received'
      BY <1>11 DEF Answers
    <3>2. QED
      BY <3>1, SendingTells
  <2>3. /\ turn'[j].message = turn[j].message
        /\ \A i \in Jobs : i # j => turn'[i] = turn[i]
    BY <1>11 DEF Answers, WorksOn
  <2>4. \A i \in Jobs : turn'[i].pc \in {"after", "finish", "ack"} =>
          Told(turn'[i].message, mem'.outbox \cup received')
    BY <1>i, <2>1, <2>2, <2>3, ToldMore DEF DoneInv
  <2>5. QED
    BY <1>i, <2>1, <2>2, <2>4, DoneMoves
<1>12. ASSUME NEW j \in Jobs, Notices(j) PROVE DoneInv'
  <2>1. /\ Running /\ Saves /\ received' = received
        /\ mem.outbox \subseteq mem'.outbox /\ mem.done \subseteq mem'.done
        /\ mem'.done \subseteq mem.done \cup {turn[j].message}
    BY <1>12 DEF Notices, WorksOn
  <2>2. Told(turn[j].message, mem'.outbox \cup received')
    <3>1. <<turn[j].message, turn[j].notice, life>> \in mem'.outbox \cup received'
      BY <1>12 DEF Notices
    <3>2. QED
      BY <3>1, SendingTells
  <2>3. /\ turn'[j].message = turn[j].message
        /\ \A i \in Jobs : i # j => turn'[i] = turn[i]
    BY <1>12 DEF Notices, WorksOn
  <2>4. \A i \in Jobs : turn'[i].pc \in {"after", "finish", "ack"} =>
          Told(turn'[i].message, mem'.outbox \cup received')
    BY <1>i, <2>1, <2>2, <2>3, ToldMore DEF DoneInv
  <2>5. QED
    BY <1>i, <2>1, <2>2, <2>4, DoneMoves
<1>13. ASSUME NEW j \in Jobs, Finishes(j) PROVE DoneInv'
  <2>1. /\ Running /\ Saves /\ received' = received
        /\ mem.outbox \subseteq mem'.outbox /\ mem.done \subseteq mem'.done
        /\ mem'.done \subseteq mem.done \cup {turn[j].message}
    BY <1>13 DEF Finishes, WorksOn
  <2>2. Told(turn[j].message, mem'.outbox \cup received')
    BY <1>i, <1>13, <2>1, ToldMore DEF Finishes, DoneInv
  <2>3. /\ turn'[j].message = turn[j].message
        /\ \A i \in Jobs : i # j => turn'[i] = turn[i]
    BY <1>13 DEF Finishes, WorksOn
  <2>4. \A i \in Jobs : turn'[i].pc \in {"after", "finish", "ack"} =>
          Told(turn'[i].message, mem'.outbox \cup received')
    BY <1>i, <2>1, <2>2, <2>3, ToldMore DEF DoneInv
  <2>5. QED
    BY <1>i, <2>1, <2>2, <2>4, DoneMoves
<1>14. ASSUME NEW j \in Jobs, Acks(j) PROVE DoneInv'
  <2>1. /\ Running /\ Saves /\ received \subseteq received'
        /\ mem.outbox \cup received \subseteq mem'.outbox \cup received' /\ mem'.done = mem.done
    BY <1>14 DEF Acks, WorksOn, Saves
  <2>2. \A i \in Jobs : turn'[i].pc \in {"after", "finish", "ack"} =>
          turn[i].pc \in {"after", "finish", "ack"} /\ turn'[i].message = turn[i].message
    BY <1>14 DEF Acks, WorksOn, Saves, NoTurn
  <2>3. \A i \in Jobs : turn'[i].pc \in {"after", "finish", "ack"} =>
          Told(turn'[i].message, mem'.outbox \cup received')
    BY <1>i, <2>1, <2>2, ToldMore DEF DoneInv
  <2>4. QED
    BY <1>i, <2>1, <2>3, DoneMoves
<1>15. ASSUME NEW r \in Replies, Delivers(r) PROVE DoneInv'
  <2>1. /\ Running /\ Saves /\ received \subseteq received'
        /\ mem.outbox \cup received \subseteq mem'.outbox \cup received' /\ mem'.done = mem.done
    BY <1>15 DEF Delivers, Saves
  <2>2. \A i \in Jobs : turn'[i].pc \in {"after", "finish", "ack"} =>
          turn[i].pc \in {"after", "finish", "ack"} /\ turn'[i].message = turn[i].message
    BY <1>15 DEF Delivers, Saves
  <2>3. \A i \in Jobs : turn'[i].pc \in {"after", "finish", "ack"} =>
          Told(turn'[i].message, mem'.outbox \cup received')
    BY <1>i, <2>1, <2>2, ToldMore DEF DoneInv
  <2>4. QED
    BY <1>i, <2>1, <2>3, DoneMoves
<1>16. ASSUME Exits PROVE DoneInv'
  <2>1. /\ mem'.done = {} /\ disk' = disk /\ received' = received /\ ~Running'
        /\ \A i \in Jobs : turn'[i].pc = "none"
    BY <1>16 DEF Exits, NewAppState, NoTurn, Running
  <2>2. QED
    BY <1>i, <2>1 DEF DoneInv, DoneIsTold
<1>17. ASSUME Restores PROVE DoneInv'
  <2>1. (\A i \in Jobs : turn'[i].pc = "none") /\ received' = received
    BY <1>i, <1>17 DEF Restores, ShapeInv, NoTurn
  <2>2. CASE mem' = disk /\ disk' = disk
    BY <1>i, <2>1, <2>2 DEF DoneInv, DoneIsTold
  <2>3. CASE mem' = NewAppState /\ disk' = NewAppState
    <3>1. mem'.done = {} /\ disk'.done = {} /\ mem'.outbox = {} /\ disk'.outbox = {}
      BY <2>3 DEF NewAppState
    <3>2. QED
      BY <2>1, <3>1 DEF DoneInv, DoneIsTold
  <2>4. QED
    BY <1>17, <2>2, <2>3 DEF Restores
<1> QED
  BY <1>1, <1>2, <1>3, <1>4, <1>5, <1>6, <1>7, <1>8, <1>9, <1>10, <1>11, <1>12, <1>13,
     <1>14, <1>15, <1>16, <1>17
  DEF Moved


(* A job that a step leaves alone keeps its row in order. *)
LEMMA RowFrame ==
  ASSUME ShapeInv, NEW i \in Jobs, RowAt(i),
         mem'.rows[i] = mem.rows[i],
         InProgress(mem, i) /\ mem.rows[i].message \in mem'.done => mem.rows[i].message \in mem.done,
         lanes'[i] = lanes[i], turn'[i] = turn[i],
         process' = "up" => process = "up",
         i \in skipped \/ i \in toRecover.rows => i \in skipped' \/ i \in toRecover'.rows
  PROVE  RowAt(i)'
<1>1. InProgress(mem', i) => InProgress(mem, i) /\ JobOf[mem.rows[i].message] = i
  BY DEF InProgress, ShapeInv
<1>2. Waiting(i)' = Waiting(i)
  BY DEF Waiting
<1>3. \A m : JobOf[m] = i /\ InFlight(m) => InFlight(m)'
  BY <1>2 DEF InFlight
<1>4. QED
  BY <1>1, <1>3 DEF RowAt, FailsJob, InProgress

LEMMA RowMoves ==
  ASSUME RowInv, Saves, \A j \in Jobs : RowAt(j)'
  PROVE  RowInv'
BY DEF RowInv, RowAt, Saves, InProgress

LEMMA RowInvStep ==
  ASSUME IInv, Moved
  PROVE  RowInv'
<1>t. /\ mem \in States /\ disk \in States /\ turn \in [Jobs -> Turns]
      /\ toRecover.rows \subseteq Jobs
      /\ lanes \in [Jobs -> Seq(Deliveries)] /\ life \in 1 .. MaxLives
      /\ process \in {"up", "stopping", "down"}
      /\ \A j \in Jobs : turn[j].pc # "none" => turn[j].message \in Messages /\ JobOf[turn[j].message] = j
  BY DEF IInv, TypeInv, JournalTypeOK
<1>i. ShapeInv /\ RecoverInv /\ LaneInv /\ RowInv
  BY DEF IInv
<1>1. ASSUME Quiet PROVE RowInv'
  <2>1. \A i \in Jobs : RowAt(i)'
    BY <1>i, <1>1, RowFrame DEF Quiet, Same, RowInv
  <2>2. QED
    BY <1>i, <1>1, <2>1, RowMoves DEF Quiet
<1>2. ASSUME NEW m \in Messages, Enters(m) PROVE RowInv'
  <2> DEFINE l == JobOf[m]
  <2>1. PICK kind \in {"start", "user"} : lanes' = [lanes EXCEPT ![l] = Append(@, <<m, kind>>)]
    BY <1>2 DEF Enters
  <2>2. l \in Jobs /\ <<m, kind>> \in Deliveries
    BY JournalAssumption DEF Deliveries
  <2>3. /\ lanes'[l] = Append(lanes[l], <<m, kind>>) /\ lanes[l] \in Seq(Deliveries)
        /\ \A j \in Jobs : j # l => lanes'[j] = lanes[j]
    BY <1>t, <2>1, <2>2
  <2>4. /\ turn' = turn /\ mem'.rows = mem.rows /\ mem'.done = mem.done /\ process' = process
        /\ skipped' = skipped /\ toRecover'.rows = toRecover.rows
    BY <1>2 DEF Enters, Same, ProcessKept
  <2>5. \A j \in Jobs : j # l => RowAt(j)'
    BY <1>i, <2>3, <2>4, RowFrame DEF RowInv
  <2>6. RowAt(l)'
    <3> HIDE DEF l
    <3>1. RowAt(l) /\ (InProgress(mem, l) => JobOf[mem.rows[l].message] = l)
      BY <1>i, <2>2 DEF RowInv, ShapeInv
    <3>2. Waiting(l) \subseteq Waiting(l)'
      BY <2>2, <2>3, AppendLane DEF Waiting
    <3>3. InProgress(mem, l) /\ InFlight(mem.rows[l].message) => InFlight(mem.rows[l].message)'
      BY <2>4, <3>1, <3>2 DEF InFlight
    <3>4. QED
      BY <2>4, <3>1, <3>3 DEF RowAt, FailsJob, InProgress
  <2>7. QED
    BY <1>i, <1>2, <2>2, <2>5, <2>6, RowMoves DEF Enters
<1>3. ASSUME NEW j \in Jobs, Resumes(j) PROVE RowInv'
  <2>1. /\ Saves /\ process' = process /\ skipped \subseteq skipped'
        /\ \A i \in Jobs : i # j =>
             /\ mem'.rows[i] = mem.rows[i] /\ lanes'[i] = lanes[i] /\ turn'[i] = turn[i]
             /\ i \in toRecover.rows => i \in toRecover'.rows
    BY <1>t, <1>3 DEF Resumes, ProcessKept, Saves
  <2>2. mem'.done = mem.done
    BY <1>3 DEF Resumes
  <2>3. \A i \in Jobs : i # j => RowAt(i)'
    BY <1>i, <2>1, <2>2, RowFrame DEF RowInv
  <2>4. RowAt(j)'
    <3> DEFINE m == mem.rows[j].message
    <3>1. JobOf[m] = j /\ turn'[j] = NoTurn /\ mem' = mem
      BY <1>i, <1>3 DEF Resumes, RecoverInv, ShapeInv
    <3>2. PICK kind \in {"start", "user"} : lanes' = [lanes EXCEPT ![j] = <<<<m, kind>>>>]
      BY <1>3 DEF Resumes
    <3>3. lanes'[j] = <<<<m, kind>>>>
      BY <1>t, <3>2
    <3>4. Len(lanes'[j]) = 1 /\ lanes'[j][1][1] = m
      BY <3>3
    <3>5. InFlight(m)'
      BY <3>1, <3>4 DEF InFlight, Waiting
    <3>6. QED
      BY <1>i, <3>1, <3>5 DEF RowInv, RowAt, InProgress, NoTurn
  <2>5. \A i \in Jobs : RowAt(i)'
    BY <2>3, <2>4
  <2>6. QED
    BY <1>i, <2>1, <2>5, RowMoves
<1>4. ASSUME NEW j \in Jobs, GivesUp(j) PROVE RowInv'
  <2>1. /\ Saves /\ process' = process /\ skipped \subseteq skipped'
        /\ \A i \in Jobs : i # j =>
             /\ mem'.rows[i] = mem.rows[i] /\ lanes'[i] = lanes[i] /\ turn'[i] = turn[i]
             /\ i \in toRecover.rows => i \in toRecover'.rows
    BY <1>t, <1>4 DEF GivesUp, ProcessKept, Saves
  <2>2. mem'.done = mem.done
    BY <1>4 DEF GivesUp
  <2>3. \A i \in Jobs : i # j => RowAt(i)'
    BY <1>i, <2>1, <2>2, RowFrame DEF RowInv
  <2>4. RowAt(j)'
    BY <1>4 DEF GivesUp, RowAt, InProgress, FailsJob, NoRow
  <2>5. \A i \in Jobs : RowAt(i)'
    BY <2>3, <2>4
  <2>6. QED
    BY <1>i, <2>1, <2>5, RowMoves
<1>5. ASSUME NEW j \in Jobs, Skips(j) PROVE RowInv'
  <2>1. /\ Saves /\ process' = process /\ skipped \subseteq skipped'
        /\ \A i \in Jobs : i # j =>
             /\ mem'.rows[i] = mem.rows[i] /\ lanes'[i] = lanes[i] /\ turn'[i] = turn[i]
             /\ i \in toRecover.rows => i \in toRecover'.rows
    BY <1>t, <1>5 DEF Skips, ProcessKept, Saves
  <2>2. mem'.done = mem.done
    BY <1>5 DEF Skips
  <2>3. \A i \in Jobs : i # j => RowAt(i)'
    BY <1>i, <2>1, <2>2, RowFrame DEF RowInv
  <2>4. RowAt(j)'
    BY <1>i, <1>5 DEF Skips, RecoverInv, RowInv, RowAt, InProgress, FailsJob, NoTurn, ProcessKept
  <2>5. \A i \in Jobs : RowAt(i)'
    BY <2>3, <2>4
  <2>6. QED
    BY <1>i, <2>1, <2>5, RowMoves
<1>6. ASSUME NEW j \in Jobs, Begins(j) PROVE RowInv'
  <2>1. /\ Saves /\ process' = process /\ skipped \subseteq skipped'
        /\ \A i \in Jobs : i # j =>
             /\ mem'.rows[i] = mem.rows[i] /\ lanes'[i] = lanes[i] /\ turn'[i] = turn[i]
             /\ i \in toRecover.rows => i \in toRecover'.rows
    BY <1>t, <1>6 DEF Begins, ProcessKept, Saves
  <2>2. mem'.done = mem.done
    BY <1>6 DEF Begins
  <2>3. \A i \in Jobs : i # j => RowAt(i)'
    BY <1>i, <2>1, <2>2, RowFrame DEF RowInv
  <2>4. RowAt(j)'
    <3>1. mem' = mem /\ RowAt(j) /\ turn[j].pc = "none" /\ process' = process /\ skipped' = skipped
          /\ toRecover' = toRecover
      BY <1>i, <1>6 DEF Begins, RowInv, ProcessKept
    <3>2. CASE turn' = turn /\ mem.rows[j] = NoRow
      BY <3>1, <3>2 DEF RowAt, InProgress, FailsJob, NoRow
    <3>3. CASE turn'[j].pc = "prepare" /\ turn'[j].message = Head(lanes[j])[1]
      <4> DEFINE m == mem.rows[j].message
      <4>1. lanes'[j] = Tail(lanes[j]) /\ lanes[j] \in Seq(Deliveries) /\ lanes[j] # <<>>
        BY <1>t, <1>6 DEF Begins
      <4>2. Waiting(j) \subseteq Waiting(j)' \cup {Head(lanes[j])[1]}
        <5>1. SUFFICES ASSUME NEW i \in 1 .. Len(lanes[j]), i # 1
                       PROVE  lanes[j][i][1] \in Waiting(j)'
          BY <4>1, TailLane DEF Waiting
        <5>2. i - 1 \in 1 .. Len(lanes'[j]) /\ i \in Int
          BY <4>1, <5>1, TailLane
        <5>3. lanes'[j][i - 1] = lanes[j][(i - 1) + 1]
          BY <4>1, <5>2, TailLane
        <5>4. lanes'[j][i - 1] = lanes[j][i]
          BY <5>2, <5>3
        <5>5. QED
          BY <5>2, <5>4 DEF Waiting
      <4>3. InProgress(mem, j) => JobOf[m] = j
        BY <1>i DEF ShapeInv
      <4>4. InProgress(mem, j) /\ InFlight(m) => InFlight(m)'
        BY <3>1, <3>3, <4>2, <4>3 DEF InFlight
      <4>5. QED
        BY <3>1, <3>3, <4>4 DEF RowAt, InProgress
    <3>4. QED
      BY <1>6, <3>2, <3>3 DEF Begins
  <2>5. \A i \in Jobs : RowAt(i)'
    BY <2>3, <2>4
  <2>6. QED
    BY <1>i, <2>1, <2>5, RowMoves
<1>7. ASSUME NEW j \in Jobs, Advances(j) PROVE RowInv'
  <2>1. /\ Saves /\ process' = process /\ skipped \subseteq skipped'
        /\ \A i \in Jobs : i # j =>
             /\ mem'.rows[i] = mem.rows[i] /\ lanes'[i] = lanes[i] /\ turn'[i] = turn[i]
             /\ i \in toRecover.rows => i \in toRecover'.rows
    BY <1>t, <1>7 DEF Advances, WorksOn, Same, ProcessKept, Saves
  <2>2. mem'.done = mem.done
    BY <1>7 DEF Advances, WorksOn, Same
  <2>3. \A i \in Jobs : i # j => RowAt(i)'
    BY <1>i, <2>1, <2>2, RowFrame DEF RowInv
  <2>4. RowAt(j)'
    <3>1. /\ RowAt(j) /\ turn[j].pc # "none" /\ process' = process /\ skipped' = skipped
          /\ toRecover' = toRecover /\ lanes' = lanes
          /\ turn'[j].pc # "none" /\ turn'[j].message = turn[j].message
      BY <1>i, <1>7 DEF Advances, WorksOn, RowInv, ProcessKept, Unanswered
    <3>2. Waiting(j)' = Waiting(j)
      BY <3>1 DEF Waiting
    <3>3. \A m : JobOf[m] = j /\ InFlight(m) => InFlight(m)'
      BY <3>1, <3>2 DEF InFlight
    <3>4. InProgress(mem', j) => mem'.rows[j] = mem.rows[j] /\ JobOf[mem.rows[j].message] = j
      BY <1>i, <1>7 DEF Advances, Same, ShapeInv, InProgress
    <3>5. /\ InProgress(mem', j) => mem'.rows[j].message \notin mem'.done
          /\ turn'[j].pc \in {"after", "notice", "finish", "ack"} => ~FailsJob(j, turn[j].message)'
      BY <2>2, <3>1, <3>4, <1>7 DEF Advances, RowAt, FailsJob, InProgress, Unanswered
    <3>6. process = "up" /\ j \notin skipped /\ InProgress(mem', j) =>
            j \in toRecover.rows \/ InFlight(mem.rows[j].message)'
      BY <3>1, <3>3, <3>4 DEF RowAt, InProgress
    <3>7. QED
      BY <3>1, <3>5, <3>6 DEF RowAt
  <2>5. \A i \in Jobs : RowAt(i)'
    BY <2>3, <2>4
  <2>6. QED
    BY <1>i, <2>1, <2>5, RowMoves
<1>8. ASSUME NEW j \in Jobs, SetsRow(j) PROVE RowInv'
  <2>1. /\ Saves /\ process' = process /\ skipped \subseteq skipped'
        /\ \A i \in Jobs : i # j =>
             /\ mem'.rows[i] = mem.rows[i] /\ lanes'[i] = lanes[i] /\ turn'[i] = turn[i]
             /\ i \in toRecover.rows => i \in toRecover'.rows
    BY <1>t, <1>8 DEF SetsRow, WorksOn, ProcessKept, Saves
  <2>2. mem'.done = mem.done
    BY <1>8 DEF SetsRow, WorksOn
  <2>3. \A i \in Jobs : i # j => RowAt(i)'
    BY <1>i, <2>1, <2>2, RowFrame DEF RowInv
  <2>4. RowAt(j)'
    <3>1. /\ RowAt(j) /\ turn[j].pc # "none" /\ process' = process /\ skipped' = skipped
          /\ toRecover' = toRecover /\ lanes' = lanes
          /\ turn'[j].pc # "none" /\ turn'[j].message = turn[j].message
      BY <1>i, <1>8 DEF SetsRow, WorksOn, RowInv, ProcessKept, Unanswered
    <3>2. Waiting(j)' = Waiting(j)
      BY <3>1 DEF Waiting
    <3>3. \A m : JobOf[m] = j /\ InFlight(m) => InFlight(m)'
      BY <3>1, <3>2 DEF InFlight
    <3>4. turn[j].message \notin mem.done /\ JobOf[turn[j].message] = j
      BY <1>t, <1>i, <1>8 DEF SetsRow, LaneInv, LaneAt, Unanswered
    <3>5. InFlight(turn[j].message)'
      BY <3>1, <3>4 DEF InFlight
    <3>6. QED
      BY <1>8, <2>2, <3>1, <3>4, <3>5 DEF SetsRow, RowAt, FailsJob, InProgress
  <2>5. \A i \in Jobs : RowAt(i)'
    BY <2>3, <2>4
  <2>6. QED
    BY <1>i, <2>1, <2>5, RowMoves
<1>9. ASSUME NEW j \in Jobs, Stops(j) PROVE RowInv'
  <2>1. /\ Saves /\ process' = process /\ skipped \subseteq skipped'
        /\ \A i \in Jobs : i # j =>
             /\ mem'.rows[i] = mem.rows[i] /\ lanes'[i] = lanes[i] /\ turn'[i] = turn[i]
             /\ i \in toRecover.rows => i \in toRecover'.rows
    BY <1>t, <1>9 DEF Stops, WorksOn, ProcessKept, Saves
  <2>2. mem'.done = mem.done
    BY <1>9 DEF Stops, WorksOn
  <2>3. \A i \in Jobs : i # j => RowAt(i)'
    BY <1>i, <2>1, <2>2, RowFrame DEF RowInv
  <2>4. RowAt(j)'
    BY <1>i, <1>9 DEF Stops, WorksOn, ProcessKept, NoTurn, RowInv, RowAt, InProgress
  <2>5. \A i \in Jobs : RowAt(i)'
    BY <2>3, <2>4
  <2>6. QED
    BY <1>i, <2>1, <2>5, RowMoves
<1>10. ASSUME NEW j \in Jobs, Fails(j) PROVE RowInv'
  <2>1. /\ Saves /\ process' = process /\ skipped \subseteq skipped'
        /\ \A i \in Jobs : i # j =>
             /\ mem'.rows[i] = mem.rows[i] /\ lanes'[i] = lanes[i] /\ turn'[i] = turn[i]
             /\ i \in toRecover.rows => i \in toRecover'.rows
    BY <1>t, <1>10 DEF Fails, WorksOn, ProcessKept, Saves
  <2>2. mem'.done = mem.done
    BY <1>10 DEF Fails, WorksOn
  <2>3. \A i \in Jobs : i # j => RowAt(i)'
    BY <1>i, <2>1, <2>2, RowFrame DEF RowInv
  <2>4. RowAt(j)'
    <3>1. /\ RowAt(j) /\ turn[j].pc # "none" /\ process' = process /\ skipped' = skipped
          /\ toRecover' = toRecover /\ lanes' = lanes
          /\ turn'[j].pc # "none" /\ turn'[j].message = turn[j].message
      BY <1>i, <1>10 DEF Fails, WorksOn, RowInv, ProcessKept, Unanswered
    <3>2. Waiting(j)' = Waiting(j)
      BY <3>1 DEF Waiting
    <3>3. \A m : JobOf[m] = j /\ InFlight(m) => InFlight(m)'
      BY <3>1, <3>2 DEF InFlight
    <3>4. InProgress(mem', j) => mem'.rows[j] = mem.rows[j] /\ JobOf[mem.rows[j].message] = j
      BY <1>i, <1>10 DEF Fails, Same, ShapeInv, InProgress
    <3>5. /\ InProgress(mem', j) => mem'.rows[j].message \notin mem'.done
          /\ turn'[j].pc \in {"after", "notice", "finish", "ack"} => ~FailsJob(j, turn[j].message)'
      BY <2>2, <3>1, <3>4, <1>10 DEF Fails, RowAt, FailsJob, InProgress, Unanswered
    <3>6. process = "up" /\ j \notin skipped /\ InProgress(mem', j) =>
            j \in toRecover.rows \/ InFlight(mem.rows[j].message)'
      BY <3>1, <3>3, <3>4 DEF RowAt, InProgress
    <3>7. QED
      BY <3>1, <3>5, <3>6 DEF RowAt
  <2>5. \A i \in Jobs : RowAt(i)'
    BY <2>3, <2>4
  <2>6. QED
    BY <1>i, <2>1, <2>5, RowMoves
<1>11. ASSUME NEW j \in Jobs, Answers(j) PROVE RowInv'
  <2>1. /\ Saves /\ process' = process /\ skipped \subseteq skipped'
        /\ \A i \in Jobs : i # j =>
             /\ mem'.rows[i] = mem.rows[i] /\ lanes'[i] = lanes[i] /\ turn'[i] = turn[i]
             /\ i \in toRecover.rows => i \in toRecover'.rows
    BY <1>t, <1>11 DEF Answers, WorksOn, ProcessKept, Saves
  <2>2. \A i \in Jobs : i # j /\ InProgress(mem, i) =>
          (mem.rows[i].message \in mem'.done => mem.rows[i].message \in mem.done)
    BY <1>t, <1>i, <1>11 DEF Answers, WorksOn, ShapeInv
  <2>3. \A i \in Jobs : i # j => RowAt(i)'
    BY <1>i, <2>1, <2>2, RowFrame DEF RowInv
  <2>4. RowAt(j)'
    <3>1. /\ RowAt(j) /\ turn[j].pc # "none" /\ process' = process /\ skipped' = skipped
          /\ toRecover' = toRecover /\ lanes' = lanes
          /\ turn'[j].pc # "none" /\ turn'[j].message = turn[j].message
      BY <1>i, <1>11 DEF Answers, WorksOn, RowInv, ProcessKept, Unanswered
    <3>2. Waiting(j)' = Waiting(j)
      BY <3>1 DEF Waiting
    <3>3. \A m : JobOf[m] = j /\ InFlight(m) => InFlight(m)'
      BY <3>1, <3>2 DEF InFlight
    <3>4. QED
      BY <1>11 DEF Answers, RowAt, FailsJob, InProgress
  <2>5. \A i \in Jobs : RowAt(i)'
    BY <2>3, <2>4
  <2>6. QED
    BY <1>i, <2>1, <2>5, RowMoves
<1>12. ASSUME NEW j \in Jobs, Notices(j) PROVE RowInv'
  <2>1. /\ Saves /\ process' = process /\ skipped \subseteq skipped'
        /\ \A i \in Jobs : i # j =>
             /\ mem'.rows[i] = mem.rows[i] /\ lanes'[i] = lanes[i] /\ turn'[i] = turn[i]
             /\ i \in toRecover.rows => i \in toRecover'.rows
    BY <1>t, <1>12 DEF Notices, WorksOn, ProcessKept, Saves
  <2>2. mem'.done = mem.done
    BY <1>12 DEF Notices, WorksOn
  <2>3. \A i \in Jobs : i # j => RowAt(i)'
    BY <1>i, <2>1, <2>2, RowFrame DEF RowInv
  <2>4. RowAt(j)'
    <3>1. /\ RowAt(j) /\ turn[j].pc # "none" /\ process' = process /\ skipped' = skipped
          /\ toRecover' = toRecover /\ lanes' = lanes
          /\ turn'[j].pc # "none" /\ turn'[j].message = turn[j].message
      BY <1>i, <1>12 DEF Notices, WorksOn, RowInv, ProcessKept, Unanswered
    <3>2. Waiting(j)' = Waiting(j)
      BY <3>1 DEF Waiting
    <3>3. \A m : JobOf[m] = j /\ InFlight(m) => InFlight(m)'
      BY <3>1, <3>2 DEF InFlight
    <3>4. InProgress(mem', j) => mem'.rows[j] = mem.rows[j] /\ JobOf[mem.rows[j].message] = j
      BY <1>i, <1>12 DEF Notices, Same, ShapeInv, InProgress
    <3>5. /\ InProgress(mem', j) => mem'.rows[j].message \notin mem'.done
          /\ turn'[j].pc \in {"after", "notice", "finish", "ack"} => ~FailsJob(j, turn[j].message)'
      BY <2>2, <3>1, <3>4, <1>12 DEF Notices, RowAt, FailsJob, InProgress, Unanswered
    <3>6. process = "up" /\ j \notin skipped /\ InProgress(mem', j) =>
            j \in toRecover.rows \/ InFlight(mem.rows[j].message)'
      BY <3>1, <3>3, <3>4 DEF RowAt, InProgress
    <3>7. QED
      BY <3>1, <3>5, <3>6 DEF RowAt
  <2>5. \A i \in Jobs : RowAt(i)'
    BY <2>3, <2>4
  <2>6. QED
    BY <1>i, <2>1, <2>5, RowMoves
<1>13. ASSUME NEW j \in Jobs, Finishes(j) PROVE RowInv'
  <2>1. /\ Saves /\ process' = process /\ skipped \subseteq skipped'
        /\ \A i \in Jobs : i # j =>
             /\ mem'.rows[i] = mem.rows[i] /\ lanes'[i] = lanes[i] /\ turn'[i] = turn[i]
             /\ i \in toRecover.rows => i \in toRecover'.rows
    BY <1>t, <1>13 DEF Finishes, WorksOn, ProcessKept, Saves
  <2>2. \A i \in Jobs : i # j /\ InProgress(mem, i) =>
          (mem.rows[i].message \in mem'.done => mem.rows[i].message \in mem.done)
    BY <1>t, <1>i, <1>13 DEF Finishes, WorksOn, ShapeInv
  <2>3. \A i \in Jobs : i # j => RowAt(i)'
    BY <1>i, <2>1, <2>2, RowFrame DEF RowInv
  <2>4. RowAt(j)'
    <3>1. /\ RowAt(j) /\ turn[j].pc # "none" /\ process' = process /\ skipped' = skipped
          /\ toRecover' = toRecover /\ lanes' = lanes
          /\ turn'[j].pc # "none" /\ turn'[j].message = turn[j].message
      BY <1>i, <1>13 DEF Finishes, WorksOn, RowInv, ProcessKept, Unanswered
    <3>2. Waiting(j)' = Waiting(j)
      BY <3>1 DEF Waiting
    <3>3. \A m : JobOf[m] = j /\ InFlight(m) => InFlight(m)'
      BY <3>1, <3>2 DEF InFlight
    <3>4. InProgress(mem', j) => mem'.rows[j] = mem.rows[j] /\ JobOf[mem.rows[j].message] = j
      BY <1>i, <1>13 DEF Finishes, Same, ShapeInv, InProgress
    <3>5. /\ InProgress(mem', j) => mem'.rows[j].message \notin mem'.done
          /\ ~FailsJob(j, turn[j].message)'
      BY <3>1, <3>4, <1>13 DEF Finishes, RowAt, FailsJob, InProgress
    <3>6. process = "up" /\ j \notin skipped /\ InProgress(mem', j) =>
            j \in toRecover.rows \/ InFlight(mem.rows[j].message)'
      BY <3>1, <3>3, <3>4 DEF RowAt, InProgress
    <3>7. QED
      BY <3>1, <3>5, <3>6 DEF RowAt
  <2>5. \A i \in Jobs : RowAt(i)'
    BY <2>3, <2>4
  <2>6. QED
    BY <1>i, <2>1, <2>5, RowMoves
<1>14. ASSUME NEW j \in Jobs, Acks(j) PROVE RowInv'
  <2>1. /\ Saves /\ process' = process /\ skipped \subseteq skipped'
        /\ \A i \in Jobs : i # j =>
             /\ mem'.rows[i] = mem.rows[i] /\ lanes'[i] = lanes[i] /\ turn'[i] = turn[i]
             /\ i \in toRecover.rows => i \in toRecover'.rows
    BY <1>t, <1>14 DEF Acks, WorksOn, ProcessKept, Saves
  <2>2. mem'.done = mem.done
    BY <1>14 DEF Acks, WorksOn
  <2>3. \A i \in Jobs : i # j => RowAt(i)'
    BY <1>i, <2>1, <2>2, RowFrame DEF RowInv
  <2>4. RowAt(j)'
    <3> DEFINE m == mem.rows[j].message
    <3>1. /\ mem' = mem /\ RowAt(j) /\ turn[j].pc = "ack" /\ process' = process /\ skipped' = skipped
          /\ toRecover' = toRecover /\ lanes' = lanes /\ turn'[j].pc = "none"
      BY <1>i, <1>14 DEF Acks, WorksOn, RowInv, ProcessKept, NoTurn
    <3>2. InProgress(mem, j) => JobOf[m] = j /\ m # turn[j].message
      BY <1>i, <3>1 DEF ShapeInv, RowAt, InProgress, FailsJob
    <3>3. Waiting(j)' = Waiting(j)
      BY <3>1 DEF Waiting
    <3>4. InProgress(mem, j) /\ InFlight(m) => InFlight(m)'
      BY <3>1, <3>2, <3>3 DEF InFlight
    <3>5. QED
      BY <3>1, <3>4 DEF RowAt, InProgress
  <2>5. \A i \in Jobs : RowAt(i)'
    BY <2>3, <2>4
  <2>6. QED
    BY <1>i, <2>1, <2>5, RowMoves
<1>15. ASSUME NEW r \in Replies, Delivers(r) PROVE RowInv'
  <2>1. \A i \in Jobs : RowAt(i)'
    BY <1>i, <1>15, RowFrame DEF Delivers, ProcessKept, RowInv
  <2>2. QED
    BY <1>i, <1>15, <2>1, RowMoves DEF Delivers
<1>16. ASSUME Exits PROVE RowInv'
  <2>1. /\ disk' = disk /\ process' = "down" /\ mem'.done = {}
        /\ \A j \in Jobs : mem'.rows[j].status = "none" /\ turn'[j].pc = "none"
    BY <1>16 DEF Exits, NewAppState, NoRow, NoTurn
  <2>2. QED
    BY <1>i, <2>1 DEF RowInv, RowAt, InProgress, FailsJob
<1>17. ASSUME Restores PROVE RowInv'
  <2>1. /\ \A j \in Jobs : turn'[j].pc = "none"
        /\ toRecover'.rows = {j \in Jobs : InProgress(mem', j)}
    BY <1>i, <1>17 DEF Restores, ShapeInv, NoTurn
  <2>2. CASE mem' = disk /\ disk' = disk
    BY <1>i, <2>1, <2>2 DEF RowInv, RowAt, InProgress
  <2>3. CASE mem' = NewAppState /\ disk' = NewAppState
    <3>1. \A j \in Jobs : mem'.rows[j].status = "none" /\ disk'.rows[j].status = "none"
      BY <2>3 DEF NewAppState, NoRow
    <3>2. QED
      BY <2>1, <3>1 DEF RowInv, RowAt, InProgress
  <2>4. QED
    BY <1>17, <2>2, <2>3 DEF Restores
<1> QED
  BY <1>1, <1>2, <1>3, <1>4, <1>5, <1>6, <1>7, <1>8, <1>9, <1>10, <1>11, <1>12, <1>13,
     <1>14, <1>15, <1>16, <1>17
  DEF Moved


(* A step that neither sends nor stores a new reply. *)
LEMMA AnswerFrame ==
  ASSUME AnswerInv, AllReplies' \subseteq AllReplies, life' = life, setAside' = setAside,
         Running' => Running,
         Running => mem.done \subseteq mem'.done,
         disk.done \subseteq disk'.done,
         \A j \in Jobs : turn[j].pc = "finish" => turn'[j] = turn[j] \/ turn[j].message \in mem'.done,
         \A j \in Jobs : turn'[j].pc \in {"fail", "notice"} =>
           /\ turn'[j].notice # "answer"
           /\ turn'[j].notice = "error" => <<turn'[j].message, "answer", life>> \notin AllReplies
  PROVE  AnswerInv'
<1>1. \A m \in Messages : JobOf[m] \in Jobs
  BY JournalAssumption
<1>2. \A r \in AllReplies' : r[3] <= life'
  BY DEF AnswerInv
<1>3. Running' => \A m \in Messages :
        /\ <<m, "answer", life'>> \in AllReplies' => m \in mem'.done
        /\ <<m, "error", life'>> \in AllReplies' =>
             m \in mem'.done \/ (turn'[JobOf[m]].pc = "finish" /\ turn'[JobOf[m]].message = m)
  <2>1. SUFFICES ASSUME Running', NEW m \in Messages
                 PROVE  /\ <<m, "answer", life>> \in AllReplies' => m \in mem'.done
                        /\ <<m, "error", life>> \in AllReplies' =>
                             m \in mem'.done \/ (turn'[JobOf[m]].pc = "finish" /\ turn'[JobOf[m]].message = m)
    OBVIOUS
  <2>2. /\ <<m, "answer", life>> \in AllReplies => m \in mem.done
        /\ <<m, "error", life>> \in AllReplies =>
             m \in mem.done \/ (turn[JobOf[m]].pc = "finish" /\ turn[JobOf[m]].message = m)
    BY <2>1 DEF AnswerInv
  <2>3. mem.done \subseteq mem'.done
    BY <2>1
  <2>4. turn[JobOf[m]].pc = "finish" =>
          turn'[JobOf[m]] = turn[JobOf[m]] \/ turn[JobOf[m]].message \in mem'.done
    BY <1>1
  <2>5. QED
    BY <2>2, <2>3, <2>4
<1>4. \A m \in Messages, n \in 1 .. MaxLives :
        <<m, "answer", n>> \notin AllReplies' \/ <<m, "error", n>> \notin AllReplies'
  <2>1. \A m \in Messages, n \in 1 .. MaxLives :
          <<m, "answer", n>> \notin AllReplies \/ <<m, "error", n>> \notin AllReplies
    BY DEF AnswerInv
  <2>2. QED
    BY <2>1
<1>5. ~setAside' => \A r \in AllReplies' : r[2] = "answer" =>
        /\ r[1] \in disk'.done
        /\ \A q \in AllReplies' : q[1] = r[1] /\ q[2] = "answer" => q = r
  BY DEF AnswerInv
<1>6. \A j \in Jobs : turn'[j].pc \in {"fail", "notice"} =>
        /\ turn'[j].notice # "answer"
        /\ turn'[j].notice = "error" => <<turn'[j].message, "answer", life'>> \notin AllReplies'
  OBVIOUS
<1>7. QED
  BY <1>2, <1>3, <1>4, <1>5, <1>6 DEF AnswerInv

LEMMA AnswerInvStep ==
  ASSUME IInv, Moved
  PROVE  AnswerInv'
<1>t. /\ mem \in States /\ disk \in States /\ turn \in [Jobs -> Turns]
      /\ toRecover.rows \subseteq Jobs
      /\ lanes \in [Jobs -> Seq(Deliveries)] /\ life \in 1 .. MaxLives
      /\ process \in {"up", "stopping", "down"}
      /\ \A j \in Jobs : turn[j].pc # "none" => turn[j].message \in Messages /\ JobOf[turn[j].message] = j
  BY DEF IInv, TypeInv, JournalTypeOK
<1>i. ShapeInv /\ RecoverInv /\ LaneInv /\ DoneInv /\ AnswerInv
  BY DEF IInv
<1>1. ASSUME Quiet PROVE AnswerInv'
  <2>1. /\ AllReplies' \subseteq AllReplies /\ life' = life /\ setAside' = setAside /\ turn' = turn
        /\ mem'.done = mem.done /\ (disk' = disk \/ (Running /\ disk' = mem'))
        /\ Running' => Running
    BY <1>1 DEF Quiet, Same, Saves, AllReplies, Running
  <2>2. disk.done \subseteq disk'.done
    BY <1>i, <2>1 DEF DoneInv
  <2>3. \A i \in Jobs : turn'[i].pc \in {"fail", "notice"} =>
          /\ turn'[i].notice # "answer"
          /\ turn'[i].notice = "error" => <<turn'[i].message, "answer", life>> \notin AllReplies
    BY <1>i, <2>1 DEF AnswerInv
  <2>4. QED
    BY <1>i, <2>1, <2>2, <2>3, AnswerFrame
<1>2. ASSUME NEW m \in Messages, Enters(m) PROVE AnswerInv'
  <2>1. /\ AllReplies' \subseteq AllReplies /\ ProcessKept /\ Running
        /\ mem.done \subseteq mem'.done /\ (disk' = disk \/ disk' = mem')
    BY <1>2 DEF Enters, Saves, ProcessKept, Same, AllReplies
  <2>2. disk.done \subseteq disk'.done
    BY <1>i, <2>1 DEF DoneInv
  <2>3. \A i \in Jobs : turn[i].pc = "finish" => turn'[i] = turn[i] \/ turn[i].message \in mem'.done
    BY <1>2 DEF Enters
  <2>4. \A i \in Jobs : turn'[i].pc \in {"fail", "notice"} =>
          /\ turn'[i].notice # "answer"
          /\ turn'[i].notice = "error" => <<turn'[i].message, "answer", life>> \notin AllReplies
    BY <1>i, <1>2 DEF Enters, AnswerInv
  <2>5. QED
    BY <1>i, <2>1, <2>2, <2>3, <2>4, AnswerFrame DEF ProcessKept
<1>3. ASSUME NEW j \in Jobs, Resumes(j) PROVE AnswerInv'
  <2>1. /\ AllReplies' \subseteq AllReplies /\ ProcessKept /\ Running
        /\ mem.done \subseteq mem'.done /\ (disk' = disk \/ disk' = mem')
    BY <1>3 DEF Resumes, Saves, ProcessKept, AllReplies
  <2>2. disk.done \subseteq disk'.done
    BY <1>i, <2>1 DEF DoneInv
  <2>3. \A i \in Jobs : turn[i].pc = "finish" => turn'[i] = turn[i] \/ turn[i].message \in mem'.done
    BY <1>3 DEF Resumes
  <2>4. \A i \in Jobs : turn'[i].pc \in {"fail", "notice"} =>
          /\ turn'[i].notice # "answer"
          /\ turn'[i].notice = "error" => <<turn'[i].message, "answer", life>> \notin AllReplies
    BY <1>i, <1>3 DEF Resumes, AnswerInv
  <2>5. QED
    BY <1>i, <2>1, <2>2, <2>3, <2>4, AnswerFrame DEF ProcessKept
<1>4. ASSUME NEW j \in Jobs, GivesUp(j) PROVE AnswerInv'
  <2>1. /\ AllReplies' \subseteq AllReplies /\ ProcessKept /\ Running
        /\ mem.done \subseteq mem'.done /\ (disk' = disk \/ disk' = mem')
    BY <1>4 DEF GivesUp, Saves, ProcessKept, AllReplies
  <2>2. disk.done \subseteq disk'.done
    BY <1>i, <2>1 DEF DoneInv
  <2>3. \A i \in Jobs : turn[i].pc = "finish" => turn'[i] = turn[i] \/ turn[i].message \in mem'.done
    BY <1>i, <1>4 DEF GivesUp, RecoverInv, NoTurn
  <2>4. \A i \in Jobs : turn'[i].pc \in {"fail", "notice"} =>
          /\ turn'[i].notice # "answer"
          /\ turn'[i].notice = "error" => <<turn'[i].message, "answer", life>> \notin AllReplies
    BY <1>i, <1>4 DEF GivesUp, AnswerInv
  <2>5. QED
    BY <1>i, <2>1, <2>2, <2>3, <2>4, AnswerFrame DEF ProcessKept
<1>5. ASSUME NEW j \in Jobs, Skips(j) PROVE AnswerInv'
  <2>1. /\ AllReplies' \subseteq AllReplies /\ ProcessKept /\ Running
        /\ mem.done \subseteq mem'.done /\ (disk' = disk \/ disk' = mem')
    BY <1>5 DEF Skips, Saves, ProcessKept, AllReplies
  <2>2. disk.done \subseteq disk'.done
    BY <1>i, <2>1 DEF DoneInv
  <2>3. \A i \in Jobs : turn[i].pc = "finish" => turn'[i] = turn[i] \/ turn[i].message \in mem'.done
    BY <1>5 DEF Skips
  <2>4. \A i \in Jobs : turn'[i].pc \in {"fail", "notice"} =>
          /\ turn'[i].notice # "answer"
          /\ turn'[i].notice = "error" => <<turn'[i].message, "answer", life>> \notin AllReplies
    BY <1>i, <1>5 DEF Skips, AnswerInv
  <2>5. QED
    BY <1>i, <2>1, <2>2, <2>3, <2>4, AnswerFrame DEF ProcessKept
<1>6. ASSUME NEW j \in Jobs, Begins(j) PROVE AnswerInv'
  <2>1. /\ AllReplies' \subseteq AllReplies /\ ProcessKept /\ Running
        /\ mem.done \subseteq mem'.done /\ (disk' = disk \/ disk' = mem')
    BY <1>6 DEF Begins, Saves, ProcessKept, AllReplies
  <2>2. disk.done \subseteq disk'.done
    BY <1>i, <2>1 DEF DoneInv
  <2>3. \A i \in Jobs : turn[i].pc = "finish" => turn'[i] = turn[i] \/ turn[i].message \in mem'.done
    BY <1>6 DEF Begins
  <2>4. \A i \in Jobs : turn'[i].pc \in {"fail", "notice"} =>
          /\ turn'[i].notice # "answer"
          /\ turn'[i].notice = "error" => <<turn'[i].message, "answer", life>> \notin AllReplies
    BY <1>i, <1>6 DEF Begins, AnswerInv
  <2>5. QED
    BY <1>i, <2>1, <2>2, <2>3, <2>4, AnswerFrame DEF ProcessKept
<1>7. ASSUME NEW j \in Jobs, Advances(j) PROVE AnswerInv'
  <2>1. /\ AllReplies' \subseteq AllReplies /\ ProcessKept /\ Running
        /\ mem.done \subseteq mem'.done /\ (disk' = disk \/ disk' = mem')
    BY <1>7 DEF Advances, WorksOn, Saves, ProcessKept, Same, AllReplies
  <2>2. disk.done \subseteq disk'.done
    BY <1>i, <2>1 DEF DoneInv
  <2>3. \A i \in Jobs : turn[i].pc = "finish" => turn'[i] = turn[i] \/ turn[i].message \in mem'.done
    BY <1>7 DEF Advances, WorksOn, Unanswered
  <2>4. turn[j].pc \in Unanswered => <<turn[j].message, "answer", life>> \notin AllReplies
    BY <1>t, <1>i, <1>7, <2>1 DEF WorksOn, AnswerInv, LaneInv, LaneAt, Advances
  <2>5. \A i \in Jobs : turn'[i].pc \in {"fail", "notice"} =>
          /\ turn'[i].notice # "answer"
          /\ turn'[i].notice = "error" => <<turn'[i].message, "answer", life>> \notin AllReplies
    BY <1>i, <1>7, <2>4 DEF Advances, WorksOn, AnswerInv, Unanswered
  <2>6. QED
    BY <1>i, <2>1, <2>2, <2>3, <2>5, AnswerFrame DEF ProcessKept
<1>8. ASSUME NEW j \in Jobs, SetsRow(j) PROVE AnswerInv'
  <2>1. /\ AllReplies' \subseteq AllReplies /\ ProcessKept /\ Running
        /\ mem.done \subseteq mem'.done /\ (disk' = disk \/ disk' = mem')
    BY <1>8 DEF SetsRow, WorksOn, Saves, ProcessKept, AllReplies
  <2>2. disk.done \subseteq disk'.done
    BY <1>i, <2>1 DEF DoneInv
  <2>3. \A i \in Jobs : turn[i].pc = "finish" => turn'[i] = turn[i] \/ turn[i].message \in mem'.done
    BY <1>8 DEF SetsRow, WorksOn, Unanswered
  <2>4. turn[j].pc \in Unanswered => <<turn[j].message, "answer", life>> \notin AllReplies
    BY <1>t, <1>i, <1>8, <2>1 DEF WorksOn, AnswerInv, LaneInv, LaneAt, SetsRow
  <2>5. \A i \in Jobs : turn'[i].pc \in {"fail", "notice"} =>
          /\ turn'[i].notice # "answer"
          /\ turn'[i].notice = "error" => <<turn'[i].message, "answer", life>> \notin AllReplies
    BY <1>i, <1>8, <2>4 DEF SetsRow, WorksOn, AnswerInv, Unanswered
  <2>6. QED
    BY <1>i, <2>1, <2>2, <2>3, <2>5, AnswerFrame DEF ProcessKept
<1>9. ASSUME NEW j \in Jobs, Stops(j) PROVE AnswerInv'
  <2>1. /\ AllReplies' \subseteq AllReplies /\ ProcessKept /\ Running
        /\ mem.done \subseteq mem'.done /\ (disk' = disk \/ disk' = mem')
    BY <1>9 DEF Stops, WorksOn, Saves, ProcessKept, AllReplies
  <2>2. disk.done \subseteq disk'.done
    BY <1>i, <2>1 DEF DoneInv
  <2>3. \A i \in Jobs : turn[i].pc = "finish" => turn'[i] = turn[i] \/ turn[i].message \in mem'.done
    BY <1>9 DEF Stops, WorksOn
  <2>4. \A i \in Jobs : turn'[i].pc \in {"fail", "notice"} =>
          /\ turn'[i].notice # "answer"
          /\ turn'[i].notice = "error" => <<turn'[i].message, "answer", life>> \notin AllReplies
    BY <1>i, <1>9 DEF Stops, WorksOn, AnswerInv, NoTurn
  <2>5. QED
    BY <1>i, <2>1, <2>2, <2>3, <2>4, AnswerFrame DEF ProcessKept
<1>10. ASSUME NEW j \in Jobs, Fails(j) PROVE AnswerInv'
  <2>1. /\ AllReplies' \subseteq AllReplies /\ ProcessKept /\ Running
        /\ mem.done \subseteq mem'.done /\ (disk' = disk \/ disk' = mem')
    BY <1>10 DEF Fails, WorksOn, Saves, ProcessKept, AllReplies
  <2>2. disk.done \subseteq disk'.done
    BY <1>i, <2>1 DEF DoneInv
  <2>3. \A i \in Jobs : turn[i].pc = "finish" => turn'[i] = turn[i] \/ turn[i].message \in mem'.done
    BY <1>10 DEF Fails, WorksOn
  <2>4. \A i \in Jobs : turn'[i].pc \in {"fail", "notice"} =>
          /\ turn'[i].notice # "answer"
          /\ turn'[i].notice = "error" => <<turn'[i].message, "answer", life>> \notin AllReplies
    BY <1>i, <1>10 DEF Fails, WorksOn, AnswerInv
  <2>5. QED
    BY <1>i, <2>1, <2>2, <2>3, <2>4, AnswerFrame DEF ProcessKept
<1>11. ASSUME NEW j \in Jobs, Answers(j) PROVE AnswerInv'
  <2> DEFINE m == turn[j].message
             new == <<m, "answer", life>>
  <2>1. /\ AllReplies' \subseteq AllReplies \cup {new} /\ ProcessKept /\ Running /\ disk' = mem'
        /\ mem'.done = mem.done \cup {m} /\ turn[j].pc = "answer"
        /\ turn'[j].pc = "after" /\ \A i \in Jobs : i # j => turn'[i] = turn[i]
    BY <1>11 DEF Answers, WorksOn, AllReplies
  <2>2. m \in Messages /\ JobOf[m] = j /\ m \notin mem.done
    BY <1>t, <1>i, <2>1 DEF LaneInv, LaneAt, Unanswered
  <2>3. disk.done \subseteq mem.done
    BY <1>i, <2>1 DEF DoneInv
  <2>4. <<m, "error", life>> \notin AllReplies
    BY <1>i, <2>1, <2>2 DEF AnswerInv
  <2>5. new[1] = m /\ new[2] = "answer" /\ new[3] = life /\ new # <<m, "error", life>>
    OBVIOUS
  <2>6. \A i \in Jobs : i # j /\ turn[i].pc # "none" => turn[i].message # m
    BY <1>t, <2>2
  <2>7. \A r \in AllReplies' : r[3] <= life'
    BY <1>t, <1>i, <2>1, <2>5 DEF AnswerInv, ProcessKept
  <2>8. \A x \in Messages :
          /\ <<x, "answer", life'>> \in AllReplies' => x \in mem'.done
          /\ <<x, "error", life'>> \in AllReplies' =>
               x \in mem'.done \/ (turn'[JobOf[x]].pc = "finish" /\ turn'[JobOf[x]].message = x)
    BY <1>i, <2>1, <2>2, JournalAssumption DEF AnswerInv, ProcessKept
  <2>9. \A i \in Jobs : turn'[i].pc \in {"fail", "notice"} =>
          /\ turn'[i].notice # "answer"
          /\ turn'[i].notice = "error" => <<turn'[i].message, "answer", life'>> \notin AllReplies'
    BY <1>i, <2>1, <2>6 DEF AnswerInv, ProcessKept
  <2>10. \A x \in Messages, n \in 1 .. MaxLives :
           <<x, "answer", n>> \notin AllReplies' \/ <<x, "error", n>> \notin AllReplies'
    <3>1. \A x \in Messages, n \in 1 .. MaxLives :
            <<x, "answer", n>> \notin AllReplies \/ <<x, "error", n>> \notin AllReplies
      BY <1>i DEF AnswerInv
    <3>2. \A x, n : /\ <<x, "answer", n>> = new => x = m /\ n = life
                   /\ <<x, "error", n>> # new
      OBVIOUS
    <3>3. QED
      BY <2>1, <2>4, <3>1, <3>2
  <2>11. ~setAside' => \A r \in AllReplies' : r[2] = "answer" =>
           /\ r[1] \in disk'.done
           /\ \A q \in AllReplies' : q[1] = r[1] /\ q[2] = "answer" => q = r
    <3>1. ASSUME ~setAside, NEW r \in AllReplies, r[2] = "answer"
          PROVE  /\ r[1] \in mem.done
                 /\ \A q \in AllReplies : q[1] = r[1] /\ q[2] = "answer" => q = r
      BY <1>i, <2>3, <3>1 DEF AnswerInv
    <3>2. QED
      BY <2>1, <2>2, <2>5, <3>1 DEF ProcessKept
  <2>12. QED
    BY <2>7, <2>8, <2>9, <2>10, <2>11 DEF AnswerInv
<1>12. ASSUME NEW j \in Jobs, Notices(j) PROVE AnswerInv'
  <2> DEFINE m == turn[j].message
             new == <<m, turn[j].notice, life>>
  <2>1. /\ AllReplies' \subseteq AllReplies \cup {new} /\ ProcessKept /\ Running
        /\ mem'.done = mem.done /\ (disk' = mem' \/ disk' = disk) /\ turn[j].pc = "notice"
        /\ turn'[j].pc = "finish" /\ turn'[j].message = m
        /\ \A i \in Jobs : i # j => turn'[i] = turn[i]
    BY <1>12 DEF Notices, WorksOn, Saves, AllReplies
  <2>2. m \in Messages /\ JobOf[m] = j
    BY <1>t, <2>1
  <2>3. disk.done \subseteq disk'.done
    BY <1>i, <2>1 DEF DoneInv
  <2>4. /\ turn[j].notice # "answer"
        /\ turn[j].notice = "error" => <<m, "answer", life>> \notin AllReplies
    BY <1>i, <2>1 DEF AnswerInv
  <2>5. new[1] = m /\ new[2] # "answer" /\ new[2] = turn[j].notice /\ new[3] = life
    BY <2>4
  <2>6. \A x : (\A n : <<x, "answer", n>> # new) /\ \A n : <<x, "error", n>> = new =>
          x = m /\ n = life /\ turn[j].notice = "error"
    BY <2>4
  <2>7. \A r \in AllReplies' : r[3] <= life'
    BY <1>t, <1>i, <2>1, <2>5 DEF AnswerInv, ProcessKept
  <2>8. \A x \in Messages :
          /\ <<x, "answer", life'>> \in AllReplies' => x \in mem'.done
          /\ <<x, "error", life'>> \in AllReplies' =>
               x \in mem'.done \/ (turn'[JobOf[x]].pc = "finish" /\ turn'[JobOf[x]].message = x)
    BY <1>i, <2>1, <2>2, <2>6, JournalAssumption DEF AnswerInv, ProcessKept
  <2>9. \A i \in Jobs : turn'[i].pc \in {"fail", "notice"} =>
          /\ turn'[i].notice # "answer"
          /\ turn'[i].notice = "error" => <<turn'[i].message, "answer", life'>> \notin AllReplies'
    BY <1>i, <2>1, <2>6 DEF AnswerInv, ProcessKept
  <2>10. \A x \in Messages, n \in 1 .. MaxLives :
           <<x, "answer", n>> \notin AllReplies' \/ <<x, "error", n>> \notin AllReplies'
    <3>1. \A x \in Messages, n \in 1 .. MaxLives :
            <<x, "answer", n>> \notin AllReplies \/ <<x, "error", n>> \notin AllReplies
      BY <1>i DEF AnswerInv
    <3>2. QED
      BY <2>1, <2>4, <2>6, <3>1
  <2>11. ~setAside' => \A r \in AllReplies' : r[2] = "answer" =>
           /\ r[1] \in disk'.done
           /\ \A q \in AllReplies' : q[1] = r[1] /\ q[2] = "answer" => q = r
    BY <1>i, <2>1, <2>3, <2>5 DEF AnswerInv, ProcessKept
  <2>12. QED
    BY <2>7, <2>8, <2>9, <2>10, <2>11 DEF AnswerInv
<1>13. ASSUME NEW j \in Jobs, Finishes(j) PROVE AnswerInv'
  <2>1. /\ AllReplies' \subseteq AllReplies /\ ProcessKept /\ Running
        /\ mem.done \subseteq mem'.done /\ (disk' = disk \/ disk' = mem')
    BY <1>13 DEF Finishes, WorksOn, Saves, ProcessKept, AllReplies
  <2>2. disk.done \subseteq disk'.done
    BY <1>i, <2>1 DEF DoneInv
  <2>3. \A i \in Jobs : turn[i].pc = "finish" => turn'[i] = turn[i] \/ turn[i].message \in mem'.done
    BY <1>13 DEF Finishes, WorksOn
  <2>4. \A i \in Jobs : turn'[i].pc \in {"fail", "notice"} =>
          /\ turn'[i].notice # "answer"
          /\ turn'[i].notice = "error" => <<turn'[i].message, "answer", life>> \notin AllReplies
    BY <1>i, <1>13 DEF Finishes, WorksOn, AnswerInv
  <2>5. QED
    BY <1>i, <2>1, <2>2, <2>3, <2>4, AnswerFrame DEF ProcessKept
<1>14. ASSUME NEW j \in Jobs, Acks(j) PROVE AnswerInv'
  <2>1. /\ AllReplies' \subseteq AllReplies /\ ProcessKept /\ Running
        /\ mem.done \subseteq mem'.done /\ (disk' = disk \/ disk' = mem')
    BY <1>14 DEF Acks, WorksOn, Saves, ProcessKept, AllReplies
  <2>2. disk.done \subseteq disk'.done
    BY <1>i, <2>1 DEF DoneInv
  <2>3. \A i \in Jobs : turn[i].pc = "finish" => turn'[i] = turn[i] \/ turn[i].message \in mem'.done
    BY <1>14 DEF Acks, WorksOn
  <2>4. \A i \in Jobs : turn'[i].pc \in {"fail", "notice"} =>
          /\ turn'[i].notice # "answer"
          /\ turn'[i].notice = "error" => <<turn'[i].message, "answer", life>> \notin AllReplies
    BY <1>i, <1>14 DEF Acks, WorksOn, AnswerInv, NoTurn
  <2>5. QED
    BY <1>i, <2>1, <2>2, <2>3, <2>4, AnswerFrame DEF ProcessKept
<1>15. ASSUME NEW r \in Replies, Delivers(r) PROVE AnswerInv'
  <2>1. /\ AllReplies' \subseteq AllReplies /\ ProcessKept /\ Running
        /\ mem.done \subseteq mem'.done /\ (disk' = disk \/ disk' = mem')
    BY <1>15 DEF Delivers, Saves, ProcessKept, AllReplies
  <2>2. disk.done \subseteq disk'.done
    BY <1>i, <2>1 DEF DoneInv
  <2>3. \A i \in Jobs : turn[i].pc = "finish" => turn'[i] = turn[i] \/ turn[i].message \in mem'.done
    BY <1>15 DEF Delivers
  <2>4. \A i \in Jobs : turn'[i].pc \in {"fail", "notice"} =>
          /\ turn'[i].notice # "answer"
          /\ turn'[i].notice = "error" => <<turn'[i].message, "answer", life>> \notin AllReplies
    BY <1>i, <1>15 DEF Delivers, AnswerInv
  <2>5. QED
    BY <1>i, <2>1, <2>2, <2>3, <2>4, AnswerFrame DEF ProcessKept
<1>16. ASSUME Exits PROVE AnswerInv'
  <2>1. /\ AllReplies' \subseteq AllReplies /\ life' = life /\ setAside' = setAside /\ disk' = disk
        /\ ~Running' /\ \A i \in Jobs : turn'[i].pc = "none"
    BY <1>16 DEF Exits, NewAppState, NoTurn, AllReplies, Running
  <2>2. QED
    BY <1>i, <2>1 DEF AnswerInv
<1>17. ASSUME Restores PROVE AnswerInv'
  <2>1. /\ AllReplies' \subseteq AllReplies /\ life' = life + 1
        /\ setAside' \/ (disk' = disk /\ setAside' = setAside)
        /\ \A i \in Jobs : turn'[i].pc = "none"
    BY <1>i, <1>17 DEF Restores, ShapeInv, NewAppState, NoTurn, AllReplies
  <2>2. \A r \in AllReplies : r[3] <= life
    BY <1>i DEF AnswerInv
  <2>3. life \in Nat /\ \A r \in AllReplies : r[3] \in Nat
    <3>1. mem \in States /\ disk \in States /\ received \subseteq Replies
      BY DEF IInv, TypeInv, JournalTypeOK
    <3>2. AllReplies \subseteq Messages \X Kinds \X (1 .. MaxLives)
      BY <3>1 DEF AllReplies, States, Replies
    <3>3. QED
      BY <1>t, <3>2, JournalAssumption
  <2>4. \A r \in AllReplies' : r[3] <= life' /\ r[3] # life'
    BY <2>1, <2>2, <2>3
  <2>5. \A m : <<m, "answer", life'>> \notin AllReplies' /\ <<m, "error", life'>> \notin AllReplies'
    <3>1. \A m, k : <<m, k, life'>> \notin AllReplies'
      <4>1. TAKE m, k
      <4>2. <<m, k, life'>>[3] = life'
        OBVIOUS
      <4>3. QED
        BY <2>4, <4>2
    <3>2. QED
      BY <3>1
  <2>6. \A m \in Messages, n \in 1 .. MaxLives :
          <<m, "answer", n>> \notin AllReplies' \/ <<m, "error", n>> \notin AllReplies'
    <3>1. \A m \in Messages, n \in 1 .. MaxLives :
            <<m, "answer", n>> \notin AllReplies \/ <<m, "error", n>> \notin AllReplies
      BY <1>i DEF AnswerInv
    <3>2. QED
      BY <2>1, <3>1
  <2>7. ~setAside' => \A r \in AllReplies' : r[2] = "answer" =>
          /\ r[1] \in disk'.done
          /\ \A q \in AllReplies' : q[1] = r[1] /\ q[2] = "answer" => q = r
    BY <1>i, <2>1 DEF AnswerInv
  <2>8. QED
    BY <2>1, <2>4, <2>5, <2>6, <2>7 DEF AnswerInv
<1> QED
  BY <1>1, <1>2, <1>3, <1>4, <1>5, <1>6, <1>7, <1>8, <1>9, <1>10, <1>11, <1>12, <1>13,
     <1>14, <1>15, <1>16, <1>17
  DEF Moved


-----------------------------------------------------------------------------
(* Errors after an answer. *)

(* A step of a running process that loses no reply: an answer stays with    *)
(* the backend or in the file.                                             *)
LEMMA LateMoves ==
  ASSUME LateInv, DoneInv, Running, Saves, setAside' = setAside, life' = life,
         received \subseteq received',
         mem.outbox \subseteq mem'.outbox \cup received',
         ~setAside => \A m \in Messages, n \in 1 .. MaxLives :
           <<m, "late", n>> \in AllReplies' => <<m, "late", n>> \in AllReplies \/ Answered(m, n),
         ~setAside => \A j \in Jobs : LateTurn(j)' =>
           \/ <<turn'[j].message, "answer", life>> \in received \cup disk.outbox
           \/ <<turn'[j].message, "answer", life>> \in received' \cup disk'.outbox
  PROVE  LateInv'
<1>1. SUFFICES ASSUME ~setAside
      PROVE  /\ \A m \in Messages, n \in 1 .. MaxLives : <<m, "late", n>> \in AllReplies' =>
                  <<m, "answer", n>> \in received' \cup disk'.outbox
             /\ \A j \in Jobs : LateTurn(j)' =>
                  <<turn'[j].message, "answer", life'>> \in received' \cup disk'.outbox
  BY DEF LateInv, Answered
<1>2. received \cup disk.outbox \subseteq received' \cup disk'.outbox
  <2>1. disk.outbox \subseteq mem.outbox \cup received
    BY DEF DoneInv
  <2>2. CASE disk' = mem'
    BY <2>1, <2>2
  <2>3. CASE disk' = disk
    BY <2>3
  <2>4. QED
    BY <2>2, <2>3 DEF Saves
<1>3. \A m \in Messages, n \in 1 .. MaxLives : <<m, "late", n>> \in AllReplies' =>
        <<m, "answer", n>> \in received \cup disk.outbox
  BY <1>1 DEF LateInv, Answered
<1>4. QED
  BY <1>1, <1>2, <1>3

LEMMA LateInvStep ==
  ASSUME IInv, Moved
  PROVE  LateInv'
<1>i. ShapeInv /\ DoneInv /\ LateInv
  BY DEF IInv
<1>t. turn \in [Jobs -> Turns] /\ life \in 1 .. MaxLives
  BY DEF IInv, TypeInv, JournalTypeOK
<1>1. ASSUME Quiet PROVE LateInv'
  <2>1. CASE Running
    <3>1. /\ Saves /\ setAside' = setAside /\ life' = life /\ received' = received
          /\ mem'.outbox = mem.outbox /\ turn' = turn /\ AllReplies' \subseteq AllReplies
      BY <1>1 DEF Quiet, Same, Saves, AllReplies
    <3>2. ~setAside => \A j \in Jobs : LateTurn(j)' =>
            <<turn'[j].message, "answer", life>> \in received \cup disk.outbox
      BY <1>i, <3>1 DEF LateInv, LateTurn, Answered
    <3>3. QED
      BY <1>i, <2>1, <3>1, <3>2, LateMoves
  <2>2. CASE ~Running
    <3>1. /\ disk' = disk /\ setAside' = setAside /\ life' = life /\ received' = received
          /\ mem'.outbox = mem.outbox /\ turn' = turn
      BY <1>1, <2>2 DEF Quiet, Same
    <3>2. QED
      BY <1>i, <3>1 DEF LateInv, LateTurn, Answered, AllReplies
  <2>3. QED
    BY <2>1, <2>2
<1>2. ASSUME NEW m \in Messages, Enters(m) PROVE LateInv'
  <2>1. /\ Running /\ Saves /\ setAside' = setAside /\ life' = life /\ received \subseteq received'
        /\ mem.outbox \subseteq mem'.outbox \cup received'
        /\ AllReplies' \subseteq AllReplies
    BY <1>2 DEF Enters, Same, Saves, ProcessKept, AllReplies
  <2>2. \A i \in Jobs : LateTurn(i)' => LateTurn(i) /\ turn'[i].message = turn[i].message
    BY <1>2, <1>t DEF Enters, LateTurn, Unanswered, NoTurn
  <2>3. ~setAside => \A i \in Jobs : LateTurn(i)' =>
          <<turn'[i].message, "answer", life>> \in received \cup disk.outbox
    BY <1>i, <2>2 DEF LateInv, Answered
  <2>4. QED
    BY <1>i, <2>1, <2>3, LateMoves
<1>3. ASSUME NEW j \in Jobs, Resumes(j) PROVE LateInv'
  <2>1. /\ Running /\ Saves /\ setAside' = setAside /\ life' = life /\ received \subseteq received'
        /\ mem.outbox \subseteq mem'.outbox \cup received'
        /\ AllReplies' \subseteq AllReplies
    BY <1>3 DEF Resumes, Same, Saves, ProcessKept, AllReplies
  <2>2. \A i \in Jobs : LateTurn(i)' => LateTurn(i) /\ turn'[i].message = turn[i].message
    BY <1>3, <1>t DEF Resumes, LateTurn, Unanswered, NoTurn
  <2>3. ~setAside => \A i \in Jobs : LateTurn(i)' =>
          <<turn'[i].message, "answer", life>> \in received \cup disk.outbox
    BY <1>i, <2>2 DEF LateInv, Answered
  <2>4. QED
    BY <1>i, <2>1, <2>3, LateMoves
<1>4. ASSUME NEW j \in Jobs, GivesUp(j) PROVE LateInv'
  <2>1. /\ Running /\ Saves /\ setAside' = setAside /\ life' = life /\ received \subseteq received'
        /\ mem.outbox \subseteq mem'.outbox \cup received'
        /\ AllReplies' \subseteq AllReplies
    BY <1>4 DEF GivesUp, Same, Saves, ProcessKept, AllReplies
  <2>2. \A i \in Jobs : LateTurn(i)' => LateTurn(i) /\ turn'[i].message = turn[i].message
    BY <1>4, <1>t DEF GivesUp, LateTurn, Unanswered, NoTurn
  <2>3. ~setAside => \A i \in Jobs : LateTurn(i)' =>
          <<turn'[i].message, "answer", life>> \in received \cup disk.outbox
    BY <1>i, <2>2 DEF LateInv, Answered
  <2>4. QED
    BY <1>i, <2>1, <2>3, LateMoves
<1>5. ASSUME NEW j \in Jobs, Skips(j) PROVE LateInv'
  <2>1. /\ Running /\ Saves /\ setAside' = setAside /\ life' = life /\ received \subseteq received'
        /\ mem.outbox \subseteq mem'.outbox \cup received'
        /\ AllReplies' \subseteq AllReplies
    BY <1>5 DEF Skips, Same, Saves, ProcessKept, AllReplies
  <2>2. \A i \in Jobs : LateTurn(i)' => LateTurn(i) /\ turn'[i].message = turn[i].message
    BY <1>5, <1>t DEF Skips, LateTurn, Unanswered, NoTurn
  <2>3. ~setAside => \A i \in Jobs : LateTurn(i)' =>
          <<turn'[i].message, "answer", life>> \in received \cup disk.outbox
    BY <1>i, <2>2 DEF LateInv, Answered
  <2>4. QED
    BY <1>i, <2>1, <2>3, LateMoves
<1>6. ASSUME NEW j \in Jobs, Begins(j) PROVE LateInv'
  <2>1. /\ Running /\ Saves /\ setAside' = setAside /\ life' = life /\ received \subseteq received'
        /\ mem.outbox \subseteq mem'.outbox \cup received'
        /\ AllReplies' \subseteq AllReplies
    BY <1>6 DEF Begins, Same, Saves, ProcessKept, AllReplies
  <2>2. \A i \in Jobs : LateTurn(i)' => LateTurn(i) /\ turn'[i].message = turn[i].message
    BY <1>6, <1>t DEF Begins, LateTurn, Unanswered, NoTurn
  <2>3. ~setAside => \A i \in Jobs : LateTurn(i)' =>
          <<turn'[i].message, "answer", life>> \in received \cup disk.outbox
    BY <1>i, <2>2 DEF LateInv, Answered
  <2>4. QED
    BY <1>i, <2>1, <2>3, LateMoves
<1>7. ASSUME NEW j \in Jobs, Advances(j) PROVE LateInv'
  <2>1. /\ Running /\ Saves /\ setAside' = setAside /\ life' = life /\ received \subseteq received'
        /\ mem.outbox \subseteq mem'.outbox \cup received'
        /\ AllReplies' \subseteq AllReplies
    BY <1>7 DEF Advances, WorksOn, Same, Saves, ProcessKept, AllReplies
  <2>2. \A i \in Jobs : LateTurn(i)' => LateTurn(i) /\ turn'[i].message = turn[i].message
    BY <1>7, <1>t DEF Advances, WorksOn, LateTurn, Unanswered, NoTurn
  <2>3. ~setAside => \A i \in Jobs : LateTurn(i)' =>
          <<turn'[i].message, "answer", life>> \in received \cup disk.outbox
    BY <1>i, <2>2 DEF LateInv, Answered
  <2>4. QED
    BY <1>i, <2>1, <2>3, LateMoves
<1>8. ASSUME NEW j \in Jobs, SetsRow(j) PROVE LateInv'
  <2>1. /\ Running /\ Saves /\ setAside' = setAside /\ life' = life /\ received \subseteq received'
        /\ mem.outbox \subseteq mem'.outbox \cup received'
        /\ AllReplies' \subseteq AllReplies
    BY <1>8 DEF SetsRow, WorksOn, Same, Saves, ProcessKept, AllReplies
  <2>2. \A i \in Jobs : LateTurn(i)' => LateTurn(i) /\ turn'[i].message = turn[i].message
    BY <1>8, <1>t DEF SetsRow, WorksOn, LateTurn, Unanswered, NoTurn
  <2>3. ~setAside => \A i \in Jobs : LateTurn(i)' =>
          <<turn'[i].message, "answer", life>> \in received \cup disk.outbox
    BY <1>i, <2>2 DEF LateInv, Answered
  <2>4. QED
    BY <1>i, <2>1, <2>3, LateMoves
<1>9. ASSUME NEW j \in Jobs, Stops(j) PROVE LateInv'
  <2>1. /\ Running /\ Saves /\ setAside' = setAside /\ life' = life /\ received \subseteq received'
        /\ mem.outbox \subseteq mem'.outbox \cup received'
        /\ AllReplies' \subseteq AllReplies
    BY <1>9 DEF Stops, WorksOn, Same, Saves, ProcessKept, AllReplies
  <2>2. \A i \in Jobs : LateTurn(i)' => LateTurn(i) /\ turn'[i].message = turn[i].message
    BY <1>9, <1>t DEF Stops, WorksOn, LateTurn, Unanswered, NoTurn
  <2>3. ~setAside => \A i \in Jobs : LateTurn(i)' =>
          <<turn'[i].message, "answer", life>> \in received \cup disk.outbox
    BY <1>i, <2>2 DEF LateInv, Answered
  <2>4. QED
    BY <1>i, <2>1, <2>3, LateMoves
<1>10. ASSUME NEW j \in Jobs, Fails(j) PROVE LateInv'
  <2>1. /\ Running /\ Saves /\ setAside' = setAside /\ life' = life /\ received \subseteq received'
        /\ mem.outbox \subseteq mem'.outbox \cup received'
        /\ AllReplies' \subseteq AllReplies
    BY <1>10 DEF Fails, WorksOn, Same, Saves, ProcessKept, AllReplies
  <2>2. \A i \in Jobs : LateTurn(i)' => LateTurn(i) /\ turn'[i].message = turn[i].message
    BY <1>10, <1>t DEF Fails, WorksOn, LateTurn, Unanswered, NoTurn
  <2>3. ~setAside => \A i \in Jobs : LateTurn(i)' =>
          <<turn'[i].message, "answer", life>> \in received \cup disk.outbox
    BY <1>i, <2>2 DEF LateInv, Answered
  <2>4. QED
    BY <1>i, <2>1, <2>3, LateMoves
<1>11. ASSUME NEW j \in Jobs, Finishes(j) PROVE LateInv'
  <2>1. /\ Running /\ Saves /\ setAside' = setAside /\ life' = life /\ received \subseteq received'
        /\ mem.outbox \subseteq mem'.outbox \cup received'
        /\ AllReplies' \subseteq AllReplies
    BY <1>11 DEF Finishes, WorksOn, Same, Saves, ProcessKept, AllReplies
  <2>2. \A i \in Jobs : LateTurn(i)' => LateTurn(i) /\ turn'[i].message = turn[i].message
    BY <1>11, <1>t DEF Finishes, WorksOn, LateTurn, Unanswered, NoTurn
  <2>3. ~setAside => \A i \in Jobs : LateTurn(i)' =>
          <<turn'[i].message, "answer", life>> \in received \cup disk.outbox
    BY <1>i, <2>2 DEF LateInv, Answered
  <2>4. QED
    BY <1>i, <2>1, <2>3, LateMoves
<1>12. ASSUME NEW j \in Jobs, Acks(j) PROVE LateInv'
  <2>1. /\ Running /\ Saves /\ setAside' = setAside /\ life' = life /\ received \subseteq received'
        /\ mem.outbox \subseteq mem'.outbox \cup received'
        /\ AllReplies' \subseteq AllReplies
    BY <1>12 DEF Acks, WorksOn, Same, Saves, ProcessKept, AllReplies
  <2>2. \A i \in Jobs : LateTurn(i)' => LateTurn(i) /\ turn'[i].message = turn[i].message
    BY <1>12, <1>t DEF Acks, WorksOn, LateTurn, Unanswered, NoTurn
  <2>3. ~setAside => \A i \in Jobs : LateTurn(i)' =>
          <<turn'[i].message, "answer", life>> \in received \cup disk.outbox
    BY <1>i, <2>2 DEF LateInv, Answered
  <2>4. QED
    BY <1>i, <2>1, <2>3, LateMoves
<1>13. ASSUME NEW r \in Replies, Delivers(r) PROVE LateInv'
  <2>1. /\ Running /\ Saves /\ setAside' = setAside /\ life' = life /\ received \subseteq received'
        /\ mem.outbox \subseteq mem'.outbox \cup received'
        /\ AllReplies' \subseteq AllReplies
    BY <1>13 DEF Delivers, Same, Saves, ProcessKept, AllReplies
  <2>2. \A i \in Jobs : LateTurn(i)' => LateTurn(i) /\ turn'[i].message = turn[i].message
    BY <1>13, <1>t DEF Delivers, LateTurn, Unanswered, NoTurn
  <2>3. ~setAside => \A i \in Jobs : LateTurn(i)' =>
          <<turn'[i].message, "answer", life>> \in received \cup disk.outbox
    BY <1>i, <2>2 DEF LateInv, Answered
  <2>4. QED
    BY <1>i, <2>1, <2>3, LateMoves
<1>14. ASSUME NEW j \in Jobs, Answers(j) PROVE LateInv'
  <2>1. /\ Running /\ Saves /\ setAside' = setAside /\ life' = life /\ received' = received
        /\ mem'.outbox = mem.outbox \cup {<<turn[j].message, "answer", life>>}
        /\ disk'.outbox = mem'.outbox
        /\ turn'[j].message = turn[j].message
        /\ \A i \in Jobs : i # j => turn'[i] = turn[i]
    BY <1>14 DEF Answers, WorksOn, ProcessKept
  <2>2. \A m, n : <<m, "late", n>> \in AllReplies' => <<m, "late", n>> \in AllReplies
    BY <2>1 DEF AllReplies
  <2>3. ~setAside => \A i \in Jobs : LateTurn(i)' =>
          \/ <<turn'[i].message, "answer", life>> \in received \cup disk.outbox
          \/ <<turn'[i].message, "answer", life>> \in received' \cup disk'.outbox
    <3>1. SUFFICES ASSUME ~setAside, NEW i \in Jobs, LateTurn(i)'
                   PROVE  \/ <<turn'[i].message, "answer", life>> \in received \cup disk.outbox
                          \/ <<turn'[i].message, "answer", life>> \in received' \cup disk'.outbox
      OBVIOUS
    <3>2. CASE i = j
      BY <2>1, <3>2
    <3>3. CASE i # j
      BY <1>i, <2>1, <3>1, <3>3 DEF LateInv, LateTurn, Answered
    <3>4. QED
      BY <3>2, <3>3
  <2>4. QED
    BY <1>i, <2>1, <2>2, <2>3, LateMoves
<1>15. ASSUME NEW j \in Jobs, Notices(j) PROVE LateInv'
  <2>1. /\ Running /\ Saves /\ setAside' = setAside /\ life' = life /\ received' = received
        /\ mem'.outbox = mem.outbox \cup {<<turn[j].message, turn[j].notice, life>>}
        /\ turn[j].pc = "notice" /\ turn'[j].pc = "finish"
        /\ \A i \in Jobs : i # j => turn'[i] = turn[i]
    BY <1>15 DEF Notices, WorksOn, ProcessKept
  <2>2. AllReplies' \subseteq AllReplies \cup {<<turn[j].message, turn[j].notice, life>>}
    BY <2>1 DEF AllReplies, Saves
  <2>3. ~setAside => (turn[j].notice = "late" => Answered(turn[j].message, life))
    BY <1>i, <2>1 DEF LateInv, LateTurn
  <2>4. ~setAside => \A m \in Messages, n \in 1 .. MaxLives :
          <<m, "late", n>> \in AllReplies' => <<m, "late", n>> \in AllReplies \/ Answered(m, n)
    <3>1. SUFFICES ASSUME ~setAside, NEW m \in Messages, NEW n \in 1 .. MaxLives,
                          <<m, "late", n>> \in AllReplies', <<m, "late", n>> \notin AllReplies
                   PROVE  Answered(m, n)
      OBVIOUS
    <3>2. turn[j].message = m /\ turn[j].notice = "late" /\ life = n
      BY <2>2, <3>1
    <3>3. QED
      BY <2>3, <3>1, <3>2
  <2>5. ~setAside => \A i \in Jobs : LateTurn(i)' =>
          <<turn'[i].message, "answer", life>> \in received \cup disk.outbox
    <3>1. \A i \in Jobs : LateTurn(i)' => LateTurn(i) /\ turn'[i] = turn[i]
      BY <2>1 DEF LateTurn
    <3>2. QED
      BY <1>i, <3>1 DEF LateInv, Answered
  <2>6. QED
    BY <1>i, <2>1, <2>4, <2>5, LateMoves
<1>16. ASSUME Exits PROVE LateInv'
  <2>1. /\ AllReplies' \subseteq AllReplies /\ setAside' = setAside /\ disk' = disk
        /\ received' = received /\ \A i \in Jobs : turn'[i].pc = "none"
    BY <1>16 DEF Exits, NewAppState, NoTurn, AllReplies
  <2>2. QED
    BY <1>i, <2>1 DEF LateInv, LateTurn, Answered
<1>17. ASSUME Restores PROVE LateInv'
  <2>1. /\ setAside' \/ (mem' = disk /\ disk' = disk /\ setAside' = setAside)
        /\ received' = received /\ \A i \in Jobs : turn'[i].pc = "none"
    BY <1>i, <1>17 DEF Restores, ShapeInv, NoTurn
  <2>2. QED
    BY <1>i, <2>1 DEF LateInv, LateTurn, Answered, AllReplies
<1> QED
  BY <1>1, <1>2, <1>3, <1>4, <1>5, <1>6, <1>7, <1>8, <1>9, <1>10, <1>11, <1>12, <1>13,
     <1>14, <1>15, <1>16, <1>17
  DEF Moved

-----------------------------------------------------------------------------
(* The types. *)

StatesOK == mem \in States /\ disk \in States /\ writeErrors \in 0 .. MaxWriteErrors

TurnsOK ==
  /\ turn \in [Jobs -> Turns]
  /\ \A j \in Jobs : turn[j].pc # "none" => turn[j].message \in Messages /\ JobOf[turn[j].message] = j

RestOK ==
  /\ process \in {"up", "stopping", "down"} /\ life \in 1 .. MaxLives /\ setAside \in BOOLEAN
  /\ toRecover \in [rows : SUBSET Jobs, messages : Queues]
  /\ lanes \in [Jobs -> Seq(Deliveries)]
  /\ backend \in [Messages -> {"new", "offered", "expired", "acked"}]
  /\ received \subseteq Replies /\ skipped \subseteq Jobs

LEMMA TypeParts == TypeInv <=> StatesOK /\ TurnsOK /\ RestOK
<1>1. ASSUME TypeInv PROVE StatesOK /\ TurnsOK /\ RestOK
  BY <1>1 DEF TypeInv, JournalTypeOK, StatesOK, TurnsOK, RestOK
<1>2. ASSUME StatesOK, TurnsOK, RestOK PROVE TypeInv
  BY <1>2 DEF TypeInv, JournalTypeOK, StatesOK, TurnsOK, RestOK, Turns
<1>3. QED
  BY <1>1, <1>2

LEMMA NewStates == NewAppState \in States
  BY DEF NewAppState, NoRow, EmptyQueue, States, Rows, Queues

LEMMA StatesStep ==
  ASSUME IInv, [JournalNext]_journalVars
  PROVE  StatesOK'
<1>t. StatesOK /\ TurnsOK /\ RestOK
  BY TypeParts DEF IInv
<1>w. \A new \in States : WriteWorks(new) \/ WriteFails =>
        disk' \in States /\ writeErrors' \in 0 .. MaxWriteErrors
  BY <1>t, JournalAssumption DEF WriteWorks, WriteFails, StatesOK
<1>p. \A new \in States : persistStateLocked(new) => StatesOK'
  BY <1>w DEF persistStateLocked, StatesOK
<1>n. NewAppState \in States
  BY NewStates
<1>1. ASSUME NEW m \in Messages, SendMessage(m) PROVE StatesOK'
  <2>1. \A kind \in {"start", "user"} : PersistQueuedMessage(m, kind) => StatesOK'
    BY <1>t, <1>p, MessageOps DEF StatesOK, PersistQueuedMessage
  <2>2. QED
    BY <1>t, <1>1, <2>1 DEF SendMessage, StatesOK
<1>2. ASSUME NEW m \in Messages, PollMessage(m) PROVE StatesOK'
  <2>1. \A kind \in {"start", "user"} : PersistQueuedMessage(m, kind) => StatesOK'
    BY <1>t, <1>p, MessageOps DEF StatesOK, PersistQueuedMessage
  <2>2. QED
    BY <1>t, <1>2, <2>1 DEF PollMessage, StatesOK
<1>3. ASSUME NEW m \in Messages, AckAgain(m) PROVE StatesOK'
  BY <1>t, <1>3 DEF AckAgain, StatesOK
<1>4. ASSUME NEW m \in Messages, Expire(m) PROVE StatesOK'
  BY <1>t, <1>4 DEF Expire, StatesOK
<1>5. ASSUME NEW m \in Messages, RecoverMessage(m) PROVE StatesOK'
  <2>1. RemoveQueuedMessage(m) \in States
    BY <1>t, MessageOps DEF StatesOK
  <2>2. QED
    BY <1>t, <1>p, <1>5, <2>1 DEF RecoverMessage, StatesOK
<1>6. ASSUME NEW j \in Jobs, BeginTurn(j) PROVE StatesOK'
  BY <1>t, <1>6 DEF BeginTurn, StatesOK
<1>7. ASSUME NEW j \in Jobs, Prepare(j) PROVE StatesOK'
  <2>1. RemoveJob(j) \in States
    BY <1>t, RowOps DEF StatesOK
  <2>2. QED
    BY <1>t, <1>p, <1>7, <2>1 DEF Prepare, StatesOK
<1>8. ASSUME NEW j \in Jobs, RecordInProgress(j) PROVE StatesOK'
  <2>1. \A b \in BOOLEAN :
          UpdateJobData(j, [status |-> "in_progress", message |-> Msg(j), session |-> b]) \in States
    <3>1. Msg(j) \in Messages
      BY <1>t, <1>8 DEF RecordInProgress, At, Msg, TurnsOK
    <3>2. \A b \in BOOLEAN : [status |-> "in_progress", message |-> Msg(j), session |-> b] \in Rows
      BY <3>1 DEF Rows
    <3>3. QED
      BY <1>t, <3>2, RowOps DEF StatesOK
  <2>2. QED
    BY <1>t, <1>p, <1>w, <1>8, <2>1 DEF RecordInProgress, StatesOK
<1>9. ASSUME NEW j \in Jobs, TakeOffQueue(j) PROVE StatesOK'
  <2>1. RemoveQueuedMessage(Msg(j)) \in States
    BY <1>t, <1>9, MessageOps DEF TakeOffQueue, At, Msg, TurnsOK, StatesOK
  <2>2. QED
    BY <1>p, <1>9, <2>1 DEF TakeOffQueue
<1>10. ASSUME NEW j \in Jobs, RunCLI(j) PROVE StatesOK'
  BY <1>t, <1>10 DEF RunCLI, StatesOK
<1>11. ASSUME NEW j \in Jobs, RecordFailed(j) PROVE StatesOK'
  <2>1. \A b \in BOOLEAN :
          UpdateJobData(j, [status |-> "failed", message |-> Msg(j), session |-> b]) \in States
    <3>1. Msg(j) \in Messages
      BY <1>t, <1>11 DEF RecordFailed, At, Msg, TurnsOK
    <3>2. \A b \in BOOLEAN : [status |-> "failed", message |-> Msg(j), session |-> b] \in Rows
      BY <3>1 DEF Rows
    <3>3. QED
      BY <1>t, <3>2, RowOps DEF StatesOK
  <2>2. QED
    BY <1>t, <1>p, <1>w, <1>11, <2>1 DEF RecordFailed, StatesOK
<1>12. ASSUME NEW j \in Jobs, finishStoppedTurn(j) PROVE StatesOK'
  <2>1. \A b \in BOOLEAN :
          UpdateJobData(j, [status |-> "completed", message |-> Msg(j), session |-> b]) \in States
    <3>1. Msg(j) \in Messages
      BY <1>t, <1>12 DEF finishStoppedTurn, At, Msg, TurnsOK
    <3>2. \A b \in BOOLEAN : [status |-> "completed", message |-> Msg(j), session |-> b] \in Rows
      BY <3>1 DEF Rows
    <3>3. QED
      BY <1>t, <3>2, RowOps DEF StatesOK
  <2>2. QED
    BY <1>t, <1>p, <1>w, <1>12, <2>1 DEF finishStoppedTurn, StatesOK
<1>13. ASSUME NEW j \in Jobs, AutoCommit(j) PROVE StatesOK'
  BY <1>t, <1>13 DEF AutoCommit, StatesOK
<1>14. ASSUME NEW j \in Jobs, finishTurnWithReply(j) PROVE StatesOK'
  <2>1. Msg(j) \in Messages /\ Reply(j, "answer") \in Replies
    BY <1>t, <1>14 DEF finishTurnWithReply, At, Msg, TurnsOK, RestOK, Reply, Replies, Kinds
  <2>2. Completed(j, Msg(j), Reply(j, "answer")) \in States
    BY <1>t, <2>1, CompletedOps DEF StatesOK
  <2>3. QED
    BY <1>t, <1>w, <1>14, <2>2 DEF finishTurnWithReply, CompleteTurn, StatesOK
<1>15. ASSUME NEW j \in Jobs, AfterAnswer(j) PROVE StatesOK'
  BY <1>t, <1>15 DEF AfterAnswer, StatesOK
<1>16. ASSUME NEW j \in Jobs, failInProgressJob(j) PROVE StatesOK'
  <2>1. FailJobIfInProgress(j) \in States
    BY <1>t, RowOps DEF StatesOK
  <2>2. QED
    BY <1>t, <1>p, <1>16, <2>1 DEF failInProgressJob, StatesOK
<1>17. ASSUME NEW j \in Jobs, SendNotice(j) PROVE StatesOK'
  <2>1. Reply(j, turn[j].notice) \in Replies
    BY <1>t, <1>17 DEF SendNotice, At, Msg, TurnsOK, Turns, RestOK, Reply, Replies
  <2>2. AddOutboxMessage(Reply(j, turn[j].notice)) \in States
    BY <1>t, <2>1, OutboxOps DEF StatesOK
  <2>3. QED
    BY <1>p, <1>17, <2>2 DEF SendNotice
<1>18. ASSUME NEW j \in Jobs, finishMessage(j) PROVE StatesOK'
  <2>1. FinishMessage(Msg(j)) \in States
    BY <1>t, <1>18, MessageOps DEF finishMessage, At, Msg, TurnsOK, StatesOK
  <2>2. QED
    BY <1>p, <1>18, <2>1 DEF finishMessage
<1>19. ASSUME NEW j \in Jobs, AckMessage(j) PROVE StatesOK'
  BY <1>t, <1>19 DEF AckMessage, StatesOK
<1>20. ASSUME NEW j \in Jobs, RecoverRow(j) PROVE StatesOK'
  <2>1. RemoveJob(j) \in States
    BY <1>t, RowOps DEF StatesOK
  <2>2. QED
    BY <1>t, <1>p, <1>20, <2>1 DEF RecoverRow, StatesOK
<1>21. ASSUME NEW r \in mem.outbox, SendReply(r) PROVE StatesOK'
  <2>1. RemoveOutboxMessage(r) \in States
    BY <1>t, OutboxOps DEF StatesOK, States
  <2>2. QED
    BY <1>p, <1>21, <2>1 DEF SendReply
<1>22. ASSUME MarkShuttingDown PROVE StatesOK'
  BY <1>t, <1>22 DEF MarkShuttingDown, StatesOK
<1>23. ASSUME Exit PROVE StatesOK'
  BY <1>t, <1>n, <1>23 DEF Exit, LoadState, StatesOK
<1>24. ASSUME RestoreAppState PROVE StatesOK'
  BY <1>t, <1>n, <1>24 DEF RestoreAppState, LoadState, StatesOK
<1>25. CASE UNCHANGED journalVars
  BY <1>t, <1>25 DEF journalVars, StatesOK
<1> QED
  BY <1>1, <1>2, <1>3, <1>4, <1>5, <1>6, <1>7, <1>8, <1>9, <1>10, <1>11, <1>12, <1>13,
     <1>14, <1>15, <1>16, <1>17, <1>18, <1>19, <1>20, <1>21, <1>22, <1>23, <1>24, <1>25
  DEF JournalNext, TurnStep


LEMMA RestStep ==
  ASSUME IInv, [JournalNext]_journalVars
  PROVE  RestOK'
<1>t. StatesOK /\ TurnsOK /\ RestOK
  BY TypeParts DEF IInv
<1>i. ShapeInv /\ RecoverInv
  BY DEF IInv
<1>d. \A m \in Messages, kind \in {"start", "user"} :
        Dispatch(m, kind) => lanes' \in [Jobs -> Seq(Deliveries)]
  <2>1. TAKE m \in Messages, kind \in {"start", "user"}
  <2>2. HAVE Dispatch(m, kind)
  <2>3. JobOf[m] \in Jobs /\ <<m, kind>> \in Deliveries
    BY JournalAssumption DEF Deliveries
  <2>4. Append(lanes[JobOf[m]], <<m, kind>>) \in Seq(Deliveries)
    BY <1>t, <2>3 DEF RestOK
  <2>5. QED
    BY <1>t, <2>2, <2>3, <2>4 DEF Dispatch, RestOK
<1>1. ASSUME NEW m \in Messages, SendMessage(m) PROVE RestOK'
  <2>1. lanes' \in [Jobs -> Seq(Deliveries)]
    BY <1>t, <1>d, <1>1 DEF SendMessage, RestOK
  <2>2. QED
    BY <1>t, <1>1, <2>1 DEF SendMessage, RestOK
<1>2. ASSUME NEW m \in Messages, PollMessage(m) PROVE RestOK'
  <2>1. lanes' \in [Jobs -> Seq(Deliveries)]
    BY <1>t, <1>d, <1>2 DEF PollMessage, RestOK
  <2>2. QED
    BY <1>t, <1>2, <2>1 DEF PollMessage, RestOK
<1>3. ASSUME NEW m \in Messages, AckAgain(m) PROVE RestOK'
  BY <1>t, <1>3 DEF AckAgain, RestOK
<1>4. ASSUME NEW m \in Messages, Expire(m) PROVE RestOK'
  BY <1>t, <1>4 DEF Expire, RestOK
<1>5. ASSUME NEW m \in Messages, RecoverMessage(m) PROVE RestOK'
  <2>1. toRecover.messages[m] \in {"start", "user"}
    BY <1>t, <1>5 DEF RecoverMessage, RestOK, Queues
  <2>2. lanes' \in [Jobs -> Seq(Deliveries)]
    BY <1>t, <1>d, <1>5, <2>1 DEF RecoverMessage, RestOK
  <2>3. toRecover' \in [rows : SUBSET Jobs, messages : Queues]
    BY <1>t, <1>5 DEF RecoverMessage, RestOK, Queues
  <2>4. QED
    BY <1>t, <1>5, <2>2, <2>3 DEF RecoverMessage, RestOK
<1>6. ASSUME NEW j \in Jobs, BeginTurn(j) PROVE RestOK'
  <2>1. lanes[j] \in Seq(Deliveries) /\ lanes[j] # <<>>
    BY <1>t, <1>6 DEF BeginTurn, RestOK
  <2>2. Tail(lanes[j]) \in Seq(Deliveries)
    BY <2>1
  <2>3. lanes' \in [Jobs -> Seq(Deliveries)]
    BY <1>t, <1>6, <2>2 DEF BeginTurn, RestOK
  <2>4. QED
    BY <1>t, <1>6, <2>3 DEF BeginTurn, RestOK
<1>7. ASSUME NEW j \in Jobs, Prepare(j) PROVE RestOK'
  BY <1>t, <1>7 DEF Prepare, RestOK
<1>8. ASSUME NEW j \in Jobs, RecordInProgress(j) PROVE RestOK'
  BY <1>t, <1>8 DEF RecordInProgress, RestOK
<1>9. ASSUME NEW j \in Jobs, TakeOffQueue(j) PROVE RestOK'
  BY <1>t, <1>9 DEF TakeOffQueue, RestOK
<1>10. ASSUME NEW j \in Jobs, RunCLI(j) PROVE RestOK'
  BY <1>t, <1>10 DEF RunCLI, RestOK
<1>11. ASSUME NEW j \in Jobs, RecordFailed(j) PROVE RestOK'
  BY <1>t, <1>11 DEF RecordFailed, RestOK
<1>12. ASSUME NEW j \in Jobs, finishStoppedTurn(j) PROVE RestOK'
  BY <1>t, <1>12 DEF finishStoppedTurn, RestOK
<1>13. ASSUME NEW j \in Jobs, AutoCommit(j) PROVE RestOK'
  BY <1>t, <1>13 DEF AutoCommit, RestOK
<1>14. ASSUME NEW j \in Jobs, finishTurnWithReply(j) PROVE RestOK'
  BY <1>t, <1>14 DEF finishTurnWithReply, RestOK
<1>15. ASSUME NEW j \in Jobs, AfterAnswer(j) PROVE RestOK'
  BY <1>t, <1>15 DEF AfterAnswer, RestOK
<1>16. ASSUME NEW j \in Jobs, failInProgressJob(j) PROVE RestOK'
  BY <1>t, <1>16 DEF failInProgressJob, RestOK
<1>17. ASSUME NEW j \in Jobs, SendNotice(j) PROVE RestOK'
  BY <1>t, <1>17 DEF SendNotice, RestOK
<1>18. ASSUME NEW j \in Jobs, finishMessage(j) PROVE RestOK'
  BY <1>t, <1>18 DEF finishMessage, RestOK
<1>19. ASSUME NEW j \in Jobs, AckMessage(j) PROVE RestOK'
  BY <1>t, <1>19 DEF AckMessage, RestOK
<1>20. ASSUME NEW j \in Jobs, RecoverRow(j) PROVE RestOK'
  <2>1. mem.rows[j].message \in Messages
    BY <1>i, <1>20 DEF RecoverRow, RecoverInv, ShapeInv
  <2>2. lanes' \in [Jobs -> Seq(Deliveries)]
    BY <1>t, <1>d, <1>20, <2>1 DEF RecoverRow, RestOK
  <2>3. toRecover' \in [rows : SUBSET Jobs, messages : Queues]
    BY <1>t, <1>20 DEF RecoverRow, RestOK
  <2>4. QED
    BY <1>t, <1>20, <2>2, <2>3 DEF RecoverRow, RestOK
<1>21. ASSUME NEW r \in mem.outbox, SendReply(r) PROVE RestOK'
  BY <1>t, <1>21 DEF SendReply, RestOK, StatesOK, States
<1>22. ASSUME MarkShuttingDown PROVE RestOK'
  BY <1>t, <1>22 DEF MarkShuttingDown, RestOK
<1>23. ASSUME Exit PROVE RestOK'
  <2>1. toRecover' \in [rows : SUBSET Jobs, messages : Queues]
    BY <1>23 DEF Exit, NothingToRecover, EmptyQueue, Queues
  <2>2. lanes' \in [Jobs -> Seq(Deliveries)]
    BY <1>23 DEF Exit
  <2>3. QED
    BY <1>t, <1>23, <2>1, <2>2 DEF Exit, RestOK
<1>24. ASSUME RestoreAppState PROVE RestOK'
  <2>1. mem' \in States
    BY <1>t, <1>24, NewStates DEF RestoreAppState, LoadState, StatesOK
  <2>2. toRecover' \in [rows : SUBSET Jobs, messages : Queues]
    BY <1>24, <2>1 DEF RestoreAppState, States
  <2>3. life' \in 1 .. MaxLives
    BY <1>t, <1>i, <1>24, JournalAssumption DEF RestoreAppState, ShapeInv, RestOK
  <2>4. QED
    BY <1>t, <1>24, <2>2, <2>3 DEF RestoreAppState, RestOK
<1>25. CASE UNCHANGED journalVars
  BY <1>t, <1>25 DEF journalVars, RestOK
<1> QED
  BY <1>1, <1>2, <1>3, <1>4, <1>5, <1>6, <1>7, <1>8, <1>9, <1>10, <1>11, <1>12, <1>13,
     <1>14, <1>15, <1>16, <1>17, <1>18, <1>19, <1>20, <1>21, <1>22, <1>23, <1>24, <1>25
  DEF JournalNext, TurnStep


LEMMA NewTurn ==
  ASSUME NEW m \in Messages
  PROVE  /\ \A b \in BOOLEAN :
              LET t == [NoTurn EXCEPT !.pc = "prepare", !.message = m, !.start = b] IN
              t \in Turns /\ t.message = m
         /\ LET t == [NoTurn EXCEPT !.pc = "notice", !.message = m, !.notice = "notResumed"] IN
              t \in Turns /\ t.message = m
<1>1. NoTurn \in Turns
  BY DEF NoTurn, Turns, TurnSteps, Kinds
<1>2. QED
  BY <1>1 DEF Turns, TurnSteps, Kinds

LEMMA TurnsStep ==
  ASSUME IInv, [JournalNext]_journalVars
  PROVE  TurnsOK'
<1>t. StatesOK /\ TurnsOK /\ RestOK
  BY TypeParts DEF IInv
<1>i. ShapeInv /\ RecoverInv
  BY DEF IInv
<1>s. \A s \in {"prepare", "row", "unqueue", "cli", "failRow", "stopRow", "commit", "answer",
                 "after", "fail", "notice", "finish", "ack"} : s \in TurnSteps /\ s # "none"
  BY DEF TurnSteps
<1>h. \A j \in Jobs, pc \in TurnSteps, n \in Kinds :
        turn[j].pc # "none" /\ turn' = [turn EXCEPT ![j].pc = pc, ![j].notice = n] => TurnsOK'
  <2>1. TAKE j \in Jobs, pc \in TurnSteps, n \in Kinds
  <2>2. HAVE turn[j].pc # "none" /\ turn' = [turn EXCEPT ![j].pc = pc, ![j].notice = n]
  <2>3. turn[j] \in Turns /\ DOMAIN turn = Jobs
    BY <1>t DEF TurnsOK
  <2>4. \A i \in Jobs : i # j => turn'[i] = turn[i]
    BY <2>2, <2>3
  <2>5. turn'[j] \in Turns /\ turn'[j].message = turn[j].message
    BY <2>2, <2>3 DEF Turns
  <2>6. turn' \in [Jobs -> Turns]
    <3>1. turn' = [i \in Jobs |-> turn'[i]]
      BY <2>2, <2>3
    <3>2. \A i \in Jobs : turn'[i] \in Turns
      BY <1>t, <2>4, <2>5 DEF TurnsOK
    <3>3. QED
      BY <3>1, <3>2
  <2>7. QED
    BY <1>t, <2>2, <2>4, <2>5, <2>6 DEF TurnsOK
<1>f. \A j \in Jobs : turn[j].pc # "none" /\ Fail(j) => TurnsOK'
  BY <1>h, <1>s DEF Fail, Kinds
<1>g. \A j \in Jobs, pc \in TurnSteps : turn[j].pc # "none" /\ Goto(j, pc) => TurnsOK'
  BY <1>t DEF Goto, TurnsOK, Turns
<1>e. \A j \in Jobs : EndTurn(j) => TurnsOK'
  BY <1>t DEF EndTurn, NoTurn, TurnsOK, Turns, TurnSteps, Kinds
<1>1. ASSUME NEW m \in Messages, SendMessage(m) PROVE TurnsOK'
  BY <1>t, <1>1 DEF SendMessage, TurnsOK
<1>2. ASSUME NEW m \in Messages, PollMessage(m) PROVE TurnsOK'
  BY <1>t, <1>2 DEF PollMessage, TurnsOK
<1>3. ASSUME NEW m \in Messages, AckAgain(m) PROVE TurnsOK'
  BY <1>t, <1>3 DEF AckAgain, TurnsOK
<1>4. ASSUME NEW m \in Messages, Expire(m) PROVE TurnsOK'
  BY <1>t, <1>4 DEF Expire, TurnsOK
<1>5. ASSUME NEW m \in Messages, RecoverMessage(m) PROVE TurnsOK'
  BY <1>t, <1>5 DEF RecoverMessage, TurnsOK
<1>6. ASSUME NEW j \in Jobs, BeginTurn(j) PROVE TurnsOK'
  <2>1. CASE UNCHANGED turn
    BY <1>t, <2>1 DEF TurnsOK
  <2>2. CASE turn' # turn
    <3> DEFINE m == Head(lanes[j])[1]
    <3>1. PICK start \in BOOLEAN :
            turn' = [turn EXCEPT ![j] = [NoTurn EXCEPT !.pc = "prepare", !.message = m, !.start = start]]
      <4>1. mem.rows[j].session \in BOOLEAN
        BY <1>t DEF StatesOK, States, Rows
      <4>2. QED
        BY <1>6, <2>2, <4>1 DEF BeginTurn
    <3>2. m \in Messages /\ JobOf[m] = j
      <4>1. lanes[j] \in Seq(Deliveries) /\ lanes[j] # <<>>
        BY <1>t, <1>6 DEF BeginTurn, RestOK
      <4>2. QED
        BY <1>i, <4>1, TailLane DEF ShapeInv, Deliveries
    <3>3. [NoTurn EXCEPT !.pc = "prepare", !.message = m, !.start = start] \in Turns
            /\ [NoTurn EXCEPT !.pc = "prepare", !.message = m, !.start = start].message = m
      BY <3>2, NewTurn
    <3>4. QED
      BY <1>t, <3>1, <3>2, <3>3 DEF TurnsOK
  <2>3. QED
    BY <2>1, <2>2
<1>7. ASSUME NEW j \in Jobs, Prepare(j) PROVE TurnsOK'
  BY <1>f, <1>g, <1>s, <1>7 DEF Prepare, At
<1>8. ASSUME NEW j \in Jobs, RecordInProgress(j) PROVE TurnsOK'
  BY <1>f, <1>g, <1>s, <1>8 DEF RecordInProgress, At
<1>9. ASSUME NEW j \in Jobs, TakeOffQueue(j) PROVE TurnsOK'
  BY <1>f, <1>g, <1>s, <1>9 DEF TakeOffQueue, At
<1>10. ASSUME NEW j \in Jobs, RunCLI(j) PROVE TurnsOK'
  BY <1>f, <1>g, <1>s, <1>10 DEF RunCLI, At
<1>11. ASSUME NEW j \in Jobs, RecordFailed(j) PROVE TurnsOK'
  BY <1>f, <1>g, <1>s, <1>11 DEF RecordFailed, At
<1>12. ASSUME NEW j \in Jobs, finishStoppedTurn(j) PROVE TurnsOK'
  <2>1. turn' = [turn EXCEPT ![j].pc = "notice", ![j].notice = "stopped"] => TurnsOK'
    BY <1>h, <1>s, <1>12 DEF finishStoppedTurn, At, Kinds
  <2>2. QED
    BY <1>h, <1>s, <1>12, <2>1 DEF finishStoppedTurn, Fail, At, Kinds
<1>13. ASSUME NEW j \in Jobs, AutoCommit(j) PROVE TurnsOK'
  BY <1>f, <1>g, <1>s, <1>13 DEF AutoCommit, At
<1>14. ASSUME NEW j \in Jobs, finishTurnWithReply(j) PROVE TurnsOK'
  BY <1>f, <1>g, <1>s, <1>14 DEF finishTurnWithReply, At
<1>15. ASSUME NEW j \in Jobs, AfterAnswer(j) PROVE TurnsOK'
  <2>1. turn' = [turn EXCEPT ![j].pc = "fail", ![j].notice = "late"] => TurnsOK'
    BY <1>h, <1>s, <1>15 DEF AfterAnswer, At, Kinds
  <2>2. QED
    BY <1>g, <1>s, <1>15, <2>1 DEF AfterAnswer, At
<1>16. ASSUME NEW j \in Jobs, failInProgressJob(j) PROVE TurnsOK'
  BY <1>e, <1>g, <1>s, <1>16 DEF failInProgressJob, At
<1>17. ASSUME NEW j \in Jobs, SendNotice(j) PROVE TurnsOK'
  BY <1>f, <1>g, <1>s, <1>17 DEF SendNotice, At
<1>18. ASSUME NEW j \in Jobs, finishMessage(j) PROVE TurnsOK'
  BY <1>f, <1>g, <1>s, <1>18 DEF finishMessage, At
<1>19. ASSUME NEW j \in Jobs, AckMessage(j) PROVE TurnsOK'
  BY <1>e, <1>19 DEF AckMessage
<1>20. ASSUME NEW j \in Jobs, RecoverRow(j) PROVE TurnsOK'
  <2>1. CASE UNCHANGED turn
    BY <1>t, <2>1 DEF TurnsOK
  <2>2. CASE turn' # turn
    <3> DEFINE m == mem.rows[j].message
    <3>1. turn' = [turn EXCEPT ![j] = [NoTurn EXCEPT !.pc = "notice", !.message = m, !.notice = "notResumed"]]
      BY <1>20, <2>2 DEF RecoverRow
    <3>2. m \in Messages /\ JobOf[m] = j
      BY <1>i, <1>20 DEF RecoverRow, RecoverInv, ShapeInv
    <3>3. [NoTurn EXCEPT !.pc = "notice", !.message = m, !.notice = "notResumed"] \in Turns
            /\ [NoTurn EXCEPT !.pc = "notice", !.message = m, !.notice = "notResumed"].message = m
      BY <3>2, NewTurn
    <3>4. QED
      BY <1>t, <3>1, <3>2, <3>3 DEF TurnsOK
  <2>3. QED
    BY <2>1, <2>2
<1>21. ASSUME NEW r \in mem.outbox, SendReply(r) PROVE TurnsOK'
  BY <1>t, <1>21 DEF SendReply, TurnsOK
<1>22. ASSUME MarkShuttingDown PROVE TurnsOK'
  BY <1>t, <1>22 DEF MarkShuttingDown, TurnsOK
<1>23. ASSUME Exit PROVE TurnsOK'
  BY <1>23 DEF Exit, NoTurn, TurnsOK, Turns, TurnSteps, Kinds
<1>24. ASSUME RestoreAppState PROVE TurnsOK'
  BY <1>t, <1>24 DEF RestoreAppState, TurnsOK
<1>25. CASE UNCHANGED journalVars
  BY <1>t, <1>25 DEF journalVars, TurnsOK
<1> QED
  BY <1>1, <1>2, <1>3, <1>4, <1>5, <1>6, <1>7, <1>8, <1>9, <1>10, <1>11, <1>12, <1>13,
     <1>14, <1>15, <1>16, <1>17, <1>18, <1>19, <1>20, <1>21, <1>22, <1>23, <1>24, <1>25
  DEF JournalNext, TurnStep


-----------------------------------------------------------------------------

LEMMA Initially == JournalInit => IInv
<1>1. SUFFICES ASSUME JournalInit PROVE IInv
  OBVIOUS
<1>2. /\ mem = NewAppState /\ disk = NewAppState /\ process = "up" /\ life = 1
      /\ lanes = [j \in Jobs |-> <<>>] /\ turn = [j \in Jobs |-> NoTurn]
      /\ toRecover = [rows |-> {}, messages |-> EmptyQueue]
      /\ received = {} /\ skipped = {} /\ writeErrors = 0 /\ setAside = FALSE
      /\ backend = [m \in Messages |-> "new"]
  BY <1>1 DEF JournalInit, NothingToRecover
<1>3. /\ NewAppState.done = {} /\ NewAppState.outbox = {}
      /\ \A j \in Jobs : NewAppState.rows[j].status = "none"
  BY DEF NewAppState, NoRow
<1>4. \A j \in Jobs : turn[j].pc = "none" /\ lanes[j] = <<>>
  BY <1>2 DEF NoTurn
<1>5. TypeInv
  <2>1. StatesOK
    BY <1>2, NewStates, JournalAssumption DEF StatesOK
  <2>2. TurnsOK
    BY <1>2 DEF TurnsOK, Turns, NoTurn, TurnSteps, Kinds
  <2>3. RestOK
    <3>1. toRecover \in [rows : SUBSET Jobs, messages : Queues]
      BY <1>2 DEF Queues, EmptyQueue
    <3>2. lanes \in [Jobs -> Seq(Deliveries)]
      BY <1>2
    <3>3. backend \in [Messages -> {"new", "offered", "expired", "acked"}]
      BY <1>2
    <3>4. life \in 1 .. MaxLives
      BY <1>2, JournalAssumption
    <3>5. QED
      BY <1>2, <3>1, <3>2, <3>3, <3>4 DEF RestOK
  <2>4. QED
    BY <2>1, <2>2, <2>3, TypeParts
<1>6. ShapeInv /\ RecoverInv
  BY <1>2, <1>3, <1>4 DEF ShapeInv, RecoverInv, InProgress
<1>7. LaneInv
  BY <1>4 DEF LaneInv, LaneAt, Unanswered
<1>8. DoneInv
  BY <1>2, <1>3, <1>4 DEF DoneInv, DoneIsTold
<1>9. RowInv
  BY <1>2, <1>3, <1>4 DEF RowInv, RowAt, InProgress
<1>10. AnswerInv
  BY <1>2, <1>3, <1>4 DEF AnswerInv, AllReplies
<1>11. LateInv
  BY <1>2, <1>3, <1>4 DEF LateInv, LateTurn, AllReplies
<1>12. QED
  BY <1>5, <1>6, <1>7, <1>8, <1>9, <1>10, <1>11 DEF IInv

LEMMA Inductive == IInv /\ [JournalNext]_journalVars => IInv'
<1>1. SUFFICES ASSUME IInv, [JournalNext]_journalVars PROVE IInv'
  OBVIOUS
<1>2. Moved
  BY <1>1, StepMoves
<1>3. TypeInv'
  <2>1. StatesOK' /\ TurnsOK' /\ RestOK'
    BY <1>1, StatesStep, TurnsStep, RestStep
  <2>2. TypeInv' <=> StatesOK' /\ TurnsOK' /\ RestOK'
    BY TypeParts, PTL
  <2>3. QED
    BY <2>1, <2>2
<1>4. ShapeInv' /\ RecoverInv' /\ LaneInv'
  BY <1>1, <1>2, ShapeInvStep, RecoverInvStep, LaneInvStep
<1>5. DoneInv' /\ RowInv' /\ AnswerInv' /\ LateInv'
  BY <1>1, <1>2, DoneInvStep, RowInvStep, AnswerInvStep, LateInvStep
<1>6. QED
  BY <1>3, <1>4, <1>5 DEF IInv

LEMMA Invariance == JournalSpec => []IInv
<1>1. QED
  BY Initially, Inductive, PTL DEF JournalSpec

-----------------------------------------------------------------------------

(* The state, the file, the lanes and the turns stay what AppState          *)
(* (app_state.go), the dispatcher and runTurn (stop_turn.go:187) take them  *)
(* for; a turn works on a message of its own job.                     *)
THEOREM TypeCorrect == JournalSpec => []JournalTypeOK
<1>1. IInv => JournalTypeOK
  BY DEF IInv, TypeInv
<1>2. QED
  BY <1>1, Invariance, PTL

(* A message that memory or the file says is done has its reply stored in   *)
(* the same place or received (CompleteTurn writes both at once,           *)
(* app_state.go:339; runTurn stores its notice before it finishes the      *)
(* message, stop_turn.go:187), whatever writes fail and whenever the process    *)
(* dies.                                                                   *)
THEOREM DoneTold == JournalSpec => []DoneIsTold
<1>1. IInv => DoneIsTold
  BY DEF IInv, DoneInv
<1>2. QED
  BY <1>1, Invariance, PTL

(* A message is answered at most once over all lives of the process, unless *)
(* the state file was set aside.  A turn has either an answer (CompleteTurn,*)
(* app_state.go:339) or an error in its place; the error that one may post  *)
(* after its answer (messages.go:518-543, 903-928, by stop_turn.go:211-215)  *)
(* comes to a thread that has the answer or to whom it is still stored.     *)
THEOREM AnsweredOnce == JournalSpec => []OneAnswer
<1>1. ASSUME IInv PROVE OneAnswer
  <2>1. ASSUME ~setAside, NEW m \in Messages
        PROVE  Cardinality({r \in received \cup mem.outbox \cup disk.outbox :
                              r[1] = m /\ r[2] = "answer"}) <= 1
    <3> DEFINE S == {r \in received \cup mem.outbox \cup disk.outbox :
                       r[1] = m /\ r[2] = "answer"}
    <3>1. \A q, r \in S : q = r
      BY <1>1, <2>1 DEF IInv, AnswerInv, AllReplies
    <3>2. SUFFICES Cardinality(S) <= 1
      OBVIOUS
    <3> HIDE DEF S
    <3>3. CASE S = {}
      BY <3>3, FS_EmptySet
    <3>4. CASE S # {}
      <4>1. PICK r : S = {r}
        BY <3>1, <3>4
      <4>2. QED
        BY <4>1, FS_Singleton
    <3>5. QED
      BY <3>3, <3>4
  <2>2. \A m \in Messages, n \in 1 .. MaxLives :
          ~({<<m, "answer", n>>, <<m, "error", n>>} \subseteq received \cup mem.outbox)
    BY <1>1 DEF IInv, AnswerInv, AllReplies
  <2>3. ~setAside => \A m \in Messages, n \in 1 .. MaxLives :
          <<m, "late", n>> \in received \cup mem.outbox \cup disk.outbox =>
            <<m, "answer", n>> \in received \cup disk.outbox
    BY <1>1 DEF IInv, LateInv, AllReplies, Answered
  <2>4. QED
    BY <2>1, <2>2, <2>3 DEF OneAnswer
<1>2. QED
  BY <1>1, Invariance, PTL

(* Once recovery is over, a row in progress stands for a turn under way or  *)
(* a delivery that waits: none is left behind by a turn that ended          *)
(* (failInProgressJob, stop_turn.go:246, or the reply settles it) or by    *)
(* RecoverJobs (recovery.go:19).                                           *)
THEOREM RowsAreRun == JournalSpec => []InProgressIsRun
<1>1. IInv => InProgressIsRun
  BY DEF IInv, RowInv, RowAt, InProgress, InProgressIsRun, NothingToRecover
<1>2. QED
  BY <1>1, Invariance, PTL

=============================================================================
