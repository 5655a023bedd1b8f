----------------------------- MODULE TurnJournal -----------------------------
(***************************************************************************)
(* The state file and what a restart makes of it.  AppState keeps rows,    *)
(* queued messages, done messages and unsent replies in memory, and every  *)
(* change writes all of memory to the file: if the write fails the change  *)
(* stays in memory and the next write takes it along, except for           *)
(* CompleteTurn, which takes it back.  A turn writes at fixed points; the  *)
(* process may die between any two of them, or be shut down with its CLI.  *)
(* RestoreAppState and RecoverJobs start the next life from the file.      *)
(*                                                                         *)
(* Abstraction: a lane of the dispatcher is a queue of messages (see       *)
(* JobTurns), sending a stored reply is one step (see Outbox), and what    *)
(* git does is left out (see GitDelivery).                                 *)
(***************************************************************************)
EXTENDS Naturals, Sequences, FiniteSets

CONSTANTS
  Messages, Jobs, NoMessage,
  JobOf,           \* the job of a message
  First,           \* the messages that start their job
  Window,          \* the backend stops offering a message after an hour
  MaxWriteErrors,  \* bound: writes of the file that fail
  MaxLives         \* bound: runs of the process

ASSUME JournalAssumption ==
  /\ NoMessage \notin Messages
  /\ JobOf \in [Messages -> Jobs] /\ First \subseteq Messages
  /\ Window \in BOOLEAN /\ MaxWriteErrors \in Nat /\ MaxLives \in Nat \ {0}

VARIABLES
  mem, disk,       \* AppState and the state file
  process,         \* "up", "stopping" (SIGTERM was seen), "down"
  life,
  toRecover,       \* what RecoverJobs has still to look at
  lanes,           \* per job, deliveries waiting
  turn,            \* per job, the turn under way
  backend,         \* per message: not sent yet, offered by the poll, expired or acked
  received,        \* replies the backend has
  writeErrors,
  skipped,         \* history: rows whose branch could not be looked up
  setAside         \* history: a file was unreadable

stateVars == <<mem, disk, writeErrors>>
processVars == <<process, life, toRecover>>
workVars == <<lanes, turn>>
outsideVars == <<backend, received, setAside, skipped>>
journalVars == <<stateVars, processVars, workVars, outsideVars>>

-----------------------------------------------------------------------------

NoRow == [status |-> "none", message |-> NoMessage, session |-> FALSE]
Rows ==
  [status : {"none", "in_progress", "completed", "failed"},
   message : Messages \cup {NoMessage}, session : BOOLEAN]

Kinds == {"answer", "error", "stopped", "notResumed", "late"}
Replies == Messages \X Kinds \X (1 .. MaxLives)

\* The recovery queue holds a message with its type.
Queues == [Messages -> {"none", "start", "user"}]
EmptyQueue == [m \in Messages |-> "none"]

States ==
  [rows : [Jobs -> Rows], queued : Queues, done : SUBSET Messages,
   outbox : SUBSET Replies]
NewAppState ==
  [rows |-> [j \in Jobs |-> NoRow], queued |-> EmptyQueue, done |-> {}, outbox |-> {}]

NothingToRecover == [rows |-> {}, messages |-> EmptyQueue]

Deliveries == Messages \X {"start", "user"}

NoTurn == [pc |-> "none", message |-> NoMessage, start |-> FALSE, notice |-> "error"]
TurnSteps ==
  {"none", "prepare", "row", "unqueue", "cli", "failRow", "stopRow", "commit", "answer",
   "after", "fail", "notice", "finish", "ack"}

JournalTypeOK ==
  /\ mem \in States /\ disk \in States
  /\ process \in {"up", "stopping", "down"} /\ life \in 1 .. MaxLives
  /\ toRecover.rows \subseteq Jobs /\ toRecover.messages \in Queues
  /\ lanes \in [Jobs -> Seq(Deliveries)]
  /\ \A j \in Jobs :
       /\ turn[j].pc \in TurnSteps /\ turn[j].notice \in Kinds
       /\ turn[j].pc # "none" => turn[j].message \in Messages /\ JobOf[turn[j].message] = j
  /\ backend \in [Messages -> {"new", "offered", "expired", "acked"}]
  /\ skipped \subseteq Jobs
  /\ received \subseteq Replies
  /\ writeErrors \in 0 .. MaxWriteErrors /\ setAside \in BOOLEAN

JournalInit ==
  /\ mem = NewAppState /\ disk = NewAppState
  /\ process = "up" /\ life = 1
  /\ toRecover = NothingToRecover
  /\ lanes = [j \in Jobs |-> <<>>]
  /\ turn = [j \in Jobs |-> NoTurn]
  /\ backend = [m \in Messages |-> "new"]
  /\ received = {} /\ skipped = {}
  /\ writeErrors = 0 /\ setAside = FALSE

-----------------------------------------------------------------------------
(* The state and its file.                                                  *)

Running == process \in {"up", "stopping"}

\* A write fails before the rename, and leaves the file as it was.
WriteFails == writeErrors < MaxWriteErrors /\ writeErrors' = writeErrors + 1 /\ UNCHANGED disk

WriteWorks(new) == disk' = new /\ UNCHANGED writeErrors

persistStateLocked(new) == mem' = new /\ (WriteWorks(new) \/ WriteFails)

WithRow(j, r) == [mem EXCEPT !.rows[j] = r]
UpdateJobData(j, r) == WithRow(j, r)
RemoveJob(j) == WithRow(j, NoRow)

AddQueuedMessage(m, kind) == [mem EXCEPT !.queued[m] = kind]
RemoveQueuedMessage(m) == [mem EXCEPT !.queued[m] = "none"]

FailsJob(j, m) == mem.rows[j].status = "in_progress" /\ mem.rows[j].message = m
FailJobIfInProgress(j) == [mem EXCEPT !.rows[j].status = "failed"]

FinishMessage(m) == [mem EXCEPT !.done = @ \cup {m}, !.queued[m] = "none"]

AddOutboxMessage(r) == [mem EXCEPT !.outbox = @ \cup {r}]
RemoveOutboxMessage(r) == [mem EXCEPT !.outbox = @ \ {r}]

\* Mutant: the message is left to FinishMessage, one write later.
CompletedNotDone(j, m, reply) ==
  [mem EXCEPT
     !.rows[j] = [status |-> "completed", message |-> m, session |-> TRUE],
     !.outbox = @ \cup {reply}]

Completed(j, m, reply) ==
  [FinishMessage(m) EXCEPT
     !.rows[j] = [status |-> "completed", message |-> m, session |-> TRUE],
     !.outbox = @ \cup {reply}]

CompleteTurn(j, m, reply) ==
  \/ mem' = Completed(j, m, reply) /\ WriteWorks(Completed(j, m, reply))
  \/ UNCHANGED mem /\ WriteFails

-----------------------------------------------------------------------------
(* Messages come by the socket, at most once, and by the poll.             *)

Waiting(j) == {lanes[j][i][1] : i \in 1 .. Len(lanes[j])}
InFlight(m) ==
  m \in Waiting(JobOf[m]) \/ (turn[JobOf[m]].pc # "none" /\ turn[JobOf[m]].message = m)

Dispatch(m, kind) ==
  lanes' = IF m \in mem.done \/ InFlight(m) THEN lanes
           ELSE [lanes EXCEPT ![JobOf[m]] = Append(@, <<m, kind>>)]

PersistQueuedMessage(m, kind) == persistStateLocked(AddQueuedMessage(m, kind))

\* A user writes; the socket may be down.
SendMessage(m) ==
  /\ backend[m] = "new"
  /\ m \notin First => \E f \in First : JobOf[f] = JobOf[m] /\ backend[f] # "new"
  /\ backend' = [backend EXCEPT ![m] = "offered"]
  /\ \/ /\ process = "up" /\ toRecover = NothingToRecover
        /\ LET kind == IF m \in First THEN "start" ELSE "user"
           IN PersistQueuedMessage(m, kind) /\ Dispatch(m, kind)
     \/ UNCHANGED <<stateVars, lanes>>
  /\ UNCHANGED <<processVars, turn, received, setAside, skipped>>

\* The poll: done messages are acked again, those in flight are left alone.
PollMessage(m) ==
  /\ process = "up" /\ toRecover = NothingToRecover
  /\ backend[m] = "offered" /\ m \notin mem.done /\ ~InFlight(m)
  /\ LET kind == IF mem.rows[JobOf[m]] = NoRow THEN "start" ELSE "user"
     IN PersistQueuedMessage(m, kind) /\ Dispatch(m, kind)
  /\ UNCHANGED <<processVars, turn, backend, received, setAside, skipped>>

AckAgain(m) ==
  /\ process = "up" /\ backend[m] = "offered" /\ m \in mem.done
  /\ backend' = [backend EXCEPT ![m] = "acked"]
  /\ UNCHANGED <<stateVars, processVars, workVars, received, setAside, skipped>>

\* An hour after it was written the poll no longer lists a message.
Expire(m) ==
  /\ Window /\ backend[m] = "offered"
  /\ backend' = [backend EXCEPT ![m] = "expired"]
  /\ UNCHANGED <<stateVars, processVars, workVars, received, setAside, skipped>>

-----------------------------------------------------------------------------
(* A turn.                                                                  *)

Goto(j, pc) == turn' = [turn EXCEPT ![j].pc = pc]
Fail(j) == turn' = [turn EXCEPT ![j].pc = "fail", ![j].notice = "error"]

EndTurn(j) == turn' = [turn EXCEPT ![j] = NoTurn]

Msg(j) == turn[j].message

At(j, pc) == Running /\ turn[j].pc = pc

\* A reply to a job that is not known here is left for the poll, unacked.  A
\* job without a session starts over.
BeginTurn(j) ==
  /\ Running /\ turn[j] = NoTurn /\ lanes[j] # <<>>
  /\ lanes' = [lanes EXCEPT ![j] = Tail(@)]
  /\ LET m == Head(lanes[j])[1]
         start == Head(lanes[j])[2] = "start"
     IN IF ~start /\ mem.rows[j] = NoRow
          THEN UNCHANGED turn
          ELSE turn' = [turn EXCEPT ![j] =
                 [NoTurn EXCEPT !.pc = "prepare", !.message = m,
                                !.start = start \/ ~mem.rows[j].session]]
  /\ UNCHANGED <<stateVars, processVars, outsideVars>>

\* The job is abandoned if its branch was deleted on the remote.
Prepare(j) ==
  /\ At(j, "prepare")
  /\ \/ Goto(j, "row") /\ UNCHANGED stateVars
     \/ Fail(j) /\ UNCHANGED stateVars
     \/ ~turn[j].start /\ Fail(j) /\ persistStateLocked(RemoveJob(j))
  /\ UNCHANGED <<processVars, lanes, outsideVars>>

RecordInProgress(j) ==
  /\ At(j, "row")
  /\ LET new == UpdateJobData(j, [status |-> "in_progress", message |-> Msg(j),
                                  session |-> ~turn[j].start /\ mem.rows[j].session])
     IN /\ mem' = new
        /\ \/ WriteWorks(new) /\ Goto(j, "unqueue")
           \/ WriteFails /\ Fail(j)
  /\ UNCHANGED <<processVars, lanes, outsideVars>>

TakeOffQueue(j) ==
  /\ At(j, "unqueue")
  /\ persistStateLocked(RemoveQueuedMessage(Msg(j)))
  /\ Goto(j, "cli")
  /\ UNCHANGED <<processVars, lanes, outsideVars>>

\* Without the CLI (its attachments cannot be fetched) the turn just ends.  So does
\* a start whose CLI failed in a shutdown; its row stays in progress.
RunCLI(j) ==
  /\ At(j, "cli")
  /\ \/ Goto(j, "commit")
     \/ Goto(j, "stopRow")
     \/ Fail(j)
     \/ ~(turn[j].start /\ process = "stopping") /\ Goto(j, "failRow")
  /\ UNCHANGED <<stateVars, processVars, lanes, outsideVars>>

\* A CLI that ran into its time limit leaves a session.  An error of this write is
\* only logged.
RecordFailed(j) ==
  /\ At(j, "failRow")
  /\ \E session \in BOOLEAN :
       /\ mem.rows[j].session => session
       /\ persistStateLocked(UpdateJobData(j, [status |-> "failed", message |-> Msg(j),
                                               session |-> session]))
  /\ Fail(j)
  /\ UNCHANGED <<processVars, lanes, outsideVars>>

\* finishStoppedTurn, with or without a session to go on with.
finishStoppedTurn(j) ==
  /\ At(j, "stopRow")
  /\ \E session \in BOOLEAN :
       /\ mem.rows[j].session => session
       /\ LET new == UpdateJobData(j, [status |-> "completed", message |-> Msg(j),
                                       session |-> session])
          IN /\ mem' = new
             /\ \/ WriteWorks(new)
                   /\ turn' = [turn EXCEPT ![j].pc = "notice", ![j].notice = "stopped"]
                \/ WriteFails /\ Fail(j)
  /\ UNCHANGED <<processVars, lanes, outsideVars>>

AutoCommit(j) ==
  /\ At(j, "commit")
  /\ Goto(j, "answer") \/ Fail(j)
  /\ UNCHANGED <<stateVars, processVars, lanes, outsideVars>>

Reply(j, kind) == <<Msg(j), kind, life>>

\* The reply is not sent if the write fails.
finishTurnWithReply(j) ==
  /\ At(j, "answer")
  /\ CompleteTurn(j, Msg(j), Reply(j, "answer"))
  /\ IF Reply(j, "answer") \in disk'.outbox THEN Goto(j, "after") ELSE Fail(j)
  /\ UNCHANGED <<processVars, lanes, outsideVars>>

\* The activity notice and the footer; an error here is one after the answer.
AfterAnswer(j) ==
  /\ At(j, "after")
  /\ \/ Goto(j, "finish")
     \/ turn' = [turn EXCEPT ![j].pc = "fail", ![j].notice = "late"]
  /\ UNCHANGED <<stateVars, processVars, lanes, outsideVars>>

\* Mutant: the row is left in progress.
failInProgressJobLeft(j) ==
  /\ At(j, "fail")
  /\ IF process = "stopping" THEN EndTurn(j) ELSE Goto(j, "notice")
  /\ UNCHANGED <<stateVars, processVars, lanes, outsideVars>>

\* Mutant: in a shutdown the message is finished all the same.
failInProgressJobFinished(j) ==
  /\ At(j, "fail")
  /\ Goto(j, IF process = "stopping" THEN "finish" ELSE "notice")
  /\ IF FailsJob(j, Msg(j)) THEN persistStateLocked(FailJobIfInProgress(j))
                            ELSE UNCHANGED stateVars
  /\ UNCHANGED <<processVars, lanes, outsideVars>>

\* runTurn after an error: in a shutdown the message is left for recovery.
failInProgressJob(j) ==
  /\ At(j, "fail")
  /\ \/ process = "stopping" /\ EndTurn(j) /\ UNCHANGED stateVars
     \/ /\ process = "up" /\ Goto(j, "notice")
        /\ IF FailsJob(j, Msg(j)) THEN persistStateLocked(FailJobIfInProgress(j))
                                  ELSE UNCHANGED stateVars
  /\ UNCHANGED <<processVars, lanes, outsideVars>>

\* Mutant: a notice whose write failed is taken back.
SendNoticeTakenBack(j) ==
  /\ At(j, "notice")
  /\ LET new == AddOutboxMessage(Reply(j, turn[j].notice))
     IN (mem' = new /\ WriteWorks(new)) \/ (UNCHANGED mem /\ WriteFails)
  /\ Goto(j, "finish")
  /\ UNCHANGED <<processVars, lanes, outsideVars>>

SendNotice(j) ==
  /\ At(j, "notice")
  /\ persistStateLocked(AddOutboxMessage(Reply(j, turn[j].notice)))
  /\ Goto(j, "finish")
  /\ UNCHANGED <<processVars, lanes, outsideVars>>

finishMessage(j) ==
  /\ At(j, "finish")
  /\ persistStateLocked(FinishMessage(Msg(j)))
  /\ Goto(j, "ack")
  /\ UNCHANGED <<processVars, lanes, outsideVars>>

AckMessage(j) ==
  /\ At(j, "ack")
  /\ EndTurn(j)
  /\ backend' \in {backend, [backend EXCEPT ![Msg(j)] = "acked"]}
  /\ UNCHANGED <<stateVars, processVars, lanes, received, setAside, skipped>>

\* The sender, once recovery is over.
SendReply(r) ==
  /\ Running /\ toRecover = NothingToRecover
  /\ r \in mem.outbox
  /\ received' = received \cup {r}
  /\ persistStateLocked(RemoveOutboxMessage(r))
  /\ UNCHANGED <<processVars, workVars, backend, setAside, skipped>>

TurnStep(j) ==
  \/ Prepare(j) \/ RecordInProgress(j) \/ TakeOffQueue(j) \/ RunCLI(j) \/ RecordFailed(j)
  \/ finishStoppedTurn(j) \/ AutoCommit(j) \/ finishTurnWithReply(j) \/ AfterAnswer(j)
  \/ failInProgressJob(j) \/ SendNotice(j) \/ finishMessage(j) \/ AckMessage(j)

-----------------------------------------------------------------------------
(* The end of a life, and the start of the next.                           *)

MarkShuttingDown ==
  /\ process = "up" /\ life < MaxLives
  /\ process' = "stopping"
  /\ UNCHANGED <<stateVars, life, toRecover, workVars, outsideVars>>

\* A crash, or the end of a shutdown, which waits for the turns under way until
\* the host loses patience.
Exit ==
  /\ Running /\ life < MaxLives
  /\ process' = "down"
  /\ mem' = NewAppState
  /\ lanes' = [j \in Jobs |-> <<>>] /\ turn' = [j \in Jobs |-> NoTurn]
  /\ toRecover' = NothingToRecover
  /\ UNCHANGED <<disk, writeErrors, life, outsideVars>>

LoadState == disk

\* A file that cannot be read is set aside, and the state starts out empty.
RestoreAppState ==
  /\ process = "down"
  /\ process' = "up" /\ life' = life + 1
  /\ \/ /\ mem' = LoadState
        /\ UNCHANGED <<disk, setAside>>
     \/ /\ ~setAside
        /\ mem' = NewAppState /\ disk' = NewAppState /\ setAside' = TRUE
  /\ toRecover' = [rows |-> {j \in Jobs : mem'.rows[j].status = "in_progress"},
                   messages |-> mem'.queued]
  /\ UNCHANGED <<writeErrors, workVars, backend, received, skipped>>

\* Phase 1.  A job that is too old, or whose branch or worktree is gone, is
\* dropped and its thread told; if the branch cannot be looked up it is skipped.
Telling == \E j \in Jobs : turn[j].notice = "notResumed"

RecoverRow(j) ==
  LET r == mem.rows[j] IN
  /\ Running /\ j \in toRecover.rows /\ ~Telling
  /\ toRecover' = [toRecover EXCEPT !.rows = @ \ {j}]
  /\ \/ /\ Dispatch(r.message, IF r.session THEN "user" ELSE "start")
        /\ UNCHANGED <<stateVars, turn, skipped>>
     \/ /\ persistStateLocked(RemoveJob(j))
        /\ turn' = [turn EXCEPT ![j] =
             [NoTurn EXCEPT !.pc = "notice", !.message = r.message, !.notice = "notResumed"]]
        /\ UNCHANGED <<lanes, skipped>>
     \/ /\ skipped' = skipped \cup {j}
        /\ UNCHANGED <<stateVars, lanes, turn>>
  /\ UNCHANGED <<process, life, backend, received, setAside>>

\* Phase 2, for entries that hold the whole payload: dropped if the message is
\* done, is the row's own or is a day old.
Drops(m) ==
  m \in mem.done \/ mem.rows[JobOf[m]].message = m \/ (Window /\ backend[m] # "offered")

RecoverMessage(m) ==
  LET kind == toRecover.messages[m] IN
  /\ Running /\ toRecover.rows = {} /\ kind # "none" /\ ~Telling
  /\ toRecover' = [toRecover EXCEPT !.messages[m] = "none"]
  /\ \/ Drops(m) /\ persistStateLocked(RemoveQueuedMessage(m)) /\ UNCHANGED lanes
     \/ /\ m \notin mem.done /\ mem.rows[JobOf[m]].message # m
        /\ IF mem.rows[JobOf[m]] = NoRow /\ kind = "user"
             THEN UNCHANGED lanes
             ELSE Dispatch(m, kind)
        /\ UNCHANGED stateVars
  /\ UNCHANGED <<process, life, turn, outsideVars>>

JournalNext ==
  \/ \E m \in Messages :
       SendMessage(m) \/ PollMessage(m) \/ AckAgain(m) \/ Expire(m) \/ RecoverMessage(m)
  \/ \E j \in Jobs : BeginTurn(j) \/ TurnStep(j) \/ RecoverRow(j)
  \/ \E r \in mem.outbox : SendReply(r)
  \/ MarkShuttingDown \/ Exit \/ RestoreAppState

JournalSpec == JournalInit /\ [][JournalNext]_journalVars

-----------------------------------------------------------------------------
(* Properties.                                                              *)

Told(m, replies) == \E r \in replies : r[1] = m

\* Neither memory nor the file ever says that a message is done while its
\* thread has got no reply and none is stored there with it.
DoneIsTold ==
  \A s \in {mem, disk} : \A m \in s.done : Told(m, s.outbox \cup received)

\* A message is answered at most once, whenever the process dies (CompleteTurn:
\* "Written apart, a crash between them gives a second reply"), unless the state file
\* was set aside.  A turn has either an answer or an error in its place.  One that
\* answered may still post an error, of the activity notice or the footer ("late"); the
\* thread has its answer then, or the file has it to send, again unless set aside.
OneAnswer ==
  /\ ~setAside => \A m \in Messages :
       Cardinality({r \in received \cup mem.outbox \cup disk.outbox :
                      r[1] = m /\ r[2] = "answer"}) <= 1
  /\ \A m \in Messages, n \in 1 .. MaxLives :
       ~({<<m, "answer", n>>, <<m, "error", n>>} \subseteq received \cup mem.outbox)
  /\ ~setAside => \A m \in Messages, n \in 1 .. MaxLives :
       <<m, "late", n>> \in received \cup mem.outbox \cup disk.outbox =>
         <<m, "answer", n>> \in received \cup disk.outbox

\* With recovery over, a job in progress has its turn, under way or waiting: no
\* row keeps a worker for nothing.
InProgressIsRun ==
  \A j \in Jobs :
    /\ process = "up" /\ j \notin skipped /\ mem.rows[j].status = "in_progress"
    /\ toRecover = NothingToRecover
    => InFlight(mem.rows[j].message)

\* A reply whose turn ends with an error in a shutdown is run again after the
\* restart (stop_turn.go:207: "Most likely the CLI was killed with us; recovery
\* reruns the turn after the restart"): by recovery, or as the backend still offers it.
RestartReplays ==
  [][\A j \in Jobs :
       /\ process = "stopping" /\ turn[j].pc = "fail" /\ ~turn[j].start /\ turn'[j] = NoTurn
       /\ process' = process
       => LET m == turn[j].message IN
          \/ Told(m, received \cup disk.outbox) \/ backend[m] = "offered" \/ disk.queued[m] # "none"
          \/ disk.rows[j].status = "in_progress" /\ disk.rows[j].message = m]_journalVars

\* Every message the backend keeps offering is told of in the end, unless its
\* reply was in a file that could not be read.
EveryMessageIsTold ==
  \A m \in Messages :
    backend[m] = "offered" ~> Told(m, received) \/ backend[m] = "expired" \/ setAside

FairJournalSpec ==
  /\ JournalSpec
  /\ WF_journalVars(RestoreAppState)
  /\ WF_journalVars(process = "stopping" /\ Exit)
  /\ \A m \in Messages : WF_journalVars(PollMessage(m)) /\ WF_journalVars(RecoverMessage(m))
  /\ \A j \in Jobs :
       WF_journalVars(BeginTurn(j)) /\ WF_journalVars(TurnStep(j)) /\ WF_journalVars(RecoverRow(j))
  /\ WF_journalVars(\E r \in mem.outbox : SendReply(r))
=============================================================================
