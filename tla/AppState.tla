------------------------------ MODULE AppState ------------------------------
(***************************************************************************)
(* The part of models.AppState that the threads of one agent share: the    *)
(* job rows, the queue of messages kept for crash recovery and the record  *)
(* of messages whose turn is over.  Every mutator of the Go type runs      *)
(* under one mutex, so each operator below is one atomic write.            *)
(*                                                                         *)
(* Abstraction: a row keeps its status and the message it was written for; *)
(* branch, worktree, prompt and session stay out.  UpdatedAt only matters  *)
(* to an idle check, which compares the value it read with the current     *)
(* one, so it is represented by the set of checks whose copy is still      *)
(* current.  Writing the state file succeeds here; a write that fails and  *)
(* a crash between two writes belong to the state file's own module.       *)
(***************************************************************************)
EXTENDS Integers, Sequences, FiniteSets

CONSTANTS
  Jobs,        \* conversations
  Messages,    \* processed message ids
  JobOf,       \* the job a message belongs to
  IdleChecks,  \* threads that run the idle check
  None         \* no message, no row

ASSUME JobOfAssumption == JobOf \in [Messages -> Jobs]
ASSUME NoneAssumption == None \notin Messages

VARIABLES
  jobs,            \* job rows
  snapshots,       \* per job, the idle checks whose copy of the row is current
  queuedMessages,  \* messages kept for crash recovery
  doneMessages     \* messages whose turn is over

appStateVars == <<jobs, snapshots, queuedMessages, doneMessages>>

JobStatus == {"in_progress", "completed", "failed"}
NoRow == [status |-> "absent", msg |-> None]
Rows == [status : JobStatus, msg : Messages \cup {None}] \cup {NoRow}

HasRow(j) == jobs[j].status # "absent"

AppStateTypeOK ==
  /\ jobs \in [Jobs -> Rows]
  /\ snapshots \in [Jobs -> SUBSET IdleChecks]
  /\ queuedMessages \subseteq Messages
  /\ doneMessages \subseteq Messages

(* A restarted agent finds rows of finished turns; recovery has removed or *)
(* replayed the rows of unfinished ones before any message is dispatched.  *)
AppStateInit ==
  /\ jobs \in [Jobs -> {NoRow, [status |-> "completed", msg |-> None]}]
  /\ snapshots = [j \in Jobs |-> {}]
  /\ queuedMessages = {}
  /\ doneMessages = {}

-----------------------------------------------------------------------------

UpdateJobData(j, status, m) ==
  /\ jobs' = [jobs EXCEPT ![j] = [status |-> status, msg |-> m]]
  /\ snapshots' = [snapshots EXCEPT ![j] = {}]

RemoveJob(j) ==
  /\ jobs' = [jobs EXCEPT ![j] = NoRow]
  /\ snapshots' = [snapshots EXCEPT ![j] = {}]

(* Only while the row is still in progress for this message, so a turn     *)
(* that unwinds late cannot fail the turn that took the job after it.      *)
FailJobIfInProgress(j, m) ==
  IF jobs[j] = [status |-> "in_progress", msg |-> m]
    THEN UpdateJobData(j, "failed", m)
    ELSE UNCHANGED <<jobs, snapshots>>

ReadJobData(i, j) == snapshots' = [snapshots EXCEPT ![j] = @ \cup {i}]

DropJobData(i) == snapshots' = [j \in Jobs |-> snapshots[j] \ {i}]

AddQueuedMessage(m) == queuedMessages' = queuedMessages \cup {m}

RemoveQueuedMessage(m) == queuedMessages' = queuedMessages \ {m}

RemoveQueuedMessagesForJob(j) ==
  queuedMessages' = {m \in queuedMessages : JobOf[m] # j}

FinishMessage(m) ==
  /\ doneMessages' = doneMessages \cup {m}
  /\ queuedMessages' = queuedMessages \ {m}

(* The finished row, the done record and the queue entry in one write.     *)
CompleteTurn(j, m) ==
  /\ UpdateJobData(j, "completed", m)
  /\ FinishMessage(m)

=============================================================================
