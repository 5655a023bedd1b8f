------------------------------- MODULE CliRun -------------------------------
(***************************************************************************)
(* One run of an agent CLI: the process tree nairid starts, os/exec that   *)
(* watches its context, the ladder of signals that ends a run cut short    *)
(* (clients/process_unix.go), and the way its output becomes a turn's      *)
(* answer, in the client, the service and the message handler.             *)
(*                                                                         *)
(* The CLI may start helpers in its process group and processes outside    *)
(* it (setsid); each may hold the CLI's output open.  A signal other than  *)
(* SIGKILL may be ignored, so it forces nothing: a process may end at any  *)
(* time.  A process id is not reused while the ladder waits.               *)
(*                                                                         *)
(* Of the output only what the parsers tell apart is kept: whether it      *)
(* holds the bootstrap session id of a resumed Claude session, the         *)
(* session's own id, text of the agent, and the message that ends a run.   *)
(***************************************************************************)
EXTENDS Naturals

CONSTANT Agents

\* The CLIs whose output nairid can read (services/).
ASSUME AgentsAssumption == Agents \subseteq {"claude", "codex", "cursor", "opencode"}

VARIABLES
  agent,      \* the CLI of this run
  resumed,    \* the run continues a session the job knows
  printed,    \* what the CLI's output holds so far
  exit,       \* how the CLI ended
  tree,       \* the CLI ("leader"), a helper in its group, one outside it
  holders,    \* processes that hold the CLI's output open
  reaped,     \* the CLI has been waited for
  stopped,    \* the turn's context is cancelled
  runError,   \* why the run's own context is done
  watcher,    \* os/exec's goroutine: watching, delaying, overrun, done
  ladder,     \* the stop goroutine: none, interrupted, terminated, over
  pc,         \* where the thread that runs the turn is
  error,      \* the error of the step before
  session,    \* the session id that goes with it
  answer,     \* what the turn has come to
  cut         \* history: the CLI was running when it was interrupted

treeVars == <<printed, exit, tree, holders>>
contextVars == <<stopped, runError>>
execVars == <<reaped, watcher, ladder, cut>>
turnVars == <<pc, error, session, answer>>
cliVars == <<agent, resumed, treeVars, contextVars, execVars, turnVars>>

-----------------------------------------------------------------------------

Group == {"leader", "helper"}
Processes == Group \cup {"outsider"}
Sessions == {"", "unknown", "bootstrap", "real"}
Steps == {"start", "read", "reap", "collect", "output", "client", "service", "handler", "done"}

CliRunTypeOK ==
  /\ agent \in Agents /\ resumed \in BOOLEAN
  /\ printed \in [bootstrap : BOOLEAN, session : BOOLEAN, text : BOOLEAN,
                  result : {"none", "ok", "error"}]
  /\ exit \in {"none", "ok", "error"}
  /\ tree \in [Processes -> {"none", "running", "ended"}]
  /\ holders \subseteq Processes
  /\ reaped \in BOOLEAN /\ cut \in BOOLEAN /\ stopped \in BOOLEAN
  /\ runError \in {"none", "canceled", "deadline"}
  /\ watcher \in {"watching", "delaying", "overrun", "done"}
  /\ ladder \in {"none", "interrupted", "terminated", "over"}
  /\ pc \in Steps
  /\ error \in {"none", "start", "command", "timeout", "stopped", "failed"}
  /\ session \in Sessions
  /\ answer \in {"none", "result", "text", "empty"}

CliRunInit ==
  /\ agent \in Agents /\ resumed \in BOOLEAN
  /\ printed = [bootstrap |-> FALSE, session |-> FALSE, text |-> FALSE, result |-> "none"]
  /\ exit = "none" /\ tree = [p \in Processes |-> "none"] /\ holders = {}
  /\ reaped = FALSE /\ cut = FALSE
  /\ stopped = FALSE /\ runError = "none"
  /\ watcher = "watching" /\ ladder = "none"
  /\ pc = "start" /\ error = "none" /\ session = "" /\ answer = "none"

Running(p) == tree[p] = "running"

\* Mutant: only the CLI itself is looked for.
LeaderAlive == Running("leader") \/ (tree["leader"] = "ended" /\ ~reaped)

\* kill(-pid, 0): an ended CLI counts until it has been waited for.
GroupAlive == Running("helper") \/ Running("leader") \/ (tree["leader"] = "ended" /\ ~reaped)

OutputOpen == \E p \in holders : Running(p)

-----------------------------------------------------------------------------
(* The process tree. *)

PrintLine(line) ==
  /\ Running("leader")
  /\ CASE line = "bootstrap" -> agent = "claude" /\ resumed /\ ~printed.session
       [] line = "session" -> TRUE
       [] line = "text" -> printed.session /\ printed.result = "none"
  /\ printed' = [printed EXCEPT ![line] = TRUE]
  /\ UNCHANGED <<agent, resumed, exit, tree, holders, contextVars, execVars, turnVars>>

PrintResult(result) ==
  /\ Running("leader") /\ printed.session /\ printed.result = "none"
  /\ agent \in {"claude", "cursor"}
  /\ printed' = [printed EXCEPT !.result = result]
  /\ UNCHANGED <<agent, resumed, exit, tree, holders, contextVars, execVars, turnVars>>

\* A process outside the group that does not hold the output has no part in this.
Spawn(p, holds) ==
  /\ Running("leader") /\ tree[p] = "none" /\ (p = "outsider" => holds)
  /\ tree' = [tree EXCEPT ![p] = "running"]
  /\ holders' = IF holds THEN holders \cup {p} ELSE holders
  /\ UNCHANGED <<agent, resumed, printed, exit, contextVars, execVars, turnVars>>

End(p, status) ==
  /\ Running(p)
  /\ tree' = [tree EXCEPT ![p] = "ended"]
  /\ exit' = IF p = "leader" THEN status ELSE exit
  /\ UNCHANGED <<agent, resumed, printed, holders, contextVars, execVars, turnVars>>

ProcessStep ==
  \/ \E line \in {"bootstrap", "session", "text"} : ~printed[line] /\ PrintLine(line)
  \/ \E result \in {"ok", "error"} : PrintResult(result)
  \/ \E p \in {"helper", "outsider"}, holds \in BOOLEAN : Spawn(p, holds)
  \/ \E p \in Processes, status \in {"ok", "error"} : End(p, status)

-----------------------------------------------------------------------------
(* The contexts, os/exec's goroutine and the ladder of signals. *)

BeforeReturn == pc \in {"start", "read", "reap", "collect", "output", "client"}

PressStop ==
  /\ pc # "done" /\ ~stopped
  /\ stopped' = TRUE
  /\ runError' = IF BeforeReturn /\ runError = "none" THEN "canceled" ELSE runError
  /\ UNCHANGED <<agent, resumed, treeVars, execVars, turnVars>>

Deadline ==
  /\ BeforeReturn /\ runError = "none"
  /\ runError' = "deadline"
  /\ UNCHANGED <<agent, resumed, stopped, treeVars, execVars, turnVars>>

\* Until Wait has asked for its report, the goroutine may yet see the context end.
Cancel ==
  /\ pc \in {"read", "reap", "collect"} /\ watcher = "watching" /\ runError # "none"
  /\ watcher' = "delaying"
  /\ ladder' = IF GroupAlive THEN "interrupted" ELSE ladder
  /\ cut' = Running("leader")
  /\ UNCHANGED <<agent, resumed, treeVars, contextVars, reaped, turnVars>>

Terminate ==
  /\ ladder = "interrupted"
  /\ ladder' = IF GroupAlive THEN "terminated" ELSE "over"
  /\ UNCHANGED <<agent, resumed, treeVars, contextVars, reaped, watcher, cut, turnVars>>

KillProcesses(killed) ==
  /\ tree' = [p \in Processes |-> IF p \in killed /\ Running(p) THEN "ended" ELSE tree[p]]
  /\ exit' = IF "leader" \in killed /\ Running("leader") THEN "error" ELSE exit
  /\ UNCHANGED <<printed, holders>>

Kill ==
  /\ ladder = "terminated"
  /\ ladder' = "over"
  /\ KillProcesses(IF GroupAlive THEN Group ELSE {})
  /\ UNCHANGED <<agent, resumed, contextVars, reaped, watcher, cut, turnVars>>

\* WaitDelayAfterCancel outlasts the ladder.
DelayEnds ==
  /\ pc \in {"read", "reap", "collect"} /\ watcher = "delaying" /\ ladder \in {"none", "over"}
  /\ watcher' = "overrun"
  /\ KillProcesses({"leader"})
  /\ UNCHANGED <<agent, resumed, contextVars, reaped, ladder, cut, turnVars>>

-----------------------------------------------------------------------------
(* The turn's thread: the client. *)

At(step) == pc = step /\ UNCHANGED <<agent, resumed>>

\* A run whose context is done already is not started.
Start ==
  /\ At("start")
  /\ \/ /\ runError = "none"
        /\ tree' = [tree EXCEPT !["leader"] = "running"] /\ holders' = {"leader"}
        /\ pc' = IF agent = "cursor" THEN "reap" ELSE "read"
        /\ UNCHANGED error
     \/ /\ error' = "start" /\ pc' = "client"
        /\ UNCHANGED <<tree, holders>>
  /\ UNCHANGED <<printed, exit, contextVars, execVars, session, answer>>

\* RunCommandStreaming reads to the end of the output before it waits.
ReadOutput ==
  /\ At("read") /\ ~OutputOpen
  /\ pc' = "reap"
  /\ UNCHANGED <<treeVars, contextVars, execVars, error, session, answer>>

Reap ==
  /\ At("reap") /\ tree["leader"] = "ended"
  /\ reaped' = TRUE /\ pc' = "collect"
  /\ UNCHANGED <<treeVars, contextVars, watcher, ladder, cut, error, session, answer>>

\* Wait reports a context that ended even when the CLI exited with 0.
Collect ==
  /\ At("collect")
  /\ watcher' = "done"
  /\ error' = IF exit = "error" \/ watcher # "watching" THEN "command" ELSE "none"
  /\ pc' = IF agent = "cursor" /\ watcher # "overrun" THEN "output" ELSE "client"
  /\ UNCHANGED <<treeVars, contextVars, reaped, ladder, cut, session, answer>>

\* CombinedOutput gives up on the output after the delay.
AwaitOutput ==
  /\ At("output")
  /\ pc' = "client"
  /\ \/ ~OutputOpen /\ UNCHANGED error
     \/ OutputOpen /\ error' = "command"
  /\ UNCHANGED <<treeVars, contextVars, execVars, session, answer>>

handleCommandError ==
  /\ At("client")
  /\ error' = IF runError = "deadline"
                  /\ (error = "command" \/ (error = "start" /\ agent = "cursor"))
                THEN "timeout" ELSE error
  /\ pc' = "service"
  /\ UNCHANGED <<treeVars, contextVars, execVars, session, answer>>

-----------------------------------------------------------------------------
(* The turn's thread: the service, and the message handler. *)

SessionIDFromOutput == IF printed.session THEN "real" ELSE ""

ExtractSessionID ==
  IF printed.session THEN "real" ELSE IF printed.bootstrap THEN "bootstrap" ELSE "unknown"

\* What the parser of the CLI takes for the answer; "none" is its error.
ExtractResult ==
  CASE agent = "claude" ->
         IF printed.result # "none" THEN "result" ELSE IF printed.text THEN "text" ELSE "empty"
    [] agent = "codex" -> IF printed.text THEN "text" ELSE "none"
    [] agent = "cursor" -> IF printed.result # "none" THEN "result" ELSE "none"
    [] agent = "opencode" -> IF printed.text THEN "text" ELSE "empty"

Return(newError, newSession, newAnswer) ==
  /\ error' = newError /\ session' = newSession /\ answer' = newAnswer
  /\ UNCHANGED <<treeVars, contextVars, execVars>>

TurnStoppedError ==
  /\ At("service") /\ error # "none" /\ stopped
  /\ Return("stopped", SessionIDFromOutput, "none")
  /\ pc' = "handler"

Finish ==
  /\ At("service") /\ error = "none"
  /\ IF ExtractResult = "none" THEN Return("failed", "", "none")
     ELSE Return("none", ExtractSessionID, ExtractResult)
  /\ pc' = "handler"

\* Claude may fail after a result that is none the less an answer.
Answered == agent = "claude" /\ printed.result = "ok"

\* Mutant: the last text of a run killed at its deadline is taken for its answer.
RunTimedOutRecovered ==
  /\ At("service") /\ error = "timeout" /\ ~stopped
  /\ IF Answered \/ (agent = "claude" /\ printed.text)
       THEN Return("none", ExtractSessionID, "text")
     ELSE Return("timeout", SessionIDFromOutput, "none")
  /\ pc' = "handler"

RunTimedOut ==
  /\ At("service") /\ error = "timeout" /\ ~stopped
  /\ IF Answered THEN Return("none", ExtractSessionID, "result")
     ELSE Return("timeout", SessionIDFromOutput, "none")
  /\ pc' = "handler"

\* A Claude run that broke off without a result is answered with its last text.
RunFailed ==
  /\ At("service") /\ error \in {"start", "command"} /\ ~stopped
  /\ IF error = "command" /\ Answered
       THEN Return("none", ExtractSessionID, "result")
     ELSE IF error = "command" /\ agent = "claude" /\ printed.result = "none" /\ printed.text
       THEN Return("none", ExtractSessionID, "text")
     ELSE Return("failed", "", "none")
  /\ pc' = "handler"

Known == IF resumed THEN "real" ELSE ""

\* A stop that comes after a timeout was reported does not see its session.
SessionIDAfterStop ==
  IF error \in {"none", "stopped"} /\ session \notin {"", "unknown"} THEN session ELSE Known

FinishStoppedTurn ==
  /\ At("handler") /\ stopped
  /\ Return("stopped", SessionIDAfterStop, "none")
  /\ pc' = "done"

FinishTurn ==
  /\ At("handler") /\ ~stopped
  /\ Return(error, IF error # "none" /\ session = "" THEN Known ELSE session, answer)
  /\ pc' = "done"

TurnStep ==
  \/ Start \/ ReadOutput \/ Reap \/ Collect \/ AwaitOutput \/ handleCommandError
  \/ TurnStoppedError \/ Finish \/ RunTimedOut \/ RunFailed
  \/ FinishStoppedTurn \/ FinishTurn

ExecStep == Cancel \/ Terminate \/ Kill \/ DelayEnds

CliRunNext == ProcessStep \/ PressStop \/ Deadline \/ TurnStep \/ ExecStep

(* The session has a timeout, and Go runs its goroutines and timers.  No   *)
(* process of the CLI need ever end by itself.                             *)
CliRunFairness == WF_cliVars(Deadline) /\ WF_cliVars(TurnStep) /\ WF_cliVars(ExecStep)

CliRunSpec == CliRunInit /\ [][CliRunNext]_cliVars /\ CliRunFairness

-----------------------------------------------------------------------------

(* A run interrupted while its CLI was at work is answered with nothing    *)
(* but the CLI's own successful result, and the session that is kept is    *)
(* one the CLI can resume (services.go:89-90, claude.go:546-547, 671-673). *)
CutShortIsReported ==
  pc = "done" /\ cut =>
    /\ error = "none" => answer = "result" /\ printed.result = "ok"
    /\ session \in {"", "real"}

(* Every run ends, and one that was interrupted leaves nothing running in  *)
(* its process group, unless a process that left the group holds on to the *)
(* output for ever (process.go:114, process_unix.go:11-13): what JobTurns  *)
(* assumes of a turn.                                                      *)
OutputHeldOutside == agent # "cursor" /\ "outsider" \in holders /\ Running("outsider")
EveryRunEnds ==
  \/ <>(pc = "done" /\ (ladder # "none" => \A p \in Group : ~Running(p)))
  \/ <>[]OutputHeldOutside

=============================================================================
