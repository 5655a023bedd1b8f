----------------------------- MODULE CliRunProofs -----------------------------
(***************************************************************************)
(* CliRun for every choice of CLIs: types, and that a run cut short is not *)
(* taken for an answer.                                                    *)
(*                                                                         *)
(* CutShortIsReported looks at the end of a turn only.  What makes it true *)
(* is carried there step by step, by threads that do not wait for each     *)
(* other: os/exec's goroutine remembers that the context was done, Wait    *)
(* reports it whatever the exit status, the client calls it a timeout      *)
(* unless it was a stop, and the stop is still there when the service and  *)
(* the handler look.                                                       *)
(***************************************************************************)
EXTENDS CliRun, TLAPS

Printed ==
  [bootstrap : BOOLEAN, session : BOOLEAN, text : BOOLEAN, result : {"none", "ok", "error"}]

(* A result follows the line that names the session. *)
OutputInv ==
  /\ printed \in Printed
  /\ printed.result # "none" => printed.session

(* A run that was interrupted has a context that is done, and os/exec has   *)
(* not forgotten it; only a stop cancels.                                  *)
InterruptInv ==
  /\ runError \in {"none", "canceled", "deadline"}
  /\ runError = "canceled" => stopped
  /\ cut => pc # "start" /\ runError # "none" /\ watcher # "watching"

(* Where the interruption has got to on its way to the turn's error. *)
ReportInv ==
  cut =>
    /\ pc \in {"output", "client"} => error = "command"
    /\ pc = "service" => error = "timeout" \/ (error = "command" /\ stopped)
    /\ pc \in {"handler", "done"} =>
         /\ error = "none" => answer = "result" /\ printed.result = "ok"
         /\ session \in {"", "real"}

IInv == OutputInv /\ InterruptInv /\ ReportInv

-----------------------------------------------------------------------------

LEMMA NothingPrinted ==
  CliRunInit => printed \in Printed /\ printed.result = "none"
<1> DEFINE nothing ==
      [bootstrap |-> FALSE, session |-> FALSE, text |-> FALSE, result |-> "none"]
<1>1. nothing \in Printed /\ nothing.result = "none"
  BY DEF Printed
<1>2. CliRunInit => printed = nothing
  BY DEF CliRunInit
<1> HIDE DEF nothing
<1>3. QED
  BY <1>1, <1>2

(* What the CLI has printed stays printed, and its result does not change. *)
LEMMA PrintStep ==
  ASSUME OutputInv, NEW line \in {"bootstrap", "session", "text"}, PrintLine(line)
  PROVE  OutputInv' /\ printed'.result = printed.result
<1>1. CASE line = "bootstrap"
  BY <1>1 DEF PrintLine, OutputInv, Printed
<1>2. CASE line = "session"
  BY <1>2 DEF PrintLine, OutputInv, Printed
<1>3. CASE line = "text"
  BY <1>3 DEF PrintLine, OutputInv, Printed
<1>4. QED
  BY <1>1, <1>2, <1>3

(* The processes of the CLI say nothing of the turn. *)
LEMMA ProcessKeeps ==
  ASSUME IInv, ProcessStep
  PROVE  IInv'
<1>1. ASSUME NEW line \in {"bootstrap", "session", "text"}, PrintLine(line)
      PROVE  IInv'
  <2>1. OutputInv' /\ printed'.result = printed.result
    BY <1>1, PrintStep DEF IInv
  <2>2. QED
    BY <1>1, <2>1
    DEF IInv, PrintLine, InterruptInv, ReportInv, contextVars, execVars, turnVars
<1>2. ASSUME NEW result \in {"ok", "error"}, PrintResult(result)
      PROVE  IInv'
  BY <1>2
  DEF IInv, PrintResult, OutputInv, Printed, InterruptInv, ReportInv,
      contextVars, execVars, turnVars
<1>3. ASSUME NEW p \in {"helper", "outsider"}, NEW holds \in BOOLEAN, Spawn(p, holds)
      PROVE  IInv'
  BY <1>3
  DEF IInv, Spawn, OutputInv, InterruptInv, ReportInv, contextVars, execVars, turnVars
<1>4. ASSUME NEW p \in Processes, NEW status \in {"ok", "error"}, End(p, status)
      PROVE  IInv'
  BY <1>4
  DEF IInv, End, OutputInv, InterruptInv, ReportInv, contextVars, execVars, turnVars
<1>5. QED
  BY <1>1, <1>2, <1>3, <1>4 DEF ProcessStep

LEMMA ContextKeeps ==
  ASSUME IInv, PressStop \/ Deadline \/ ExecStep
  PROVE  IInv'
<1> USE DEF IInv, OutputInv, InterruptInv, ReportInv, treeVars, contextVars, execVars, turnVars
<1>1. CASE PressStop
  BY <1>1 DEF PressStop, BeforeReturn
<1>2. CASE Deadline
  BY <1>2 DEF Deadline, BeforeReturn
<1>3. CASE Cancel
  BY <1>3 DEF Cancel
<1>4. CASE Terminate
  BY <1>4 DEF Terminate
<1>5. CASE Kill
  BY <1>5 DEF Kill, KillProcesses
<1>6. CASE DelayEnds
  BY <1>6 DEF DelayEnds, KillProcesses
<1>7. QED
  BY <1>1, <1>2, <1>3, <1>4, <1>5, <1>6 DEF ExecStep

(* The turn's thread up to the client: the interruption becomes an error,   *)
(* and a timeout if it was not a stop.                                     *)
LEMMA ClientKeeps ==
  ASSUME IInv, Start \/ ReadOutput \/ Reap \/ Collect \/ AwaitOutput \/ handleCommandError
  PROVE  IInv'
<1> USE DEF IInv, OutputInv, InterruptInv, ReportInv, At,
            treeVars, contextVars, execVars, turnVars
<1>1. CASE Start
  BY <1>1 DEF Start
<1>2. CASE ReadOutput
  BY <1>2 DEF ReadOutput
<1>3. CASE Reap
  BY <1>3 DEF Reap
<1>4. CASE Collect
  BY <1>4 DEF Collect
<1>5. CASE AwaitOutput
  BY <1>5 DEF AwaitOutput
<1>6. CASE handleCommandError
  BY <1>6 DEF handleCommandError
<1>7. QED
  BY <1>1, <1>2, <1>3, <1>4, <1>5, <1>6

(* Of a run cut short the service keeps the CLI's own result, or an error; *)
(* of its session what the CLI said itself.                                *)
LEMMA ServiceKeeps ==
  ASSUME IInv, TurnStoppedError \/ Finish \/ RunTimedOut \/ RunFailed
  PROVE  IInv'
<1> USE DEF IInv, OutputInv, Printed, InterruptInv, ReportInv, At, Return,
            treeVars, contextVars, execVars, SessionIDFromOutput, ExtractSessionID
<1>1. CASE TurnStoppedError
  BY <1>1 DEF TurnStoppedError
<1>2. CASE Finish
  <2>1. ~cut
    BY <1>2 DEF Finish
  <2>2. QED
    BY <1>2, <2>1 DEF Finish
<1>3. CASE RunTimedOut
  BY <1>3 DEF RunTimedOut, Answered
<1>4. CASE RunFailed
  <2>1. ~cut
    BY <1>4 DEF RunFailed
  <2>2. QED
    BY <1>4, <2>1 DEF RunFailed
<1>5. QED
  BY <1>1, <1>2, <1>3, <1>4

LEMMA HandlerKeeps ==
  ASSUME IInv, FinishStoppedTurn \/ FinishTurn
  PROVE  IInv'
<1> USE DEF IInv, OutputInv, InterruptInv, ReportInv, At, Return, Known,
            treeVars, contextVars, execVars
<1>1. CASE FinishStoppedTurn
  BY <1>1 DEF FinishStoppedTurn, SessionIDAfterStop
<1>2. CASE FinishTurn
  BY <1>2 DEF FinishTurn
<1>3. QED
  BY <1>1, <1>2

(* The types, with what is made of parts named. *)
Trees == [Processes -> {"none", "running", "ended"}]

Scalars ==
  /\ agent \in Agents /\ resumed \in BOOLEAN
  /\ exit \in {"none", "ok", "error"}
  /\ reaped \in BOOLEAN /\ cut \in BOOLEAN /\ stopped \in BOOLEAN
  /\ runError \in {"none", "canceled", "deadline"}
  /\ watcher \in {"watching", "delaying", "overrun", "done"}
  /\ ladder \in {"none", "interrupted", "terminated", "over"}
  /\ pc \in Steps
  /\ error \in {"none", "start", "command", "timeout", "stopped", "failed"}
  /\ session \in Sessions
  /\ answer \in {"none", "result", "text", "empty"}

Types == Scalars /\ printed \in Printed /\ tree \in Trees /\ holders \in SUBSET Processes

LEMMA TypesAre == CliRunTypeOK <=> Types
  BY DEF CliRunTypeOK, Types, Scalars, Printed, Trees

LEMMA TypeStep ==
  ASSUME Types, [CliRunNext]_cliVars
  PROVE  Types'
<1> USE DEF Types, Scalars, treeVars, contextVars, execVars, turnVars
<1>1. ASSUME NEW line \in {"bootstrap", "session", "text"}, PrintLine(line)
      PROVE  Types'
  <2>1. printed' \in Printed
    <3>1. CASE line = "bootstrap"
      BY <1>1, <3>1 DEF PrintLine, Printed
    <3>2. CASE line = "session"
      BY <1>1, <3>2 DEF PrintLine, Printed
    <3>3. CASE line = "text"
      BY <1>1, <3>3 DEF PrintLine, Printed
    <3>4. QED
      BY <3>1, <3>2, <3>3
  <2>2. QED
    BY <1>1, <2>1 DEF PrintLine
<1>2. ASSUME NEW result \in {"ok", "error"}, PrintResult(result)
      PROVE  Types'
  <2>1. printed' \in Printed
    BY <1>2 DEF PrintResult, Printed
  <2>2. QED
    BY <1>2, <2>1 DEF PrintResult
<1>3. ASSUME NEW p \in {"helper", "outsider"}, NEW holds \in BOOLEAN, Spawn(p, holds)
      PROVE  Types'
  <2>1. tree' \in Trees /\ holders' \in SUBSET Processes
    BY <1>3 DEF Spawn, Trees, Processes, Group
  <2>2. QED
    BY <1>3, <2>1 DEF Spawn
<1>4. ASSUME NEW p \in Processes, NEW status \in {"ok", "error"}, End(p, status)
      PROVE  Types'
  <2>1. tree' \in Trees
    BY <1>4 DEF End, Trees
  <2>2. QED
    BY <1>4, <2>1 DEF End
<1>5. ASSUME PressStop \/ Deadline
      PROVE  Types'
  BY <1>5 DEF PressStop, Deadline
<1>6. ASSUME Cancel \/ Terminate
      PROVE  Types'
  <2>1. Running("leader") \in BOOLEAN
    BY DEF Running
  <2>2. QED
    BY <1>6, <2>1 DEF Cancel, Terminate
<1>7. ASSUME NEW killed, KillProcesses(killed)
      PROVE  tree' \in Trees /\ exit' \in {"none", "ok", "error"} /\ UNCHANGED <<printed, holders>>
  BY <1>7 DEF KillProcesses, Trees
<1>8. ASSUME Kill \/ DelayEnds
      PROVE  Types'
  <2>1. tree' \in Trees /\ exit' \in {"none", "ok", "error"} /\ UNCHANGED <<printed, holders>>
    BY <1>7, <1>8 DEF Kill, DelayEnds
  <2>2. QED
    BY <1>8, <2>1 DEF Kill, DelayEnds
<1>9. ASSUME Start
      PROVE  Types'
  <2>1. tree' \in Trees /\ holders' \in SUBSET Processes
    BY <1>9 DEF Start, Trees, Processes, Group
  <2>2. QED
    BY <1>9, <2>1 DEF Start, At, Steps
<1>10. ASSUME ReadOutput \/ Reap \/ Collect \/ AwaitOutput \/ handleCommandError
       PROVE  Types'
  BY <1>10 DEF ReadOutput, Reap, Collect, AwaitOutput, handleCommandError, At, Steps
<1>11. ASSUME TurnStoppedError \/ Finish \/ RunTimedOut \/ RunFailed
       PROVE  Types'
  <2>1. ExtractResult \in {"none", "result", "text", "empty"}
    BY AgentsAssumption DEF ExtractResult
  <2>2. SessionIDFromOutput \in Sessions /\ ExtractSessionID \in Sessions /\ "" \in Sessions
    BY DEF SessionIDFromOutput, ExtractSessionID, Sessions
  <2>3. QED
    BY <1>11, <2>1, <2>2
    DEF TurnStoppedError, Finish, RunTimedOut, RunFailed, Return, At, Steps
<1>12. ASSUME FinishStoppedTurn \/ FinishTurn
       PROVE  Types'
  <2>1. Known \in Sessions /\ SessionIDAfterStop \in Sessions
    BY DEF Known, SessionIDAfterStop, Sessions
  <2>2. QED
    BY <1>12, <2>1 DEF FinishStoppedTurn, FinishTurn, Return, At, Steps
<1>13. CASE UNCHANGED cliVars
  BY <1>13 DEF cliVars
<1>14. QED
  BY <1>1, <1>2, <1>3, <1>4, <1>5, <1>6, <1>8, <1>9, <1>10, <1>11, <1>12, <1>13
  DEF CliRunNext, ProcessStep, TurnStep, ExecStep

(* Every variable of a run keeps its type. *)
THEOREM TypeCorrect == CliRunSpec => []CliRunTypeOK
<1>1. CliRunInit => Types
  <2>1. CliRunInit => printed \in Printed
    BY NothingPrinted
  <2>2. CliRunInit => tree \in Trees
    BY DEF CliRunInit, Trees
  <2>3. QED
    BY <2>1, <2>2 DEF CliRunInit, Types, Scalars, Steps, Sessions
<1>2. Types /\ [CliRunNext]_cliVars => Types'
  BY TypeStep
<1>3. Types => CliRunTypeOK
  BY TypesAre
<1>4. QED
  BY <1>1, <1>2, <1>3, PTL DEF CliRunSpec

(* The inductive invariant holds in every reachable state. *)
THEOREM Invariance == CliRunSpec => []IInv
<1>1. CliRunInit => IInv
  <2>1. CliRunInit => OutputInv
    BY NothingPrinted DEF OutputInv
  <2>2. CliRunInit => InterruptInv /\ ~cut
    BY DEF CliRunInit, InterruptInv
  <2>3. QED
    BY <2>1, <2>2 DEF IInv, ReportInv
<1>2. ASSUME IInv, [CliRunNext]_cliVars
      PROVE  IInv'
  <2>1. CASE UNCHANGED cliVars
    BY <1>2, <2>1
    DEF IInv, OutputInv, InterruptInv, ReportInv, cliVars, treeVars, contextVars, execVars,
        turnVars
  <2>2. CASE CliRunNext
    BY <1>2, <2>2, ProcessKeeps, ContextKeeps, ClientKeeps, ServiceKeeps, HandlerKeeps
    DEF CliRunNext, TurnStep
  <2>3. QED
    BY <1>2, <2>1, <2>2
<1>3. QED
  BY <1>1, <1>2, PTL DEF CliRunSpec

(* A run interrupted while its CLI was at work is answered with nothing but *)
(* the CLI's own successful result, and the session kept is one the CLI    *)
(* can resume, in whatever order the processes end, the signals arrive and *)
(* the stop is pressed (claude.go:546-547, 671-673).                       *)
THEOREM CutShort == CliRunSpec => []CutShortIsReported
<1>1. IInv => CutShortIsReported
  BY DEF IInv, ReportInv, CutShortIsReported
<1>2. QED
  BY <1>1, Invariance, PTL

=============================================================================
