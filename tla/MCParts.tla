------------------------------- MODULE MCParts -------------------------------
(***************************************************************************)
(* Small instances of four parts that share no state: the worktree pool,   *)
(* the turns' journal and the run of a CLI, for what must happen in the    *)
(* end, and the text of a pull request.  A behaviour is one of one part,   *)
(* chosen at the start.                                                    *)
(***************************************************************************)
EXTENDS CliRun, PRText, TLC

CONSTANTS j1, s1, s2, NoSlot, NoBranch, m1, NoMessage

VARIABLES
  part,
  dirs, registered, branches, origin, fetched, ready, replenish, filled, replenisher,
  preparing, row, sweep, hold, phase, attempts, failuresLeft, crashesLeft, lost, fillFailed,
  mem, disk, process, life, toRecover, lanes, turn, backend, received, writeErrors, skipped,
  setAside

worktreeVars ==
  <<dirs, registered, branches, origin, fetched, ready, replenish, filled, replenisher,
    preparing, row, sweep, hold, phase, attempts, failuresLeft, crashesLeft, lost, fillFailed>>
journalVars ==
  <<mem, disk, process, life, toRecover, lanes, turn, backend, received, writeErrors, skipped,
    setAside>>
Vars == <<part, worktreeVars, journalVars, cliVars, textVars>>

W == INSTANCE Worktrees WITH
  Jobs <- {j1}, Slots <- {s1, s2}, turn <- preparing,
  Target <- 1, MaxAttempts <- 1, MaxPushes <- 0, MaxFailures <- 1, MaxCrashes <- 1,
  FailingSteps <- {"fetch", "branch", "add", "list", "move", "rename", "refresh", "remove",
                   "state", "volume"}

J == INSTANCE TurnJournal WITH
  Jobs <- {j1}, Messages <- {m1}, JobOf <- (m1 :> j1), First <- {m1},
  Window <- TRUE, MaxWriteErrors <- 1, MaxLives <- 3

PartsInit ==
  /\ part \in {"worktrees", "journal", "cli", "text"}
  /\ W!WorktreesInit /\ J!JournalInit
  /\ CliRunInit /\ (part # "cli" => agent = "claude" /\ resumed)
  /\ PRTextInit /\ (part # "text" => body = <<>>)

InWorktrees == part = "worktrees" /\ UNCHANGED <<part, journalVars, cliVars, textVars>>
InJournal == part = "journal" /\ UNCHANGED <<part, worktreeVars, cliVars, textVars>>
InCli == part = "cli" /\ UNCHANGED <<part, worktreeVars, journalVars, textVars>>
InText == part = "text" /\ UNCHANGED <<part, worktreeVars, journalVars, cliVars>>

PartsNext ==
  \/ InWorktrees /\ W!WorktreesNext
  \/ InJournal /\ J!JournalNext
  \/ InCli /\ CliRunNext
  \/ InText /\ PRTextNext

\* The fairness of Worktrees, of TurnJournal and of CliRun.
PartsSpec ==
  /\ PartsInit /\ [][PartsNext]_Vars
  /\ WF_Vars(InWorktrees /\ W!ReplenisherStep)
  /\ SF_Vars(InWorktrees /\ W!Replenish /\ W!ReplenisherStep)
  /\ WF_Vars(InWorktrees /\ W!StartUp)
  /\ WF_Vars(InWorktrees /\ preparing[j1].pc # "none" /\ W!TurnStep(j1))
  /\ WF_Vars(InJournal /\ J!RestoreAppState)
  /\ WF_Vars(InJournal /\ process = "stopping" /\ J!Exit)
  /\ WF_Vars(InJournal /\ J!PollMessage(m1))
  /\ WF_Vars(InJournal /\ J!RecoverMessage(m1))
  /\ WF_Vars(InJournal /\ J!BeginTurn(j1))
  /\ WF_Vars(InJournal /\ J!TurnStep(j1))
  /\ WF_Vars(InJournal /\ J!RecoverRow(j1))
  /\ WF_Vars(InJournal /\ (\E r \in mem.outbox : J!SendReply(r)))
  /\ WF_Vars(InCli /\ Deadline)
  /\ WF_Vars(InCli /\ TurnStep)
  /\ WF_Vars(InCli /\ ExecStep)

\* What each part promises (see its module).
RefillsUnlessFailed == part = "worktrees" => W!RefillsUnlessFailed
EveryMessageIsTold == part = "journal" => J!EveryMessageIsTold
CliRunEnds == part = "cli" => EveryRunEnds
PartsTypeOK == W!WorktreesTypeOK /\ J!JournalTypeOK /\ CliRunTypeOK /\ PRTextTypeOK
=============================================================================
