----------------------------- MODULE GitDelivery -----------------------------
(***************************************************************************)
(* usecases.GitUseCase around a turn, and the git and gh commands it runs: *)
(* the branch a turn works on is prepared, what the CLI leaves is          *)
(* committed, pushed and put into a pull request, and what a stopped or    *)
(* timed-out turn leaves is committed as it is.  With one worker all jobs  *)
(* share the main directory ("branches"), with more each has a worktree.   *)
(*                                                                         *)
(* Abstraction: the work of a turn is one token, uncommitted as a tracked  *)
(* or an untracked file, or in the commits of a branch.  A branch is named *)
(* by the turn that made it.  A use case is a plan, a sequence of          *)
(* commands; each command is one step, and a command that fails ends the   *)
(* turn.  Making, moving and sweeping worktrees is module Worktrees.       *)
(***************************************************************************)
EXTENDS Naturals, Sequences, Functions

CONSTANTS
  Jobs,
  AskJobs,       \* jobs in ask mode, whose work is not committed
  Main,          \* the repository's own directory
  Default,       \* the default branch
  NoBranch,
  Modes,         \* "branches": MAX_CONCURRENCY is 1; "worktrees": more
  CLIBranches,   \* where a CLI leaves its work: "given", "own" or "default"
  MaxTurns,      \* bound: per mode, turns of all jobs
  FailingSteps,  \* bound: which commands may fail
  MaxIncidents   \* bound: failures, crashes, shutdowns, merges and deletions on the remote

ASSUME DeliveryAssumption ==
  /\ AskJobs \subseteq Jobs /\ Main \notin Jobs
  /\ Modes \subseteq {"branches", "worktrees"}
  /\ CLIBranches \subseteq {"given", "own", "default"}
  /\ MaxTurns \in [{"branches", "worktrees"} -> Nat] /\ MaxIncidents \in Nat

\* No turn has the name of the default branch, or none at all.
ASSUME BranchNamesAssumption ==
  Default # NoBranch /\ {Default, NoBranch} \cap (Jobs \X Nat) = {}

VARIABLES
  mode,
  repo,          \* directories, branches here and on the remote, stash, pull requests
  row,           \* per job, what its row says
  turn,          \* per job, the running turn
  turnCount,     \* turns so far
  hold,          \* a state file that could not be read is set aside
  stopping,      \* MarkShuttingDown was called
  incidentsLeft,
  produced,      \* history: work a CLI did
  published,     \* history: work that ever was on the remote
  writtenOff,    \* history: work of turns that failed or were cut off, and what people threw away
  left,          \* history: of that, what a shutdown left for the next start to run again
  unheard        \* history: of that, what nobody tells the thread of

toldVars == <<writtenOff, left, unheard>>
historyVars == <<produced, published, toldVars>>
deliveryVars ==
  <<mode, repo, row, turn, turnCount, hold, stopping, incidentsLeft, historyVars>>

-----------------------------------------------------------------------------

TurnNumbers == 1 .. MaxTurns[mode]
Turns == Jobs \X TurnNumbers
Branches == Turns \cup {Default}
Dirs == {Main} \cup Jobs

NoTree == [branch |-> NoBranch, tracked |-> {}, untracked |-> {}]
Trees ==
  [branch : Branches \cup {NoBranch}, tracked : SUBSET Turns, untracked : SUBSET Turns]

NoRow == [status |-> "none", branch |-> NoBranch, session |-> FALSE, pr |-> FALSE]
RowsOfJobs ==
  [status : {"none", "in_progress", "completed", "failed"},
   branch : Branches \cup {NoBranch}, session : BOOLEAN, pr : BOOLEAN]

NoTurn == [pc |-> "none", plan |-> <<>>, work |-> <<>>, branch |-> NoBranch, pr |-> FALSE]
Commands ==
  {"stash", "clean", "reset", "checkoutDefault", "resetToRef", "create", "pullDefault",
   "checkoutJob", "pullJob", "exists", "delete", "message", "addAll", "commit", "push",
   "createPR"}

GitDeliveryTypeOK ==
  /\ mode \in Modes
  /\ repo.tree \in [Dirs -> Trees]
  /\ DOMAIN repo.local \subseteq Branches /\ Default \in DOMAIN repo.local
  /\ \A b \in DOMAIN repo.local : repo.local[b] \subseteq Turns
  /\ DOMAIN repo.remote \subseteq Branches /\ Default \in DOMAIN repo.remote
  /\ \A b \in DOMAIN repo.remote : repo.remote[b] \subseteq Turns
  /\ repo.tracking \subseteq Branches /\ repo.stash \subseteq Turns
  /\ repo.pr \in [Branches -> {"none", "open", "merged"}]
  /\ row \in [Jobs -> RowsOfJobs]
  /\ \A j \in Jobs :
       /\ turn[j].pc \in {"none", "prepare", "row", "run", "abandon", "commit", "pushing",
                          "pr", "opening", "finish", "footer", "save", "saving"}
       /\ turn[j].plan \in Seq(Commands) /\ turn[j].work \in Turns \cup {<<>>}
       /\ turn[j].branch \in Branches \cup {NoBranch} /\ turn[j].pr \in BOOLEAN
  /\ turnCount \in 0 .. MaxTurns[mode] /\ hold \in BOOLEAN
  /\ stopping \in BOOLEAN /\ incidentsLeft \in 0 .. MaxIncidents
  /\ produced \subseteq Turns /\ published \subseteq Turns
  /\ writtenOff \subseteq Turns /\ left \subseteq Turns /\ unheard \subseteq Turns

GitDeliveryInit ==
  /\ mode \in Modes
  /\ repo = [tree |-> [d \in Dirs |-> IF d = Main THEN [NoTree EXCEPT !.branch = Default]
                                                  ELSE NoTree],
             local |-> [b \in {Default} |-> {}],
             remote |-> [b \in {Default} |-> {}],
             tracking |-> {Default},
             stash |-> {},
             pr |-> [b \in Branches |-> "none"]]
  /\ row = [j \in Jobs |-> NoRow]
  /\ turn = [j \in Jobs |-> NoTurn]
  /\ turnCount = 0
  /\ hold = FALSE
  /\ stopping = FALSE
  /\ incidentsLeft = MaxIncidents
  /\ produced = {} /\ published = {} /\ writtenOff = {} /\ left = {} /\ unheard = {}

Worktrees == mode = "worktrees"

Dir(j) == IF Worktrees THEN j ELSE Main

-----------------------------------------------------------------------------
(* What the commands do to a repository g in directory d; each is a set of *)
(* outcomes.  The commands of GitClient without a directory run in Main.   *)

Ok(g) == {[repo |-> g, err |-> "none"]}
Failed(g) == {[repo |-> g, err |-> "failed"]}

With(f, b, works) == [x \in DOMAIN f \cup {b} |-> IF x = b THEN works ELSE f[x]]

CurrentBranchInWorktree(g, d) == g.tree[d].branch
CurrentBranch(g) == CurrentBranchInWorktree(g, Main)

\* Mutant: untracked files are not seen.
HasTrackedChanges(g, d) == g.tree[d].tracked # {}

HasUncommittedChangesInWorktree(g, d) == g.tree[d].tracked \cup g.tree[d].untracked # {}
HasUncommittedChanges(g) == HasUncommittedChangesInWorktree(g, Main)

HasUpstreamTrackingInWorktree(g, d) == CurrentBranchInWorktree(g, d) \in g.tracking
HasUpstreamTracking(g) == HasUpstreamTrackingInWorktree(g, Main)

ResetHard(g) == [g EXCEPT !.tree[Main].tracked = {}]

CleanUntracked(g) == [g EXCEPT !.tree[Main].untracked = {}]

StashAllChanges(g) ==
  [CleanUntracked(ResetHard(g)) EXCEPT
     !.stash = @ \cup g.tree[Main].tracked \cup g.tree[Main].untracked]

\* Tracked changes are carried along, or in the way if the branches differ.
CheckoutBranch(g, b) ==
  LET free == b \in DOMAIN g.local /\ \A d \in Dirs \ {Main} : g.tree[d].branch # b
      clashes == g.tree[Main].tracked # {} /\ g.local[CurrentBranch(g)] # g.local[b]
  IN (IF free THEN Ok([g EXCEPT !.tree[Main].branch = b]) ELSE {})
     \cup (IF free /\ ~clashes THEN {} ELSE Failed(g))

RemoteBranchExists(g, b) == b \in DOMAIN g.remote

CheckoutRemoteBranch(g, b) ==
  IF RemoteBranchExists(g, b)
    THEN Ok([g EXCEPT !.local = With(@, b, g.remote[b]), !.tree[Main].branch = b,
                      !.tracking = @ \cup {b}])
    ELSE Failed(g)

CreateAndCheckoutBranch(g, b) ==
  [g EXCEPT !.local = With(@, b, g.local[CurrentBranch(g)]), !.tree[Main].branch = b]

\* git reset --hard origin/<default> moves whatever branch is checked out.
ResetHardToRef(g) ==
  [ResetHard(g) EXCEPT !.local[CurrentBranch(g)] = g.remote[Default]]

\* git pull --rebase refuses tracked changes before anything else.  A branch
\* that was never pushed has nothing to pull, or follows the default branch its
\* worktree was made from.  Without an answer about its
\* upstream a deleted branch passes for one that was never pushed.
PullLatestInWorktree(g, d) ==
  LET b == CurrentBranchInWorktree(g, d) IN
  IF g.tree[d].tracked # {} THEN Failed(g)
  ELSE IF ~HasUpstreamTrackingInWorktree(g, d)
    THEN Ok(g) \cup (IF d = Main THEN {} ELSE Ok([g EXCEPT !.local[b] = @ \cup g.remote[Default]]))
  ELSE IF RemoteBranchExists(g, b) THEN Ok([g EXCEPT !.local[b] = @ \cup g.remote[b]])
  ELSE {[repo |-> g, err |-> "deleted"]} \cup (IF "upstream" \in FailingSteps THEN Ok(g) ELSE {})
PullLatest(g) == PullLatestInWorktree(g, Main)

DeleteLocalBranch(g, b) ==
  IF \A d \in Dirs : g.tree[d].branch # b
    THEN Ok([g EXCEPT !.local = Restrict(@, DOMAIN @ \ {b}), !.tracking = @ \ {b}])
    ELSE Failed(g)

AddAllInWorktree(g, d) ==
  [g EXCEPT !.tree[d].tracked = @ \cup g.tree[d].untracked, !.tree[d].untracked = {}]
AddAll(g) == AddAllInWorktree(g, Main)

CommitInWorktree(g, d) ==
  [g EXCEPT !.local[CurrentBranchInWorktree(g, d)] = @ \cup g.tree[d].tracked,
            !.tree[d].tracked = {}]
Commit(g) == CommitInWorktree(g, Main)

\* Refused if the remote has what the branch has not.
PushBranchFromWorktree(g, b) ==
  IF RemoteBranchExists(g, b) /\ ~(g.remote[b] \subseteq g.local[b])
    THEN Failed(g)
    ELSE Ok([g EXCEPT !.remote = With(@, b, g.local[b]), !.tracking = @ \cup {b}])
PushBranch(g) == PushBranchFromWorktree(g, CurrentBranch(g))

\* gh pr list shows open pull requests only.
HasExistingPRInWorktree(g, b) == g.pr[b] = "open"
HasExistingPR(g) == HasExistingPRInWorktree(g, CurrentBranch(g))

\* The attempts of executeWithRetry come to one outcome; if the answer of the
\* attempt that made the pull request is lost, the next one finds it there.
executeWithRetryInDir(g, made) == Ok(made) \cup (IF "answer" \in FailingSteps THEN Failed(made) ELSE {})

CreatePullRequestInWorktree(g, b) ==
  IF b = Default \/ HasExistingPRInWorktree(g, b) \/ ~RemoteBranchExists(g, b)
    THEN Failed(g)
    ELSE executeWithRetryInDir(g, [g EXCEPT !.pr[b] = "open"])
CreatePullRequest(g) == CreatePullRequestInWorktree(g, CurrentBranch(g))

-----------------------------------------------------------------------------
(* The use cases as plans of commands that change something.  A query, a   *)
(* fetch or a question to the CLI before a command is part of it, and its   *)
(* failure the failure of that command.                                     *)

\* Mutant: without the clean, untracked files stay.
resetAndPullUncleaned == <<"checkoutDefault", "resetToRef">>

resetAndPullDefaultBranch == <<"clean", "checkoutDefault", "resetToRef">>

\* Mutant: the hold is not asked about.
PrepareUnheld == resetAndPullDefaultBranch \o <<"create">>

PrepareForNewConversation ==
  (IF hold THEN <<"stash">> ELSE <<>>) \o resetAndPullDefaultBranch \o <<"create">>

SwitchToJobBranch ==
  <<"reset", "clean", "checkoutDefault", "pullDefault", "checkoutJob">>

PullLatestChanges == <<"pullJob">>

PrepareWorktreeForJob == <<"exists", "pullJob">>

AbandonJobAndCleanup == resetAndPullDefaultBranch \o <<"delete">>

\* message: the CLI is asked for one.
CommitPlan == <<"message", "addAll", "commit", "push">>

\* Title and body are asked of the CLI side by side, and both are waited for.
PullRequestPlan == <<"createPR">>

StoppedWorkPlan == <<"addAll", "commit", "push">>

CommandInMain(c, g, b) ==
  CASE c = "stash" -> Ok(StashAllChanges(g))
    [] c = "clean" -> Ok(CleanUntracked(g))
    [] c = "reset" -> Ok(ResetHard(g))
    [] c = "checkoutDefault" -> CheckoutBranch(g, Default)
    [] c = "resetToRef" -> Ok(ResetHardToRef(g))
    [] c = "create" -> Ok(CreateAndCheckoutBranch(g, b))
    [] c \in {"pullDefault", "pullJob"} -> PullLatest(g)
    [] c = "checkoutJob" ->
         IF b \in DOMAIN g.local THEN CheckoutBranch(g, b) ELSE CheckoutRemoteBranch(g, b)
    [] c = "delete" -> IF b \in DOMAIN g.local THEN DeleteLocalBranch(g, b) ELSE Ok(g)
    [] c = "addAll" -> Ok(AddAll(g))
    [] c = "commit" -> Ok(Commit(g))
    [] c = "push" -> PushBranch(g)
    [] c = "createPR" -> CreatePullRequest(g)
    [] OTHER -> Ok(g)

CommandInWorktree(c, g, d, b) ==
  CASE c = "exists" -> IF g.tree[d] = NoTree THEN Failed(g) ELSE Ok(g)
    [] c = "pullJob" -> PullLatestInWorktree(g, d)
    [] c = "addAll" -> Ok(AddAllInWorktree(g, d))
    [] c = "commit" -> Ok(CommitInWorktree(g, d))
    [] c = "push" -> PushBranchFromWorktree(g, b)
    [] c = "createPR" -> CreatePullRequestInWorktree(g, b)
    [] OTHER -> Ok(g)

Outcomes(c, j) ==
  IF Worktrees THEN CommandInWorktree(c, repo, j, turn[j].branch)
               ELSE CommandInMain(c, repo, turn[j].branch)

-----------------------------------------------------------------------------
(* A turn.                                                                  *)

Go(j, pc) == turn' = [turn EXCEPT ![j].pc = pc]
Follow(j, pc, plan) == turn' = [turn EXCEPT ![j].pc = pc, ![j].plan = plan]
End(j) == turn' = [turn EXCEPT ![j] = NoTurn]

Incident == incidentsLeft > 0 /\ incidentsLeft' = incidentsLeft - 1

Fails(c) ==
  /\ c \in FailingSteps /\ Incident

Works == UNCHANGED incidentsLeft

\* runTurn posts the error to the thread and fails a job left in progress.  In a
\* shutdown it does neither: the next start runs the message again.  What a
\* saving or an abandonment has to say it says itself.
FailedStatus(j) ==
  IF row[j].status = "in_progress" /\ ~stopping THEN "failed" ELSE row[j].status

FailTurn(j) ==
  /\ End(j)
  /\ writtenOff' = writtenOff \cup {turn[j].work}
  /\ row' = [row EXCEPT ![j].status = FailedStatus(j)]
  /\ left' = IF stopping /\ turn[j].pc \notin {"saving", "abandon"}
                THEN left \cup {turn[j].work} ELSE left
  /\ UNCHANGED unheard

UncommittedIn(d) == repo.tree[d].tracked \cup repo.tree[d].untracked

\* A job without a session starts over.
BeginTurn(j) ==
  LET w == <<j, turnCount + 1>>
      first == ~row[j].session
  IN
  /\ turn[j] = NoTurn /\ turnCount < MaxTurns[mode]
  /\ Worktrees \/ \A k \in Jobs : turn[k] = NoTurn
  /\ turnCount' = turnCount + 1
  /\ turn' = [turn EXCEPT ![j] =
       [NoTurn EXCEPT
          !.work = w,
          !.branch = IF first THEN w ELSE row[j].branch,
          !.pc = "prepare",
          !.plan = IF Worktrees THEN (IF first THEN <<>> ELSE PrepareWorktreeForJob)
                   ELSE IF first THEN PrepareForNewConversation
                   ELSE SwitchToJobBranch \o PullLatestChanges]]
  /\ UNCHANGED <<mode, repo, row, hold, stopping, incidentsLeft, historyVars>>

\* The remote branch is gone: the row goes first in the main repository, after
\* the worktree otherwise, whether or not that could be removed.  People threw
\* the branch away, and with it what its job did; the thread is told of it.
AbandonJob(j) ==
  /\ row' = [row EXCEPT ![j] = NoRow]
  /\ writtenOff' = writtenOff \cup {w \in produced : w[1] = j}
  /\ left' = {w \in left : w[1] # j}
  /\ UNCHANGED unheard
  /\ IF Worktrees
       THEN /\ End(j)
            /\ \/ /\ repo' = [repo EXCEPT !.tree[j] = NoTree,
                                          !.local = Restrict(@, DOMAIN @ \ {turn[j].branch})]
                  /\ Works
               \/ UNCHANGED repo /\ Fails("remove")
       ELSE /\ Follow(j, "abandon", AbandonJobAndCleanup)
            /\ UNCHANGED repo /\ Works

RunCommand(j) ==
  LET c == Head(turn[j].plan) IN
  /\ turn[j].plan # <<>>
  /\ \/ \E o \in Outcomes(c, j) :
          \/ /\ o.err = "none"
             /\ repo' = o.repo
             /\ turn' = [turn EXCEPT ![j].plan = Tail(@)]
             /\ UNCHANGED <<row, toldVars>> /\ Works
          \/ /\ o.err = "failed"
             /\ repo' = o.repo
             /\ FailTurn(j)
             /\ Works
          \/ /\ o.err = "deleted"
             /\ AbandonJob(j)
     \/ /\ Fails(c)
        /\ FailTurn(j)
        /\ UNCHANGED repo
  /\ published' = published \cup UNION Range(repo'.remote)
  /\ UNCHANGED <<mode, turnCount, hold, stopping, produced>>

Done(j, pc) == turn[j].pc = pc /\ turn[j].plan = <<>>

\* A new conversation's worktree is fresh; what is in its place is put aside
\* under a hold (see Worktrees), which stands as stashed here.
PrepareForNewConversationWithWorktree(j) ==
  LET b == turn[j].branch IN
  /\ Done(j, "prepare") /\ Worktrees /\ b = turn[j].work
  /\ \/ /\ repo' = [repo EXCEPT !.tree[j] = [NoTree EXCEPT !.branch = b],
                                !.local = With(@, b, repo.remote[Default]),
                                !.stash = IF hold THEN @ \cup UncommittedIn(j) ELSE @]
        /\ Go(j, "row")
        /\ UNCHANGED <<row, toldVars>> /\ Works
     \/ Fails("worktree") /\ FailTurn(j) /\ UNCHANGED repo
  /\ UNCHANGED <<mode, turnCount, hold, stopping, produced, published>>

Prepared(j) ==
  /\ Done(j, "prepare") /\ ~(Worktrees /\ turn[j].branch = turn[j].work)
  /\ Go(j, "row")
  /\ UNCHANGED <<mode, repo, row, turnCount, hold, stopping, incidentsLeft, historyVars>>

\* The row is of this message from here on: an earlier one that a shutdown left
\* to it will not be run again.
UpdateJobData(j) ==
  /\ turn[j].pc = "row"
  /\ row' = [row EXCEPT ![j] = [@ EXCEPT !.status = "in_progress", !.branch = turn[j].branch]]
  /\ Go(j, "run")
  /\ left' = {w \in left : w[1] # j}
  /\ unheard' = unheard \cup {w \in left : w[1] = j}
  /\ UNCHANGED <<mode, repo, turnCount, hold, stopping, incidentsLeft,
                 produced, published, writtenOff>>

\* The CLI leaves its work as a tracked or an untracked file, or none, on the
\* branch it was given, on one of its own or, where that is free, on the default.
CLIWork(j, did) ==
  LET d == Dir(j)
      w == turn[j].work
      b == turn[j].branch
      own == [repo EXCEPT !.local = With(@, w, repo.local[b]), !.tree[d].branch = w]
      default == [repo EXCEPT !.tree[d].branch = Default]
      places == (IF "given" \in CLIBranches THEN {repo} ELSE {})
                \cup (IF "own" \in CLIBranches /\ w # b THEN {own} ELSE {})
                \cup (IF "default" \in CLIBranches /\ ~Worktrees THEN {default} ELSE {})
  IN \E g \in places :
       \/ did = {} /\ repo' = g
       \/ did = {w} /\ repo' = [g EXCEPT !.tree[d].tracked = @ \cup {w}]
       \/ did = {w} /\ repo' = [g EXCEPT !.tree[d].untracked = @ \cup {w}]

\* In ask mode nothing is committed.
CLIAnswers(j) ==
  /\ Go(j, IF j \in AskJobs THEN "finish" ELSE "commit")
  /\ UNCHANGED <<row, toldVars>>

\* In a shutdown the row of a first message stays in progress for the next start.
LeftForRecovery(j) ==
  /\ stopping /\ ~row[j].session
  /\ End(j)
  /\ left' = left \cup {turn[j].work}
  /\ UNCHANGED <<row, unheard>>

\* Otherwise the row is failed before the error goes up, which a shutdown then
\* keeps to itself; a session that timed out is kept, and its work is saved.
CLIFails(j) ==
  /\ writtenOff' = writtenOff \cup {turn[j].work}
  /\ \/ LeftForRecovery(j)
     \/ /\ row[j].session \/ ~stopping
        /\ row' = [row EXCEPT ![j].status = "failed"]
        /\ End(j)
        /\ unheard' = IF stopping THEN unheard \cup {turn[j].work} ELSE unheard
        /\ UNCHANGED left
     \/ /\ row[j].session \/ ~stopping
        /\ row' = [row EXCEPT ![j].status = "failed", ![j].session = TRUE]
        /\ Go(j, "save")
        /\ UNCHANGED <<left, unheard>>

\* finishStoppedTurn, when there is a session to go on with.
CLIStopped(j) ==
  /\ row' = [row EXCEPT ![j].status = "completed", ![j].session = TRUE]
  /\ Go(j, "save")
  /\ UNCHANGED toldVars

RunCLI(j) ==
  /\ turn[j].pc = "run"
  /\ \E did \in {{}, {turn[j].work}} : CLIWork(j, did) /\ produced' = produced \cup did
  /\ CLIAnswers(j) \/ CLIFails(j) \/ CLIStopped(j)
  /\ UNCHANGED <<mode, turnCount, hold, stopping, incidentsLeft, published>>

\* A stop before there was a session: the worktree goes, the job stays.
StopBeforeSession(j) ==
  /\ turn[j].pc = "run" /\ ~row[j].session
  /\ row' = [row EXCEPT ![j] = [NoRow EXCEPT !.status = "completed"]]
  /\ repo' = IF Worktrees
               THEN [repo EXCEPT !.tree[j] = NoTree,
                                 !.local = Restrict(@, DOMAIN @ \ {turn[j].branch})]
               ELSE repo
  /\ End(j)
  /\ UNCHANGED <<mode, turnCount, hold, stopping, incidentsLeft, historyVars>>

\* saveUnfinishedWork: whatever is in the way is posted to the thread, in a
\* shutdown too.
CommitStoppedWork(j) ==
  LET nothing == j \in AskJobs \/ ~HasUncommittedChangesInWorktree(repo, Dir(j))
      home == CurrentBranchInWorktree(repo, Dir(j)) = row[j].branch
  IN
  /\ turn[j].pc = "save"
  /\ \/ nothing /\ End(j) /\ UNCHANGED writtenOff
     \/ ~nothing /\ ~home /\ End(j) /\ writtenOff' = writtenOff \cup {turn[j].work}
     \/ ~nothing /\ home /\ Follow(j, "saving", StoppedWorkPlan) /\ UNCHANGED writtenOff
  /\ UNCHANGED <<mode, repo, row, turnCount, hold, stopping, incidentsLeft,
                 produced, published, left, unheard>>

\* Whatever branch the CLI left is taken; only uncommitted work makes a push.
AutoCommit(j, current, changed) ==
  /\ turn[j].pc = "commit"
  /\ \/ /\ turn' = [turn EXCEPT ![j].branch = current,
                                ![j].pc = IF changed THEN "pushing" ELSE "finish",
                                ![j].plan = IF changed THEN CommitPlan ELSE <<>>]
        /\ UNCHANGED <<row, toldVars>> /\ Works
     \/ Fails("status") /\ FailTurn(j)
  /\ UNCHANGED <<mode, repo, turnCount, hold, stopping, produced, published>>

AutoCommitChangesIfNeeded(j) ==
  ~Worktrees /\ AutoCommit(j, CurrentBranch(repo), HasUncommittedChanges(repo))

AutoCommitChangesInWorktreeIfNeeded(j) ==
  Worktrees /\ AutoCommit(j, CurrentBranchInWorktree(repo, j), HasUncommittedChangesInWorktree(repo, j))

\* An existing pull request is brought up to date (see PRText), errors
\* aside; an error about its address leaves the turn without its id.
PullRequestOf(j, exists) ==
  /\ Done(j, "pushing")
  /\ \/ /\ exists
        /\ \E known \in {TRUE} \cup (IF "url" \in FailingSteps THEN {FALSE} ELSE {}) :
             turn' = [turn EXCEPT ![j].pc = "finish", ![j].pr = known]
        /\ UNCHANGED <<row, toldVars>> /\ Works
     \/ /\ ~exists
        /\ Follow(j, "opening", PullRequestPlan)
        /\ UNCHANGED <<row, toldVars>> /\ Works
     \/ Fails("find") /\ FailTurn(j)
  /\ UNCHANGED <<mode, repo, turnCount, hold, stopping, produced, published>>

handlePRCreationOrUpdate(j) == ~Worktrees /\ PullRequestOf(j, HasExistingPR(repo))

handlePRCreationOrUpdateInWorktree(j) ==
  Worktrees /\ PullRequestOf(j, HasExistingPRInWorktree(repo, turn[j].branch))

Opened(j) ==
  /\ Done(j, "opening")
  /\ turn' = [turn EXCEPT ![j].pc = "finish", ![j].pr = TRUE]
  /\ UNCHANGED <<mode, repo, row, turnCount, hold, stopping, incidentsLeft, historyVars>>

FinishTurnWithReply(j) ==
  /\ turn[j].pc = "finish"
  /\ \/ /\ row' = [row EXCEPT ![j] =
                     [status |-> "completed", session |-> TRUE, pr |-> @.pr \/ turn[j].pr,
                      branch |-> IF j \in AskJobs THEN @.branch ELSE turn[j].branch]]
        /\ Go(j, "footer")
        /\ UNCHANGED toldVars /\ Works
     \/ Fails("state") /\ FailTurn(j)
  /\ UNCHANGED <<mode, repo, turnCount, hold, stopping, produced, published>>

\* After the reply: the activity notice and the footer of the description, see
\* PRText.  An error is posted; the row is finished.
EndTurn(j) ==
  /\ \/ turn[j].pc = "footer" /\ (Fails("footer") \/ Works)
     \/ Done(j, "saving") /\ Works
     \/ Done(j, "abandon") /\ Works
  /\ End(j)
  /\ UNCHANGED <<mode, repo, row, turnCount, hold, stopping, historyVars>>

TurnStep(j) ==
  \/ RunCommand(j) \/ PrepareForNewConversationWithWorktree(j) \/ Prepared(j)
  \/ UpdateJobData(j) \/ RunCLI(j) \/ StopBeforeSession(j) \/ CommitStoppedWork(j)
  \/ AutoCommitChangesIfNeeded(j) \/ AutoCommitChangesInWorktreeIfNeeded(j)
  \/ handlePRCreationOrUpdate(j) \/ handlePRCreationOrUpdateInWorktree(j)
  \/ Opened(j) \/ FinishTurnWithReply(j) \/ EndTurn(j)

-----------------------------------------------------------------------------
(* What goes on beside the turns.                                           *)

\* A finished or closed pull request, or 25 hours without activity.
CompleteIdle(j) ==
  /\ turn[j] = NoTurn /\ row[j].status \in {"completed", "failed"}
  /\ row' = [row EXCEPT ![j] = NoRow]
  /\ UNCHANGED <<mode, repo, turn, turnCount, hold, stopping, incidentsLeft, historyVars>>

\* A restart runs what was in progress again (BeginTurn), or tells the thread it
\* will not: after a day, when the worktree goes too, or with the branch missing.
NotResumed(j) ==
  /\ turn[j] = NoTurn /\ row[j].status = "in_progress" /\ ~stopping
  /\ row' = [row EXCEPT ![j] = NoRow]
  /\ \/ repo' = [repo EXCEPT !.tree[j] = NoTree]
     \/ UNCHANGED repo
  /\ UNCHANGED <<mode, turn, turnCount, hold, stopping, incidentsLeft, historyVars>>

DeletableBranches ==
  DOMAIN repo.local \ ({Default} \cup {row[j].branch : j \in Jobs})

\* The clean-up of worktrees and branches no row tracks.
Sweep ==
  /\ ~hold
  /\ \/ \E j \in Jobs :
          /\ Worktrees /\ row[j] = NoRow /\ turn[j] = NoTurn /\ repo.tree[j] # NoTree
          /\ repo' = [repo EXCEPT !.tree[j] = NoTree]
     \/ \E b \in DeletableBranches :
          \E o \in DeleteLocalBranch(repo, b) : o.err = "none" /\ repo' = o.repo
  /\ UNCHANGED <<mode, row, turn, turnCount, hold, stopping, incidentsLeft, historyVars>>

\* People merge a pull request, and delete branches of the remote.
MergePullRequest(b) ==
  /\ repo.pr[b] = "open" /\ RemoteBranchExists(repo, b) /\ Incident
  /\ repo' = [repo EXCEPT !.pr[b] = "merged", !.remote[Default] = @ \cup repo.remote[b]]
  /\ UNCHANGED <<mode, row, turn, turnCount, hold, stopping, historyVars>>

DeleteRemoteBranch(b) ==
  /\ b # Default /\ RemoteBranchExists(repo, b) /\ Incident
  /\ repo' = [repo EXCEPT !.remote = Restrict(@, DOMAIN @ \ {b})]
  /\ writtenOff' = writtenOff \cup repo.remote[b]
  /\ UNCHANGED <<mode, row, turn, turnCount, hold, stopping, produced, published, left, unheard>>

\* A signal; waiting turns still run, and errors are kept from the thread.
MarkShuttingDown ==
  /\ ~stopping /\ Incident /\ stopping' = TRUE
  /\ UNCHANGED <<mode, repo, row, turn, turnCount, hold, historyVars>>

\* The process dies, or exits when the turns of a shutdown have ended.  The state
\* file may have become unreadable, and is set aside.  A turn that was cut off runs
\* again from its row or its queued message, if its row was not finished before:
\* nothing here tells of a saving that was cut off.  (The backend may offer the message
\* again, for an hour; a stopped one it does not.)
Exit ==
  /\ turn' = [j \in Jobs |-> NoTurn] /\ stopping' = FALSE /\ left' = {}
  /\ \/ /\ Incident \/ (stopping /\ (\A j \in Jobs : turn[j] = NoTurn) /\ Works)
        /\ writtenOff' = writtenOff \cup {turn[j].work : j \in {k \in Jobs : turn[k] # NoTurn}}
        /\ unheard' = unheard \cup
             {turn[j].work : j \in {k \in Jobs : turn[k].pc \in {"save", "saving"}}}
        /\ UNCHANGED <<row, hold>>
     \/ /\ Fails("load")
        /\ row' = [j \in Jobs |-> NoRow] /\ hold' = TRUE
        /\ unheard' = unheard \cup left
        /\ UNCHANGED writtenOff
  /\ UNCHANGED <<mode, repo, turnCount, produced, published>>

\* The operator has saved what is needed and removes the file set aside.
ClearHold ==
  /\ hold /\ hold' = FALSE
  /\ writtenOff' = writtenOff \cup produced
  /\ UNCHANGED <<mode, repo, row, turn, turnCount, stopping, incidentsLeft,
                 produced, published, left, unheard>>

GitDeliveryNext ==
  \/ \E j \in Jobs : BeginTurn(j) \/ TurnStep(j) \/ CompleteIdle(j) \/ NotResumed(j)
  \/ \E b \in Branches : MergePullRequest(b) \/ DeleteRemoteBranch(b)
  \/ Sweep \/ MarkShuttingDown \/ Exit \/ ClearHold

GitDeliverySpec == GitDeliveryInit /\ [][GitDeliveryNext]_deliveryVars

-----------------------------------------------------------------------------
(* Properties.                                                              *)

\* The jobs share one directory, or one set of branches, and still no job's
\* branch has the work of another, except by way of the default branch.
OwnWorkOnly ==
  \A b \in DOMAIN repo.local \ {Default} :
    \A w \in repo.local[b] : w[1] = b[1] \/ w \in repo.remote[Default]

KeptWork ==
  (UNION {UncommittedIn(d) : d \in Dirs}) \cup repo.stash
  \cup (UNION Range(repo.local)) \cup (UNION Range(repo.remote))

Reported == writtenOff \ (left \cup unheard)

\* Work that is nowhere any more, in no directory, branch or stash, was reported
\* as failed to its thread, ran again after a crash or was thrown away by people;
\* or a shutdown left it to the next start.  Three cases of this code are excepted,
\* and are `unheard`: a crash while the work is saved, a CLI that fails on a reply
\* in a shutdown, a row left in progress that another turn or a lost state file
\* takes away.
LossIsReported ==
  produced \ KeptWork \subseteq Reported \cup left \cup unheard \cup (AskJobs \X TurnNumbers)

\* Without the exceptions it does not hold.
LossIsHeardOf ==
  produced \ KeptWork \subseteq Reported \cup left \cup (AskJobs \X TurnNumbers)

\* A turn stores its answer when its work is pushed, not before.
AnsweredWorkIsPushed ==
  \A j \in Jobs \ AskJobs :
    turn[j].pc \in {"finish", "footer"} /\ turn[j].work \in produced => turn[j].work \in published

\* session_timeout.go:43-44 says that git pull --rebase refuses a dirty worktree
\* and the work is committed first: a turn that goes on with a session pulls in a
\* worktree without tracked changes.
PullsClean ==
  \A j \in Jobs : turn[j].plan # <<>> /\ Head(turn[j].plan) = "pullJob" =>
    repo.tree[Dir(j)].tracked = {}
=============================================================================
