------------------------------ MODULE Worktrees ------------------------------
(***************************************************************************)
(* usecases.WorktreePool and the worktrees of jobs: the replenisher that   *)
(* keeps ready worktrees, the turns that take or create one, the periodic  *)
(* sweep of what no job tracks, and the start after a crash.               *)
(*                                                                         *)
(* Abstraction: a directory is its path, the branch checked out in it, the *)
(* commit of the default branch it was made from and the turn whose work   *)
(* it holds.  Commits of the default branch are numbers.  What git does    *)
(* under a mutex of the pool is one step, and so is one git command.       *)
(* Paths: a job's directory is named by the job, a pool directory by its   *)
(* slot (the random id it and its branch are named after), and a directory *)
(* put aside by the pair of job and attempt.  A job's branch is such a     *)
(* pair, a pool branch the slot.  Namespaces and no-repository mode are    *)
(* left out.                                                               *)
(***************************************************************************)
EXTENDS Naturals, Sequences, FiniteSets, Functions

CONSTANTS
  Jobs,
  Slots,
  NoSlot,
  NoBranch,
  Target,        \* targetSize of the pool
  MaxAttempts,   \* bound: conversations started
  MaxPushes,     \* bound: commits others push to the default branch
  FailingSteps,  \* bound: which commands may fail
  MaxFailures,   \* bound: how many do
  MaxCrashes     \* bound: crashes of the agent

ASSUME WorktreeAssumption ==
  /\ Target \in Nat \ {0}
  /\ MaxAttempts \in Nat /\ MaxPushes \in Nat /\ MaxFailures \in Nat /\ MaxCrashes \in Nat
  /\ NoSlot \notin Slots
  /\ FailingSteps \subseteq
       {"fetch", "branch", "add", "list", "move", "rename", "refresh", "remove",
        "state", "volume"}

VARIABLES
  dirs,          \* the directories under the worktree base path
  registered,    \* paths git has a worktree entry for
  branches,      \* local nairid/ branches
  origin,        \* the remote's default branch
  fetched,       \* origin/<default> as last fetched
  ready,         \* WorktreePool.ready
  replenish,     \* replenishChan holds a signal
  filled,        \* initialFillDone is closed
  replenisher,   \* what the replenisher is doing
  turn,          \* per job, how far its turn's preparation has come
  row,           \* per job, the branch its row tracks (its path is the job's)
  sweep,         \* the clean-up routine
  hold,          \* a state file that could not be read is set aside
  phase,         \* of the start-up
  attempts,      \* conversations started so far
  failuresLeft,
  crashesLeft,
  lost,          \* history: work whose rows were lost with the state file
  fillFailed     \* history: a fill or a refresh gave up since the last signal

gitVars == <<dirs, registered, branches, origin, fetched>>
poolVars == <<ready, replenish, filled, replenisher>>
budgetVars == <<attempts, failuresLeft, crashesLeft>>
worktreeVars ==
  <<gitVars, poolVars, turn, row, sweep, hold, phase, budgetVars, lost, fillFailed>>

-----------------------------------------------------------------------------

Attempts == Jobs \X (1 .. MaxAttempts)
Paths == Jobs \cup Slots \cup Attempts
Branches == Slots \cup Attempts
Commits == 0 .. MaxPushes
Directories == [branch : Branches, base : Commits, work : Attempts \cup {NoBranch}]
Pooled == [slot : Slots, base : Commits]

\* Directories of jobs and of the pool and those put aside have names of different
\* shape, and so have their branches (worktree_pool.go:347, git.go:1516, 1606).
ASSUME NamesAssumption ==
  /\ Jobs \cap Slots = {} /\ Attempts \cap (Jobs \cup Slots) = {}
  /\ NoBranch \notin Branches

IdleReplenisher ==
  [pc |-> "off", then |-> "wait", slot |-> NoSlot, base |-> 0,
   stale |-> <<>>, recovered |-> <<>>]
Replenishing ==
  [pc : {"off", "refresh", "take", "reset", "fill", "create", "name", "branch", "wait"},
   then : {"fill", "name", "wait"}, slot : Slots \cup {NoSlot}, base : Commits,
   stale : Seq(Pooled), recovered : Seq(Pooled)]

NoTurn == [pc |-> "none", slot |-> NoSlot, branch |-> NoBranch]
Preparing ==
  [pc : {"none", "pop", "move", "rename", "create", "row", "work"},
   slot : Slots \cup {NoSlot}, branch : Attempts \cup {NoBranch}]

NoSweep == [pc |-> "idle", paths |-> {}, names |-> {}, safe |-> {}]
Sweeping ==
  [pc : {"idle", "rows", "remove", "branches"},
   paths : SUBSET Paths, names : SUBSET Branches, safe : SUBSET Attempts]

WorktreesTypeOK ==
  /\ DOMAIN dirs \subseteq Paths /\ \A p \in DOMAIN dirs : dirs[p] \in Directories
  /\ registered \subseteq Paths /\ branches \subseteq Branches
  /\ origin \in Commits /\ fetched \in Commits
  /\ ready \in Seq(Pooled) /\ Len(ready) <= Target
  /\ replenish \in BOOLEAN /\ filled \in BOOLEAN
  /\ replenisher \in Replenishing
  /\ turn \in [Jobs -> Preparing]
  /\ row \in [Jobs -> Attempts \cup {NoBranch}]
  /\ sweep \in Sweeping
  /\ hold \in BOOLEAN
  /\ phase \in {"load", "stale", "reclaim", "fill", "up"}
  /\ attempts \in 0 .. MaxAttempts
  /\ failuresLeft \in Nat /\ crashesLeft \in Nat
  /\ lost \subseteq Attempts /\ fillFailed \in BOOLEAN

WorktreesInit ==
  /\ dirs = <<>> /\ registered = {} /\ branches = {}
  /\ origin = 0 /\ fetched = 0
  /\ ready = <<>> /\ replenish = FALSE /\ filled = FALSE
  /\ replenisher = IdleReplenisher
  /\ turn = [j \in Jobs |-> NoTurn]
  /\ row = [j \in Jobs |-> NoBranch]
  /\ sweep = NoSweep
  /\ hold = FALSE /\ phase = "stale"
  /\ attempts = 0
  /\ failuresLeft = MaxFailures /\ crashesLeft = MaxCrashes
  /\ lost = {} /\ fillFailed = FALSE

-----------------------------------------------------------------------------
(* git: what the commands do to directories, entries and branches.          *)

Fails(step) ==
  /\ step \in FailingSteps /\ failuresLeft > 0
  /\ failuresLeft' = failuresLeft - 1

Works == UNCHANGED failuresLeft

WorktreeExists(p) == p \in registered

PruneWorktrees == registered' = registered \cap DOMAIN dirs

FetchOrigin == fetched' = origin

\* git branch -m, seen in the directory that has the branch checked out.
RenameBranchInWorktree(p, old, new) ==
  /\ branches' = (branches \ {old}) \cup {new}
  /\ dirs' = [dirs EXCEPT ![p].branch = IF @ = old THEN new ELSE @]

ResetHardInWorktreeToRef(p) == dirs' = [dirs EXCEPT ![p].base = fetched]

\* git branch -D refuses a branch that is checked out.
DeletableOf(bs) == bs \ {dirs[p].branch : p \in registered \cap DOMAIN dirs}

With(p, d) == [q \in DOMAIN dirs \cup {p} |-> IF q = p THEN d ELSE dirs[q]]
Without(ps) == Restrict(dirs, DOMAIN dirs \ ps)

\* git worktree move: onto an existing directory it moves into it, out of sight.
MoveWorktree(from, to) ==
  IF to \in DOMAIN dirs
    THEN dirs' = Without({from}) /\ registered' = registered \ {from}
    ELSE /\ dirs' = [q \in (DOMAIN dirs \ {from}) \cup {to} |-> IF q = to THEN dirs[from] ELSE dirs[q]]
         /\ registered' = (registered \ {from}) \cup {to}

AddWorktreeForBranch(p, b, base) ==
  /\ dirs' = With(p, [branch |-> b, base |-> base, work |-> NoBranch])
  /\ registered' = registered \cup {p}

\* git worktree remove --force.
RemoveWorktree(p) ==
  /\ WorktreeExists(p)
  /\ dirs' = Without({p})
  /\ registered' = registered \ {p}

\* The fall-back where git refuses: os.RemoveAll leaves git's entry.
RemoveAll(p) == dirs' = Without({p}) /\ UNCHANGED registered

RemoveDirectory(p) ==
  \/ RemoveWorktree(p) /\ Works
  \/ ~WorktreeExists(p) /\ RemoveAll(p) /\ Works
  \/ RemoveAll(p) /\ Fails("remove")

\* cleanupFailedWorktree of a pool directory and its branch.
CleanupFailedWorktree(s) ==
  /\ RemoveWorktree(s) \/ (~WorktreeExists(s) /\ RemoveAll(s))
  /\ branches' = branches \ {s}

\* CleanupJobWorktree; a failed removal is an error and leaves the branch.
CleanupJobWorktree(j, b) ==
  \/ ~WorktreeExists(j) /\ UNCHANGED <<dirs, registered, branches, failuresLeft>>
  \/ RemoveWorktree(j) /\ branches' = branches \ {b} /\ Works
  \/ WorktreeExists(j) /\ Fails("remove") /\ UNCHANGED <<dirs, registered, branches>>

-----------------------------------------------------------------------------
(* The replenisher: refreshStaleWorktrees and fillToTarget.                 *)

GoOn(pc) == replenisher' = [replenisher EXCEPT !.pc = pc]

Rest == replenisher' = [IdleReplenisher EXCEPT !.pc = "wait"]

GiveUp ==
  /\ Rest
  /\ filled' = TRUE
  /\ fillFailed' = TRUE

\* An empty pool is not refreshed, except in the middle of a fill ("name"),
\* which wants the fetch.
RefreshFetch ==
  LET must == replenisher.then = "name" IN
  /\ replenisher.pc = "refresh"
  /\ \/ /\ ready = <<>> /\ ~must
        /\ GoOn(replenisher.then)
        /\ Works /\ UNCHANGED fetched
     \/ /\ ready # <<>> \/ must
        /\ FetchOrigin
        /\ replenisher' =
             [replenisher EXCEPT !.pc = IF ready = <<>> THEN replenisher.then ELSE "take",
                                 !.base = origin]
        /\ Works
     \/ /\ ready # <<>> \/ must
        /\ Fails("fetch")
        /\ GoOn(replenisher.then)
        /\ UNCHANGED fetched
  /\ UNCHANGED <<dirs, registered, branches, origin, ready, replenish, filled, fillFailed>>

\* What of the list s is in T, in order: a SelectSeq that can be proved about.
Keeping(s, T) ==
  LET kept[n \in 0 .. Len(s)] ==
        IF n = 0 THEN <<>>
        ELSE IF s[n] \in T THEN Append(kept[n - 1], s[n]) ELSE kept[n - 1]
  IN kept[Len(s)]

RefreshTake ==
  LET Fresh == {e \in Pooled : e.base = replenisher.base} IN
  /\ replenisher.pc = "take"
  /\ ready' = Keeping(ready, Fresh)
  /\ replenisher' =
       [replenisher EXCEPT !.pc = "reset", !.stale = Keeping(ready, Pooled \ Fresh)]
  /\ UNCHANGED <<gitVars, replenish, filled, fillFailed, failuresLeft>>

\* Mutant: a worktree that could not be reset is cleaned up and kept in the list.
RefreshResetKept ==
  LET entry == Head(replenisher.stale) IN
  /\ replenisher.pc = "reset" /\ replenisher.stale # <<>>
  /\ \/ ResetHardInWorktreeToRef(entry.slot)
        /\ UNCHANGED <<registered, branches>> /\ Works
     \/ /\ Fails("refresh")
        /\ CleanupFailedWorktree(entry.slot)
  /\ replenisher' = [replenisher EXCEPT !.stale = Tail(@), !.recovered = Append(@, entry)]
  /\ UNCHANGED <<origin, fetched, ready, replenish, filled, fillFailed>>

\* Each stale worktree is reset to what is fetched by now, or dropped.
RefreshReset ==
  LET entry == Head(replenisher.stale)
      rest == Tail(replenisher.stale)
  IN
  /\ replenisher.pc = "reset" /\ replenisher.stale # <<>>
  /\ \/ /\ ResetHardInWorktreeToRef(entry.slot)
        /\ replenisher' =
             [replenisher EXCEPT
                !.stale = rest,
                !.recovered = Append(@, [entry EXCEPT !.base = replenisher.base])]
        /\ UNCHANGED <<registered, branches, fillFailed>> /\ Works
     \/ /\ Fails("refresh")
        /\ CleanupFailedWorktree(entry.slot)
        /\ replenisher' = [replenisher EXCEPT !.stale = rest]
        /\ fillFailed' = TRUE
  /\ UNCHANGED <<origin, fetched, ready, replenish, filled>>

RefreshReturn ==
  /\ replenisher.pc = "reset" /\ replenisher.stale = <<>>
  /\ ready' = ready \o replenisher.recovered
  /\ replenisher' = [replenisher EXCEPT !.pc = replenisher.then, !.recovered = <<>>]
  /\ UNCHANGED <<gitVars, replenish, filled, fillFailed, failuresLeft>>

\* fillToTarget up to the loop: prepareFillCycle resets the main repository to
\* a fresh fetch, under mainRepoMu.
FillBegin ==
  /\ replenisher.pc = "fill"
  /\ \/ /\ Len(ready) >= Target
        /\ Rest /\ filled' = TRUE
        /\ UNCHANGED <<fetched, fillFailed>> /\ Works
     \/ /\ Len(ready) < Target
        /\ FetchOrigin
        /\ GoOn("create")
        /\ UNCHANGED <<filled, fillFailed>> /\ Works
     \/ /\ Len(ready) < Target /\ Fails("fetch")
        /\ GiveUp
        /\ UNCHANGED fetched
  /\ UNCHANGED <<dirs, registered, branches, origin, ready, replenish>>

FillLoop ==
  /\ replenisher.pc = "create"
  /\ \/ /\ Len(ready) >= Target
        /\ Rest /\ filled' = TRUE
     \/ /\ Len(ready) < Target
        /\ GoOn("name")
        /\ UNCHANGED filled
     \/ /\ Len(ready) < Target        \* refreshDue
        /\ replenisher' = [replenisher EXCEPT !.pc = "refresh", !.then = "name"]
        /\ UNCHANGED filled
  /\ UNCHANGED <<gitVars, ready, replenish, fillFailed, failuresLeft>>

\* createPooledWorktree: the base is read before the branch is made from the
\* same ref, which a turn may fetch in between.
CreateName ==
  /\ replenisher.pc = "name"
  /\ \E s \in Slots \ (branches \cup DOMAIN dirs \cup registered) :
       replenisher' = [replenisher EXCEPT !.pc = "branch", !.then = "wait",
                                          !.slot = s, !.base = fetched]
  /\ UNCHANGED <<gitVars, ready, replenish, filled, fillFailed, failuresLeft>>

\* A branch without a worktree is deleted again.
CreatePooled ==
  LET s == replenisher.slot IN
  /\ replenisher.pc = "branch"
  /\ \/ /\ AddWorktreeForBranch(s, s, fetched)
        /\ branches' = branches \cup {s}
        /\ ready' = Append(ready, [slot |-> s, base |-> replenisher.base])
        /\ filled' = TRUE
        /\ replenisher' = [replenisher EXCEPT !.pc = "create", !.slot = NoSlot]
        /\ UNCHANGED fillFailed /\ Works
     \/ /\ Fails("branch") \/ Fails("add")
        /\ GiveUp
        /\ UNCHANGED <<dirs, registered, branches, ready>>
  /\ UNCHANGED <<origin, fetched, replenish>>

\* replenisherLoop's select.
Replenish ==
  /\ replenisher.pc = "wait" /\ replenish
  /\ replenish' = FALSE
  /\ replenisher' = [IdleReplenisher EXCEPT !.pc = "fill"]
  /\ fillFailed' = FALSE
  /\ UNCHANGED <<gitVars, ready, filled, failuresLeft>>

RefreshTick ==
  /\ replenisher.pc = "wait"
  /\ replenisher' = [IdleReplenisher EXCEPT !.pc = "refresh"]
  /\ UNCHANGED <<gitVars, ready, replenish, filled, fillFailed, failuresLeft>>

ReplenisherStep ==
  /\ \/ RefreshFetch \/ RefreshTake \/ RefreshReset \/ RefreshReturn
     \/ FillBegin \/ FillLoop \/ CreateName \/ CreatePooled
     \/ Replenish \/ RefreshTick
  /\ UNCHANGED <<turn, row, sweep, hold, phase, attempts, crashesLeft, lost>>

-----------------------------------------------------------------------------
(* A turn's preparation: PrepareForNewConversationWithWorktree and Acquire. *)

Go(j, pc) == turn' = [turn EXCEPT ![j].pc = pc]
Abort(j) == turn' = [turn EXCEPT ![j] = NoTurn]

\* keepExistingWorktree: the directory moves out of the way, whether git can
\* move it or it must be renamed and pruned.
KeepExistingWorktree(j, aside) ==
  \/ /\ j \notin DOMAIN dirs
     /\ UNCHANGED <<dirs, registered, failuresLeft>>
  \/ /\ j \in DOMAIN dirs /\ WorktreeExists(j)
     /\ MoveWorktree(j, aside) /\ Works
  \/ /\ j \in DOMAIN dirs
     /\ \/ ~WorktreeExists(j) /\ Works
        \/ Fails("move")
     /\ dirs' = [q \in (DOMAIN dirs \ {j}) \cup {aside} |-> IF q = aside THEN dirs[j] ELSE dirs[q]]
     /\ registered' = registered \cap DOMAIN dirs'

\* Mutant: what an earlier conversation of the job left is not looked for.
BeginConversationUnchecked(j) ==
  /\ phase = "up" /\ turn[j] = NoTurn /\ attempts < MaxAttempts
  /\ attempts' = attempts + 1
  /\ turn' = [turn EXCEPT ![j].pc = "pop", ![j].branch = <<j, attempts + 1>>]
  /\ UNCHANGED <<gitVars, ready, replenish, row, failuresLeft>>

BeginConversation(j) ==
  LET b == <<j, attempts + 1>> IN
  /\ phase = "up" /\ turn[j] = NoTurn /\ attempts < MaxAttempts
  /\ attempts' = attempts + 1
  /\ \/ /\ hold
        /\ KeepExistingWorktree(j, b)
        /\ turn' = [turn EXCEPT ![j].pc = "pop", ![j].branch = b]
        /\ UNCHANGED branches
     \/ /\ ~hold
        /\ CleanupJobWorktree(j, IF j \in DOMAIN dirs THEN dirs[j].branch ELSE NoBranch)
        /\ turn' = IF j \in registered'
                     THEN turn
                     ELSE [turn EXCEPT ![j].pc = "pop", ![j].branch = b]
  /\ UNCHANGED <<origin, fetched, ready, replenish, row>>

\* Mutants: the head is taken and left in the list; no signal is sent.
PopPeek(j) ==
  /\ turn[j].pc = "pop"
  /\ turn' = [turn EXCEPT ![j] =
       IF ready = <<>> THEN [@ EXCEPT !.pc = "create"]
                       ELSE [@ EXCEPT !.pc = "move", !.slot = Head(ready).slot]]
  /\ UNCHANGED <<gitVars, ready, replenish, row, attempts, failuresLeft>>
PopUnsignalled(j) ==
  /\ turn[j].pc = "pop"
  /\ \/ ready = <<>> /\ Go(j, "create") /\ UNCHANGED ready
     \/ /\ ready # <<>>
        /\ turn' = [turn EXCEPT ![j].pc = "move", ![j].slot = Head(ready).slot]
        /\ ready' = Tail(ready)
  /\ UNCHANGED <<gitVars, replenish, row, attempts, failuresLeft>>

\* The head of the list under the mutex, then a signal that does not block; an
\* empty list is an error, without a signal.
Pop(j) ==
  /\ turn[j].pc = "pop"
  /\ \/ /\ ready = <<>>
        /\ Go(j, "create")
        /\ UNCHANGED <<ready, replenish>>
     \/ /\ ready # <<>>
        /\ turn' = [turn EXCEPT ![j].pc = "move", ![j].slot = Head(ready).slot]
        /\ ready' = Tail(ready)
        /\ replenish' = TRUE
  /\ UNCHANGED <<gitVars, row, attempts, failuresLeft>>

\* A worktree git does not list (or a list that fails) is discarded, and the
\* caller falls back to making one; one that does not move is an error.
MovePooled(j) ==
  LET s == turn[j].slot IN
  /\ turn[j].pc = "move"
  /\ \/ /\ WorktreeExists(s)
        /\ MoveWorktree(s, j)
        /\ Go(j, "rename")
        /\ UNCHANGED branches /\ Works
     \/ /\ \/ ~WorktreeExists(s) /\ Works
           \/ Fails("list")
        /\ CleanupFailedWorktree(s)
        /\ turn' = [turn EXCEPT ![j].pc = "create", ![j].slot = NoSlot]
     \/ /\ Fails("move")
        /\ CleanupFailedWorktree(s)
        /\ Abort(j)
  /\ UNCHANGED <<origin, fetched, ready, replenish, row, attempts>>

\* When the branch cannot be renamed the move is undone,
\* if git can; the worktree is in no list either way.
RenameBranch(j) ==
  LET s == turn[j].slot
      b == turn[j].branch
      inPlace == j \in DOMAIN dirs /\ WorktreeExists(j)
  IN
  /\ turn[j].pc = "rename"
  /\ \/ /\ inPlace
        /\ RenameBranchInWorktree(j, s, b)
        /\ turn' = [turn EXCEPT ![j].pc = "row", ![j].slot = NoSlot]
        /\ UNCHANGED registered /\ Works
     \/ /\ inPlace /\ Fails("rename")
        /\ MoveWorktree(j, s) \/ UNCHANGED <<dirs, registered>>
        /\ Abort(j)
        /\ UNCHANGED branches
     \/ /\ ~inPlace /\ Works
        /\ Abort(j)
        /\ UNCHANGED <<dirs, registered, branches>>
  /\ UNCHANGED <<origin, fetched, ready, replenish, row, attempts>>

\* Without a pooled worktree: reset the main repository to a fresh fetch, under
\* mainRepoMu, then add a worktree with its branch, under branchMu; git makes the
\* branch before it looks at the path.
CreateWorktree(j) ==
  LET b == turn[j].branch
      free == j \notin DOMAIN dirs \cup registered
  IN
  /\ turn[j].pc = "create"
  /\ \/ /\ free
        /\ AddWorktreeForBranch(j, b, origin)
        /\ FetchOrigin
        /\ branches' = branches \cup {b}
        /\ Go(j, "row") /\ Works
     \/ /\ \/ ~free /\ Works
           \/ Fails("add")
        /\ FetchOrigin
        /\ branches' \in {branches, branches \cup {b}}
        /\ Abort(j)
        /\ UNCHANGED <<dirs, registered>>
     \/ /\ Fails("fetch")
        /\ Abort(j)
        /\ UNCHANGED <<dirs, registered, branches, fetched>>
  /\ UNCHANGED <<origin, ready, replenish, row, attempts>>

\* handleStartConversation records branch and path before the CLI runs.
UpdateJobData(j) ==
  /\ turn[j].pc = "row"
  /\ row' = [row EXCEPT ![j] = turn[j].branch]
  /\ Go(j, "work")
  /\ UNCHANGED <<gitVars, ready, replenish, attempts, failuresLeft>>

\* The CLI's work; or a stop before it made a session, whose worktree goes.
RunCLI(j) ==
  /\ turn[j].pc = "work"
  /\ \/ /\ dirs' = IF j \in DOMAIN dirs THEN [dirs EXCEPT ![j].work = turn[j].branch] ELSE dirs
        /\ UNCHANGED <<registered, branches>> /\ Works
     \/ CleanupJobWorktree(j, turn[j].branch)
  /\ Abort(j)
  /\ UNCHANGED <<origin, fetched, ready, replenish, row, attempts>>

TurnStep(j) ==
  /\ \/ BeginConversation(j) \/ Pop(j) \/ MovePooled(j) \/ RenameBranch(j)
     \/ CreateWorktree(j) \/ UpdateJobData(j) \/ RunCLI(j)
  /\ UNCHANGED <<filled, replenisher, sweep, hold, phase, crashesLeft, lost, fillFailed>>

\* The remote branch is gone: the worktree goes, then the row, whatever happened.
Abandon(j) ==
  /\ phase = "up" /\ turn[j] = NoTurn /\ row[j] # NoBranch
  /\ CleanupJobWorktree(j, row[j])
  /\ row' = [row EXCEPT ![j] = NoBranch]
  /\ UNCHANGED <<origin, fetched, poolVars, turn, sweep, hold, phase, attempts, crashesLeft, lost,
                 fillFailed>>

\* An idle check removes the row only; the sweep will take the worktree.
CompleteIdle(j) ==
  /\ phase = "up" /\ turn[j] = NoTurn /\ row[j] # NoBranch
  /\ row' = [row EXCEPT ![j] = NoBranch]
  /\ UNCHANGED <<gitVars, poolVars, turn, sweep, hold, phase, budgetVars, lost, fillFailed>>

-----------------------------------------------------------------------------
(* The clean-up routine: CleanupOrphanedWorktrees, then CleanupStaleBranches. *)

\* Mutants: the hold is not asked about; only running turns count as tracked.
ListDirectoriesUnheld ==
  /\ sweep.pc = "idle"
  /\ PruneWorktrees
  /\ sweep' = [NoSweep EXCEPT !.pc = "rows", !.paths = DOMAIN dirs \ Slots]
  /\ UNCHANGED <<dirs, branches, failuresLeft>>
ReadRunningPaths ==
  /\ sweep.pc = "rows"
  /\ sweep' = [sweep EXCEPT !.pc = "remove", !.paths = @ \ {j \in Jobs : turn[j] # NoTurn}]
  /\ UNCHANGED <<dirs, registered, branches, failuresLeft>>

\* The directories are listed first, the rows read after.  "safe" remembers what
\* the rows tracked at the listing, for the properties.
ListDirectories ==
  /\ sweep.pc = "idle" /\ ~hold
  /\ PruneWorktrees
  /\ sweep' = [NoSweep EXCEPT !.pc = "rows", !.paths = DOMAIN dirs \ Slots,
                              !.safe = {row[j] : j \in Jobs} \ {NoBranch}]
  /\ UNCHANGED <<dirs, branches, failuresLeft>>

ReadTrackedPaths ==
  /\ sweep.pc = "rows"
  /\ sweep' = [sweep EXCEPT !.pc = "remove",
                            !.paths = @ \ {j \in Jobs : row[j] # NoBranch}]
  /\ UNCHANGED <<dirs, registered, branches, failuresLeft>>

RemoveOrphan ==
  /\ sweep.pc = "remove"
  /\ \E p \in sweep.paths :
       /\ RemoveDirectory(p)
       /\ sweep' = [sweep EXCEPT !.paths = @ \ {p}]
  /\ UNCHANGED branches

ListBranches ==
  /\ sweep.pc = "remove" /\ sweep.paths = {}
  /\ sweep' = [NoSweep EXCEPT !.pc = "branches", !.names = branches \ Slots,
                              !.safe = {row[j] : j \in Jobs} \ {NoBranch}]
  /\ UNCHANGED <<dirs, registered, branches, failuresLeft>>

\* Read the rows, then delete under branchMu.
DeleteBranches ==
  /\ sweep.pc = "branches"
  /\ branches' = branches \ DeletableOf(sweep.names \ {row[j] : j \in Jobs})
  /\ sweep' = NoSweep
  /\ UNCHANGED <<dirs, registered, failuresLeft>>

SweepStep ==
  /\ phase = "up"
  /\ \/ ListDirectories \/ ReadTrackedPaths \/ RemoveOrphan
     \/ ListBranches \/ DeleteBranches
  /\ UNCHANGED <<origin, fetched, poolVars, turn, row, hold, phase, attempts, crashesLeft, lost,
                 fillFailed>>

-----------------------------------------------------------------------------
(* Crash and start-up.                                                      *)

Crash ==
  /\ crashesLeft > 0
  /\ crashesLeft' = crashesLeft - 1
  /\ ready' = <<>> /\ replenish' = FALSE /\ filled' = FALSE
  /\ replenisher' = IdleReplenisher
  /\ turn' = [j \in Jobs |-> NoTurn]
  /\ sweep' = NoSweep
  /\ phase' = "load"
  /\ fillFailed' = FALSE
  /\ UNCHANGED <<gitVars, row, hold, attempts, failuresLeft, lost>>

\* The state file may have become unreadable, and the repository may be a new
\* one in a new container, beside a volume with the old directories.
LoadState ==
  /\ phase = "load"
  /\ \/ /\ UNCHANGED <<row, hold, lost, registered, branches>> /\ Works
     \/ /\ Fails("state")
        /\ row' = [j \in Jobs |-> NoBranch]
        /\ hold' = TRUE
        /\ lost' = {dirs[p].work : p \in DOMAIN dirs} \ {NoBranch}
        /\ UNCHANGED <<registered, branches>>
     \/ /\ Fails("volume")
        /\ registered' = {} /\ branches' = {}
        /\ UNCHANGED <<row, hold, lost>>
  /\ phase' = "stale"
  /\ UNCHANGED <<dirs, ready, replenisher>>

\* CleanupStaleJobWorktrees removes the directories whose git link is broken.
CleanupStaleJobWorktrees ==
  /\ phase = "stale"
  /\ dirs' = IF hold THEN dirs ELSE Without((Jobs \cup Attempts) \ registered)
  /\ phase' = "reclaim"
  /\ UNCHANGED <<registered, branches, ready, replenisher, row, hold, lost, failuresLeft>>

Unclaimed == {s \in Slots \cap DOMAIN dirs : \A i \in DOMAIN ready : ready[i].slot # s}

\* ReclaimOrphanedPoolWorktrees, one directory; its base is what it is at.  The
\* branch of a surplus worktree stays.
ReclaimPooled ==
  /\ phase = "reclaim"
  /\ \E s \in Unclaimed :
       \/ /\ ~WorktreeExists(s)
          /\ RemoveAll(s)
          /\ UNCHANGED ready
       \/ /\ WorktreeExists(s) /\ Len(ready) < Target
          /\ ready' = Append(ready, [slot |-> s, base |-> dirs[s].base])
          /\ UNCHANGED <<dirs, registered>>
       \/ /\ WorktreeExists(s) /\ Len(ready) >= Target
          /\ RemoveWorktree(s)
          /\ UNCHANGED ready
  /\ UNCHANGED <<branches, replenisher, row, hold, phase, lost, failuresLeft>>

StartPool ==
  /\ phase = "reclaim" /\ Unclaimed = {}
  /\ replenisher' = [IdleReplenisher EXCEPT !.pc = "refresh", !.then = "fill"]
  /\ phase' = "fill"
  /\ UNCHANGED <<dirs, registered, branches, ready, row, hold, lost, failuresLeft>>

\* After WaitForInitialFill: recovery drops the rows of unfinished jobs whose
\* worktree is gone.  Then turns and the clean-up run.
RecoverJobs ==
  /\ phase = "fill" /\ filled
  /\ \E unfinished \in SUBSET {j \in Jobs : row[j] # NoBranch /\ ~WorktreeExists(j)} :
       row' = [j \in Jobs |-> IF j \in unfinished THEN NoBranch ELSE row[j]]
  /\ phase' = "up"
  /\ UNCHANGED <<dirs, registered, branches, ready, replenisher, hold, lost, failuresLeft>>

\* The operator has saved what is needed and removes the file set aside.
ClearHold ==
  /\ hold
  /\ hold' = FALSE /\ lost' = {}
  /\ UNCHANGED <<dirs, registered, branches, ready, replenisher, row, phase, failuresLeft>>

StartUp ==
  /\ \/ LoadState \/ CleanupStaleJobWorktrees \/ ReclaimPooled \/ StartPool \/ RecoverJobs
     \/ ClearHold
  /\ UNCHANGED <<origin, fetched, replenish, filled, turn, sweep, attempts, crashesLeft,
                 fillFailed>>

\* Someone pushes to the default branch.
PushToDefault ==
  /\ origin < MaxPushes
  /\ origin' = origin + 1
  /\ UNCHANGED <<dirs, registered, branches, fetched, poolVars, turn, row, sweep, hold, phase,
                 budgetVars, lost, fillFailed>>

WorktreesNext ==
  \/ ReplenisherStep \/ SweepStep \/ StartUp \/ Crash \/ PushToDefault
  \/ \E j \in Jobs : TurnStep(j) \/ Abandon(j) \/ CompleteIdle(j)

\* A goroutine that can go on does.  select picks a waiting signal eventually,
\* however often the ticker is ready too.
WorktreesFairness ==
  /\ WF_worktreeVars(ReplenisherStep)
  /\ SF_worktreeVars(Replenish /\ ReplenisherStep)
  /\ WF_worktreeVars(StartUp)
  /\ \A j \in Jobs : WF_worktreeVars(turn[j].pc # "none" /\ TurnStep(j))

WorktreesSpec == WorktreesInit /\ [][WorktreesNext]_worktreeVars
FairWorktreesSpec == WorktreesSpec /\ WorktreesFairness

-----------------------------------------------------------------------------
(* Properties.                                                              *)

PoolHolders ==
  [ready |-> {ready[i].slot : i \in DOMAIN ready},
   refreshed |-> {replenisher.stale[i].slot : i \in DOMAIN replenisher.stale}
                 \cup {replenisher.recovered[i].slot : i \in DOMAIN replenisher.recovered}]

\* A pooled worktree is in one pair of hands: in the ready list once, with the
\* replenisher while it is refreshed, or with the one turn that took it.
OneHolder ==
  /\ \A i, k \in DOMAIN ready : ready[i].slot = ready[k].slot => i = k
  /\ PoolHolders.ready \cap PoolHolders.refreshed = {}
  /\ \A j \in Jobs : turn[j].slot # NoSlot =>
       /\ turn[j].slot \notin PoolHolders.ready \cup PoolHolders.refreshed
       /\ \A k \in Jobs : turn[k].slot = turn[j].slot => k = j

\* A worktree waiting in the pool can be handed out: its directory, its entry in
\* git and its own branch are there, nobody's work is in it, and it is not older than
\* the base recorded for it, whoever fetched while it was made, refreshed or reclaimed.
ReadyIsUsable ==
  \A i \in DOMAIN ready :
    LET s == ready[i].slot IN
    /\ s \in DOMAIN dirs /\ s \in registered /\ s \in branches
    /\ dirs[s].branch = s /\ dirs[s].work = NoBranch
    /\ ready[i].base <= dirs[s].base

\* A conversation starts on its own branch in a directory without the work of an
\* earlier one (the cross-pollination the resets are there for).
StartsClean ==
  \A j \in Jobs : turn[j].pc = "row" /\ j \in DOMAIN dirs =>
    dirs[j].branch = turn[j].branch /\ dirs[j].work = NoBranch

\* Work whose rows were lost with the state file stays on disk, in its place or
\* put aside, until the operator clears the hold.
HeldWorkSurvives == lost \subseteq {dirs[p].work : p \in DOMAIN dirs}

\* The clean-up never takes the worktree or the branch of a job that was tracked
\* when it listed them and has been ever since.
CleanupSparesTracked ==
  [][SweepStep => \A j \in Jobs : row[j] \in sweep.safe =>
        /\ j \in DOMAIN dirs => j \in DOMAIN dirs'
        /\ row[j] \in branches => row[j] \in branches']_worktreeVars

\* A pool that has been drawn from is full again in the end, unless a command
\* fails on the way: no signal to the replenisher is lost.
RefillsUnlessFailed ==
  Len(ready) < Target ~> (Len(ready) >= Target \/ fillFailed)

\* worktree_pool.go:71 says the pool maintains its target size: after the last
\* failure it is not empty for ever.
PoolRecovers == []<>(ready # <<>>)

\* git.go:1549 says the clean-up removes worktrees that do not correspond to any
\* tracked job: what it removes, no job tracks.
RemovesOnlyUntracked ==
  [][SweepStep => \A j \in Jobs : j \in DOMAIN dirs /\ row[j] # NoBranch => j \in DOMAIN dirs']_worktreeVars
=============================================================================
