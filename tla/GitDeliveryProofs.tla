-------------------------- MODULE GitDeliveryProofs --------------------------
(***************************************************************************)
(* Proofs about GitDelivery: types, whose the branches and directories     *)
(* are, where the work of a turn is until it is pushed, whose work is on a *)
(* branch, and where work is that is not lost.                             *)
(***************************************************************************)
EXTENDS GitDelivery, SequenceTheorems, TLAPS

(* Types.  A repository's branches are a function on some of the names.    *)

BranchMaps == UNION {[D -> SUBSET Turns] : D \in SUBSET Branches}

Requests == [Branches -> {"none", "open", "merged"}]

Repos ==
  [tree : [Dirs -> Trees], local : BranchMaps, remote : BranchMaps,
   tracking : SUBSET Branches, stash : SUBSET Turns, pr : Requests]

Stages ==
  {"none", "prepare", "row", "run", "abandon", "commit", "pushing", "opening", "finish",
   "footer", "save", "saving"}

(* What is left of each plan, and the command that comes next.             *)

FirstPlans ==
  {<<"stash", "clean", "checkoutDefault", "resetToRef", "create">>,
   <<"clean", "checkoutDefault", "resetToRef", "create">>,
   <<"checkoutDefault", "resetToRef", "create">>,
   <<"resetToRef", "create">>, <<"create">>, <<>>}

AgainPlans ==
  {<<"reset", "clean", "checkoutDefault", "pullDefault", "checkoutJob", "pullJob">>,
   <<"clean", "checkoutDefault", "pullDefault", "checkoutJob", "pullJob">>,
   <<"checkoutDefault", "pullDefault", "checkoutJob", "pullJob">>,
   <<"pullDefault", "checkoutJob", "pullJob">>, <<"checkoutJob", "pullJob">>,
   <<"pullJob">>, <<>>}

TreePlans == {<<"exists", "pullJob">>, <<"pullJob">>, <<>>}

AbandonPlans ==
  {<<"clean", "checkoutDefault", "resetToRef", "delete">>,
   <<"checkoutDefault", "resetToRef", "delete">>,
   <<"resetToRef", "delete">>, <<"delete">>, <<>>}

SavePlans == {<<"addAll", "commit", "push">>, <<"commit", "push">>, <<"push">>, <<>>}

CommitPlans == {<<"message", "addAll", "commit", "push">>} \cup SavePlans

OpenPlans == {<<"createPR">>, <<>>}

Plans ==
  FirstPlans \cup AgainPlans \cup TreePlans \cup AbandonPlans \cup CommitPlans \cup OpenPlans

Next(p) == IF p = <<>> THEN "over" ELSE Head(p)

First(j) == turn[j].branch = turn[j].work

TurnRecords ==
  [pc : Stages, plan : Plans, work : Turns \cup {<<>>}, branch : Branches \cup {NoBranch},
   pr : BOOLEAN]

TypeInv ==
  /\ mode \in Modes
  /\ repo \in Repos
  /\ row \in [Jobs -> RowsOfJobs]
  /\ turn \in [Jobs -> TurnRecords]
  /\ turnCount \in 0 .. MaxTurns[mode] /\ hold \in BOOLEAN
  /\ incidentsLeft \in 0 .. MaxIncidents
  /\ produced \subseteq Turns /\ published \subseteq Turns /\ writtenOff \subseteq Turns

-----------------------------------------------------------------------------
(* Whose branches and directories they are.                                *)

\* A branch of job j: of a turn it has had, or the default if the CLI goes there.
Names(j, b) ==
  \/ b \in Turns /\ b[1] = j /\ b[2] <= turnCount
  \/ b = Default /\ "default" \in CLIBranches /\ ~Worktrees

PreparePlans(j) ==
  IF First(j) THEN (IF Worktrees THEN {<<>>} ELSE FirstPlans)
              ELSE (IF Worktrees THEN TreePlans ELSE AgainPlans)

PlanOf(j) ==
  /\ turn[j].pc = "prepare" => turn[j].plan \in PreparePlans(j)
  /\ turn[j].pc = "abandon" => ~Worktrees /\ turn[j].plan \in AbandonPlans
  /\ turn[j].pc = "pushing" => turn[j].plan \in CommitPlans
  /\ turn[j].pc = "saving" => turn[j].plan \in SavePlans
  /\ turn[j].pc = "opening" => turn[j].plan \in OpenPlans
  /\ turn[j].pc \notin {"prepare", "abandon", "pushing", "saving", "opening"} =>
       turn[j].plan = <<>>

TreeOf(j) ==
  \/ repo.tree[j] = NoTree
  \/ Worktrees /\ repo.tree[j].branch \in DOMAIN repo.local /\ Names(j, repo.tree[j].branch)

RowOf(j) ==
  /\ row[j].branch # NoBranch => Names(j, row[j].branch) /\ row[j].branch \in DOMAIN repo.local
  /\ row[j].session => row[j].branch # NoBranch

TurnOf(j) ==
  /\ turn[j].pc = "none" => turn[j] = NoTurn
  /\ turn[j].pc # "none" =>
       /\ turn[j].work \in Turns /\ turn[j].work[1] = j /\ turn[j].work[2] <= turnCount
       /\ Names(j, turn[j].branch)

\* Stages at which the branch and the directory of the turn are prepared.
Ready == {"row", "run", "commit", "pushing", "opening", "finish", "footer", "save", "saving"}

PlaceOf(j) ==
  LET t == turn[j]
      n == Next(t.plan)
      here == repo.tree[Dir(j)].branch
  IN
  /\ t.pc = "prepare" /\ ~Worktrees =>
       /\ n \in {"resetToRef", "create", "pullDefault", "checkoutJob"} => here = Default
       /\ n \in {"pullJob", "over"} => here = t.branch
  /\ t.pc = "abandon" =>
       /\ n \in {"resetToRef", "delete"} => here = Default
       /\ row[j].branch = NoBranch
  /\ t.pc = "prepare" /\ ~First(j) => t.branch = row[j].branch
  /\ t.pc = "row" => t.branch \in {here, row[j].branch}
  /\ t.pc \in {"row", "run", "commit"} => Names(j, here)
  /\ t.pc \in {"run", "commit", "save", "saving"} => t.branch = row[j].branch
  /\ t.pc \in {"pushing", "opening", "saving"} => t.branch = here
  /\ t.pc = "finish" => t.branch \in {here, row[j].branch}
  /\ t.pc \in Ready \ {"row"} => row[j].branch # NoBranch
  /\ Worktrees =>
       /\ t.pc \in Ready => repo.tree[j] # NoTree
       /\ t.pc = "prepare" /\ ~First(j) /\ n \in {"pullJob", "over"} => repo.tree[j] # NoTree

MainInv ==
  /\ Default \in DOMAIN repo.local /\ Default \in DOMAIN repo.remote
  /\ repo.tree[Main].branch \in DOMAIN repo.local
  /\ Worktrees => repo.tree[Main].branch = Default
  /\ ~Worktrees => \A j, k \in Jobs : turn[j].pc # "none" /\ turn[k].pc # "none" => j = k

JobOK(j) == PlanOf(j) /\ TreeOf(j) /\ RowOf(j) /\ TurnOf(j) /\ PlaceOf(j)

NamesInv == MainInv /\ \A j \in Jobs : JobOK(j)

-----------------------------------------------------------------------------
(* The sets the types are made of depend on the mode only, which stays.    *)

LEMMA SetsKept ==
  ASSUME mode' = mode
  PROVE  /\ Turns' = Turns /\ Branches' = Branches /\ Repos' = Repos
         /\ RowsOfJobs' = RowsOfJobs /\ TurnRecords' = TurnRecords
         /\ (Worktrees' <=> Worktrees) /\ \A j \in Jobs : Dir(j)' = Dir(j)
<1>1. Turns' = Turns /\ Branches' = Branches /\ (Worktrees' <=> Worktrees)
  BY DEF TurnNumbers, Turns, Branches, Worktrees
<1>2. BranchMaps' = BranchMaps /\ Trees' = Trees /\ Requests' = Requests
  BY <1>1 DEF BranchMaps, Trees, Requests
<1>3. Repos' = Repos /\ RowsOfJobs' = RowsOfJobs /\ TurnRecords' = TurnRecords
  BY <1>1, <1>2 DEF Repos, RowsOfJobs, TurnRecords
<1>4. \A j \in Jobs : Dir(j)' = Dir(j)
  BY <1>1 DEF Dir
<1>5. QED
  BY <1>1, <1>3, <1>4

LEMMA NamesOf ==
  /\ Default # NoBranch /\ Default \in Branches
  /\ \A b \in Turns : b # Default /\ b # NoBranch /\ b \in Branches
  /\ NoBranch \notin Branches
<1>1. Turns \subseteq Jobs \X Nat
  BY DEF Turns, TurnNumbers
<1>2. QED
  BY <1>1, BranchNamesAssumption DEF Branches

(* Changing what a map of branches has.                                    *)

LEMMA WithMap ==
  ASSUME NEW f \in BranchMaps, NEW b \in Branches, NEW S \in SUBSET Turns
  PROVE  /\ With(f, b, S) \in BranchMaps /\ DOMAIN With(f, b, S) = DOMAIN f \cup {b}
         /\ With(f, b, S)[b] = S
         /\ \A x \in DOMAIN f : x # b => With(f, b, S)[x] = f[x]
<1> DEFINE D == DOMAIN f \cup {b}
<1>1. f \in [DOMAIN f -> SUBSET Turns] /\ DOMAIN f \in SUBSET Branches
  BY DEF BranchMaps
<1>2. With(f, b, S) \in [D -> SUBSET Turns] /\ D \in SUBSET Branches
  BY <1>1 DEF With
<1>3. With(f, b, S) \in BranchMaps
  BY <1>2 DEF BranchMaps
<1>4. QED
  BY <1>3 DEF With

LEMMA RestrictMap ==
  ASSUME NEW f \in BranchMaps, NEW D, D \subseteq DOMAIN f
  PROVE  /\ Restrict(f, D) \in BranchMaps /\ DOMAIN Restrict(f, D) = D
         /\ \A x \in D : Restrict(f, D)[x] = f[x]
<1>1. f \in [DOMAIN f -> SUBSET Turns] /\ DOMAIN f \in SUBSET Branches
  BY DEF BranchMaps
<1>2. Restrict(f, D) \in [D -> SUBSET Turns] /\ D \in SUBSET Branches
  BY <1>1 DEF Restrict
<1>3. Restrict(f, D) \in BranchMaps
  BY <1>2 DEF BranchMaps
<1>4. QED
  BY <1>3 DEF Restrict

LEMMA ExceptMap ==
  ASSUME NEW f \in BranchMaps, NEW b \in DOMAIN f, NEW S \in SUBSET Turns
  PROVE  /\ [f EXCEPT ![b] = S] \in BranchMaps /\ DOMAIN [f EXCEPT ![b] = S] = DOMAIN f
         /\ [f EXCEPT ![b] = S][b] = S
         /\ \A x \in DOMAIN f : x # b => [f EXCEPT ![b] = S][x] = f[x]
<1>1. f \in [DOMAIN f -> SUBSET Turns] /\ DOMAIN f \in SUBSET Branches
  BY DEF BranchMaps
<1>2. [f EXCEPT ![b] = S] \in [DOMAIN f -> SUBSET Turns]
  BY <1>1
<1>3. [f EXCEPT ![b] = S] \in BranchMaps
  BY <1>1, <1>2 DEF BranchMaps
<1>4. QED
  BY <1>3

LEMMA MapValues ==
  ASSUME NEW f \in BranchMaps
  PROVE  DOMAIN f \subseteq Branches /\ \A b \in DOMAIN f : f[b] \in SUBSET Turns
  BY DEF BranchMaps

LEMMA RepoFields ==
  ASSUME NEW g \in Repos
  PROVE  /\ g = [tree |-> g.tree, local |-> g.local, remote |-> g.remote,
                 tracking |-> g.tracking, stash |-> g.stash, pr |-> g.pr]
         /\ g.local \in BranchMaps /\ g.remote \in BranchMaps
         /\ DOMAIN g.local \subseteq Branches /\ DOMAIN g.remote \subseteq Branches
         /\ \A b \in DOMAIN g.local : g.local[b] \in SUBSET Turns
         /\ \A b \in DOMAIN g.remote : g.remote[b] \in SUBSET Turns
         /\ g.tracking \in SUBSET Branches /\ g.stash \in SUBSET Turns
         /\ g.pr \in Requests /\ g.tree \in [Dirs -> Trees]
         /\ \A d \in Dirs :
              /\ g.tree[d] \in Trees /\ g.tree[d].branch \in Branches \cup {NoBranch}
              /\ g.tree[d].tracked \in SUBSET Turns /\ g.tree[d].untracked \in SUBSET Turns
<1>1. /\ g.local \in BranchMaps /\ g.remote \in BranchMaps
      /\ g.tracking \in SUBSET Branches /\ g.stash \in SUBSET Turns
      /\ g.pr \in Requests /\ g.tree \in [Dirs -> Trees]
      /\ g = [tree |-> g.tree, local |-> g.local, remote |-> g.remote,
                 tracking |-> g.tracking, stash |-> g.stash, pr |-> g.pr]
  BY DEF Repos
<1>2. \A d \in Dirs :
              /\ g.tree[d] \in Trees /\ g.tree[d].branch \in Branches \cup {NoBranch}
              /\ g.tree[d].tracked \in SUBSET Turns /\ g.tree[d].untracked \in SUBSET Turns
  BY <1>1 DEF Trees
<1>3. QED
  BY <1>1, <1>2, MapValues

(* Joining what the plans are joined of.                                   *)

LEMMA OneAndThree ==
  ASSUME NEW a, NEW b, NEW c, NEW d
  PROVE  <<a>> \o <<b, c, d>> = <<a, b, c, d>>
<1> DEFINE s == <<a>> \o <<b, c, d>>
           t == <<a, b, c, d>>
           S == {a, b, c, d}
<1>1. /\ s \in Seq(S) /\ Len(s) = 4
      /\ s[1] = a /\ s[2] = b /\ s[3] = c /\ s[4] = d
  OBVIOUS
<1>2. /\ t \in Seq(S) /\ Len(t) = 4
      /\ t[1] = a /\ t[2] = b /\ t[3] = c /\ t[4] = d
  OBVIOUS
<1> HIDE DEF s, t, S
<1>3. s = t
  BY <1>1, <1>2, SeqEqual
<1>4. QED
  BY <1>3 DEF s, t

LEMMA ThreeAndOne ==
  ASSUME NEW a, NEW b, NEW c, NEW d
  PROVE  <<a, b, c>> \o <<d>> = <<a, b, c, d>>
<1> DEFINE s == <<a, b, c>> \o <<d>>
           t == <<a, b, c, d>>
           S == {a, b, c, d}
<1>1. /\ s \in Seq(S) /\ Len(s) = 4
      /\ s[1] = a /\ s[2] = b /\ s[3] = c /\ s[4] = d
  OBVIOUS
<1>2. /\ t \in Seq(S) /\ Len(t) = 4
      /\ t[1] = a /\ t[2] = b /\ t[3] = c /\ t[4] = d
  OBVIOUS
<1> HIDE DEF s, t, S
<1>3. s = t
  BY <1>1, <1>2, SeqEqual
<1>4. QED
  BY <1>3 DEF s, t

LEMMA FourAndOne ==
  ASSUME NEW a, NEW b, NEW c, NEW d, NEW e
  PROVE  <<a, b, c, d>> \o <<e>> = <<a, b, c, d, e>>
<1> DEFINE s == <<a, b, c, d>> \o <<e>>
           t == <<a, b, c, d, e>>
           S == {a, b, c, d, e}
<1>1. /\ s \in Seq(S) /\ Len(s) = 5
      /\ s[1] = a /\ s[2] = b /\ s[3] = c /\ s[4] = d /\ s[5] = e
  OBVIOUS
<1>2. /\ t \in Seq(S) /\ Len(t) = 5
      /\ t[1] = a /\ t[2] = b /\ t[3] = c /\ t[4] = d /\ t[5] = e
  OBVIOUS
<1> HIDE DEF s, t, S
<1>3. s = t
  BY <1>1, <1>2, SeqEqual
<1>4. QED
  BY <1>3 DEF s, t

LEMMA FiveAndOne ==
  ASSUME NEW a, NEW b, NEW c, NEW d, NEW e, NEW f
  PROVE  <<a, b, c, d, e>> \o <<f>> = <<a, b, c, d, e, f>>
<1> DEFINE s == <<a, b, c, d, e>> \o <<f>>
           t == <<a, b, c, d, e, f>>
           S == {a, b, c, d, e, f}
<1>1. /\ s \in Seq(S) /\ Len(s) = 6
      /\ s[1] = a /\ s[2] = b /\ s[3] = c /\ s[4] = d /\ s[5] = e /\ s[6] = f
  OBVIOUS
<1>2. /\ t \in Seq(S) /\ Len(t) = 6
      /\ t[1] = a /\ t[2] = b /\ t[3] = c /\ t[4] = d /\ t[5] = e /\ t[6] = f
  OBVIOUS
<1> HIDE DEF s, t, S
<1>3. s = t
  BY <1>1, <1>2, SeqEqual
<1>4. QED
  BY <1>3 DEF s, t

(* Plans: each command leaves the rest of the plan.                        *)

LEMMA FirstPlan ==
  ASSUME NEW p \in FirstPlans, p # <<>>
  PROVE  /\ Tail(p) \in FirstPlans
         /\ \/ Head(p) = "stash" /\ Next(Tail(p)) = "clean"
            \/ Head(p) = "clean" /\ Next(Tail(p)) = "checkoutDefault"
            \/ Head(p) = "checkoutDefault" /\ Next(Tail(p)) = "resetToRef"
            \/ Head(p) = "resetToRef" /\ Next(Tail(p)) = "create"
            \/ Head(p) = "create" /\ Next(Tail(p)) = "over"
<1>1. CASE p = <<"stash", "clean", "checkoutDefault", "resetToRef", "create">>
  <2>1. Head(p) = "stash" /\ Tail(p) = <<"clean", "checkoutDefault", "resetToRef", "create">>
    BY <1>1
  <2>2. Next(<<"clean", "checkoutDefault", "resetToRef", "create">>) = "clean"
    BY DEF Next
  <2>3. Tail(p) \in FirstPlans
    BY <2>1 DEF FirstPlans
  <2>4. QED
    BY <2>1, <2>2, <2>3
<1>2. CASE p = <<"clean", "checkoutDefault", "resetToRef", "create">>
  <2>1. Head(p) = "clean" /\ Tail(p) = <<"checkoutDefault", "resetToRef", "create">>
    BY <1>2
  <2>2. Next(<<"checkoutDefault", "resetToRef", "create">>) = "checkoutDefault"
    BY DEF Next
  <2>3. Tail(p) \in FirstPlans
    BY <2>1 DEF FirstPlans
  <2>4. QED
    BY <2>1, <2>2, <2>3
<1>3. CASE p = <<"checkoutDefault", "resetToRef", "create">>
  <2>1. Head(p) = "checkoutDefault" /\ Tail(p) = <<"resetToRef", "create">>
    BY <1>3
  <2>2. Next(<<"resetToRef", "create">>) = "resetToRef"
    BY DEF Next
  <2>3. Tail(p) \in FirstPlans
    BY <2>1 DEF FirstPlans
  <2>4. QED
    BY <2>1, <2>2, <2>3
<1>4. CASE p = <<"resetToRef", "create">>
  <2>1. Head(p) = "resetToRef" /\ Tail(p) = <<"create">>
    BY <1>4
  <2>2. Next(<<"create">>) = "create"
    BY DEF Next
  <2>3. Tail(p) \in FirstPlans
    BY <2>1 DEF FirstPlans
  <2>4. QED
    BY <2>1, <2>2, <2>3
<1>5. CASE p = <<"create">>
  <2>1. Head(p) = "create" /\ Tail(p) = <<>>
    BY <1>5
  <2>2. Next(<<>>) = "over"
    BY DEF Next
  <2>3. Tail(p) \in FirstPlans
    BY <2>1 DEF FirstPlans
  <2>4. QED
    BY <2>1, <2>2, <2>3
<1>6. QED
  BY <1>1, <1>2, <1>3, <1>4, <1>5 DEF FirstPlans

LEMMA AgainPlan ==
  ASSUME NEW p \in AgainPlans, p # <<>>
  PROVE  /\ Tail(p) \in AgainPlans
         /\ \/ Head(p) = "reset" /\ Next(Tail(p)) = "clean"
            \/ Head(p) = "clean" /\ Next(Tail(p)) = "checkoutDefault"
            \/ Head(p) = "checkoutDefault" /\ Next(Tail(p)) = "pullDefault"
            \/ Head(p) = "pullDefault" /\ Next(Tail(p)) = "checkoutJob"
            \/ Head(p) = "checkoutJob" /\ Next(Tail(p)) = "pullJob"
            \/ Head(p) = "pullJob" /\ Next(Tail(p)) = "over"
<1>1. CASE p = <<"reset", "clean", "checkoutDefault", "pullDefault", "checkoutJob", "pullJob">>
  <2>1. Head(p) = "reset" /\ Tail(p) = <<"clean", "checkoutDefault", "pullDefault", "checkoutJob", "pullJob">>
    BY <1>1
  <2>2. Next(<<"clean", "checkoutDefault", "pullDefault", "checkoutJob", "pullJob">>) = "clean"
    BY DEF Next
  <2>3. Tail(p) \in AgainPlans
    BY <2>1 DEF AgainPlans
  <2>4. QED
    BY <2>1, <2>2, <2>3
<1>2. CASE p = <<"clean", "checkoutDefault", "pullDefault", "checkoutJob", "pullJob">>
  <2>1. Head(p) = "clean" /\ Tail(p) = <<"checkoutDefault", "pullDefault", "checkoutJob", "pullJob">>
    BY <1>2
  <2>2. Next(<<"checkoutDefault", "pullDefault", "checkoutJob", "pullJob">>) = "checkoutDefault"
    BY DEF Next
  <2>3. Tail(p) \in AgainPlans
    BY <2>1 DEF AgainPlans
  <2>4. QED
    BY <2>1, <2>2, <2>3
<1>3. CASE p = <<"checkoutDefault", "pullDefault", "checkoutJob", "pullJob">>
  <2>1. Head(p) = "checkoutDefault" /\ Tail(p) = <<"pullDefault", "checkoutJob", "pullJob">>
    BY <1>3
  <2>2. Next(<<"pullDefault", "checkoutJob", "pullJob">>) = "pullDefault"
    BY DEF Next
  <2>3. Tail(p) \in AgainPlans
    BY <2>1 DEF AgainPlans
  <2>4. QED
    BY <2>1, <2>2, <2>3
<1>4. CASE p = <<"pullDefault", "checkoutJob", "pullJob">>
  <2>1. Head(p) = "pullDefault" /\ Tail(p) = <<"checkoutJob", "pullJob">>
    BY <1>4
  <2>2. Next(<<"checkoutJob", "pullJob">>) = "checkoutJob"
    BY DEF Next
  <2>3. Tail(p) \in AgainPlans
    BY <2>1 DEF AgainPlans
  <2>4. QED
    BY <2>1, <2>2, <2>3
<1>5. CASE p = <<"checkoutJob", "pullJob">>
  <2>1. Head(p) = "checkoutJob" /\ Tail(p) = <<"pullJob">>
    BY <1>5
  <2>2. Next(<<"pullJob">>) = "pullJob"
    BY DEF Next
  <2>3. Tail(p) \in AgainPlans
    BY <2>1 DEF AgainPlans
  <2>4. QED
    BY <2>1, <2>2, <2>3
<1>6. CASE p = <<"pullJob">>
  <2>1. Head(p) = "pullJob" /\ Tail(p) = <<>>
    BY <1>6
  <2>2. Next(<<>>) = "over"
    BY DEF Next
  <2>3. Tail(p) \in AgainPlans
    BY <2>1 DEF AgainPlans
  <2>4. QED
    BY <2>1, <2>2, <2>3
<1>7. QED
  BY <1>1, <1>2, <1>3, <1>4, <1>5, <1>6 DEF AgainPlans

LEMMA TreePlan ==
  ASSUME NEW p \in TreePlans, p # <<>>
  PROVE  /\ Tail(p) \in TreePlans
         /\ \/ Head(p) = "exists" /\ Next(Tail(p)) = "pullJob"
            \/ Head(p) = "pullJob" /\ Next(Tail(p)) = "over"
<1>1. CASE p = <<"exists", "pullJob">>
  <2>1. Head(p) = "exists" /\ Tail(p) = <<"pullJob">>
    BY <1>1
  <2>2. Next(<<"pullJob">>) = "pullJob"
    BY DEF Next
  <2>3. Tail(p) \in TreePlans
    BY <2>1 DEF TreePlans
  <2>4. QED
    BY <2>1, <2>2, <2>3
<1>2. CASE p = <<"pullJob">>
  <2>1. Head(p) = "pullJob" /\ Tail(p) = <<>>
    BY <1>2
  <2>2. Next(<<>>) = "over"
    BY DEF Next
  <2>3. Tail(p) \in TreePlans
    BY <2>1 DEF TreePlans
  <2>4. QED
    BY <2>1, <2>2, <2>3
<1>3. QED
  BY <1>1, <1>2 DEF TreePlans

LEMMA AbandonPlan ==
  ASSUME NEW p \in AbandonPlans, p # <<>>
  PROVE  /\ Tail(p) \in AbandonPlans
         /\ \/ Head(p) = "clean" /\ Next(Tail(p)) = "checkoutDefault"
            \/ Head(p) = "checkoutDefault" /\ Next(Tail(p)) = "resetToRef"
            \/ Head(p) = "resetToRef" /\ Next(Tail(p)) = "delete"
            \/ Head(p) = "delete" /\ Next(Tail(p)) = "over"
<1>1. CASE p = <<"clean", "checkoutDefault", "resetToRef", "delete">>
  <2>1. Head(p) = "clean" /\ Tail(p) = <<"checkoutDefault", "resetToRef", "delete">>
    BY <1>1
  <2>2. Next(<<"checkoutDefault", "resetToRef", "delete">>) = "checkoutDefault"
    BY DEF Next
  <2>3. Tail(p) \in AbandonPlans
    BY <2>1 DEF AbandonPlans
  <2>4. QED
    BY <2>1, <2>2, <2>3
<1>2. CASE p = <<"checkoutDefault", "resetToRef", "delete">>
  <2>1. Head(p) = "checkoutDefault" /\ Tail(p) = <<"resetToRef", "delete">>
    BY <1>2
  <2>2. Next(<<"resetToRef", "delete">>) = "resetToRef"
    BY DEF Next
  <2>3. Tail(p) \in AbandonPlans
    BY <2>1 DEF AbandonPlans
  <2>4. QED
    BY <2>1, <2>2, <2>3
<1>3. CASE p = <<"resetToRef", "delete">>
  <2>1. Head(p) = "resetToRef" /\ Tail(p) = <<"delete">>
    BY <1>3
  <2>2. Next(<<"delete">>) = "delete"
    BY DEF Next
  <2>3. Tail(p) \in AbandonPlans
    BY <2>1 DEF AbandonPlans
  <2>4. QED
    BY <2>1, <2>2, <2>3
<1>4. CASE p = <<"delete">>
  <2>1. Head(p) = "delete" /\ Tail(p) = <<>>
    BY <1>4
  <2>2. Next(<<>>) = "over"
    BY DEF Next
  <2>3. Tail(p) \in AbandonPlans
    BY <2>1 DEF AbandonPlans
  <2>4. QED
    BY <2>1, <2>2, <2>3
<1>5. QED
  BY <1>1, <1>2, <1>3, <1>4 DEF AbandonPlans

LEMMA SavePlan ==
  ASSUME NEW p \in SavePlans, p # <<>>
  PROVE  /\ Tail(p) \in SavePlans
         /\ \/ Head(p) = "addAll" /\ Next(Tail(p)) = "commit"
            \/ Head(p) = "commit" /\ Next(Tail(p)) = "push"
            \/ Head(p) = "push" /\ Next(Tail(p)) = "over"
<1>1. CASE p = <<"addAll", "commit", "push">>
  <2>1. Head(p) = "addAll" /\ Tail(p) = <<"commit", "push">>
    BY <1>1
  <2>2. Next(<<"commit", "push">>) = "commit"
    BY DEF Next
  <2>3. Tail(p) \in SavePlans
    BY <2>1 DEF SavePlans
  <2>4. QED
    BY <2>1, <2>2, <2>3
<1>2. CASE p = <<"commit", "push">>
  <2>1. Head(p) = "commit" /\ Tail(p) = <<"push">>
    BY <1>2
  <2>2. Next(<<"push">>) = "push"
    BY DEF Next
  <2>3. Tail(p) \in SavePlans
    BY <2>1 DEF SavePlans
  <2>4. QED
    BY <2>1, <2>2, <2>3
<1>3. CASE p = <<"push">>
  <2>1. Head(p) = "push" /\ Tail(p) = <<>>
    BY <1>3
  <2>2. Next(<<>>) = "over"
    BY DEF Next
  <2>3. Tail(p) \in SavePlans
    BY <2>1 DEF SavePlans
  <2>4. QED
    BY <2>1, <2>2, <2>3
<1>4. QED
  BY <1>1, <1>2, <1>3 DEF SavePlans

LEMMA CommitPlanStep ==
  ASSUME NEW p \in CommitPlans, p # <<>>
  PROVE  /\ Tail(p) \in CommitPlans
         /\ \/ Head(p) = "message" /\ Next(Tail(p)) = "addAll"
            \/ Head(p) = "addAll" /\ Next(Tail(p)) = "commit"
            \/ Head(p) = "commit" /\ Next(Tail(p)) = "push"
            \/ Head(p) = "push" /\ Next(Tail(p)) = "over"
<1>1. CASE p = <<"message", "addAll", "commit", "push">>
  <2>1. Head(p) = "message" /\ Tail(p) = <<"addAll", "commit", "push">>
    BY <1>1
  <2>2. Next(<<"addAll", "commit", "push">>) = "addAll"
    BY DEF Next
  <2>3. Tail(p) \in CommitPlans
    BY <2>1 DEF CommitPlans, SavePlans
  <2>4. QED
    BY <2>1, <2>2, <2>3
<1>2. CASE p = <<"addAll", "commit", "push">>
  <2>1. Head(p) = "addAll" /\ Tail(p) = <<"commit", "push">>
    BY <1>2
  <2>2. Next(<<"commit", "push">>) = "commit"
    BY DEF Next
  <2>3. Tail(p) \in CommitPlans
    BY <2>1 DEF CommitPlans, SavePlans
  <2>4. QED
    BY <2>1, <2>2, <2>3
<1>3. CASE p = <<"commit", "push">>
  <2>1. Head(p) = "commit" /\ Tail(p) = <<"push">>
    BY <1>3
  <2>2. Next(<<"push">>) = "push"
    BY DEF Next
  <2>3. Tail(p) \in CommitPlans
    BY <2>1 DEF CommitPlans, SavePlans
  <2>4. QED
    BY <2>1, <2>2, <2>3
<1>4. CASE p = <<"push">>
  <2>1. Head(p) = "push" /\ Tail(p) = <<>>
    BY <1>4
  <2>2. Next(<<>>) = "over"
    BY DEF Next
  <2>3. Tail(p) \in CommitPlans
    BY <2>1 DEF CommitPlans, SavePlans
  <2>4. QED
    BY <2>1, <2>2, <2>3
<1>5. QED
  BY <1>1, <1>2, <1>3, <1>4 DEF CommitPlans, SavePlans

LEMMA OpenPlan ==
  ASSUME NEW p \in OpenPlans, p # <<>>
  PROVE  /\ Tail(p) \in OpenPlans
         /\ Head(p) = "createPR" /\ Next(Tail(p)) = "over"
<1>1. Head(p) = "createPR" /\ Tail(p) = <<>>
  <2>1. p = <<"createPR">>
    BY DEF OpenPlans
  <2>2. QED
    BY <2>1
<1>2. Next(<<>>) = "over"
  BY DEF Next
<1>3. QED
  BY <1>1, <1>2 DEF OpenPlans

LEMMA NextOf ==
  /\ Next(<<>>) = "over" /\ \A p : p # <<>> => Next(p) = Head(p)
  /\ \A p \in Plans : p # <<>> => Head(p) \in Commands
  /\ \A p \in Plans : Next(p) = "over" <=> p = <<>>
  /\ <<>> \in Plans
<1>1. \A p \in Plans : p # <<>> => Head(p) \in Commands
  <2>1. \A p \in FirstPlans : p # <<>> => Head(p) \in Commands
    BY FirstPlan DEF Commands
  <2>2. \A p \in AgainPlans : p # <<>> => Head(p) \in Commands
    BY AgainPlan DEF Commands
  <2>3. \A p \in TreePlans \cup AbandonPlans \cup CommitPlans \cup OpenPlans :
          p # <<>> => Head(p) \in Commands
    BY TreePlan, AbandonPlan, SavePlan, CommitPlanStep, OpenPlan DEF Commands
  <2>4. QED
    BY <2>1, <2>2, <2>3 DEF Plans
<1>2. \A p \in Plans : Next(p) = "over" <=> p = <<>>
  BY <1>1 DEF Next, Commands
<1>3. QED
  BY <1>1, <1>2 DEF Next, Plans, FirstPlans

\* The plans a turn sets out with.
LEMMA Plan ==
  /\ <<>> \in FirstPlans /\ <<>> \in AgainPlans /\ <<>> \in TreePlans
  /\ PrepareForNewConversation \in FirstPlans
  /\ Next(PrepareForNewConversation) = IF hold THEN "stash" ELSE "clean"
  /\ SwitchToJobBranch \o PullLatestChanges \in AgainPlans
  /\ Next(SwitchToJobBranch \o PullLatestChanges) = "reset"
  /\ PrepareWorktreeForJob \in TreePlans /\ Next(PrepareWorktreeForJob) = "exists"
  /\ AbandonJobAndCleanup \in AbandonPlans /\ Next(AbandonJobAndCleanup) = "clean"
  /\ CommitPlan \in CommitPlans /\ Next(CommitPlan) = "message" /\ <<>> \in CommitPlans
  /\ StoppedWorkPlan \in SavePlans /\ Next(StoppedWorkPlan) = "addAll"
  /\ PullRequestPlan \in OpenPlans /\ Next(PullRequestPlan) = "createPR"
<1>1. /\ PrepareForNewConversation \in FirstPlans
      /\ Next(PrepareForNewConversation) = IF hold THEN "stash" ELSE "clean"
  <2>1. resetAndPullDefaultBranch \o <<"create">>
          = <<"clean", "checkoutDefault", "resetToRef", "create">>
    BY ThreeAndOne DEF resetAndPullDefaultBranch
  <2>2. CASE hold
    <3>1. PrepareForNewConversation = <<"stash", "clean", "checkoutDefault", "resetToRef", "create">>
      <4>1. PrepareForNewConversation
              = (<<"stash">> \o resetAndPullDefaultBranch) \o <<"create">>
        BY <2>2 DEF PrepareForNewConversation
      <4>2. <<"stash">> \o resetAndPullDefaultBranch
              = <<"stash", "clean", "checkoutDefault", "resetToRef">>
        BY OneAndThree DEF resetAndPullDefaultBranch
      <4>3. QED
        BY <4>1, <4>2, FourAndOne
    <3>2. QED
      BY <2>2, <3>1 DEF FirstPlans, Next
  <2>3. CASE ~hold
    <3>1. PrepareForNewConversation = <<"clean", "checkoutDefault", "resetToRef", "create">>
      <4>1. PrepareForNewConversation
              = (<<>> \o resetAndPullDefaultBranch) \o <<"create">>
        BY <2>3 DEF PrepareForNewConversation
      <4>2. <<>> \o resetAndPullDefaultBranch = resetAndPullDefaultBranch
        BY DEF resetAndPullDefaultBranch
      <4>3. QED
        BY <2>1, <4>1, <4>2
    <3>2. QED
      BY <2>3, <3>1 DEF FirstPlans, Next
  <2>4. QED
    BY <2>2, <2>3
<1>2. /\ SwitchToJobBranch \o PullLatestChanges \in AgainPlans
      /\ Next(SwitchToJobBranch \o PullLatestChanges) = "reset"
  <2>1. SwitchToJobBranch \o PullLatestChanges
          = <<"reset", "clean", "checkoutDefault", "pullDefault", "checkoutJob", "pullJob">>
    BY FiveAndOne DEF SwitchToJobBranch, PullLatestChanges
  <2>2. QED
    BY <2>1 DEF AgainPlans, Next
<1>3. PrepareWorktreeForJob \in TreePlans /\ Next(PrepareWorktreeForJob) = "exists"
  BY DEF PrepareWorktreeForJob, TreePlans, Next
<1>4. AbandonJobAndCleanup \in AbandonPlans /\ Next(AbandonJobAndCleanup) = "clean"
  <2>1. AbandonJobAndCleanup = <<"clean", "checkoutDefault", "resetToRef", "delete">>
    BY ThreeAndOne DEF AbandonJobAndCleanup, resetAndPullDefaultBranch
  <2>2. QED
    BY <2>1 DEF AbandonPlans, Next
<1>5. CommitPlan \in CommitPlans /\ Next(CommitPlan) = "message" /\ <<>> \in CommitPlans
  BY DEF CommitPlan, CommitPlans, SavePlans, Next
<1>6. /\ StoppedWorkPlan \in SavePlans /\ Next(StoppedWorkPlan) = "addAll"
      /\ PullRequestPlan \in OpenPlans /\ Next(PullRequestPlan) = "createPR"
  BY DEF StoppedWorkPlan, SavePlans, PullRequestPlan, OpenPlans, Next
<1>7. <<>> \in FirstPlans /\ <<>> \in AgainPlans /\ <<>> \in TreePlans
  BY DEF FirstPlans, AgainPlans, TreePlans
<1>8. QED
  BY <1>1, <1>2, <1>3, <1>4, <1>5, <1>6, <1>7

-----------------------------------------------------------------------------
(* What a command does to a repository g in directory d, b being the       *)
(* branch of the turn.                                                     *)

TreeEffect(c, t, u, b) ==
  /\ u.branch = IF c = "checkoutDefault" THEN Default
                ELSE IF c \in {"create", "checkoutJob"} THEN b ELSE t.branch
  /\ u.tracked = IF c \in {"stash", "reset", "resetToRef", "commit"} THEN {}
                 ELSE IF c = "addAll" THEN t.tracked \cup t.untracked ELSE t.tracked
  /\ u.untracked = IF c \in {"stash", "clean", "addAll"} THEN {} ELSE t.untracked

LocalEffect(c, g, h, d, b) ==
  LET cur == g.tree[d].branch IN
  /\ DOMAIN h.local = IF c \in {"create", "checkoutJob"} THEN DOMAIN g.local \cup {b}
                      ELSE IF c = "delete" THEN DOMAIN g.local \ {b} ELSE DOMAIN g.local
  /\ c = "delete" /\ b \in DOMAIN g.local => \A x \in Dirs : g.tree[x].branch # b
  /\ c = "create" => h.local[b] = g.local[cur]
  /\ c = "checkoutJob" /\ b \notin DOMAIN g.local => b \in DOMAIN g.remote /\ h.local[b] = g.remote[b]
  /\ c = "resetToRef" => h.local[cur] = g.remote[Default]
  /\ c = "commit" => h.local[cur] = g.local[cur] \cup g.tree[d].tracked
  /\ c \in {"pullDefault", "pullJob"} =>
       /\ g.local[cur] \subseteq h.local[cur]
       /\ \A w \in h.local[cur] :
            w \in g.local[cur] \/ w \in g.remote[Default] \/ (cur \in DOMAIN g.remote /\ w \in g.remote[cur])
  /\ \A x \in DOMAIN g.local \cap DOMAIN h.local :
       \/ x = cur /\ c \in {"resetToRef", "commit", "pullDefault", "pullJob"}
       \/ x = b /\ c = "create"
       \/ h.local[x] = g.local[x]

RemoteEffect(c, g, h, d) ==
  LET cur == g.tree[d].branch IN
  IF c = "push"
    THEN /\ DOMAIN h.remote = DOMAIN g.remote \cup {cur}
         /\ h.remote[cur] = g.local[cur]
         /\ cur \in DOMAIN g.remote => g.remote[cur] \subseteq g.local[cur]
         /\ \A x \in DOMAIN g.remote : x # cur => h.remote[x] = g.remote[x]
    ELSE h.remote = g.remote

Same(g, h) ==
  h.tree = g.tree /\ h.local = g.local /\ h.remote = g.remote /\ h.stash = g.stash

Result(c, g, d, b, h) ==
  /\ \A x \in Dirs : x # d => h.tree[x] = g.tree[x]
  /\ c = "exists" => g.tree[d] # NoTree
  /\ TreeEffect(c, g.tree[d], h.tree[d], b)
  /\ LocalEffect(c, g, h, d, b)
  /\ RemoteEffect(c, g, h, d)
  /\ g.stash \subseteq h.stash
  /\ c = "stash" => g.tree[d].tracked \cup g.tree[d].untracked \subseteq h.stash

Effect(c, g, d, b, o) ==
  /\ o.repo \in Repos /\ o.err \in {"none", "failed", "deleted"}
  /\ o.err = "deleted" => c \in {"pullDefault", "pullJob"}
  /\ o.err # "none" => Same(g, o.repo)
  /\ o.err = "none" => Result(c, g, d, b, o.repo)

Sound(c, g, d, b) ==
  /\ g \in Repos /\ d \in Dirs /\ b \in Branches
  /\ c # "exists" => g.tree[d].branch \in DOMAIN g.local
  /\ c = "push" => b = g.tree[d].branch
  /\ Default \in DOMAIN g.local /\ Default \in DOMAIN g.remote

\* A repository of its parts, and one that differs from g in directory d.
RepoWith(w, l, r, k, s, p) ==
  [tree |-> w, local |-> l, remote |-> r, tracking |-> k, stash |-> s, pr |-> p]

TreeWith(g, d, v) == [g.tree EXCEPT ![d] = v]

\* The outcomes of the commands that have no name of their own.
Fetched(g, b) ==
  [g EXCEPT !.local = With(@, b, g.remote[b]), !.tree[Main].branch = b,
            !.tracking = @ \cup {b}]

Dropped(g, b) == [g EXCEPT !.local = Restrict(@, DOMAIN @ \ {b}), !.tracking = @ \ {b}]

Pushed(g, b) == [g EXCEPT !.remote = With(@, b, g.local[b]), !.tracking = @ \cup {b}]

Merged(g, b) == [g EXCEPT !.pr[b] = "merged", !.remote[Default] = @ \cup g.remote[b]]

\* A worktree that is removed, with the branch of the turn or without, and made.
Removed(g, d, b) ==
  [g EXCEPT !.tree[d] = NoTree, !.local = Restrict(@, DOMAIN @ \ {b})]

Vacated(g, d) == [g EXCEPT !.tree[d] = NoTree]

Made(g, d, b, s) ==
  [g EXCEPT !.tree[d] = [NoTree EXCEPT !.branch = b],
            !.local = With(@, b, g.remote[Default]), !.stash = s]

\* What a CLI does: a branch checked out or made, a file changed or added.
At(g, d, b) == [g EXCEPT !.tree[d].branch = b]

Owned(g, d, w, b) == [g EXCEPT !.local = With(@, w, g.local[b]), !.tree[d].branch = w]

Edited(g, d, w) == [g EXCEPT !.tree[d].tracked = @ \cup {w}]

Added(g, d, w) == [g EXCEPT !.tree[d].untracked = @ \cup {w}]

Withdrawn(g, b) == [g EXCEPT !.remote = Restrict(@, DOMAIN @ \ {b})]

IsChanged(h, g, d, v, l, r, s) ==
  /\ h \in Repos /\ h.tree[d] = v /\ \A x \in Dirs : x # d => h.tree[x] = g.tree[x]
  /\ h.local = l /\ h.remote = r /\ h.stash = s

LEMMA ChangedIs ==
  ASSUME NEW g \in Repos, NEW d \in Dirs, NEW v \in Trees, NEW l \in BranchMaps,
         NEW r \in BranchMaps, NEW s \in SUBSET Turns,
         NEW k \in SUBSET Branches, NEW p \in Requests, NEW h,
         h = RepoWith(TreeWith(g, d, v), l, r, k, s, p)
  PROVE  IsChanged(h, g, d, v, l, r, s)
<1>1. TreeWith(g, d, v) \in [Dirs -> Trees]
  BY RepoFields DEF TreeWith
<1>2. h \in Repos
  BY <1>1 DEF Repos, RepoWith
<1>3. h.tree[d] = v /\ \A x \in Dirs : x # d => h.tree[x] = g.tree[x]
  BY <1>1, RepoFields DEF RepoWith, TreeWith
<1>4. QED
  BY <1>2, <1>3 DEF IsChanged, RepoWith

LEMMA TreeMake ==
  /\ \A b \in Branches \cup {NoBranch}, S, T \in SUBSET Turns :
       [branch |-> b, tracked |-> S, untracked |-> T] \in Trees
  /\ \A t \in Trees : t = [branch |-> t.branch, tracked |-> t.tracked, untracked |-> t.untracked]
  BY DEF Trees

LEMMA ResetIs ==
  ASSUME NEW g \in Repos
  PROVE  IsChanged(ResetHard(g), g, Main,
                   [branch |-> g.tree[Main].branch, tracked |-> {}, untracked |-> g.tree[Main].untracked],
                   g.local, g.remote, g.stash)
<1> DEFINE new == [branch |-> g.tree[Main].branch, tracked |-> {}, untracked |-> g.tree[Main].untracked]
<1>1. ResetHard(g)
        = [g EXCEPT !.tree = TreeWith(g, Main, [g.tree[Main] EXCEPT !.tracked = {}])]
  BY DEF ResetHard, TreeWith
<1>2. [g.tree[Main] EXCEPT !.tracked = {}]
        = new
  <2>1. g.tree[Main] \in Trees
    BY RepoFields DEF Dirs
  <2>2. QED
    BY <2>1 DEF Trees
<1>3. /\ new \in Trees /\ g.local \in BranchMaps /\ g.remote \in BranchMaps /\ g.tracking \in SUBSET Branches
      /\ g.pr \in Requests /\ g.stash \in SUBSET Turns /\ Main \in Dirs
  BY RepoFields, TreeMake DEF Dirs
<1> HIDE DEF new
<1>4. ResetHard(g)
        = RepoWith(TreeWith(g, Main, new), g.local, g.remote, g.tracking, g.stash, g.pr)
  <2>1. ASSUME NEW h,
               h = [g EXCEPT !.tree = TreeWith(g, Main, [g.tree[Main] EXCEPT !.tracked = {}])]
        PROVE  h = RepoWith(TreeWith(g, Main, new), g.local, g.remote, g.tracking, g.stash, g.pr)
    BY <1>2, <2>1 DEF RepoWith, Repos
  <2>2. QED
    BY <1>1, <2>1
<1>5. IsChanged(ResetHard(g), g, Main, new, g.local, g.remote, g.stash)
  BY <1>3, <1>4, ChangedIs
<1>6. QED
  BY <1>5 DEF new

LEMMA CleanIs ==
  ASSUME NEW g \in Repos
  PROVE  IsChanged(CleanUntracked(g), g, Main,
                   [branch |-> g.tree[Main].branch, tracked |-> g.tree[Main].tracked, untracked |-> {}],
                   g.local, g.remote, g.stash)
<1> DEFINE new == [branch |-> g.tree[Main].branch, tracked |-> g.tree[Main].tracked, untracked |-> {}]
<1>1. CleanUntracked(g)
        = [g EXCEPT !.tree = TreeWith(g, Main, [g.tree[Main] EXCEPT !.untracked = {}])]
  BY DEF CleanUntracked, TreeWith
<1>2. [g.tree[Main] EXCEPT !.untracked = {}]
        = new
  <2>1. g.tree[Main] \in Trees
    BY RepoFields DEF Dirs
  <2>2. QED
    BY <2>1 DEF Trees
<1>3. /\ new \in Trees /\ g.local \in BranchMaps /\ g.remote \in BranchMaps /\ g.tracking \in SUBSET Branches
      /\ g.pr \in Requests /\ g.stash \in SUBSET Turns /\ Main \in Dirs
  BY RepoFields, TreeMake DEF Dirs
<1> HIDE DEF new
<1>4. CleanUntracked(g)
        = RepoWith(TreeWith(g, Main, new), g.local, g.remote, g.tracking, g.stash, g.pr)
  <2>1. ASSUME NEW h,
               h = [g EXCEPT !.tree = TreeWith(g, Main, [g.tree[Main] EXCEPT !.untracked = {}])]
        PROVE  h = RepoWith(TreeWith(g, Main, new), g.local, g.remote, g.tracking, g.stash, g.pr)
    BY <1>2, <2>1 DEF RepoWith, Repos
  <2>2. QED
    BY <1>1, <2>1
<1>5. IsChanged(CleanUntracked(g), g, Main, new, g.local, g.remote, g.stash)
  BY <1>3, <1>4, ChangedIs
<1>6. QED
  BY <1>5 DEF new

LEMMA CheckoutIs ==
  ASSUME NEW g \in Repos, NEW b \in Branches
  PROVE  IsChanged([g EXCEPT !.tree[Main].branch = b], g, Main,
                   [branch |-> b, tracked |-> g.tree[Main].tracked, untracked |-> g.tree[Main].untracked],
                   g.local, g.remote, g.stash)
<1> DEFINE new == [branch |-> b, tracked |-> g.tree[Main].tracked, untracked |-> g.tree[Main].untracked]
<1>1. [g EXCEPT !.tree[Main].branch = b]
        = [g EXCEPT !.tree = TreeWith(g, Main, [g.tree[Main] EXCEPT !.branch = b])]
  BY DEF TreeWith
<1>2. [g.tree[Main] EXCEPT !.branch = b]
        = new
  <2>1. g.tree[Main] \in Trees
    BY RepoFields DEF Dirs
  <2>2. QED
    BY <2>1 DEF Trees
<1>3. /\ new \in Trees /\ g.local \in BranchMaps /\ g.remote \in BranchMaps /\ g.tracking \in SUBSET Branches
      /\ g.pr \in Requests /\ g.stash \in SUBSET Turns /\ Main \in Dirs
  BY RepoFields, TreeMake DEF Dirs
<1> HIDE DEF new
<1>4. [g EXCEPT !.tree[Main].branch = b]
        = RepoWith(TreeWith(g, Main, new), g.local, g.remote, g.tracking, g.stash, g.pr)
  <2>1. ASSUME NEW h,
               h = [g EXCEPT !.tree = TreeWith(g, Main, [g.tree[Main] EXCEPT !.branch = b])]
        PROVE  h = RepoWith(TreeWith(g, Main, new), g.local, g.remote, g.tracking, g.stash, g.pr)
    BY <1>2, <2>1 DEF RepoWith, Repos
  <2>2. QED
    BY <1>1, <2>1
<1>5. IsChanged([g EXCEPT !.tree[Main].branch = b], g, Main, new, g.local, g.remote, g.stash)
  BY <1>3, <1>4, ChangedIs
<1>6. QED
  BY <1>5 DEF new

LEMMA CreateIs ==
  ASSUME NEW g \in Repos, NEW b \in Branches,
         g.tree[Main].branch \in DOMAIN g.local
  PROVE  IsChanged(CreateAndCheckoutBranch(g, b), g, Main,
                   [branch |-> b, tracked |-> g.tree[Main].tracked, untracked |-> g.tree[Main].untracked],
                   With(g.local, b, g.local[g.tree[Main].branch]), g.remote, g.stash)
<1> DEFINE new == [branch |-> b, tracked |-> g.tree[Main].tracked, untracked |-> g.tree[Main].untracked]
           locals == With(g.local, b, g.local[g.tree[Main].branch])
<1>1. CreateAndCheckoutBranch(g, b)
        = [g EXCEPT !.local = locals,
                                        !.tree = TreeWith(g, Main, [g.tree[Main] EXCEPT !.branch = b])]
  BY DEF CreateAndCheckoutBranch, CurrentBranch, CurrentBranchInWorktree, TreeWith
<1>2. [g.tree[Main] EXCEPT !.branch = b]
        = new
  <2>1. g.tree[Main] \in Trees
    BY RepoFields DEF Dirs
  <2>2. QED
    BY <2>1 DEF Trees
<1>3. /\ new \in Trees /\ locals \in BranchMaps /\ g.remote \in BranchMaps /\ g.tracking \in SUBSET Branches
      /\ g.pr \in Requests /\ g.stash \in SUBSET Turns /\ Main \in Dirs
  BY RepoFields, TreeMake, WithMap DEF Dirs
<1> HIDE DEF new, locals
<1>4. CreateAndCheckoutBranch(g, b)
        = RepoWith(TreeWith(g, Main, new), locals, g.remote, g.tracking, g.stash, g.pr)
  <2>1. ASSUME NEW h,
               h = [g EXCEPT !.local = locals,
                                        !.tree = TreeWith(g, Main, [g.tree[Main] EXCEPT !.branch = b])]
        PROVE  h = RepoWith(TreeWith(g, Main, new), locals, g.remote, g.tracking, g.stash, g.pr)
    BY <1>2, <2>1 DEF RepoWith, Repos
  <2>2. QED
    BY <1>1, <2>1
<1>5. IsChanged(CreateAndCheckoutBranch(g, b), g, Main, new, locals, g.remote, g.stash)
  BY <1>3, <1>4, ChangedIs
<1>6. QED
  BY <1>5 DEF new, locals

LEMMA AddAllIs ==
  ASSUME NEW g \in Repos, NEW d \in Dirs
  PROVE  IsChanged(AddAllInWorktree(g, d), g, d,
                   [branch |-> g.tree[d].branch, tracked |-> g.tree[d].tracked \cup g.tree[d].untracked, untracked |-> {}],
                   g.local, g.remote, g.stash)
<1> DEFINE new == [branch |-> g.tree[d].branch, tracked |-> g.tree[d].tracked \cup g.tree[d].untracked, untracked |-> {}]
<1>1. AddAllInWorktree(g, d)
        = [g EXCEPT !.tree = TreeWith(g, d, [g.tree[d] EXCEPT !.tracked = g.tree[d].tracked \cup g.tree[d].untracked, !.untracked = {}])]
  BY DEF AddAllInWorktree, TreeWith
<1>2. [g.tree[d] EXCEPT !.tracked = g.tree[d].tracked \cup g.tree[d].untracked, !.untracked = {}]
        = new
  <2>1. g.tree[d] \in Trees
    BY RepoFields DEF Dirs
  <2>2. PICK S : S = g.tree[d].tracked \cup g.tree[d].untracked
    OBVIOUS
  <2>3. ASSUME NEW t, t = [g.tree[d] EXCEPT !.tracked = S, !.untracked = {}]
        PROVE  t = [branch |-> g.tree[d].branch, tracked |-> S, untracked |-> {}]
    BY <2>1, <2>3 DEF Trees
  <2>4. QED
    BY <2>2, <2>3
<1>3. /\ new \in Trees /\ g.local \in BranchMaps /\ g.remote \in BranchMaps /\ g.tracking \in SUBSET Branches
      /\ g.pr \in Requests /\ g.stash \in SUBSET Turns /\ d \in Dirs
  BY RepoFields, TreeMake
<1> HIDE DEF new
<1>4. AddAllInWorktree(g, d)
        = RepoWith(TreeWith(g, d, new), g.local, g.remote, g.tracking, g.stash, g.pr)
  <2>1. ASSUME NEW h,
               h = [g EXCEPT !.tree = TreeWith(g, d, [g.tree[d] EXCEPT !.tracked = g.tree[d].tracked \cup g.tree[d].untracked, !.untracked = {}])]
        PROVE  h = RepoWith(TreeWith(g, d, new), g.local, g.remote, g.tracking, g.stash, g.pr)
    BY <1>2, <2>1 DEF RepoWith, Repos
  <2>2. QED
    BY <1>1, <2>1
<1>5. IsChanged(AddAllInWorktree(g, d), g, d, new, g.local, g.remote, g.stash)
  BY <1>3, <1>4, ChangedIs
<1>6. QED
  BY <1>5 DEF new

LEMMA CommitIs ==
  ASSUME NEW g \in Repos, NEW d \in Dirs, g.tree[d].branch \in DOMAIN g.local
  PROVE  IsChanged(CommitInWorktree(g, d), g, d,
                   [branch |-> g.tree[d].branch, tracked |-> {}, untracked |-> g.tree[d].untracked],
                   [g.local EXCEPT ![g.tree[d].branch] = g.local[g.tree[d].branch] \cup g.tree[d].tracked], g.remote, g.stash)
<1> DEFINE new == [branch |-> g.tree[d].branch, tracked |-> {}, untracked |-> g.tree[d].untracked]
           locals == [g.local EXCEPT ![g.tree[d].branch] = g.local[g.tree[d].branch] \cup g.tree[d].tracked]
<1>1. CommitInWorktree(g, d)
        = [g EXCEPT !.local = locals,
                                   !.tree = TreeWith(g, d, [g.tree[d] EXCEPT !.tracked = {}])]
  BY DEF CommitInWorktree, CurrentBranchInWorktree, TreeWith
<1>2. [g.tree[d] EXCEPT !.tracked = {}]
        = new
  <2>1. g.tree[d] \in Trees
    BY RepoFields DEF Dirs
  <2>2. QED
    BY <2>1 DEF Trees
<1>3. /\ new \in Trees /\ locals \in BranchMaps /\ g.remote \in BranchMaps /\ g.tracking \in SUBSET Branches
      /\ g.pr \in Requests /\ g.stash \in SUBSET Turns /\ d \in Dirs
  <2>1. g.local[g.tree[d].branch] \cup g.tree[d].tracked \in SUBSET Turns
    BY RepoFields
  <2>2. QED
    BY <2>1, RepoFields, TreeMake, ExceptMap
<1> HIDE DEF new, locals
<1>4. CommitInWorktree(g, d)
        = RepoWith(TreeWith(g, d, new), locals, g.remote, g.tracking, g.stash, g.pr)
  <2>1. ASSUME NEW h,
               h = [g EXCEPT !.local = locals,
                                   !.tree = TreeWith(g, d, [g.tree[d] EXCEPT !.tracked = {}])]
        PROVE  h = RepoWith(TreeWith(g, d, new), locals, g.remote, g.tracking, g.stash, g.pr)
    BY <1>2, <2>1 DEF RepoWith, Repos
  <2>2. QED
    BY <1>1, <2>1
<1>5. IsChanged(CommitInWorktree(g, d), g, d, new, locals, g.remote, g.stash)
  BY <1>3, <1>4, ChangedIs
<1>6. QED
  BY <1>5 DEF new, locals

LEMMA RemoteIs ==
  ASSUME NEW g \in Repos, NEW b \in Branches, b \in DOMAIN g.remote
  PROVE  IsChanged(Fetched(g, b), g, Main,
                   [branch |-> b, tracked |-> g.tree[Main].tracked, untracked |-> g.tree[Main].untracked],
                   With(g.local, b, g.remote[b]), g.remote, g.stash)
<1> DEFINE new == [branch |-> b, tracked |-> g.tree[Main].tracked, untracked |-> g.tree[Main].untracked]
           locals == With(g.local, b, g.remote[b])
           tracks == g.tracking \cup {b}
<1>1. Fetched(g, b)
        = [g EXCEPT !.local = locals, !.tree = TreeWith(g, Main, [g.tree[Main] EXCEPT !.branch = b]), !.tracking = tracks]
  BY DEF Fetched, TreeWith
<1>2. [g.tree[Main] EXCEPT !.branch = b]
        = new
  <2>1. g.tree[Main] \in Trees
    BY RepoFields DEF Dirs
  <2>2. QED
    BY <2>1 DEF Trees
<1>3. /\ new \in Trees /\ locals \in BranchMaps /\ g.remote \in BranchMaps /\ tracks \in SUBSET Branches
      /\ g.pr \in Requests /\ g.stash \in SUBSET Turns /\ Main \in Dirs
  BY RepoFields, TreeMake, WithMap DEF Dirs
<1> HIDE DEF new, locals, tracks
<1>4. Fetched(g, b)
        = RepoWith(TreeWith(g, Main, new), locals, g.remote, tracks, g.stash, g.pr)
  <2>1. ASSUME NEW h,
               h = [g EXCEPT !.local = locals, !.tree = TreeWith(g, Main, [g.tree[Main] EXCEPT !.branch = b]), !.tracking = tracks]
        PROVE  h = RepoWith(TreeWith(g, Main, new), locals, g.remote, tracks, g.stash, g.pr)
    BY <1>2, <2>1 DEF RepoWith, Repos
  <2>2. QED
    BY <1>1, <2>1
<1>5. IsChanged(Fetched(g, b), g, Main, new, locals, g.remote, g.stash)
  BY <1>3, <1>4, ChangedIs
<1>6. QED
  BY <1>5 DEF new, locals, tracks

LEMMA PulledIs ==
  ASSUME NEW g \in Repos, NEW d \in Dirs, NEW b \in DOMAIN g.local, NEW S \in SUBSET Turns
  PROVE  IsChanged([g EXCEPT !.local[b] = @ \cup S], g, d,
                   g.tree[d],
                   [g.local EXCEPT ![b] = g.local[b] \cup S], g.remote, g.stash)
<1> DEFINE locals == [g.local EXCEPT ![b] = g.local[b] \cup S]
<1>1. [g EXCEPT !.local[b] = @ \cup S]
        = [g EXCEPT !.local = locals]
  BY DEF RepoWith
<1>2. TreeWith(g, d, g.tree[d]) = g.tree
  BY RepoFields DEF TreeWith, Dirs
<1>3. /\ g.tree[d] \in Trees /\ locals \in BranchMaps /\ g.remote \in BranchMaps /\ g.tracking \in SUBSET Branches
      /\ g.pr \in Requests /\ g.stash \in SUBSET Turns /\ d \in Dirs
  BY RepoFields, TreeMake, ExceptMap
<1> HIDE DEF locals
<1>4. [g EXCEPT !.local[b] = @ \cup S]
        = RepoWith(TreeWith(g, d, g.tree[d]), locals, g.remote, g.tracking, g.stash, g.pr)
  <2>1. ASSUME NEW h,
               h = [g EXCEPT !.local = locals]
        PROVE  h = RepoWith(TreeWith(g, d, g.tree[d]), locals, g.remote, g.tracking, g.stash, g.pr)
    BY <1>2, <2>1 DEF RepoWith, Repos
  <2>2. QED
    BY <1>1, <2>1
<1>5. IsChanged([g EXCEPT !.local[b] = @ \cup S], g, d, g.tree[d], locals, g.remote, g.stash)
  BY <1>3, <1>4, ChangedIs
<1>6. QED
  BY <1>5 DEF locals

LEMMA DeletedIs ==
  ASSUME NEW g \in Repos, NEW b \in Branches
  PROVE  IsChanged(Dropped(g, b), g, Main,
                   g.tree[Main],
                   Restrict(g.local, DOMAIN g.local \ {b}), g.remote, g.stash)
<1> DEFINE locals == Restrict(g.local, DOMAIN g.local \ {b})
           tracks == g.tracking \ {b}
<1>1. Dropped(g, b)
        = [g EXCEPT !.local = locals, !.tracking = tracks]
  BY DEF Dropped
<1>2. TreeWith(g, Main, g.tree[Main]) = g.tree
  BY RepoFields DEF TreeWith, Dirs
<1>3. /\ g.tree[Main] \in Trees /\ locals \in BranchMaps /\ g.remote \in BranchMaps /\ tracks \in SUBSET Branches
      /\ g.pr \in Requests /\ g.stash \in SUBSET Turns /\ Main \in Dirs
  BY RepoFields, TreeMake, RestrictMap DEF Dirs
<1> HIDE DEF locals, tracks
<1>4. Dropped(g, b)
        = RepoWith(TreeWith(g, Main, g.tree[Main]), locals, g.remote, tracks, g.stash, g.pr)
  <2>1. ASSUME NEW h,
               h = [g EXCEPT !.local = locals, !.tracking = tracks]
        PROVE  h = RepoWith(TreeWith(g, Main, g.tree[Main]), locals, g.remote, tracks, g.stash, g.pr)
    BY <1>2, <2>1 DEF RepoWith, Repos
  <2>2. QED
    BY <1>1, <2>1
<1>5. IsChanged(Dropped(g, b), g, Main, g.tree[Main], locals, g.remote, g.stash)
  BY <1>3, <1>4, ChangedIs
<1>6. QED
  BY <1>5 DEF locals, tracks

LEMMA PushedIs ==
  ASSUME NEW g \in Repos, NEW d \in Dirs, NEW b \in DOMAIN g.local
  PROVE  IsChanged(Pushed(g, b), g, d,
                   g.tree[d],
                   g.local, With(g.remote, b, g.local[b]), g.stash)
<1> DEFINE remotes == With(g.remote, b, g.local[b])
           tracks == g.tracking \cup {b}
<1>1. Pushed(g, b)
        = [g EXCEPT !.remote = remotes, !.tracking = tracks]
  BY DEF Pushed
<1>2. TreeWith(g, d, g.tree[d]) = g.tree
  BY RepoFields DEF TreeWith, Dirs
<1>3. /\ g.tree[d] \in Trees /\ g.local \in BranchMaps /\ remotes \in BranchMaps /\ tracks \in SUBSET Branches
      /\ g.pr \in Requests /\ g.stash \in SUBSET Turns /\ d \in Dirs
  <2>1. b \in Branches /\ g.local[b] \in SUBSET Turns
    BY RepoFields
  <2>2. QED
    BY <2>1, RepoFields, WithMap
<1> HIDE DEF remotes, tracks
<1>4. Pushed(g, b)
        = RepoWith(TreeWith(g, d, g.tree[d]), g.local, remotes, tracks, g.stash, g.pr)
  <2>1. ASSUME NEW h,
               h = [g EXCEPT !.remote = remotes, !.tracking = tracks]
        PROVE  h = RepoWith(TreeWith(g, d, g.tree[d]), g.local, remotes, tracks, g.stash, g.pr)
    BY <1>2, <2>1 DEF RepoWith, Repos
  <2>2. QED
    BY <1>1, <2>1
<1>5. IsChanged(Pushed(g, b), g, d, g.tree[d], g.local, remotes, g.stash)
  BY <1>3, <1>4, ChangedIs
<1>6. QED
  BY <1>5 DEF remotes, tracks

LEMMA OpenedIs ==
  ASSUME NEW g \in Repos, NEW d \in Dirs, NEW b \in Branches
  PROVE  IsChanged([g EXCEPT !.pr[b] = "open"], g, d,
                   g.tree[d],
                   g.local, g.remote, g.stash)
<1> DEFINE requests == [g.pr EXCEPT ![b] = "open"]
<1>1. [g EXCEPT !.pr[b] = "open"]
        = [g EXCEPT !.pr = requests]
  BY DEF RepoWith
<1>2. TreeWith(g, d, g.tree[d]) = g.tree
  BY RepoFields DEF TreeWith, Dirs
<1>3. /\ g.tree[d] \in Trees /\ g.local \in BranchMaps /\ g.remote \in BranchMaps /\ g.tracking \in SUBSET Branches
      /\ requests \in Requests /\ g.stash \in SUBSET Turns /\ d \in Dirs
  BY RepoFields, TreeMake DEF Requests
<1> HIDE DEF requests
<1>4. [g EXCEPT !.pr[b] = "open"]
        = RepoWith(TreeWith(g, d, g.tree[d]), g.local, g.remote, g.tracking, g.stash, requests)
  <2>1. ASSUME NEW h,
               h = [g EXCEPT !.pr = requests]
        PROVE  h = RepoWith(TreeWith(g, d, g.tree[d]), g.local, g.remote, g.tracking, g.stash, requests)
    BY <1>2, <2>1 DEF RepoWith, Repos
  <2>2. QED
    BY <1>1, <2>1
<1>5. IsChanged([g EXCEPT !.pr[b] = "open"], g, d, g.tree[d], g.local, g.remote, g.stash)
  BY <1>3, <1>4, ChangedIs
<1>6. QED
  BY <1>5 DEF requests

LEMMA MergedIs ==
  ASSUME NEW g \in Repos, NEW d \in Dirs, NEW b \in DOMAIN g.remote,
         Default \in DOMAIN g.remote
  PROVE  IsChanged(Merged(g, b), g, d,
                   g.tree[d],
                   g.local, [g.remote EXCEPT ![Default] = g.remote[Default] \cup g.remote[b]], g.stash)
<1> DEFINE remotes == [g.remote EXCEPT ![Default] = g.remote[Default] \cup g.remote[b]]
           requests == [g.pr EXCEPT ![b] = "merged"]
<1>1. Merged(g, b)
        = [g EXCEPT !.pr = requests,
                !.remote = remotes]
  BY DEF Merged
<1>2. TreeWith(g, d, g.tree[d]) = g.tree
  BY RepoFields DEF TreeWith, Dirs
<1>3. /\ g.tree[d] \in Trees /\ g.local \in BranchMaps /\ remotes \in BranchMaps /\ g.tracking \in SUBSET Branches
      /\ requests \in Requests /\ g.stash \in SUBSET Turns /\ d \in Dirs
  BY RepoFields, TreeMake, ExceptMap DEF Requests
<1> HIDE DEF remotes, requests
<1>4. Merged(g, b)
        = RepoWith(TreeWith(g, d, g.tree[d]), g.local, remotes, g.tracking, g.stash, requests)
  <2>1. ASSUME NEW h,
               h = [g EXCEPT !.pr = requests,
                !.remote = remotes]
        PROVE  h = RepoWith(TreeWith(g, d, g.tree[d]), g.local, remotes, g.tracking, g.stash, requests)
    BY <1>2, <2>1 DEF RepoWith, Repos
  <2>2. QED
    BY <1>1, <2>1
<1>5. IsChanged(Merged(g, b), g, d, g.tree[d], g.local, remotes, g.stash)
  BY <1>3, <1>4, ChangedIs
<1>6. QED
  BY <1>5 DEF remotes, requests

LEMMA VacatedIs ==
  ASSUME NEW g \in Repos, NEW d \in Dirs
  PROVE  IsChanged(Vacated(g, d), g, d,
                   [branch |-> NoBranch, tracked |-> {}, untracked |-> {}],
                   g.local, g.remote, g.stash)
<1> DEFINE new == [branch |-> NoBranch, tracked |-> {}, untracked |-> {}]
<1>1. Vacated(g, d)
        = [g EXCEPT !.tree = TreeWith(g, d, NoTree)]
  BY DEF Vacated, TreeWith
<1>2. NoTree
        = new
  <2>1. g.tree[d] \in Trees
    BY RepoFields DEF Dirs
  <2>2. NoTree \in Trees /\ NoTree.tracked = {} /\ NoTree.untracked = {}
    BY TreeMake DEF NoTree
  <2>3. QED
    BY <2>2 DEF Trees, NoTree
<1>3. /\ new \in Trees /\ g.local \in BranchMaps /\ g.remote \in BranchMaps /\ g.tracking \in SUBSET Branches
      /\ g.pr \in Requests /\ g.stash \in SUBSET Turns /\ d \in Dirs
  BY RepoFields, TreeMake DEF Dirs
<1> HIDE DEF new
<1>4. Vacated(g, d)
        = RepoWith(TreeWith(g, d, new), g.local, g.remote, g.tracking, g.stash, g.pr)
  <2>1. ASSUME NEW h,
               h = [g EXCEPT !.tree = TreeWith(g, d, NoTree)]
        PROVE  h = RepoWith(TreeWith(g, d, new), g.local, g.remote, g.tracking, g.stash, g.pr)
    BY <1>2, <2>1 DEF RepoWith, Repos
  <2>2. QED
    BY <1>1, <2>1
<1>5. IsChanged(Vacated(g, d), g, d, new, g.local, g.remote, g.stash)
  BY <1>3, <1>4, ChangedIs
<1>6. QED
  BY <1>5 DEF new

LEMMA RemovedIs ==
  ASSUME NEW g \in Repos, NEW d \in Dirs, NEW b
  PROVE  IsChanged(Removed(g, d, b), g, d,
                   [branch |-> NoBranch, tracked |-> {}, untracked |-> {}],
                   Restrict(g.local, DOMAIN g.local \ {b}), g.remote, g.stash)
<1> DEFINE new == [branch |-> NoBranch, tracked |-> {}, untracked |-> {}]
           locals == Restrict(g.local, DOMAIN g.local \ {b})
<1>1. Removed(g, d, b)
        = [g EXCEPT !.tree = TreeWith(g, d, NoTree), !.local = locals]
  BY DEF Removed, TreeWith
<1>2. NoTree
        = new
  <2>1. g.tree[d] \in Trees
    BY RepoFields DEF Dirs
  <2>2. NoTree \in Trees /\ NoTree.tracked = {} /\ NoTree.untracked = {}
    BY TreeMake DEF NoTree
  <2>3. QED
    BY <2>2 DEF Trees, NoTree
<1>3. /\ new \in Trees /\ locals \in BranchMaps /\ g.remote \in BranchMaps /\ g.tracking \in SUBSET Branches
      /\ g.pr \in Requests /\ g.stash \in SUBSET Turns /\ d \in Dirs
  BY RepoFields, TreeMake, RestrictMap
<1> HIDE DEF new, locals
<1>4. Removed(g, d, b)
        = RepoWith(TreeWith(g, d, new), locals, g.remote, g.tracking, g.stash, g.pr)
  <2>1. ASSUME NEW h,
               h = [g EXCEPT !.tree = TreeWith(g, d, NoTree), !.local = locals]
        PROVE  h = RepoWith(TreeWith(g, d, new), locals, g.remote, g.tracking, g.stash, g.pr)
    BY <1>2, <2>1 DEF RepoWith, Repos
  <2>2. QED
    BY <1>1, <2>1
<1>5. IsChanged(Removed(g, d, b), g, d, new, locals, g.remote, g.stash)
  BY <1>3, <1>4, ChangedIs
<1>6. QED
  BY <1>5 DEF new, locals

LEMMA MadeIs ==
  ASSUME NEW g \in Repos, NEW d \in Dirs, NEW b \in Branches, NEW s \in SUBSET Turns,
         Default \in DOMAIN g.remote
  PROVE  IsChanged(Made(g, d, b, s), g, d,
                   [branch |-> b, tracked |-> {}, untracked |-> {}],
                   With(g.local, b, g.remote[Default]), g.remote, s)
<1> DEFINE new == [branch |-> b, tracked |-> {}, untracked |-> {}]
           locals == With(g.local, b, g.remote[Default])
<1>1. Made(g, d, b, s)
        = [g EXCEPT !.tree = TreeWith(g, d, [NoTree EXCEPT !.branch = b]), !.local = locals, !.stash = s]
  BY DEF Made, TreeWith
<1>2. [NoTree EXCEPT !.branch = b]
        = new
  <2>1. g.tree[d] \in Trees
    BY RepoFields DEF Dirs
  <2>2. NoTree \in Trees /\ NoTree.tracked = {} /\ NoTree.untracked = {}
    BY TreeMake DEF NoTree
  <2>3. QED
    BY <2>2 DEF Trees
<1>3. /\ new \in Trees /\ locals \in BranchMaps /\ g.remote \in BranchMaps /\ g.tracking \in SUBSET Branches
      /\ g.pr \in Requests /\ s \in SUBSET Turns /\ d \in Dirs
  <2>1. g.remote[Default] \in SUBSET Turns
    BY RepoFields
  <2>2. QED
    BY <2>1, RepoFields, TreeMake, WithMap
<1> HIDE DEF new, locals
<1>4. Made(g, d, b, s)
        = RepoWith(TreeWith(g, d, new), locals, g.remote, g.tracking, s, g.pr)
  <2>1. ASSUME NEW h,
               h = [g EXCEPT !.tree = TreeWith(g, d, [NoTree EXCEPT !.branch = b]), !.local = locals, !.stash = s]
        PROVE  h = RepoWith(TreeWith(g, d, new), locals, g.remote, g.tracking, s, g.pr)
    BY <1>2, <2>1 DEF RepoWith, Repos
  <2>2. QED
    BY <1>1, <2>1
<1>5. IsChanged(Made(g, d, b, s), g, d, new, locals, g.remote, s)
  BY <1>3, <1>4, ChangedIs
<1>6. QED
  BY <1>5 DEF new, locals

LEMMA AtIs ==
  ASSUME NEW g \in Repos, NEW d \in Dirs, NEW b \in Branches
  PROVE  IsChanged(At(g, d, b), g, d,
                   [branch |-> b, tracked |-> g.tree[d].tracked, untracked |-> g.tree[d].untracked],
                   g.local, g.remote, g.stash)
<1> DEFINE new == [branch |-> b, tracked |-> g.tree[d].tracked, untracked |-> g.tree[d].untracked]
<1>1. At(g, d, b)
        = [g EXCEPT !.tree = TreeWith(g, d, [g.tree[d] EXCEPT !.branch = b])]
  BY DEF At, TreeWith
<1>2. [g.tree[d] EXCEPT !.branch = b]
        = new
  <2>1. g.tree[d] \in Trees
    BY RepoFields DEF Dirs
  <2>2. QED
    BY <2>1 DEF Trees
<1>3. /\ new \in Trees /\ g.local \in BranchMaps /\ g.remote \in BranchMaps /\ g.tracking \in SUBSET Branches
      /\ g.pr \in Requests /\ g.stash \in SUBSET Turns /\ d \in Dirs
  BY RepoFields, TreeMake
<1> HIDE DEF new
<1>4. At(g, d, b)
        = RepoWith(TreeWith(g, d, new), g.local, g.remote, g.tracking, g.stash, g.pr)
  <2>1. ASSUME NEW h,
               h = [g EXCEPT !.tree = TreeWith(g, d, [g.tree[d] EXCEPT !.branch = b])]
        PROVE  h = RepoWith(TreeWith(g, d, new), g.local, g.remote, g.tracking, g.stash, g.pr)
    BY <1>2, <2>1 DEF RepoWith, Repos
  <2>2. QED
    BY <1>1, <2>1
<1>5. IsChanged(At(g, d, b), g, d, new, g.local, g.remote, g.stash)
  BY <1>3, <1>4, ChangedIs
<1>6. QED
  BY <1>5 DEF new

LEMMA OwnedIs ==
  ASSUME NEW g \in Repos, NEW d \in Dirs, NEW w \in Branches, NEW b \in DOMAIN g.local
  PROVE  IsChanged(Owned(g, d, w, b), g, d,
                   [branch |-> w, tracked |-> g.tree[d].tracked, untracked |-> g.tree[d].untracked],
                   With(g.local, w, g.local[b]), g.remote, g.stash)
<1> DEFINE new == [branch |-> w, tracked |-> g.tree[d].tracked, untracked |-> g.tree[d].untracked]
           locals == With(g.local, w, g.local[b])
<1>1. Owned(g, d, w, b)
        = [g EXCEPT !.local = locals, !.tree = TreeWith(g, d, [g.tree[d] EXCEPT !.branch = w])]
  BY DEF Owned, TreeWith
<1>2. [g.tree[d] EXCEPT !.branch = w]
        = new
  <2>1. g.tree[d] \in Trees
    BY RepoFields DEF Dirs
  <2>2. QED
    BY <2>1 DEF Trees
<1>3. /\ new \in Trees /\ locals \in BranchMaps /\ g.remote \in BranchMaps /\ g.tracking \in SUBSET Branches
      /\ g.pr \in Requests /\ g.stash \in SUBSET Turns /\ d \in Dirs
  <2>1. g.local[b] \in SUBSET Turns
    BY RepoFields
  <2>2. QED
    BY <2>1, RepoFields, TreeMake, WithMap
<1> HIDE DEF new, locals
<1>4. Owned(g, d, w, b)
        = RepoWith(TreeWith(g, d, new), locals, g.remote, g.tracking, g.stash, g.pr)
  <2>1. ASSUME NEW h,
               h = [g EXCEPT !.local = locals, !.tree = TreeWith(g, d, [g.tree[d] EXCEPT !.branch = w])]
        PROVE  h = RepoWith(TreeWith(g, d, new), locals, g.remote, g.tracking, g.stash, g.pr)
    BY <1>2, <2>1 DEF RepoWith, Repos
  <2>2. QED
    BY <1>1, <2>1
<1>5. IsChanged(Owned(g, d, w, b), g, d, new, locals, g.remote, g.stash)
  BY <1>3, <1>4, ChangedIs
<1>6. QED
  BY <1>5 DEF new, locals

LEMMA EditedIs ==
  ASSUME NEW g \in Repos, NEW d \in Dirs, NEW w \in Turns
  PROVE  IsChanged(Edited(g, d, w), g, d,
                   [branch |-> g.tree[d].branch, tracked |-> g.tree[d].tracked \cup {w}, untracked |-> g.tree[d].untracked],
                   g.local, g.remote, g.stash)
<1> DEFINE new == [branch |-> g.tree[d].branch, tracked |-> g.tree[d].tracked \cup {w}, untracked |-> g.tree[d].untracked]
<1>1. Edited(g, d, w)
        = [g EXCEPT !.tree = TreeWith(g, d, [g.tree[d] EXCEPT !.tracked = g.tree[d].tracked \cup {w}])]
  BY DEF Edited, TreeWith
<1>2. [g.tree[d] EXCEPT !.tracked = g.tree[d].tracked \cup {w}]
        = new
  <2>1. g.tree[d] \in Trees
    BY RepoFields DEF Dirs
  <2>2. PICK S : S = g.tree[d].tracked \cup g.tree[d].untracked
    OBVIOUS
  <2>3. ASSUME NEW t, t = [g.tree[d] EXCEPT !.tracked = g.tree[d].tracked \cup {w}]
        PROVE  t = [branch |-> g.tree[d].branch, tracked |-> g.tree[d].tracked \cup {w}, untracked |-> g.tree[d].untracked]
    BY <2>1, <2>3 DEF Trees
  <2>4. QED
    BY <2>2, <2>3
<1>3. /\ new \in Trees /\ g.local \in BranchMaps /\ g.remote \in BranchMaps /\ g.tracking \in SUBSET Branches
      /\ g.pr \in Requests /\ g.stash \in SUBSET Turns /\ d \in Dirs
  <2>1. g.tree[d].tracked \cup {w} \in SUBSET Turns
    BY RepoFields
  <2>2. QED
    BY <2>1, RepoFields, TreeMake
<1> HIDE DEF new
<1>4. Edited(g, d, w)
        = RepoWith(TreeWith(g, d, new), g.local, g.remote, g.tracking, g.stash, g.pr)
  <2>1. ASSUME NEW h,
               h = [g EXCEPT !.tree = TreeWith(g, d, [g.tree[d] EXCEPT !.tracked = g.tree[d].tracked \cup {w}])]
        PROVE  h = RepoWith(TreeWith(g, d, new), g.local, g.remote, g.tracking, g.stash, g.pr)
    BY <1>2, <2>1 DEF RepoWith, Repos
  <2>2. QED
    BY <1>1, <2>1
<1>5. IsChanged(Edited(g, d, w), g, d, new, g.local, g.remote, g.stash)
  BY <1>3, <1>4, ChangedIs
<1>6. QED
  BY <1>5 DEF new

LEMMA AddedIs ==
  ASSUME NEW g \in Repos, NEW d \in Dirs, NEW w \in Turns
  PROVE  IsChanged(Added(g, d, w), g, d,
                   [branch |-> g.tree[d].branch, tracked |-> g.tree[d].tracked, untracked |-> g.tree[d].untracked \cup {w}],
                   g.local, g.remote, g.stash)
<1> DEFINE new == [branch |-> g.tree[d].branch, tracked |-> g.tree[d].tracked, untracked |-> g.tree[d].untracked \cup {w}]
<1>1. Added(g, d, w)
        = [g EXCEPT !.tree = TreeWith(g, d, [g.tree[d] EXCEPT !.untracked = g.tree[d].untracked \cup {w}])]
  BY DEF Added, TreeWith
<1>2. [g.tree[d] EXCEPT !.untracked = g.tree[d].untracked \cup {w}]
        = new
  <2>1. g.tree[d] \in Trees
    BY RepoFields DEF Dirs
  <2>2. PICK S : S = g.tree[d].tracked \cup g.tree[d].untracked
    OBVIOUS
  <2>3. ASSUME NEW t, t = [g.tree[d] EXCEPT !.untracked = g.tree[d].untracked \cup {w}]
        PROVE  t = [branch |-> g.tree[d].branch, tracked |-> g.tree[d].tracked, untracked |-> g.tree[d].untracked \cup {w}]
    BY <2>1, <2>3 DEF Trees
  <2>4. QED
    BY <2>2, <2>3
<1>3. /\ new \in Trees /\ g.local \in BranchMaps /\ g.remote \in BranchMaps /\ g.tracking \in SUBSET Branches
      /\ g.pr \in Requests /\ g.stash \in SUBSET Turns /\ d \in Dirs
  <2>1. g.tree[d].untracked \cup {w} \in SUBSET Turns
    BY RepoFields
  <2>2. QED
    BY <2>1, RepoFields, TreeMake
<1> HIDE DEF new
<1>4. Added(g, d, w)
        = RepoWith(TreeWith(g, d, new), g.local, g.remote, g.tracking, g.stash, g.pr)
  <2>1. ASSUME NEW h,
               h = [g EXCEPT !.tree = TreeWith(g, d, [g.tree[d] EXCEPT !.untracked = g.tree[d].untracked \cup {w}])]
        PROVE  h = RepoWith(TreeWith(g, d, new), g.local, g.remote, g.tracking, g.stash, g.pr)
    BY <1>2, <2>1 DEF RepoWith, Repos
  <2>2. QED
    BY <1>1, <2>1
<1>5. IsChanged(Added(g, d, w), g, d, new, g.local, g.remote, g.stash)
  BY <1>3, <1>4, ChangedIs
<1>6. QED
  BY <1>5 DEF new

LEMMA WithdrawnIs ==
  ASSUME NEW g \in Repos, NEW d \in Dirs, NEW b
  PROVE  IsChanged(Withdrawn(g, b), g, d,
                   g.tree[d],
                   g.local, Restrict(g.remote, DOMAIN g.remote \ {b}), g.stash)
<1> DEFINE remotes == Restrict(g.remote, DOMAIN g.remote \ {b})
<1>1. Withdrawn(g, b)
        = [g EXCEPT !.remote = remotes]
  BY DEF Withdrawn
<1>2. TreeWith(g, d, g.tree[d]) = g.tree
  BY RepoFields DEF TreeWith, Dirs
<1>3. /\ g.tree[d] \in Trees /\ g.local \in BranchMaps /\ remotes \in BranchMaps /\ g.tracking \in SUBSET Branches
      /\ g.pr \in Requests /\ g.stash \in SUBSET Turns /\ d \in Dirs
  BY RepoFields, TreeMake, RestrictMap
<1> HIDE DEF remotes
<1>4. Withdrawn(g, b)
        = RepoWith(TreeWith(g, d, g.tree[d]), g.local, remotes, g.tracking, g.stash, g.pr)
  <2>1. ASSUME NEW h,
               h = [g EXCEPT !.remote = remotes]
        PROVE  h = RepoWith(TreeWith(g, d, g.tree[d]), g.local, remotes, g.tracking, g.stash, g.pr)
    BY <1>2, <2>1 DEF RepoWith, Repos
  <2>2. QED
    BY <1>1, <2>1
<1>5. IsChanged(Withdrawn(g, b), g, d, g.tree[d], g.local, remotes, g.stash)
  BY <1>3, <1>4, ChangedIs
<1>6. QED
  BY <1>5 DEF remotes

LEMMA FailedEffect ==
  ASSUME NEW c, NEW g \in Repos, NEW d, NEW b, NEW o \in Failed(g)
  PROVE  Effect(c, g, d, b, o)
  BY DEF Failed, Effect, Same

LEMMA StashEffect ==
  ASSUME NEW g, NEW d, NEW b, Sound("stash", g, d, b), d = Main, NEW o \in Ok(StashAllChanges(g))
  PROVE  Effect("stash", g, d, b, o)
<1> DEFINE t == g.tree[d]
           s == g.stash \cup t.tracked \cup t.untracked
           k == CleanUntracked(ResetHard(g))
<1> DEFINE f == ResetHard(g)
<1>1. g \in Repos /\ Main \in Dirs
  BY DEF Sound
<1>2. IsChanged(f, g, Main,
                [branch |-> g.tree[Main].branch, tracked |-> {}, untracked |-> g.tree[Main].untracked],
                g.local, g.remote, g.stash)
  BY <1>1, ResetIs
<1> HIDE DEF f
<1>3. f \in Repos
  BY <1>2 DEF IsChanged
<1>4. IsChanged(CleanUntracked(f), f, Main,
                [branch |-> f.tree[Main].branch, tracked |-> f.tree[Main].tracked, untracked |-> {}],
                f.local, f.remote, f.stash)
  BY <1>3, CleanIs
<1>5. /\ k \in Repos /\ k.local = g.local /\ k.remote = g.remote /\ k.stash = g.stash
      /\ k.tree[d].branch = t.branch /\ k.tree[d].tracked = {} /\ k.tree[d].untracked = {}
      /\ \A x \in Dirs : x # d => k.tree[x] = g.tree[x]
  BY <1>2, <1>4 DEF IsChanged, f
<1>6. o.err = "none" /\ o.repo = [k EXCEPT !.stash = s]
  <2>1. o.err = "none" /\ o.repo = [k EXCEPT !.stash = k.stash \cup t.tracked \cup t.untracked]
    BY DEF Ok, StashAllChanges, f
  <2>2. QED
    BY <1>5, <2>1
<1>7. s \in SUBSET Turns
  BY <1>1, RepoFields
<1> HIDE DEF k, s
<1>8. /\ o.repo \in Repos /\ o.repo.local = k.local /\ o.repo.remote = k.remote
      /\ o.repo.tree = k.tree /\ o.repo.stash = s
  BY <1>5, <1>6, <1>7 DEF Repos
<1>9. QED
  BY <1>1, <1>5, <1>6, <1>8 DEF Effect, Result, TreeEffect, LocalEffect, RemoteEffect, Sound, s

LEMMA ResetEffect ==
  ASSUME NEW g, NEW d, NEW b, d = Main
  PROVE  /\ \A o \in Ok(CleanUntracked(g)) : Sound("clean", g, d, b) => Effect("clean", g, d, b, o)
         /\ \A o \in Ok(ResetHard(g)) : Sound("reset", g, d, b) => Effect("reset", g, d, b, o)
<1>1. ASSUME NEW o \in Ok(CleanUntracked(g)), Sound("clean", g, d, b) PROVE Effect("clean", g, d, b, o)
  <2>1. o.err = "none" /\ o.repo = CleanUntracked(g)
    BY DEF Ok
  <2>2. IsChanged(CleanUntracked(g), g, Main, [branch |-> g.tree[Main].branch, tracked |-> g.tree[Main].tracked, untracked |-> {}],
                  g.local, g.remote, g.stash)
    BY <1>1, CleanIs DEF Sound
  <2>3. QED
    BY <1>1, <2>1, <2>2
    DEF IsChanged, Effect, Result, TreeEffect, LocalEffect, RemoteEffect, Sound
<1>2. ASSUME NEW o \in Ok(ResetHard(g)), Sound("reset", g, d, b) PROVE Effect("reset", g, d, b, o)
  <2>1. o.err = "none" /\ o.repo = ResetHard(g)
    BY DEF Ok
  <2>2. IsChanged(ResetHard(g), g, Main, [branch |-> g.tree[Main].branch, tracked |-> {}, untracked |-> g.tree[Main].untracked],
                  g.local, g.remote, g.stash)
    BY <1>2, ResetIs DEF Sound
  <2>3. QED
    BY <1>2, <2>1, <2>2
    DEF IsChanged, Effect, Result, TreeEffect, LocalEffect, RemoteEffect, Sound
<1>3. QED
  BY <1>1, <1>2

LEMMA CheckoutEffect ==
  ASSUME NEW c \in {"checkoutDefault", "checkoutJob"}, NEW g, NEW d, NEW b, Sound(c, g, d, b),
         d = Main, c = "checkoutJob" => b \in DOMAIN g.local,
         NEW o \in CheckoutBranch(g, IF c = "checkoutDefault" THEN Default ELSE b)
  PROVE  Effect(c, g, d, b, o)
<1> DEFINE to == IF c = "checkoutDefault" THEN Default ELSE b
           h == [g EXCEPT !.tree[Main].branch = to]
<1>1. to \in Branches
  BY NamesOf DEF Sound
<1>2. o \in Failed(g) \/ (o.err = "none" /\ o.repo = h)
  BY DEF CheckoutBranch, Ok, Failed
<1> HIDE DEF to
<1>3. IsChanged(h, g, d, [branch |-> to, tracked |-> g.tree[d].tracked, untracked |-> g.tree[d].untracked],
                g.local, g.remote, g.stash)
  BY <1>1, CheckoutIs DEF Sound
<1> HIDE DEF h
<1>4. CASE o \in Failed(g)
  BY <1>4, FailedEffect DEF Sound
<1>5. CASE o.err = "none" /\ o.repo = h
  BY <1>3, <1>5 DEF IsChanged, Effect, Result, TreeEffect, LocalEffect, RemoteEffect, Sound, to
<1>6. QED
  BY <1>2, <1>4, <1>5

LEMMA CheckoutRemoteEffect ==
  ASSUME NEW g, NEW d, NEW b, Sound("checkoutJob", g, d, b), d = Main, b \notin DOMAIN g.local,
         NEW o \in CheckoutRemoteBranch(g, b)
  PROVE  Effect("checkoutJob", g, d, b, o)
<1> DEFINE h == Fetched(g, b)
<1>1. \/ o \in Failed(g)
      \/ b \in DOMAIN g.remote /\ o.err = "none" /\ o.repo = h
  BY DEF CheckoutRemoteBranch, RemoteBranchExists, Ok, Fetched
<1>2. CASE o \in Failed(g)
  BY <1>2, FailedEffect DEF Sound
<1>3. CASE b \in DOMAIN g.remote /\ o.err = "none" /\ o.repo = h
  <2>1. IsChanged(h, g, d, [branch |-> b, tracked |-> g.tree[d].tracked, untracked |-> g.tree[d].untracked],
                  With(g.local, b, g.remote[b]), g.remote, g.stash)
    BY <1>3, RemoteIs DEF Sound
  <2>2. /\ DOMAIN With(g.local, b, g.remote[b]) = DOMAIN g.local \cup {b}
        /\ With(g.local, b, g.remote[b])[b] = g.remote[b]
        /\ \A x \in DOMAIN g.local : x # b => With(g.local, b, g.remote[b])[x] = g.local[x]
    BY DEF With
  <2> HIDE DEF h
  <2>3. QED
    BY <1>3, <2>1, <2>2 DEF IsChanged, Effect, Result, TreeEffect, LocalEffect, RemoteEffect, Sound
<1>4. QED
  BY <1>1, <1>2, <1>3

LEMMA CreateEffect ==
  ASSUME NEW g, NEW d, NEW b, Sound("create", g, d, b), d = Main,
         NEW o \in Ok(CreateAndCheckoutBranch(g, b))
  PROVE  Effect("create", g, d, b, o)
<1> DEFINE S == g.local[g.tree[Main].branch]
<1>1. o.err = "none" /\ o.repo = CreateAndCheckoutBranch(g, b)
  BY DEF Ok
<1>2. IsChanged(o.repo, g, d, [branch |-> b, tracked |-> g.tree[d].tracked, untracked |-> g.tree[d].untracked],
                With(g.local, b, S), g.remote, g.stash)
  BY <1>1, CreateIs DEF Sound
<1>3. /\ DOMAIN With(g.local, b, S) = DOMAIN g.local \cup {b}
      /\ With(g.local, b, S)[b] = S
      /\ \A x \in DOMAIN g.local : x # b => With(g.local, b, S)[x] = g.local[x]
  BY DEF With
<1>4. QED
  BY <1>1, <1>2, <1>3 DEF IsChanged, Effect, Result, TreeEffect, LocalEffect, RemoteEffect, Sound

LEMMA ResetToRefEffect ==
  ASSUME NEW g, NEW d, NEW b, Sound("resetToRef", g, d, b), d = Main,
         NEW o \in Ok(ResetHardToRef(g))
  PROVE  Effect("resetToRef", g, d, b, o)
<1> DEFINE k == ResetHard(g)
           cur == g.tree[Main].branch
           l == [g.local EXCEPT ![cur] = g.remote[Default]]
<1>1. IsChanged(k, g, d, [branch |-> g.tree[Main].branch, tracked |-> {}, untracked |-> g.tree[Main].untracked],
                g.local, g.remote, g.stash)
  BY ResetIs DEF Sound
<1>2. o.err = "none" /\ o.repo = [k EXCEPT !.local = l]
  <2>1. o.err = "none" /\ o.repo = [k EXCEPT !.local[cur] = g.remote[Default]]
    BY DEF Ok, ResetHardToRef, CurrentBranch, CurrentBranchInWorktree
  <2>2. k.local = g.local
    BY <1>1 DEF IsChanged
  <2>3. QED
    BY <2>1, <2>2
<1>3. /\ l \in BranchMaps /\ DOMAIN l = DOMAIN g.local /\ l[cur] = g.remote[Default]
      /\ \A x \in DOMAIN g.local : x # cur => l[x] = g.local[x]
  BY ExceptMap, RepoFields DEF Sound
<1> HIDE DEF k, l
<1>4. /\ o.repo \in Repos /\ o.repo.local = l /\ o.repo.remote = k.remote
      /\ o.repo.tree = k.tree /\ o.repo.stash = k.stash
  BY <1>1, <1>2, <1>3 DEF Repos, IsChanged
<1>5. QED
  BY <1>1, <1>2, <1>3, <1>4
  DEF IsChanged, Effect, Result, TreeEffect, LocalEffect, RemoteEffect, Sound

LEMMA PullEffect ==
  ASSUME NEW c \in {"pullDefault", "pullJob"}, NEW g, NEW d, NEW b, Sound(c, g, d, b),
         NEW o \in PullLatestInWorktree(g, d)
  PROVE  Effect(c, g, d, b, o)
<1> DEFINE cur == g.tree[d].branch
<1>1. cur \in DOMAIN g.local /\ d \in Dirs /\ g \in Repos
  BY DEF Sound
<1>2. \/ o.repo = g /\ o.err \in {"none", "failed", "deleted"}
      \/ /\ o.err = "none"
         /\ \E x \in {Default, cur} :
              x \in DOMAIN g.remote /\ o.repo = [g EXCEPT !.local[cur] = @ \cup g.remote[x]]
  <2> DEFINE x == IF HasUpstreamTrackingInWorktree(g, d) THEN cur ELSE Default
             h == [g EXCEPT !.local[cur] = @ \cup g.remote[x]]
  <2>1. \/ o \in Ok(g) \/ o \in Failed(g) \/ o = [repo |-> g, err |-> "deleted"]
        \/ x \in DOMAIN g.remote /\ o \in Ok(h)
    BY DEF PullLatestInWorktree, CurrentBranchInWorktree, RemoteBranchExists, Sound
  <2>2. CASE o \in Ok(g) \/ o \in Failed(g) \/ o = [repo |-> g, err |-> "deleted"]
    BY <2>2 DEF Ok, Failed
  <2>3. CASE x \in DOMAIN g.remote /\ o \in Ok(h)
    <3> HIDE DEF h
    <3>1. o.err = "none" /\ o.repo = h
      BY <2>3 DEF Ok
    <3>2. x \in {Default, cur}
      OBVIOUS
    <3> HIDE DEF x
    <3>3. QED
      BY <2>3, <3>1, <3>2 DEF h
  <2>4. QED
    BY <2>1, <2>2, <2>3
<1>3. CASE o.repo = g /\ o.err \in {"none", "failed", "deleted"}
  BY <1>1, <1>3 DEF Effect, Result, TreeEffect, LocalEffect, RemoteEffect, Same, Sound
<1>4. ASSUME o.err = "none", NEW x \in {Default, cur}, x \in DOMAIN g.remote,
             o.repo = [g EXCEPT !.local[cur] = @ \cup g.remote[x]]
      PROVE  Effect(c, g, d, b, o)
  <2> DEFINE l == [g.local EXCEPT ![cur] = g.local[cur] \cup g.remote[x]]
  <2>1. g.remote[x] \in SUBSET Turns /\ g.local[cur] \in SUBSET Turns
    BY <1>1, <1>4, RepoFields
  <2>2. IsChanged(o.repo, g, d, g.tree[d], l, g.remote, g.stash)
    BY <1>1, <1>4, <2>1, PulledIs
  <2>3. /\ DOMAIN l = DOMAIN g.local /\ l[cur] = g.local[cur] \cup g.remote[x]
        /\ \A y \in DOMAIN g.local : y # cur => l[y] = g.local[y]
    BY <1>1, <2>1, ExceptMap, RepoFields
  <2> HIDE DEF l
  <2>4. QED
    BY <1>1, <1>4, <2>2, <2>3 DEF IsChanged, Effect, Result, TreeEffect, LocalEffect, RemoteEffect, Sound
<1>5. QED
  BY <1>2, <1>3, <1>4

LEMMA DeleteEffect ==
  ASSUME NEW g, NEW d, NEW b, Sound("delete", g, d, b), d = Main,
         NEW o \in IF b \in DOMAIN g.local THEN DeleteLocalBranch(g, b) ELSE Ok(g)
  PROVE  Effect("delete", g, d, b, o)
<1> DEFINE l == Restrict(g.local, DOMAIN g.local \ {b})
           h == Dropped(g, b)
<1>1. \/ o \in Failed(g)
      \/ b \notin DOMAIN g.local /\ o.err = "none" /\ o.repo = g
      \/ /\ b \in DOMAIN g.local /\ \A x \in Dirs : g.tree[x].branch # b
         /\ o.err = "none" /\ o.repo = h
  BY DEF DeleteLocalBranch, Ok, Dropped
<1>2. CASE o \in Failed(g)
  BY <1>2, FailedEffect DEF Sound
<1>3. CASE b \notin DOMAIN g.local /\ o.err = "none" /\ o.repo = g
  BY <1>3 DEF Effect, Result, TreeEffect, LocalEffect, RemoteEffect, Sound
<1>4. CASE /\ b \in DOMAIN g.local /\ \A x \in Dirs : g.tree[x].branch # b
           /\ o.err = "none" /\ o.repo = h
  <2>1. IsChanged(h, g, d, g.tree[d], l, g.remote, g.stash)
    BY DeletedIs DEF Sound
  <2>2. DOMAIN l = DOMAIN g.local \ {b} /\ \A x \in DOMAIN l : l[x] = g.local[x]
    <3>1. g.local \in BranchMaps
      BY RepoFields DEF Sound
    <3>2. QED
      BY <3>1, RestrictMap
  <2> HIDE DEF l, h
  <2>3. QED
    BY <1>4, <2>1, <2>2 DEF IsChanged, Effect, Result, TreeEffect, LocalEffect, RemoteEffect, Sound
<1>5. QED
  BY <1>1, <1>2, <1>3, <1>4

LEMMA AddAllEffect ==
  ASSUME NEW g, NEW d, NEW b, Sound("addAll", g, d, b), NEW o \in Ok(AddAllInWorktree(g, d))
  PROVE  Effect("addAll", g, d, b, o)
<1>1. o.err = "none" /\ o.repo = AddAllInWorktree(g, d)
  BY DEF Ok
<1>2. IsChanged(o.repo, g, d,
                [branch |-> g.tree[d].branch, tracked |-> g.tree[d].tracked \cup g.tree[d].untracked,
                 untracked |-> {}],
                g.local, g.remote, g.stash)
  BY <1>1, AddAllIs DEF Sound
<1>3. QED
  BY <1>1, <1>2 DEF IsChanged, Effect, Result, TreeEffect, LocalEffect, RemoteEffect, Sound

LEMMA CommitEffect ==
  ASSUME NEW g, NEW d, NEW b, Sound("commit", g, d, b), NEW o \in Ok(CommitInWorktree(g, d))
  PROVE  Effect("commit", g, d, b, o)
<1> DEFINE cur == g.tree[d].branch
           S == g.local[cur] \cup g.tree[d].tracked
           l == [g.local EXCEPT ![cur] = S]
<1>1. o.err = "none" /\ o.repo = CommitInWorktree(g, d)
  BY DEF Ok
<1>2. cur \in DOMAIN g.local /\ g \in Repos /\ d \in Dirs
  BY DEF Sound
<1>3. S \in SUBSET Turns
  BY <1>2, RepoFields
<1>4. IsChanged(o.repo, g, d, [branch |-> cur, tracked |-> {}, untracked |-> g.tree[d].untracked],
                l, g.remote, g.stash)
  BY <1>1, <1>2, CommitIs
<1> HIDE DEF S
<1>5. /\ DOMAIN l = DOMAIN g.local /\ l[cur] = S
      /\ \A x \in DOMAIN g.local : x # cur => l[x] = g.local[x]
  BY <1>2, <1>3, ExceptMap, RepoFields
<1> HIDE DEF l
<1>6. QED
  BY <1>1, <1>4, <1>5 DEF IsChanged, Effect, Result, TreeEffect, LocalEffect, RemoteEffect, Sound, S

LEMMA PushEffect ==
  ASSUME NEW g, NEW d, NEW b, Sound("push", g, d, b), NEW o \in PushBranchFromWorktree(g, b)
  PROVE  Effect("push", g, d, b, o)
<1> DEFINE h == Pushed(g, b)
           r == With(g.remote, b, g.local[b])
<1>1. /\ b \in DOMAIN g.local /\ b = g.tree[d].branch /\ g \in Repos /\ d \in Dirs /\ b \in Branches
  BY DEF Sound
<1>2. \/ o \in Failed(g)
      \/ /\ b \in DOMAIN g.remote => g.remote[b] \subseteq g.local[b]
         /\ o.err = "none" /\ o.repo = h
  BY DEF PushBranchFromWorktree, RemoteBranchExists, Ok, Pushed
<1>3. CASE o \in Failed(g)
  BY <1>1, <1>3, FailedEffect
<1>4. CASE /\ b \in DOMAIN g.remote => g.remote[b] \subseteq g.local[b]
           /\ o.err = "none" /\ o.repo = h
  <2>1. IsChanged(h, g, d, g.tree[d], g.local, r, g.stash)
    BY <1>1, PushedIs
  <2>2. /\ DOMAIN r = DOMAIN g.remote \cup {b} /\ r[b] = g.local[b]
        /\ \A x \in DOMAIN g.remote : x # b => r[x] = g.remote[x]
    BY DEF With
  <2> HIDE DEF h, r
  <2>3. QED
    BY <1>1, <1>4, <2>1, <2>2 DEF IsChanged, Effect, Result, TreeEffect, LocalEffect, RemoteEffect
<1>5. QED
  BY <1>2, <1>3, <1>4

LEMMA CreatePREffect ==
  ASSUME NEW g, NEW d, NEW b, Sound("createPR", g, d, b), NEW x \in Branches,
         NEW o \in CreatePullRequestInWorktree(g, x)
  PROVE  Effect("createPR", g, d, b, o)
<1> DEFINE h == [g EXCEPT !.pr[x] = "open"]
<1>1. o \in Failed(g) \/ (o.err \in {"none", "failed"} /\ o.repo = h)
  BY DEF CreatePullRequestInWorktree, executeWithRetryInDir, Ok, Failed
<1>2. g \in Repos /\ d \in Dirs
  BY DEF Sound
<1>3. CASE o \in Failed(g)
  BY <1>2, <1>3, FailedEffect
<1>4. CASE o.err \in {"none", "failed"} /\ o.repo = h
  <2>1. IsChanged(h, g, d, g.tree[d], g.local, g.remote, g.stash) /\ h.tree = g.tree
    <3>1. IsChanged(h, g, d, g.tree[d], g.local, g.remote, g.stash)
      BY <1>2, OpenedIs
    <3>2. h.tree = g.tree
      BY <1>2 DEF Repos
    <3>3. QED
      BY <3>1, <3>2
  <2> HIDE DEF h
  <2>2. QED
    BY <1>4, <2>1 DEF IsChanged, Effect, Result, TreeEffect, LocalEffect, RemoteEffect, Same
<1>5. QED
  BY <1>1, <1>3, <1>4

LEMMA DoneEffect ==
  ASSUME NEW c \in {"message", "exists"}, NEW g, NEW d, NEW b, Sound(c, g, d, b),
         NEW o \in Ok(g), c = "exists" => g.tree[d] # NoTree
  PROVE  Effect(c, g, d, b, o)
<1>1. o.err = "none" /\ o.repo = g
  BY DEF Ok
<1>2. QED
  BY <1>1 DEF Effect, Result, TreeEffect, LocalEffect, RemoteEffect, Sound

-----------------------------------------------------------------------------
(* The command a turn is at, and what it does.                             *)

CommandAt(j) ==
  LET c == Head(turn[j].plan) IN
  \/ turn[j].pc = "prepare" /\ First(j) /\ ~Worktrees
     /\ c \in {"stash", "clean", "checkoutDefault", "resetToRef", "create"}
  \/ turn[j].pc = "prepare" /\ ~First(j) /\ ~Worktrees
     /\ c \in {"reset", "clean", "checkoutDefault", "pullDefault", "checkoutJob", "pullJob"}
  \/ turn[j].pc = "prepare" /\ ~First(j) /\ Worktrees /\ c \in {"exists", "pullJob"}
  \/ turn[j].pc = "abandon" /\ ~Worktrees
     /\ c \in {"clean", "checkoutDefault", "resetToRef", "delete"}
  \/ turn[j].pc = "pushing" /\ c \in {"message", "addAll", "commit", "push"}
  \/ turn[j].pc = "saving" /\ c \in {"addAll", "commit", "push"}
  \/ turn[j].pc = "opening" /\ c = "createPR"

LEMMA AtCommand ==
  ASSUME NEW j \in Jobs, PlanOf(j), turn[j].plan # <<>>
  PROVE  CommandAt(j) /\ Next(turn[j].plan) = Head(turn[j].plan)
<1> DEFINE p == turn[j].plan
<1>1. Next(p) = Head(p)
  BY DEF Next
<1>2. CASE turn[j].pc = "prepare" /\ First(j)
  BY <1>1, <1>2, FirstPlan DEF PlanOf, PreparePlans, CommandAt
<1>3. CASE turn[j].pc = "prepare" /\ ~First(j)
  BY <1>1, <1>3, AgainPlan, TreePlan DEF PlanOf, PreparePlans, CommandAt
<1>4. CASE turn[j].pc = "abandon"
  BY <1>1, <1>4, AbandonPlan DEF PlanOf, CommandAt
<1>5. CASE turn[j].pc = "pushing"
  BY <1>1, <1>5, CommitPlanStep DEF PlanOf, CommandAt
<1>6. CASE turn[j].pc = "saving"
  BY <1>1, <1>6, SavePlan DEF PlanOf, CommandAt
<1>7. CASE turn[j].pc = "opening"
  BY <1>1, <1>7, OpenPlan DEF PlanOf, CommandAt
<1>8. QED
  BY <1>1, <1>2, <1>3, <1>4, <1>5, <1>6, <1>7 DEF PlanOf

\* The job's directory has a branch of the repository checked out.
LEMMA CommandSound ==
  ASSUME NEW j \in Jobs, TypeInv, NamesInv, turn[j].plan # <<>>
  PROVE  Sound(Head(turn[j].plan), repo, Dir(j), turn[j].branch)
<1> DEFINE c == Head(turn[j].plan)
<1>1. CommandAt(j) /\ Next(turn[j].plan) = c
  BY AtCommand DEF NamesInv, JobOK
<1>2. repo \in Repos /\ Dir(j) \in Dirs
  BY DEF TypeInv, Dir, Dirs
<1>3. turn[j].branch \in Branches
  <2>1. turn[j].pc # "none"
    BY <1>1 DEF CommandAt
  <2>2. QED
    BY <2>1, NamesOf DEF NamesInv, JobOK, TurnOf, Names
<1>4. Default \in DOMAIN repo.local /\ Default \in DOMAIN repo.remote
  BY DEF NamesInv, MainInv
<1>5. c # "exists" => repo.tree[Dir(j)].branch \in DOMAIN repo.local
  <2>1. CASE ~Worktrees
    BY <2>1 DEF NamesInv, MainInv, Dir
  <2>2. CASE Worktrees
    <3>1. c # "exists" => repo.tree[j] # NoTree
      BY <1>1, <2>2 DEF CommandAt, NamesInv, JobOK, PlaceOf, Ready
    <3>2. QED
      BY <2>2, <3>1 DEF NamesInv, JobOK, TreeOf, Dir
  <2>3. QED
    BY <2>1, <2>2
<1>6. c = "push" => turn[j].branch = repo.tree[Dir(j)].branch
  BY <1>1 DEF CommandAt, NamesInv, JobOK, PlaceOf
<1>7. QED
  BY <1>2, <1>3, <1>4, <1>5, <1>6 DEF Sound

LEMMA MainEffect ==
  ASSUME NEW g, NEW b, NEW c \in Commands \ {"exists"}, Sound(c, g, Main, b),
         NEW o \in CommandInMain(c, g, b)
  PROVE  Effect(c, g, Main, b, o)
<1>1. CASE c = "stash"
  <2>1. o \in Ok(StashAllChanges(g))
    BY <1>1 DEF CommandInMain
  <2>2. QED
    BY <1>1, <2>1, StashEffect
<1>2. CASE c = "clean"
  <2>1. o \in Ok(CleanUntracked(g))
    BY <1>2 DEF CommandInMain
  <2>2. QED
    BY <1>2, <2>1, ResetEffect
<1>3. CASE c = "reset"
  <2>1. o \in Ok(ResetHard(g))
    BY <1>3 DEF CommandInMain
  <2>2. QED
    BY <1>3, <2>1, ResetEffect
<1>4. CASE c = "checkoutDefault"
  <2>1. o \in CheckoutBranch(g, IF c = "checkoutDefault" THEN Default ELSE b)
    BY <1>4 DEF CommandInMain
  <2>2. QED
    BY <1>4, <2>1, CheckoutEffect
<1>5. CASE c = "resetToRef"
  <2>1. o \in Ok(ResetHardToRef(g))
    BY <1>5 DEF CommandInMain
  <2>2. QED
    BY <1>5, <2>1, ResetToRefEffect
<1>6. CASE c = "create"
  <2>1. o \in Ok(CreateAndCheckoutBranch(g, b))
    BY <1>6 DEF CommandInMain
  <2>2. QED
    BY <1>6, <2>1, CreateEffect
<1>7. CASE c \in {"pullDefault", "pullJob"}
  <2>1. o \in PullLatestInWorktree(g, Main)
    BY <1>7 DEF CommandInMain, PullLatest
  <2>2. QED
    BY <1>7, <2>1, PullEffect
<1>8. CASE c = "checkoutJob"
  <2>1. o \in IF b \in DOMAIN g.local THEN CheckoutBranch(g, b) ELSE CheckoutRemoteBranch(g, b)
    BY <1>8 DEF CommandInMain
  <2>2. CASE b \in DOMAIN g.local
    <3>1. o \in CheckoutBranch(g, IF c = "checkoutDefault" THEN Default ELSE b)
      BY <1>8, <2>1, <2>2
    <3>2. QED
      BY <1>8, <2>2, <3>1, CheckoutEffect
  <2>3. CASE b \notin DOMAIN g.local
    BY <1>8, <2>1, <2>3, CheckoutRemoteEffect
  <2>4. QED
    BY <2>2, <2>3
<1>9. CASE c = "delete"
  <2>1. o \in IF b \in DOMAIN g.local THEN DeleteLocalBranch(g, b) ELSE Ok(g)
    BY <1>9 DEF CommandInMain
  <2>2. QED
    BY <1>9, <2>1, DeleteEffect
<1>10. CASE c = "addAll"
  <2>1. o \in Ok(AddAllInWorktree(g, Main))
    BY <1>10 DEF CommandInMain, AddAll
  <2>2. QED
    BY <1>10, <2>1, AddAllEffect
<1>11. CASE c = "commit"
  <2>1. o \in Ok(CommitInWorktree(g, Main))
    BY <1>11 DEF CommandInMain, Commit
  <2>2. QED
    BY <1>11, <2>1, CommitEffect
<1>12. CASE c = "push"
  <2>1. o \in PushBranchFromWorktree(g, b)
    BY <1>12 DEF CommandInMain, PushBranch, CurrentBranch, CurrentBranchInWorktree, Sound
  <2>2. QED
    BY <1>12, <2>1, PushEffect
<1>13. CASE c = "createPR"
  <2>1. o \in CreatePullRequestInWorktree(g, g.tree[Main].branch)
    BY <1>13 DEF CommandInMain, CreatePullRequest, CurrentBranch, CurrentBranchInWorktree
  <2>2. g.tree[Main].branch \in Branches
    <3>1. g \in Repos /\ g.tree[Main].branch \in DOMAIN g.local
      BY <1>13 DEF Sound
    <3>2. QED
      BY <3>1, RepoFields
  <2>3. QED
    BY <1>13, <2>1, <2>2, CreatePREffect
<1>14. CASE c = "message"
  <2>1. o \in Ok(g)
    BY <1>14 DEF CommandInMain
  <2>2. QED
    BY <1>14, <2>1, DoneEffect
<1>15. QED
  BY <1>1, <1>2, <1>3, <1>4, <1>5, <1>6, <1>7, <1>8, <1>9, <1>10, <1>11, <1>12, <1>13, <1>14
  DEF Commands

LEMMA WorktreeEffect ==
  ASSUME NEW g, NEW d, NEW b, NEW c \in {"exists", "pullJob", "message", "addAll", "commit", "push", "createPR"},
         Sound(c, g, d, b), NEW o \in CommandInWorktree(c, g, d, b)
  PROVE  Effect(c, g, d, b, o)
<1>1. CASE c = "exists"
  <2>1. o \in IF g.tree[d] = NoTree THEN Failed(g) ELSE Ok(g)
    BY <1>1 DEF CommandInWorktree
  <2>2. CASE g.tree[d] = NoTree
    BY <2>1, <2>2, FailedEffect DEF Sound
  <2>3. CASE g.tree[d] # NoTree
    <3>1. o \in Ok(g)
      BY <2>1, <2>3
    <3>2. QED
      BY <1>1, <2>3, <3>1, DoneEffect
  <2>4. QED
    BY <2>2, <2>3
<1>2. CASE c = "pullJob"
  <2>1. o \in PullLatestInWorktree(g, d)
    BY <1>2 DEF CommandInWorktree
  <2>2. QED
    BY <1>2, <2>1, PullEffect
<1>3. CASE c = "message"
  <2>1. o \in Ok(g)
    BY <1>3 DEF CommandInWorktree
  <2>2. QED
    BY <1>3, <2>1, DoneEffect
<1>4. CASE c = "addAll"
  <2>1. o \in Ok(AddAllInWorktree(g, d))
    BY <1>4 DEF CommandInWorktree
  <2>2. QED
    BY <1>4, <2>1, AddAllEffect
<1>5. CASE c = "commit"
  <2>1. o \in Ok(CommitInWorktree(g, d))
    BY <1>5 DEF CommandInWorktree
  <2>2. QED
    BY <1>5, <2>1, CommitEffect
<1>6. CASE c = "push"
  <2>1. o \in PushBranchFromWorktree(g, b)
    BY <1>6 DEF CommandInWorktree
  <2>2. QED
    BY <1>6, <2>1, PushEffect
<1>7. CASE c = "createPR"
  <2>1. o \in CreatePullRequestInWorktree(g, b) /\ b \in Branches
    BY <1>7 DEF CommandInWorktree, Sound
  <2>2. QED
    BY <1>7, <2>1, CreatePREffect
<1>8. QED
  BY <1>1, <1>2, <1>3, <1>4, <1>5, <1>6, <1>7

LEMMA CommandEffect ==
  ASSUME NEW j \in Jobs, TypeInv, NamesInv, turn[j].plan # <<>>,
         NEW o \in Outcomes(Head(turn[j].plan), j)
  PROVE  Effect(Head(turn[j].plan), repo, Dir(j), turn[j].branch, o)
<1> DEFINE c == Head(turn[j].plan)
           b == turn[j].branch
<1>1. CommandAt(j)
  BY AtCommand DEF NamesInv, JobOK
<1>2. Sound(c, repo, Dir(j), b)
  BY CommandSound
<1>3. CASE Worktrees
  <2>1. c \in {"exists", "pullJob", "message", "addAll", "commit", "push", "createPR"}
    BY <1>1, <1>3 DEF CommandAt
  <2>2. o \in CommandInWorktree(c, repo, j, b) /\ Dir(j) = j
    BY <1>3 DEF Outcomes, Dir
  <2> HIDE DEF c, b
  <2>3. QED
    BY <1>2, <2>1, <2>2, WorktreeEffect DEF c, b
<1>4. CASE ~Worktrees
  <2>1. c \in Commands \ {"exists"}
    BY <1>1, <1>4 DEF CommandAt, Commands
  <2>2. o \in CommandInMain(c, repo, b) /\ Dir(j) = Main
    BY <1>4 DEF Outcomes, Dir
  <2>3. QED
    BY <1>2, <2>1, <2>2, MainEffect
<1>5. QED
  BY <1>3, <1>4

-----------------------------------------------------------------------------
(* What a step does to the turn and the row of a job.                      *)

Turned(j, pc, plan, work, branch, pr) ==
  /\ turn' \in [Jobs -> TurnRecords]
  /\ turn'[j].pc = pc /\ turn'[j].plan = plan /\ turn'[j].work = work
  /\ turn'[j].branch = branch /\ turn'[j].pr = pr
  /\ \A k \in Jobs : k # j => turn'[k] = turn[k]

LEMMA TurnFields ==
  ASSUME NEW t \in TurnRecords
  PROVE  /\ t.pc \in Stages /\ t.plan \in Plans /\ t.work \in Turns \cup {<<>>}
         /\ t.branch \in Branches \cup {NoBranch} /\ t.pr \in BOOLEAN
         /\ t = [pc |-> t.pc, plan |-> t.plan, work |-> t.work, branch |-> t.branch, pr |-> t.pr]
  BY DEF TurnRecords

LEMMA TurnIs ==
  ASSUME turn \in [Jobs -> TurnRecords], NEW j \in Jobs, NEW pc \in Stages, NEW plan \in Plans,
         NEW work \in Turns \cup {<<>>}, NEW branch \in Branches \cup {NoBranch},
         NEW pr \in BOOLEAN, NEW t,
         t = [pc |-> pc, plan |-> plan, work |-> work, branch |-> branch, pr |-> pr],
         turn' = [turn EXCEPT ![j] = t]
  PROVE  Turned(j, pc, plan, work, branch, pr)
<1>1. t \in TurnRecords
  BY DEF TurnRecords
<1>2. QED
  BY <1>1 DEF Turned

\* The turn moves to a stage with a plan, a branch and a pull request.
Placed(t, pc, plan, branch, pr) ==
  [t EXCEPT !.pc = pc, !.plan = plan, !.branch = branch, !.pr = pr]

LEMMA PlacedIs ==
  ASSUME NEW t \in TurnRecords, NEW pc, NEW plan, NEW branch, NEW pr
  PROVE  Placed(t, pc, plan, branch, pr)
           = [pc |-> pc, plan |-> plan, work |-> t.work, branch |-> branch, pr |-> pr]
<1>1. ASSUME NEW u, u = Placed(t, pc, plan, branch, pr)
      PROVE  u = [pc |-> pc, plan |-> plan, work |-> t.work, branch |-> branch, pr |-> pr]
  BY <1>1 DEF Placed, TurnRecords
<1>2. QED
  BY <1>1

LEMMA MoveIs ==
  ASSUME turn \in [Jobs -> TurnRecords], NEW j \in Jobs, NEW pc \in Stages, NEW plan \in Plans,
         NEW branch \in Branches \cup {NoBranch}, NEW pr, pr \in BOOLEAN,
         turn' = [turn EXCEPT ![j] = Placed(turn[j], pc, plan, branch, pr)]
  PROVE  Turned(j, pc, plan, turn[j].work, branch, pr)
<1> DEFINE t == Placed(turn[j], pc, plan, branch, pr)
           work == turn[j].work
<1>1. turn[j] \in TurnRecords
  OBVIOUS
<1>2. work \in Turns \cup {<<>>}
  BY <1>1, TurnFields
<1>3. t = [pc |-> pc, plan |-> plan, work |-> work, branch |-> branch, pr |-> pr]
  BY <1>1, PlacedIs
<1>4. turn' = [turn EXCEPT ![j] = t]
  OBVIOUS
<1> HIDE DEF t, work
<1>5. t \in TurnRecords
  BY <1>2, <1>3 DEF TurnRecords
<1>6. Turned(j, pc, plan, work, branch, pr)
  BY <1>3, <1>4, <1>5 DEF Turned
<1>7. QED
  BY <1>6 DEF work

LEMMA NoTurnIs ==
  /\ NoTurn \in TurnRecords /\ <<>> \in Plans
  /\ NoTurn.pc = "none" /\ NoTurn.plan = <<>> /\ NoTurn.work = <<>>
  /\ NoTurn.branch = NoBranch /\ NoTurn.pr = FALSE
  BY DEF NoTurn, TurnRecords, Stages, Plans, FirstPlans

LEMMA GoIs ==
  ASSUME turn \in [Jobs -> TurnRecords], NEW j \in Jobs, NEW pc \in Stages, Go(j, pc)
  PROVE  Turned(j, pc, turn[j].plan, turn[j].work, turn[j].branch, turn[j].pr)
<1> DEFINE plan == turn[j].plan
           work == turn[j].work
           branch == turn[j].branch
           pr == turn[j].pr
           t == [turn[j] EXCEPT !.pc = pc]
<1>1. turn[j] \in TurnRecords
  OBVIOUS
<1>2. plan \in Plans /\ work \in Turns \cup {<<>>} /\ branch \in Branches \cup {NoBranch} /\ pr \in BOOLEAN
  BY <1>1, TurnFields
<1>3. t = [pc |-> pc, plan |-> plan, work |-> work, branch |-> branch, pr |-> pr]
  BY <1>1 DEF TurnRecords
<1>4. turn' = [turn EXCEPT ![j] = t]
  BY DEF Go
<1> HIDE DEF t, plan, work, branch, pr
<1>5. Turned(j, pc, plan, work, branch, pr)
  BY <1>2, <1>3, <1>4, TurnIs
<1>6. QED
  BY <1>5 DEF plan, work, branch, pr

LEMMA FollowIs ==
  ASSUME turn \in [Jobs -> TurnRecords], NEW j \in Jobs, NEW pc \in Stages, NEW plan \in Plans,
         Follow(j, pc, plan)
  PROVE  Turned(j, pc, plan, turn[j].work, turn[j].branch, turn[j].pr)
<1>1. turn[j] \in TurnRecords
  OBVIOUS
<1>2. turn[j].branch \in Branches \cup {NoBranch} /\ turn[j].pr \in BOOLEAN
  BY <1>1, TurnFields
<1>3. ASSUME NEW u, u = [turn[j] EXCEPT !.pc = pc, !.plan = plan]
      PROVE  u = [pc |-> pc, plan |-> plan, work |-> turn[j].work, branch |-> turn[j].branch,
                  pr |-> turn[j].pr]
  BY <1>1, <1>3 DEF TurnRecords
<1>4. [turn[j] EXCEPT !.pc = pc, !.plan = plan] = Placed(turn[j], pc, plan, turn[j].branch, turn[j].pr)
  <2>1. Placed(turn[j], pc, plan, turn[j].branch, turn[j].pr)
          = [pc |-> pc, plan |-> plan, work |-> turn[j].work, branch |-> turn[j].branch,
             pr |-> turn[j].pr]
    BY <1>1, PlacedIs
  <2>2. QED
    BY <1>3, <2>1
<1>5. turn' = [turn EXCEPT ![j] = [turn[j] EXCEPT !.pc = pc, !.plan = plan]]
  BY DEF Follow
<1>6. turn' = [turn EXCEPT ![j] = Placed(turn[j], pc, plan, turn[j].branch, turn[j].pr)]
  BY <1>4, <1>5
<1>7. QED
  BY <1>2, <1>6, MoveIs

LEMMA EndIs ==
  ASSUME turn \in [Jobs -> TurnRecords], NEW j \in Jobs, End(j)
  PROVE  Turned(j, "none", <<>>, <<>>, NoBranch, FALSE) /\ turn'[j] = NoTurn
  BY NoTurnIs DEF End, Turned

Rowed(j, status, branch, session, pr) ==
  /\ row' \in [Jobs -> RowsOfJobs]
  /\ row'[j].status = status /\ row'[j].branch = branch
  /\ row'[j].session = session /\ row'[j].pr = pr
  /\ \A k \in Jobs : k # j => row'[k] = row[k]

LEMMA RowFields ==
  ASSUME NEW r \in RowsOfJobs
  PROVE  /\ r.status \in {"none", "in_progress", "completed", "failed"}
         /\ r.branch \in Branches \cup {NoBranch} /\ r.session \in BOOLEAN /\ r.pr \in BOOLEAN
         /\ r = [status |-> r.status, branch |-> r.branch, session |-> r.session, pr |-> r.pr]
  BY DEF RowsOfJobs

LEMMA RowIs ==
  ASSUME row \in [Jobs -> RowsOfJobs], NEW j \in Jobs,
         NEW status \in {"none", "in_progress", "completed", "failed"},
         NEW branch \in Branches \cup {NoBranch}, NEW session \in BOOLEAN, NEW pr \in BOOLEAN,
         NEW r, r = [status |-> status, branch |-> branch, session |-> session, pr |-> pr],
         row' = [row EXCEPT ![j] = r]
  PROVE  Rowed(j, status, branch, session, pr)
<1>1. r \in RowsOfJobs
  BY DEF RowsOfJobs
<1>2. QED
  BY <1>1 DEF Rowed

\* The status of a row changes, and nothing else but whether there is a session.
Marked(r, status, session) == [r EXCEPT !.status = status, !.session = session]

LEMMA StatusIs ==
  ASSUME row \in [Jobs -> RowsOfJobs], NEW j \in Jobs,
         NEW status \in {"none", "in_progress", "completed", "failed"}, NEW session \in BOOLEAN,
         row' = [row EXCEPT ![j] = Marked(row[j], status, session)]
  PROVE  Rowed(j, status, row[j].branch, session, row[j].pr)
<1>1. row[j] \in RowsOfJobs
  OBVIOUS
<1>2. row[j].branch \in Branches \cup {NoBranch} /\ row[j].pr \in BOOLEAN
  BY <1>1, RowFields
<1>3. ASSUME NEW r, r = Marked(row[j], status, session)
      PROVE  r = [status |-> status, branch |-> row[j].branch, session |-> session, pr |-> row[j].pr]
  BY <1>1, <1>3 DEF RowsOfJobs, Marked
<1>4. QED
  BY <1>2, <1>3, RowIs

LEMMA NoRowIs ==
  ASSUME row \in [Jobs -> RowsOfJobs], NEW j \in Jobs, row' = [row EXCEPT ![j] = NoRow]
  PROVE  Rowed(j, "none", NoBranch, FALSE, FALSE) /\ row'[j] = NoRow
<1>1. NoRow \in RowsOfJobs
  BY DEF NoRow, RowsOfJobs
<1>2. QED
  BY <1>1 DEF Rowed, NoRow

\* A turn that fails keeps the row's branch and session.
LEMMA FailTurnIs ==
  ASSUME turn \in [Jobs -> TurnRecords], row \in [Jobs -> RowsOfJobs], writtenOff \subseteq Turns,
         NEW j \in Jobs, turn[j].work \in Turns, FailTurn(j)
  PROVE  /\ Turned(j, "none", <<>>, <<>>, NoBranch, FALSE) /\ turn'[j] = NoTurn
         /\ Rowed(j, FailedStatus(j),
                  row[j].branch, row[j].session, row[j].pr)
         /\ writtenOff' = writtenOff \cup {turn[j].work} /\ writtenOff' \subseteq Turns
<1> DEFINE s == FailedStatus(j)
           session == row[j].session
<1>1. row[j] \in RowsOfJobs
  OBVIOUS
<1>2. s \in {"none", "in_progress", "completed", "failed"} /\ session \in BOOLEAN
  BY <1>1, RowFields DEF FailedStatus
<1>3. row' = [row EXCEPT ![j] = [row[j] EXCEPT !.status = s]]
  BY DEF FailTurn
<1>4. [row[j] EXCEPT !.status = s] = Marked(row[j], s, session)
  <2>1. ASSUME NEW r, r = Marked(row[j], s, session)
        PROVE  r = [row[j] EXCEPT !.status = s]
    BY <1>1, <2>1 DEF RowsOfJobs, Marked
  <2>2. QED
    BY <2>1
<1>5. row' = [row EXCEPT ![j] = Marked(row[j], s, session)]
  BY <1>3, <1>4
<1> HIDE DEF s, session
<1>6. Rowed(j, s, row[j].branch, session, row[j].pr)
  BY <1>2, <1>5, StatusIs
<1>7. QED
  BY <1>6, EndIs DEF FailTurn, s, session

\* What is left of a plan, and what comes next.
LEMMA PlanStep ==
  ASSUME NEW j \in Jobs, PlanOf(j), turn[j].plan # <<>>
  PROVE  LET c == Head(turn[j].plan)
             q == Tail(turn[j].plan)
             pc == turn[j].pc
             n == Next(q)
         IN
         /\ q \in Plans
         /\ pc = "prepare" => q \in PreparePlans(j)
         /\ pc = "abandon" => q \in AbandonPlans
         /\ pc = "pushing" => q \in CommitPlans
         /\ pc = "saving" => q \in SavePlans
         /\ pc = "opening" => q \in OpenPlans
         /\ c = "stash" => n = "clean"
         /\ c = "reset" => n = "clean"
         /\ c = "clean" => n = "checkoutDefault"
         /\ c = "checkoutDefault" => n = IF pc = "prepare" /\ ~First(j) THEN "pullDefault" ELSE "resetToRef"
         /\ c = "resetToRef" => n = IF pc = "prepare" THEN "create" ELSE "delete"
         /\ c = "pullDefault" => n = "checkoutJob"
         /\ c = "checkoutJob" => n = "pullJob"
         /\ c = "exists" => n = "pullJob"
         /\ c = "message" => n = "addAll"
         /\ c = "addAll" => n = "commit"
         /\ c = "commit" => n = "push"
         /\ c \in {"create", "pullJob", "delete", "push", "createPR"} => n = "over"
<1> DEFINE p == turn[j].plan
<1>1. CASE turn[j].pc = "prepare" /\ First(j)
  <2>1. p \in FirstPlans /\ PreparePlans(j) = FirstPlans
    BY <1>1 DEF PlanOf, PreparePlans
  <2>2. QED
    BY <1>1, <2>1, FirstPlan DEF Plans
<1>2. CASE turn[j].pc = "prepare" /\ ~First(j) /\ Worktrees
  <2>1. p \in TreePlans /\ PreparePlans(j) = TreePlans
    BY <1>2 DEF PlanOf, PreparePlans
  <2>2. QED
    BY <1>2, <2>1, TreePlan DEF Plans
<1>3. CASE turn[j].pc = "prepare" /\ ~First(j) /\ ~Worktrees
  <2>1. p \in AgainPlans /\ PreparePlans(j) = AgainPlans
    BY <1>3 DEF PlanOf, PreparePlans
  <2>2. QED
    BY <1>3, <2>1, AgainPlan DEF Plans
<1>4. CASE turn[j].pc = "abandon"
  <2>1. p \in AbandonPlans
    BY <1>4 DEF PlanOf
  <2>2. QED
    BY <1>4, <2>1, AbandonPlan DEF Plans
<1>5. CASE turn[j].pc = "pushing"
  <2>1. p \in CommitPlans
    BY <1>5 DEF PlanOf
  <2>2. QED
    BY <1>5, <2>1, CommitPlanStep DEF Plans
<1>6. CASE turn[j].pc = "saving"
  <2>1. p \in SavePlans
    BY <1>6 DEF PlanOf
  <2>2. SavePlans \subseteq Plans
    BY DEF Plans, CommitPlans
  <2>3. QED
    BY <1>6, <2>1, <2>2, SavePlan
<1>7. CASE turn[j].pc = "opening"
  <2>1. p \in OpenPlans
    BY <1>7 DEF PlanOf
  <2>2. QED
    BY <1>7, <2>1, OpenPlan DEF Plans
<1>8. QED
  BY <1>1, <1>2, <1>3, <1>4, <1>5, <1>6, <1>7 DEF PlanOf

LEMMA RangeOf ==
  ASSUME NEW f \in BranchMaps
  PROVE  /\ UNION Range(f) \subseteq Turns
         /\ \A b \in DOMAIN f : f[b] \subseteq UNION Range(f)
         /\ \A w \in UNION Range(f) : \E b \in DOMAIN f : w \in f[b]
  BY MapValues DEF Range

\* What every step of a turn but its beginning leaves.
Kept == mode' = mode /\ turnCount' = turnCount /\ hold' = hold

LEMMA TypesOf ==
  ASSUME TypeInv, mode' = mode, repo' \in Repos, row' \in [Jobs -> RowsOfJobs],
         turn' \in [Jobs -> TurnRecords], turnCount' \in 0 .. MaxTurns[mode], hold' \in BOOLEAN,
         incidentsLeft' \in 0 .. MaxIncidents,
         produced' \subseteq Turns, published' \subseteq Turns, writtenOff' \subseteq Turns
  PROVE  TypeInv'
  BY SetsKept DEF TypeInv

LEMMA IncidentIs ==
  ASSUME TypeInv
  PROVE  /\ Incident => incidentsLeft' \in 0 .. MaxIncidents
         /\ \A c : Fails(c) => incidentsLeft' \in 0 .. MaxIncidents
         /\ Works => incidentsLeft' \in 0 .. MaxIncidents
<1>1. MaxIncidents \in Nat /\ incidentsLeft \in 0 .. MaxIncidents
  BY DeliveryAssumption DEF TypeInv
<1>2. QED
  BY <1>1 DEF Incident, Fails, Works

LEMMA TurnsLeft ==
  ASSUME TypeInv
  PROVE  /\ MaxTurns[mode] \in Nat /\ turnCount \in Nat /\ turnCount \in 0 .. MaxTurns[mode]
         /\ turnCount < MaxTurns[mode] => turnCount + 1 \in TurnNumbers
         /\ \A w \in Turns : w[1] \in Jobs /\ w[2] \in Nat /\ w[2] > 0 /\ w = <<w[1], w[2]>>
<1>1. MaxTurns[mode] \in Nat
  BY DeliveryAssumption DEF TypeInv
<1>2. QED
  BY <1>1 DEF TypeInv, TurnNumbers, Turns

\* The work of a running turn.
LEMMA WorkOf ==
  ASSUME NEW j \in Jobs, NamesInv, TypeInv, turn[j].pc # "none"
  PROVE  /\ turn[j].work \in Turns /\ turn[j].work[1] = j /\ turn[j].branch \in Branches
         /\ Names(j, turn[j].branch)
         /\ turn[j].branch # NoBranch
  BY NamesOf DEF NamesInv, JobOK, TurnOf, Names

Moved(j) ==
  /\ repo' \in Repos
  /\ Result(Head(turn[j].plan), repo, Dir(j), turn[j].branch, repo')
  /\ turn' = [turn EXCEPT ![j].plan = Tail(@)]
  /\ row' = row /\ writtenOff' = writtenOff /\ incidentsLeft' = incidentsLeft

Broken(j) ==
  /\ repo' \in Repos /\ Same(repo, repo') /\ FailTurn(j)
  /\ incidentsLeft' \in 0 .. MaxIncidents

Gone(j) == Head(turn[j].plan) \in {"pullDefault", "pullJob"} /\ AbandonJob(j)

LEMMA RunCases ==
  ASSUME NEW j \in Jobs, TypeInv, NamesInv, RunCommand(j)
  PROVE  /\ turn[j].plan # <<>> /\ CommandAt(j) /\ Next(turn[j].plan) = Head(turn[j].plan)
         /\ Kept /\ produced' = produced
         /\ published' = published \cup UNION Range(repo'.remote)
         /\ Moved(j) \/ Broken(j) \/ Gone(j)
<1> DEFINE c == Head(turn[j].plan)
<1>1. /\ turn[j].plan # <<>> /\ Kept /\ produced' = produced
      /\ published' = published \cup UNION Range(repo'.remote)
  BY DEF RunCommand, Kept
<1>2. CommandAt(j) /\ Next(turn[j].plan) = c
  BY <1>1, AtCommand DEF NamesInv, JobOK
<1>3. ASSUME NEW o \in Outcomes(c, j),
             \/ /\ o.err = "none"
                /\ repo' = o.repo
                /\ turn' = [turn EXCEPT ![j].plan = Tail(@)]
                /\ UNCHANGED <<row, toldVars>> /\ Works
             \/ /\ o.err = "failed"
                /\ repo' = o.repo
                /\ FailTurn(j)
                /\ Works
             \/ /\ o.err = "deleted"
                /\ AbandonJob(j)
      PROVE  Moved(j) \/ Broken(j) \/ Gone(j)
  <2>1. Effect(c, repo, Dir(j), turn[j].branch, o)
    BY <1>1, CommandEffect
  <2>2. CASE /\ o.err = "none"
             /\ repo' = o.repo
             /\ turn' = [turn EXCEPT ![j].plan = Tail(@)]
             /\ UNCHANGED <<row, toldVars>> /\ Works
    BY <2>1, <2>2 DEF Effect, Moved, Works, toldVars
  <2>3. CASE /\ o.err = "failed"
             /\ repo' = o.repo
             /\ FailTurn(j)
             /\ Works
    BY <2>1, <2>3, IncidentIs DEF Effect, Broken
  <2>4. CASE /\ o.err = "deleted"
             /\ AbandonJob(j)
    BY <2>1, <2>4 DEF Effect, Gone
  <2>5. QED
    BY <1>3, <2>2, <2>3, <2>4
<1>4. ASSUME Fails(c) /\ FailTurn(j) /\ UNCHANGED repo PROVE Broken(j)
  <2>1. incidentsLeft' \in 0 .. MaxIncidents
    BY <1>4, IncidentIs DEF Fails
  <2>2. repo' = repo /\ repo \in Repos
    BY <1>4 DEF TypeInv
  <2>3. Same(repo, repo') /\ repo' \in Repos
    BY <2>2 DEF Same
  <2>4. QED
    BY <1>4, <2>1, <2>3 DEF Broken
<1>5. QED
  BY <1>1, <1>2, <1>3, <1>4 DEF RunCommand

LEMMA MovedDoes ==
  ASSUME NEW j \in Jobs, TypeInv, NamesInv, turn[j].plan # <<>>, Moved(j)
  PROVE  Turned(j, turn[j].pc, Tail(turn[j].plan), turn[j].work, turn[j].branch, turn[j].pr)
<1> DEFINE pc == turn[j].pc
           plan == Tail(turn[j].plan)
<1>1. turn \in [Jobs -> TurnRecords] /\ turn[j] \in TurnRecords
  BY DEF TypeInv
<1>2. pc \in Stages /\ plan \in Plans
  BY <1>1, TurnFields, PlanStep DEF NamesInv, JobOK
<1>3. turn' = [turn EXCEPT ![j] = [turn[j] EXCEPT !.plan = plan]]
  BY DEF Moved
<1> HIDE DEF plan
<1>4. ASSUME NEW u, u = [turn[j] EXCEPT !.pc = pc, !.plan = plan]
      PROVE  u = [turn[j] EXCEPT !.plan = plan]
  BY <1>1, <1>4 DEF TurnRecords
<1>5. Follow(j, pc, plan)
  <2>1. [turn[j] EXCEPT !.plan = plan] = [turn[j] EXCEPT !.pc = pc, !.plan = plan]
    BY <1>4
  <2>2. turn' = [turn EXCEPT ![j] = [turn[j] EXCEPT !.pc = pc, !.plan = plan]]
    BY <1>3, <2>1
  <2>3. QED
    BY <2>2 DEF Follow
<1>6. Turned(j, pc, plan, turn[j].work, turn[j].branch, turn[j].pr)
  BY <1>1, <1>2, <1>5, FollowIs
<1>7. QED
  BY <1>6 DEF plan

LEMMA BrokenDoes ==
  ASSUME NEW j \in Jobs, TypeInv, NamesInv, turn[j].pc # "none", FailTurn(j)
  PROVE  /\ Turned(j, "none", <<>>, <<>>, NoBranch, FALSE) /\ turn'[j] = NoTurn
         /\ Rowed(j, FailedStatus(j),
                  row[j].branch, row[j].session, row[j].pr)
         /\ writtenOff' = writtenOff \cup {turn[j].work} /\ writtenOff' \subseteq Turns
  BY FailTurnIs, WorkOf DEF TypeInv

LEMMA GoneDoes ==
  ASSUME NEW j \in Jobs, TypeInv, NamesInv, Gone(j)
  PROVE  /\ Rowed(j, "none", NoBranch, FALSE, FALSE) /\ row'[j] = NoRow
         /\ writtenOff' = writtenOff \cup {w \in produced : w[1] = j}
         /\ incidentsLeft' \in 0 .. MaxIncidents
         /\ \/ /\ Worktrees
               /\ Turned(j, "none", <<>>, <<>>, NoBranch, FALSE) /\ turn'[j] = NoTurn
               /\ repo' = repo \/ repo' = Removed(repo, j, turn[j].branch)
            \/ /\ ~Worktrees
               /\ Turned(j, "abandon", AbandonJobAndCleanup, turn[j].work, turn[j].branch, turn[j].pr)
               /\ repo' = repo
<1>1. AbandonJob(j) /\ row \in [Jobs -> RowsOfJobs] /\ turn \in [Jobs -> TurnRecords]
  BY DEF Gone, TypeInv
<1>2. Rowed(j, "none", NoBranch, FALSE, FALSE) /\ row'[j] = NoRow
  BY <1>1, NoRowIs DEF AbandonJob
<1>3. writtenOff' = writtenOff \cup {w \in produced : w[1] = j} /\ incidentsLeft' \in 0 .. MaxIncidents
  BY <1>1, IncidentIs DEF AbandonJob
<1>4. CASE Worktrees
  <2>1. End(j) /\ (repo' = repo \/ repo' = Removed(repo, j, turn[j].branch))
    BY <1>1, <1>4 DEF AbandonJob, Removed
  <2>2. QED
    BY <1>1, <1>2, <1>3, <1>4, <2>1, EndIs
<1>5. CASE ~Worktrees
  <2>1. Follow(j, "abandon", AbandonJobAndCleanup) /\ repo' = repo
    BY <1>1, <1>5 DEF AbandonJob
  <2>2. AbandonJobAndCleanup \in Plans /\ "abandon" \in Stages
    BY Plan DEF Plans, Stages
  <2>3. QED
    BY <1>1, <1>2, <1>3, <1>5, <2>1, <2>2, FollowIs
<1>6. QED
  BY <1>4, <1>5

LEMMA BeginDoes ==
  ASSUME NEW j \in Jobs, TypeInv, NamesInv, BeginTurn(j)
  PROVE  LET w == <<j, turnCount + 1>>
             t == turn'[j]
         IN
         /\ w \in Turns /\ w \notin {Default, NoBranch} /\ turn[j] = NoTurn
         /\ Worktrees \/ \A k \in Jobs : turn[k] = NoTurn
         /\ turnCount' = turnCount + 1 /\ turnCount' \in 0 .. MaxTurns[mode]
         /\ UNCHANGED <<mode, repo, row, hold, incidentsLeft, produced, published, writtenOff>>
         /\ turn' \in [Jobs -> TurnRecords] /\ \A k \in Jobs : k # j => turn'[k] = turn[k]
         /\ t.pc = "prepare" /\ t.work = w /\ t.branch = IF row[j].session THEN row[j].branch ELSE w
         /\ t.plan \in IF row[j].session THEN (IF Worktrees THEN TreePlans ELSE AgainPlans)
                                         ELSE (IF Worktrees THEN {<<>>} ELSE FirstPlans)
         /\ Next(t.plan) = IF row[j].session THEN (IF Worktrees THEN "exists" ELSE "reset")
                           ELSE IF Worktrees THEN "over" ELSE IF hold THEN "stash" ELSE "clean"
<1> DEFINE w == <<j, turnCount + 1>>
           branch == IF row[j].session THEN row[j].branch ELSE w
           plan == IF Worktrees THEN (IF row[j].session THEN PrepareWorktreeForJob ELSE <<>>)
                   ELSE IF row[j].session THEN SwitchToJobBranch \o PullLatestChanges
                   ELSE PrepareForNewConversation
           t == [pc |-> "prepare", plan |-> plan, work |-> w, branch |-> branch, pr |-> FALSE]
<1>1. w \in Turns /\ turnCount' = turnCount + 1 /\ turnCount' \in 0 .. MaxTurns[mode]
  BY TurnsLeft DEF BeginTurn, Turns
<1>2. w \notin {Default, NoBranch}
  BY <1>1, NamesOf
<1>3. turn[j] = NoTurn /\ (Worktrees \/ \A k \in Jobs : turn[k] = NoTurn)
  BY DEF BeginTurn
<1>4. branch \in Branches \cup {NoBranch}
  BY <1>1, RowFields, NamesOf DEF TypeInv
<1>5. /\ plan \in IF row[j].session THEN (IF Worktrees THEN TreePlans ELSE AgainPlans)
                                    ELSE (IF Worktrees THEN {<<>>} ELSE FirstPlans)
      /\ Next(plan) = IF row[j].session THEN (IF Worktrees THEN "exists" ELSE "reset")
                      ELSE IF Worktrees THEN "over" ELSE IF hold THEN "stash" ELSE "clean"
  BY Plan DEF Next
<1>6. plan \in Plans
  BY <1>5, Plan DEF Plans
<1>7. turn' = [turn EXCEPT ![j] = t]
  <2>1. turn' = [turn EXCEPT ![j] = [NoTurn EXCEPT !.work = w, !.branch = branch, !.pc = "prepare",
                                                  !.plan = plan]]
    BY DEF BeginTurn
  <2>2. [NoTurn EXCEPT !.work = w, !.branch = branch, !.pc = "prepare", !.plan = plan] = t
    <3> HIDE DEF w, branch, plan
    <3>1. ASSUME NEW u, u = [NoTurn EXCEPT !.work = w, !.branch = branch, !.pc = "prepare", !.plan = plan]
          PROVE  u = t
      BY <3>1 DEF NoTurn
    <3>2. QED
      BY <3>1
  <2>3. QED
    BY <2>1, <2>2
<1>8. t.pc = "prepare" /\ t.plan = plan /\ t.work = w /\ t.branch = branch /\ t.pr = FALSE
  OBVIOUS
<1>9. t \in TurnRecords
  <2> HIDE DEF w, branch, plan
  <2>1. "prepare" \in Stages /\ w \in Turns
    BY <1>1 DEF Stages, w
  <2>2. QED
    BY <1>4, <1>6, <2>1 DEF TurnRecords
<1> HIDE DEF t
<1>10. turn' \in [Jobs -> TurnRecords] /\ turn'[j] = t /\ \A k \in Jobs : k # j => turn'[k] = turn[k]
  BY <1>7, <1>9 DEF TypeInv
<1>11. UNCHANGED <<mode, repo, row, hold, incidentsLeft, historyVars>>
  BY Zenon DEF BeginTurn
<1>12. QED
  BY <1>1, <1>2, <1>3, <1>5, <1>8, <1>10, <1>11 DEF historyVars, toldVars

LEMMA PrepareTreeDoes ==
  ASSUME NEW j \in Jobs, TypeInv, NamesInv, PrepareForNewConversationWithWorktree(j)
  PROVE  /\ Kept /\ produced' = produced /\ published' = published /\ Worktrees
         /\ turn[j].pc = "prepare" /\ First(j) /\ incidentsLeft' \in 0 .. MaxIncidents
         /\ \/ /\ Turned(j, "row", <<>>, turn[j].work, turn[j].branch, turn[j].pr)
               /\ row' = row /\ writtenOff' = writtenOff
               /\ repo' = Made(repo, j, turn[j].branch,
                               IF hold THEN repo.stash \cup UncommittedIn(j) ELSE repo.stash)
            \/ FailTurn(j) /\ repo' = repo
<1>1. /\ Kept /\ produced' = produced /\ published' = published /\ Worktrees
      /\ turn[j].pc = "prepare" /\ First(j) /\ turn[j].plan = <<>>
  BY DEF PrepareForNewConversationWithWorktree, Done, Kept, First
<1>2. CASE Go(j, "row") /\ UNCHANGED <<row, toldVars>> /\ Works
           /\ repo' = [repo EXCEPT !.tree[j] = [NoTree EXCEPT !.branch = turn[j].branch],
                                !.local = With(@, turn[j].branch, repo.remote[Default]),
                                !.stash = IF hold THEN @ \cup UncommittedIn(j) ELSE @]
  <2>1. repo' = Made(repo, j, turn[j].branch,
                     IF hold THEN repo.stash \cup UncommittedIn(j) ELSE repo.stash)
    BY <1>2 DEF Made
  <2>2. "row" \in Stages /\ turn \in [Jobs -> TurnRecords]
    BY DEF Stages, TypeInv
  <2>3. Turned(j, "row", <<>>, turn[j].work, turn[j].branch, turn[j].pr)
    BY <1>1, <1>2, <2>2, GoIs
  <2>4. QED
    BY <1>1, <1>2, <2>1, <2>3, IncidentIs DEF toldVars
<1>3. CASE Fails("worktree") /\ FailTurn(j) /\ UNCHANGED repo
  BY <1>1, <1>3, IncidentIs
<1>4. QED
  BY <1>2, <1>3 DEF PrepareForNewConversationWithWorktree

LEMMA PreparedDoes ==
  ASSUME NEW j \in Jobs, TypeInv, NamesInv, Prepared(j)
  PROVE  /\ Kept /\ repo' = repo /\ row' = row /\ incidentsLeft' = incidentsLeft
         /\ produced' = produced /\ published' = published /\ writtenOff' = writtenOff
         /\ turn[j].pc = "prepare" /\ turn[j].plan = <<>> /\ ~(Worktrees /\ First(j))
         /\ Turned(j, "row", <<>>, turn[j].work, turn[j].branch, turn[j].pr)
<1>1. "row" \in Stages /\ turn \in [Jobs -> TurnRecords]
  BY DEF Stages, TypeInv
<1>2. turn[j].plan = <<>> /\ Go(j, "row")
  BY DEF Prepared, Done
<1>3. Turned(j, "row", <<>>, turn[j].work, turn[j].branch, turn[j].pr)
  BY <1>1, <1>2, GoIs
<1>4. QED
  BY <1>2, <1>3 DEF Prepared, Done, Kept, First, historyVars, toldVars

LEMMA UpdateDoes ==
  ASSUME NEW j \in Jobs, TypeInv, NamesInv, UpdateJobData(j)
  PROVE  /\ Kept /\ repo' = repo /\ incidentsLeft' = incidentsLeft
         /\ produced' = produced /\ published' = published /\ writtenOff' = writtenOff
         /\ turn[j].pc = "row"
         /\ Turned(j, "run", turn[j].plan, turn[j].work, turn[j].branch, turn[j].pr)
         /\ Rowed(j, "in_progress", turn[j].branch, row[j].session, row[j].pr)
<1>1. "run" \in Stages /\ turn \in [Jobs -> TurnRecords] /\ row[j] \in RowsOfJobs
      /\ row \in [Jobs -> RowsOfJobs]
  BY DEF Stages, TypeInv
<1>2. Turned(j, "run", turn[j].plan, turn[j].work, turn[j].branch, turn[j].pr)
  BY <1>1, GoIs DEF UpdateJobData
<1> DEFINE r == [row[j] EXCEPT !.status = "in_progress", !.branch = turn[j].branch]
<1>3. row' = [row EXCEPT ![j] = r]
  BY DEF UpdateJobData
<1>4. ASSUME NEW u, u = r
      PROVE  u = [status |-> "in_progress", branch |-> turn[j].branch,
                  session |-> row[j].session, pr |-> row[j].pr]
  BY <1>1, <1>4 DEF RowsOfJobs
<1>5. /\ turn[j].branch \in Branches \cup {NoBranch}
      /\ row[j].session \in BOOLEAN /\ row[j].pr \in BOOLEAN
  BY <1>1, RowFields, TurnFields
<1> HIDE DEF r
<1>6. Rowed(j, "in_progress", turn[j].branch, row[j].session, row[j].pr)
  BY <1>1, <1>3, <1>4, <1>5, RowIs
<1>7. QED
  BY <1>2, <1>6 DEF UpdateJobData, Kept, historyVars, toldVars

\* What the CLI of job j leaves: where, and its work as a file or none.
CLIDid(j, did) ==
  LET d == Dir(j)
      w == turn[j].work
      b == turn[j].branch
      before == repo.tree[d]
      after == repo'.tree[d]
  IN
  /\ repo' \in Repos /\ repo'.remote = repo.remote /\ repo'.stash = repo.stash
  /\ \A x \in Dirs : x # d => repo'.tree[x] = repo.tree[x]
  /\ \/ after.branch = before.branch /\ repo'.local = repo.local
     \/ /\ after.branch = w /\ w # b
        /\ DOMAIN repo'.local = DOMAIN repo.local \cup {w} /\ repo'.local[w] = repo.local[b]
        /\ \A x \in DOMAIN repo.local : x # w => repo'.local[x] = repo.local[x]
     \/ /\ after.branch = Default /\ "default" \in CLIBranches /\ ~Worktrees
        /\ repo'.local = repo.local
  /\ \/ did = {} /\ after.tracked = before.tracked /\ after.untracked = before.untracked
     \/ did = {w} /\ after.tracked = before.tracked \cup {w} /\ after.untracked = before.untracked
     \/ did = {w} /\ after.tracked = before.tracked /\ after.untracked = before.untracked \cup {w}

LEMMA CLIWorkDoes ==
  ASSUME NEW j \in Jobs, NEW did, TypeInv, NamesInv, turn[j].pc = "run", CLIWork(j, did)
  PROVE  CLIDid(j, did)
<1> DEFINE d == Dir(j)
           w == turn[j].work
           b == turn[j].branch
<1>1. /\ repo \in Repos /\ d \in Dirs /\ w \in Turns /\ w \in Branches /\ b \in DOMAIN repo.local
      /\ Default \in Branches
  <2>1. w \in Turns /\ w \in Branches /\ Default \in Branches
    BY WorkOf, NamesOf
  <2>2. b \in DOMAIN repo.local
    <3>1. b = row[j].branch /\ b # NoBranch
      BY DEF NamesInv, JobOK, PlaceOf, Ready
    <3>2. QED
      BY <3>1 DEF NamesInv, JobOK, RowOf
  <2>3. QED
    BY <2>1, <2>2 DEF TypeInv, Dir, Dirs
<1>2. PICK g \in {repo} \cup (IF w # b THEN {Owned(repo, d, w, b)} ELSE {})
                 \cup (IF "default" \in CLIBranches /\ ~Worktrees THEN {At(repo, d, Default)} ELSE {}) :
        \/ did = {} /\ repo' = g
        \/ did = {w} /\ repo' = Edited(g, d, w)
        \/ did = {w} /\ repo' = Added(g, d, w)
  BY DEF CLIWork, Owned, At, Edited, Added
<1> DEFINE Place(h) ==
      \/ h.tree[d].branch = repo.tree[d].branch /\ h.local = repo.local
      \/ /\ h.tree[d].branch = w /\ w # b
         /\ DOMAIN h.local = DOMAIN repo.local \cup {w} /\ h.local[w] = repo.local[b]
         /\ \A x \in DOMAIN repo.local : x # w => h.local[x] = repo.local[x]
      \/ /\ h.tree[d].branch = Default /\ "default" \in CLIBranches /\ ~Worktrees
         /\ h.local = repo.local
<1>3. /\ g \in Repos /\ g.remote = repo.remote /\ g.stash = repo.stash
      /\ \A x \in Dirs : x # d => g.tree[x] = repo.tree[x]
      /\ g.tree[d].tracked = repo.tree[d].tracked /\ g.tree[d].untracked = repo.tree[d].untracked
      /\ Place(g)
  <2>1. CASE g = repo
    BY <1>1, <2>1
  <2>2. CASE w # b /\ g = Owned(repo, d, w, b)
    <3>1. IsChanged(g, repo, d, [branch |-> w, tracked |-> repo.tree[d].tracked, untracked |-> repo.tree[d].untracked],
                    With(repo.local, w, repo.local[b]), repo.remote, repo.stash)
      BY <1>1, <2>2, OwnedIs
    <3>2. /\ DOMAIN With(repo.local, w, repo.local[b]) = DOMAIN repo.local \cup {w}
          /\ With(repo.local, w, repo.local[b])[w] = repo.local[b]
          /\ \A x \in DOMAIN repo.local : x # w => With(repo.local, w, repo.local[b])[x] = repo.local[x]
      BY DEF With
    <3>3. QED
      BY <2>2, <3>1, <3>2 DEF IsChanged
  <2>3. CASE "default" \in CLIBranches /\ ~Worktrees /\ g = At(repo, d, Default)
    <3>1. IsChanged(g, repo, d, [branch |-> Default, tracked |-> repo.tree[d].tracked, untracked |-> repo.tree[d].untracked],
                    repo.local, repo.remote, repo.stash)
      BY <1>1, <2>3, AtIs
    <3>2. QED
      BY <2>3, <3>1 DEF IsChanged
  <2>4. QED
    BY <2>1, <2>2, <2>3
<1>4. \/ did = {} /\ repo' = g
      \/ did = {w} /\ repo' = Edited(g, d, w)
      \/ did = {w} /\ repo' = Added(g, d, w)
  BY <1>2
<1>5. CASE did = {} /\ repo' = g
  BY <1>3, <1>5 DEF CLIDid
<1>6. CASE did = {w} /\ repo' = Edited(g, d, w)
  <2>1. IsChanged(repo', g, d, [branch |-> g.tree[d].branch, tracked |-> g.tree[d].tracked \cup {w}, untracked |-> g.tree[d].untracked],
                  g.local, g.remote, g.stash)
    BY <1>1, <1>3, <1>6, EditedIs
  <2>2. Place(repo')
    BY <1>3, <2>1 DEF IsChanged
  <2>3. QED
    BY <1>3, <1>6, <2>1, <2>2 DEF IsChanged, CLIDid
<1>7. CASE did = {w} /\ repo' = Added(g, d, w)
  <2>1. IsChanged(repo', g, d, [branch |-> g.tree[d].branch, tracked |-> g.tree[d].tracked, untracked |-> g.tree[d].untracked \cup {w}],
                  g.local, g.remote, g.stash)
    BY <1>1, <1>3, <1>7, AddedIs
  <2>2. Place(repo')
    BY <1>3, <2>1 DEF IsChanged
  <2>3. QED
    BY <1>3, <1>7, <2>1, <2>2 DEF IsChanged, CLIDid
<1>8. QED
  BY <1>4, <1>5, <1>6, <1>7

LEMMA RunCLIDoes ==
  ASSUME NEW j \in Jobs, TypeInv, NamesInv, RunCLI(j)
  PROVE  /\ Kept /\ incidentsLeft' = incidentsLeft /\ published' = published /\ turn[j].pc = "run"
         /\ \E did \in {{}, {turn[j].work}} : CLIDid(j, did) /\ produced' = produced \cup did
         /\ \/ /\ \E pc \in {"commit", "finish"} :
                    /\ Turned(j, pc, turn[j].plan, turn[j].work, turn[j].branch, turn[j].pr)
                    /\ pc = "finish" <=> j \in AskJobs
               /\ row' = row /\ writtenOff' = writtenOff
            \/ /\ writtenOff' = writtenOff \cup {turn[j].work}
               /\ Turned(j, "none", <<>>, <<>>, NoBranch, FALSE) /\ turn'[j] = NoTurn
               /\ \E status \in {"failed", row[j].status} :
                    Rowed(j, status, row[j].branch, row[j].session, row[j].pr)
            \/ /\ writtenOff' \in {writtenOff, writtenOff \cup {turn[j].work}}
               /\ Turned(j, "save", turn[j].plan, turn[j].work, turn[j].branch, turn[j].pr)
               /\ \E status \in {"completed", "failed"} :
                    Rowed(j, status, row[j].branch, TRUE, row[j].pr)
<1>1. /\ turn \in [Jobs -> TurnRecords] /\ row \in [Jobs -> RowsOfJobs] /\ row[j] \in RowsOfJobs
      /\ row[j].session \in BOOLEAN
  BY RowFields DEF TypeInv
<1>2. Kept /\ incidentsLeft' = incidentsLeft /\ published' = published /\ turn[j].pc = "run"
  BY DEF RunCLI, Kept
<1>3. \E did \in {{}, {turn[j].work}} : CLIDid(j, did) /\ produced' = produced \cup did
  <2>1. PICK did \in {{}, {turn[j].work}} : CLIWork(j, did) /\ produced' = produced \cup did
    BY DEF RunCLI
  <2>2. CLIDid(j, did)
    BY <1>2, <2>1, CLIWorkDoes
  <2>3. QED
    BY <2>1, <2>2
<1>4. ASSUME CLIAnswers(j)
      PROVE  /\ \E pc \in {"commit", "finish"} :
                  /\ Turned(j, pc, turn[j].plan, turn[j].work, turn[j].branch, turn[j].pr)
                  /\ pc = "finish" <=> j \in AskJobs
             /\ row' = row /\ writtenOff' = writtenOff
  <2> DEFINE pc == IF j \in AskJobs THEN "finish" ELSE "commit"
  <2>1. pc \in {"commit", "finish"} /\ pc \in Stages /\ (pc = "finish" <=> j \in AskJobs)
    BY DEF Stages
  <2>2. Go(j, pc) /\ row' = row /\ writtenOff' = writtenOff
    BY <1>4 DEF CLIAnswers, toldVars
  <2> HIDE DEF pc
  <2>3. Turned(j, pc, turn[j].plan, turn[j].work, turn[j].branch, turn[j].pr)
    BY <1>1, <2>1, <2>2, GoIs
  <2>4. QED
    BY <2>1, <2>2, <2>3
<1>5. ASSUME CLIFails(j) \/ CLIStopped(j)
      PROVE  \/ /\ writtenOff' = writtenOff \cup {turn[j].work}
                /\ Turned(j, "none", <<>>, <<>>, NoBranch, FALSE) /\ turn'[j] = NoTurn
                /\ \E status \in {"failed", row[j].status} :
                     Rowed(j, status, row[j].branch, row[j].session, row[j].pr)
             \/ /\ writtenOff' \in {writtenOff, writtenOff \cup {turn[j].work}}
                /\ Turned(j, "save", turn[j].plan, turn[j].work, turn[j].branch, turn[j].pr)
                /\ \E status \in {"completed", "failed"} :
                     Rowed(j, status, row[j].branch, TRUE, row[j].pr)
  <2>1. CASE /\ writtenOff' = writtenOff \cup {turn[j].work} /\ End(j)
             /\ row' = [row EXCEPT ![j].status = "failed"]
    <3> DEFINE session == row[j].session
    <3>1. ASSUME NEW r, r = Marked(row[j], "failed", session)
          PROVE  r = [row[j] EXCEPT !.status = "failed"]
      BY <1>1, <3>1 DEF RowsOfJobs, Marked
    <3>2. row' = [row EXCEPT ![j] = [row[j] EXCEPT !.status = "failed"]]
      BY <2>1
    <3>3. row' = [row EXCEPT ![j] = Marked(row[j], "failed", session)]
      BY <3>1, <3>2
    <3>4. Rowed(j, "failed", row[j].branch, session, row[j].pr)
      BY <1>1, <3>3, StatusIs
    <3>5. QED
      BY <1>1, <2>1, <3>4, EndIs
  <2>2. ASSUME NEW status \in {"completed", "failed"},
               row' = [row EXCEPT ![j].status = status, ![j].session = TRUE],
               Go(j, "save"), writtenOff' \in {writtenOff, writtenOff \cup {turn[j].work}}
        PROVE  /\ Turned(j, "save", turn[j].plan, turn[j].work, turn[j].branch, turn[j].pr)
               /\ Rowed(j, status, row[j].branch, TRUE, row[j].pr)
    <3>1. row' = [row EXCEPT ![j] = Marked(row[j], status, TRUE)]
      BY <1>1, <2>2 DEF Marked
    <3>2. Rowed(j, status, row[j].branch, TRUE, row[j].pr)
      BY <1>1, <3>1, StatusIs
    <3>3. "save" \in Stages
      BY DEF Stages
    <3>4. QED
      BY <1>1, <2>2, <3>2, <3>3, GoIs
  <2>3. \/ /\ writtenOff' = writtenOff \cup {turn[j].work} /\ End(j)
           /\ row' = row \/ row' = [row EXCEPT ![j].status = "failed"]
        \/ \E status \in {"completed", "failed"} :
             /\ row' = [row EXCEPT ![j].status = status, ![j].session = TRUE]
             /\ Go(j, "save") /\ writtenOff' \in {writtenOff, writtenOff \cup {turn[j].work}}
    BY <1>5 DEF CLIFails, CLIStopped, LeftForRecovery, toldVars
  <2>4. CASE /\ writtenOff' = writtenOff \cup {turn[j].work} /\ End(j)
             /\ row' = row
    <3>1. Rowed(j, row[j].status, row[j].branch, row[j].session, row[j].pr)
      BY <1>1, <2>4 DEF Rowed
    <3>2. QED
      BY <1>1, <2>4, <3>1, EndIs
  <2>5. QED
    BY <2>1, <2>2, <2>3, <2>4
<1>6. CLIAnswers(j) \/ CLIFails(j) \/ CLIStopped(j)
  BY DEF RunCLI
<1>7. QED
  BY <1>2, <1>3, <1>4, <1>5, <1>6

LEMMA StopDoes ==
  ASSUME NEW j \in Jobs, TypeInv, NamesInv, StopBeforeSession(j)
  PROVE  /\ Kept /\ incidentsLeft' = incidentsLeft
         /\ produced' = produced /\ published' = published /\ writtenOff' = writtenOff
         /\ turn[j].pc = "run" /\ ~row[j].session
         /\ Turned(j, "none", <<>>, <<>>, NoBranch, FALSE) /\ turn'[j] = NoTurn
         /\ Rowed(j, "completed", NoBranch, FALSE, FALSE)
         /\ repo' = IF Worktrees THEN Removed(repo, j, turn[j].branch) ELSE repo
<1>1. turn \in [Jobs -> TurnRecords] /\ row \in [Jobs -> RowsOfJobs]
  BY DEF TypeInv
<1>2. Turned(j, "none", <<>>, <<>>, NoBranch, FALSE) /\ turn'[j] = NoTurn
  BY <1>1, EndIs DEF StopBeforeSession
<1> DEFINE r == [NoRow EXCEPT !.status = "completed"]
<1>3. row' = [row EXCEPT ![j] = r]
  BY DEF StopBeforeSession
<1>4. r = [status |-> "completed", branch |-> NoBranch, session |-> FALSE, pr |-> FALSE]
  <2>1. ASSUME NEW u, u = r
        PROVE  u = [status |-> "completed", branch |-> NoBranch, session |-> FALSE, pr |-> FALSE]
    BY <2>1 DEF NoRow
  <2>2. QED
    BY <2>1
<1> HIDE DEF r
<1>5. Rowed(j, "completed", NoBranch, FALSE, FALSE)
  BY <1>1, <1>3, <1>4, RowIs
<1>6. QED
  BY <1>2, <1>5 DEF StopBeforeSession, Removed, Kept, historyVars, toldVars

LEMMA StoppedDoes ==
  ASSUME NEW j \in Jobs, TypeInv, NamesInv, CommitStoppedWork(j)
  PROVE  /\ Kept /\ incidentsLeft' = incidentsLeft /\ repo' = repo /\ row' = row
         /\ produced' = produced /\ published' = published
         /\ turn[j].pc = "save"
         /\ \/ /\ Turned(j, "none", <<>>, <<>>, NoBranch, FALSE) /\ turn'[j] = NoTurn
               /\ \/ j \in AskJobs \/ UncommittedIn(Dir(j)) = {}
                     \/ writtenOff' = writtenOff \cup {turn[j].work}
               /\ writtenOff' \in {writtenOff, writtenOff \cup {turn[j].work}}
            \/ /\ Turned(j, "saving", StoppedWorkPlan, turn[j].work, turn[j].branch, turn[j].pr)
               /\ j \notin AskJobs /\ repo.tree[Dir(j)].branch = row[j].branch
               /\ writtenOff' = writtenOff
<1>1. turn \in [Jobs -> TurnRecords]
  BY DEF TypeInv
<1>2. /\ Kept /\ incidentsLeft' = incidentsLeft /\ repo' = repo /\ row' = row
      /\ produced' = produced /\ published' = published /\ turn[j].pc = "save"
  BY DEF CommitStoppedWork, Kept
<1>3. \/ /\ End(j) /\ writtenOff' \in {writtenOff, writtenOff \cup {turn[j].work}}
         /\ \/ j \in AskJobs \/ UncommittedIn(Dir(j)) = {}
               \/ writtenOff' = writtenOff \cup {turn[j].work}
      \/ /\ Follow(j, "saving", StoppedWorkPlan)
         /\ j \notin AskJobs /\ repo.tree[Dir(j)].branch = row[j].branch
         /\ writtenOff' = writtenOff
  BY DEF CommitStoppedWork, HasUncommittedChangesInWorktree, UncommittedIn, CurrentBranchInWorktree
<1>4. CASE End(j) /\ writtenOff' \in {writtenOff, writtenOff \cup {turn[j].work}}
           /\ (j \in AskJobs \/ UncommittedIn(Dir(j)) = {}
               \/ writtenOff' = writtenOff \cup {turn[j].work})
  BY <1>1, <1>2, <1>4, EndIs
<1>5. CASE /\ Follow(j, "saving", StoppedWorkPlan)
           /\ j \notin AskJobs /\ repo.tree[Dir(j)].branch = row[j].branch
           /\ writtenOff' = writtenOff
  <2>1. "saving" \in Stages /\ StoppedWorkPlan \in Plans
    BY Plan DEF Stages, Plans, CommitPlans
  <2>2. Turned(j, "saving", StoppedWorkPlan, turn[j].work, turn[j].branch, turn[j].pr)
    BY <1>1, <1>5, <2>1, FollowIs
  <2>3. QED
    BY <1>2, <1>5, <2>2
<1>6. QED
  BY <1>3, <1>4, <1>5

\* Both ways to commit what the turn left, in the main directory or a worktree.
LEMMA AutoCommitDoes ==
  ASSUME NEW j \in Jobs, TypeInv, NamesInv,
         AutoCommitChangesIfNeeded(j) \/ AutoCommitChangesInWorktreeIfNeeded(j)
  PROVE  LET d == Dir(j)
             b == repo.tree[d].branch
         IN
         /\ Kept /\ repo' = repo /\ produced' = produced /\ published' = published
         /\ incidentsLeft' \in 0 .. MaxIncidents
         /\ turn[j].pc = "commit"
         /\ \/ /\ row' = row /\ writtenOff' = writtenOff
               /\ \/ UncommittedIn(d) # {} /\ Turned(j, "pushing", CommitPlan, turn[j].work, b, turn[j].pr)
                  \/ UncommittedIn(d) = {} /\ Turned(j, "finish", <<>>, turn[j].work, b, turn[j].pr)
            \/ FailTurn(j)
<1> DEFINE d == Dir(j)
           b == repo.tree[d].branch
           changed == UncommittedIn(d) # {}
           pc == IF changed THEN "pushing" ELSE "finish"
           plan == IF changed THEN CommitPlan ELSE <<>>
<1>1. AutoCommit(j, b, changed)
  BY DEF AutoCommitChangesIfNeeded, AutoCommitChangesInWorktreeIfNeeded, CurrentBranch,
         CurrentBranchInWorktree, HasUncommittedChanges, HasUncommittedChangesInWorktree,
         UncommittedIn, Dir
<1>2. /\ turn \in [Jobs -> TurnRecords] /\ turn[j] \in TurnRecords /\ repo \in Repos
      /\ d \in Dirs
  BY DEF TypeInv, Dir, Dirs
<1>3. b \in Branches \cup {NoBranch} /\ turn[j].pr \in BOOLEAN
  BY <1>2, RepoFields, TurnFields
<1>4. pc \in Stages /\ plan \in Plans
  <2>1. CommitPlan \in Plans /\ <<>> \in Plans /\ "pushing" \in Stages /\ "finish" \in Stages
    BY Plan, NoTurnIs DEF Plans, Stages
  <2>2. QED
    BY <2>1
<1> DEFINE became == [turn EXCEPT ![j].branch = b, ![j].pc = pc, ![j].plan = plan]
<1>5. /\ turn[j].pc = "commit"
      /\ UNCHANGED <<mode, repo, turnCount, hold, produced, published>>
      /\ \/ turn' = became /\ UNCHANGED <<row, toldVars>> /\ Works
         \/ Fails("status") /\ FailTurn(j)
  BY <1>1, Zenon DEF AutoCommit
<1>6. ASSUME turn' = [turn EXCEPT ![j].branch = b, ![j].pc = pc, ![j].plan = plan]
      PROVE  Turned(j, pc, plan, turn[j].work, b, turn[j].pr)
  <2> HIDE DEF b, pc, plan
  <2>1. ASSUME NEW u, u = Placed(turn[j], pc, plan, b, turn[j].pr)
        PROVE  u = [turn[j] EXCEPT !.branch = b, !.pc = pc, !.plan = plan]
    BY <1>2, <2>1 DEF Placed, TurnRecords
  <2>2. turn' = [turn EXCEPT ![j] = [turn[j] EXCEPT !.branch = b, !.pc = pc, !.plan = plan]]
    BY <1>2, <1>6
  <2>3. turn' = [turn EXCEPT ![j] = Placed(turn[j], pc, plan, b, turn[j].pr)]
    BY <2>1, <2>2
  <2> DEFINE pr == turn[j].pr
  <2>4. pr \in BOOLEAN /\ turn' = [turn EXCEPT ![j] = Placed(turn[j], pc, plan, b, pr)]
    BY <1>3, <2>3
  <2> HIDE DEF pr
  <2>5. Turned(j, pc, plan, turn[j].work, b, pr)
    BY <1>2, <1>3, <1>4, <2>4, MoveIs
  <2>6. QED
    BY <2>5 DEF pr
<1> HIDE DEF became
<1>7. incidentsLeft' \in 0 .. MaxIncidents
  BY <1>5, IncidentIs
<1>8. \/ row' = row /\ writtenOff' = writtenOff /\ Turned(j, pc, plan, turn[j].work, b, turn[j].pr)
      \/ FailTurn(j)
  <2>1. CASE turn' = became /\ UNCHANGED <<row, toldVars>>
    <3>1. Turned(j, pc, plan, turn[j].work, b, turn[j].pr)
      BY <1>6, <2>1, Zenon DEF became
    <3>2. QED
      BY <2>1, <3>1 DEF toldVars
  <2>2. QED
    BY <1>5, <2>1
<1>9. QED
  BY <1>5, <1>7, <1>8 DEF Kept

LEMMA PullRequestDoes ==
  ASSUME NEW j \in Jobs, TypeInv, NamesInv,
         handlePRCreationOrUpdate(j) \/ handlePRCreationOrUpdateInWorktree(j)
  PROVE  /\ Kept /\ repo' = repo /\ produced' = produced /\ published' = published
         /\ incidentsLeft' \in 0 .. MaxIncidents
         /\ turn[j].pc = "pushing" /\ turn[j].plan = <<>>
         /\ \/ /\ row' = row /\ writtenOff' = writtenOff
               /\ \/ \E pr \in BOOLEAN :
                       Turned(j, "finish", <<>>, turn[j].work, turn[j].branch, pr)
                  \/ Turned(j, "opening", PullRequestPlan, turn[j].work, turn[j].branch, turn[j].pr)
            \/ FailTurn(j)
<1>1. PICK exists : PullRequestOf(j, exists)
  BY DEF handlePRCreationOrUpdate, handlePRCreationOrUpdateInWorktree
<1>2. turn \in [Jobs -> TurnRecords] /\ turn[j] \in TurnRecords
  BY DEF TypeInv
<1>3. /\ Kept /\ repo' = repo /\ produced' = produced /\ published' = published
      /\ turn[j].pc = "pushing" /\ turn[j].plan = <<>>
  BY <1>1 DEF PullRequestOf, Kept, Done
<1>4. ASSUME NEW known \in BOOLEAN, turn' = [turn EXCEPT ![j].pc = "finish", ![j].pr = known]
      PROVE  Turned(j, "finish", <<>>, turn[j].work, turn[j].branch, known)
  <2>1. ASSUME NEW u, u = Placed(turn[j], "finish", <<>>, turn[j].branch, known)
        PROVE  u = [turn[j] EXCEPT !.pc = "finish", !.pr = known]
    BY <1>2, <1>3, <2>1 DEF Placed, TurnRecords
  <2>2. turn' = [turn EXCEPT ![j] = [turn[j] EXCEPT !.pc = "finish", !.pr = known]]
    BY <1>2, <1>4
  <2>3. turn' = [turn EXCEPT ![j] = Placed(turn[j], "finish", <<>>, turn[j].branch, known)]
    BY <2>1, <2>2
  <2>4. "finish" \in Stages /\ <<>> \in Plans /\ turn[j].branch \in Branches \cup {NoBranch}
    BY <1>2, NoTurnIs, TurnFields DEF Stages
  <2>5. QED
    BY <1>2, <2>3, <2>4, MoveIs
<1>5. ASSUME Follow(j, "opening", PullRequestPlan)
      PROVE  Turned(j, "opening", PullRequestPlan, turn[j].work, turn[j].branch, turn[j].pr)
  <2>1. "opening" \in Stages /\ PullRequestPlan \in Plans
    BY Plan DEF Stages, Plans
  <2>2. QED
    BY <1>2, <1>5, <2>1, FollowIs
<1>6. /\ incidentsLeft' \in 0 .. MaxIncidents
      /\ \/ /\ row' = row /\ writtenOff' = writtenOff
            /\ \/ \E known \in BOOLEAN : turn' = [turn EXCEPT ![j].pc = "finish", ![j].pr = known]
               \/ Follow(j, "opening", PullRequestPlan)
         \/ FailTurn(j)
  <2>1. Works \/ Fails("find")
    BY <1>1 DEF PullRequestOf
  <2>2. incidentsLeft' \in 0 .. MaxIncidents
    BY <2>1, IncidentIs
  <2>3. QED
    BY <1>1, <2>2 DEF PullRequestOf, toldVars
<1>7. QED
  BY <1>3, <1>4, <1>5, <1>6

LEMMA OpenedDoes ==
  ASSUME NEW j \in Jobs, TypeInv, NamesInv, Opened(j)
  PROVE  /\ Kept /\ repo' = repo /\ row' = row /\ incidentsLeft' = incidentsLeft
         /\ produced' = produced /\ published' = published /\ writtenOff' = writtenOff
         /\ turn[j].pc = "opening"
         /\ Turned(j, "finish", <<>>, turn[j].work, turn[j].branch, TRUE)
<1>1. turn \in [Jobs -> TurnRecords] /\ turn[j] \in TurnRecords
  BY DEF TypeInv
<1>2. /\ turn' = [turn EXCEPT ![j].pc = "finish", ![j].pr = TRUE]
      /\ turn[j].pc = "opening" /\ turn[j].plan = <<>>
  BY DEF Opened, Done
<1>3. ASSUME NEW u, u = Placed(turn[j], "finish", <<>>, turn[j].branch, TRUE)
      PROVE  u = [turn[j] EXCEPT !.pc = "finish", !.pr = TRUE]
  BY <1>1, <1>2, <1>3 DEF Placed, TurnRecords
<1>4. turn' = [turn EXCEPT ![j] = [turn[j] EXCEPT !.pc = "finish", !.pr = TRUE]]
  BY <1>1, <1>2
<1>5. turn' = [turn EXCEPT ![j] = Placed(turn[j], "finish", <<>>, turn[j].branch, TRUE)]
  BY <1>3, <1>4
<1>6. "finish" \in Stages /\ <<>> \in Plans /\ turn[j].branch \in Branches \cup {NoBranch}
  BY <1>1, NoTurnIs, TurnFields DEF Stages
<1>7. Turned(j, "finish", <<>>, turn[j].work, turn[j].branch, TRUE)
  BY <1>1, <1>5, <1>6, MoveIs
<1>8. QED
  BY <1>2, <1>7 DEF Opened, Kept, historyVars, toldVars

LEMMA FinishDoes ==
  ASSUME NEW j \in Jobs, TypeInv, NamesInv, FinishTurnWithReply(j)
  PROVE  /\ Kept /\ repo' = repo /\ produced' = produced /\ published' = published
         /\ incidentsLeft' \in 0 .. MaxIncidents
         /\ turn[j].pc = "finish"
         /\ \/ /\ writtenOff' = writtenOff
               /\ Turned(j, "footer", turn[j].plan, turn[j].work, turn[j].branch, turn[j].pr)
               /\ \E pr \in BOOLEAN :
                    Rowed(j, "completed", IF j \in AskJobs THEN row[j].branch ELSE turn[j].branch,
                          TRUE, pr)
            \/ FailTurn(j)
<1>1. /\ turn \in [Jobs -> TurnRecords] /\ row \in [Jobs -> RowsOfJobs]
      /\ turn[j] \in TurnRecords /\ row[j] \in RowsOfJobs
  BY DEF TypeInv
<1>2. Kept /\ repo' = repo /\ produced' = produced /\ published' = published /\ turn[j].pc = "finish"
  BY DEF FinishTurnWithReply, Kept
<1> DEFINE branch == IF j \in AskJobs THEN row[j].branch ELSE turn[j].branch
           pr == row[j].pr \/ turn[j].pr
           r == [status |-> "completed", session |-> TRUE, pr |-> pr, branch |-> branch]
<1>3. CASE row' = [row EXCEPT ![j] = r] /\ Go(j, "footer") /\ UNCHANGED toldVars /\ Works
  <2>1. branch \in Branches \cup {NoBranch} /\ pr \in BOOLEAN
    BY <1>1, RowFields, TurnFields
  <2> HIDE DEF branch, pr
  <2>2. r = [status |-> "completed", branch |-> branch, session |-> TRUE, pr |-> pr]
    OBVIOUS
  <2> HIDE DEF r
  <2>3. Rowed(j, "completed", branch, TRUE, pr)
    BY <1>1, <1>3, <2>1, <2>2, RowIs
  <2>4. "footer" \in Stages
    BY DEF Stages
  <2>5. Turned(j, "footer", turn[j].plan, turn[j].work, turn[j].branch, turn[j].pr)
    BY <1>1, <1>3, <2>4, GoIs
  <2>6. incidentsLeft' \in 0 .. MaxIncidents
    BY <1>3, IncidentIs
  <2>7. QED
    BY <1>2, <1>3, <2>1, <2>3, <2>5, <2>6 DEF branch, toldVars
<1>4. CASE Fails("state") /\ FailTurn(j)
  <2>1. incidentsLeft' \in 0 .. MaxIncidents
    BY <1>4, IncidentIs
  <2>2. QED
    BY <1>2, <1>4, <2>1
<1>5. QED
  BY <1>3, <1>4 DEF FinishTurnWithReply

LEMMA EndTurnDoes ==
  ASSUME NEW j \in Jobs, TypeInv, NamesInv, EndTurn(j)
  PROVE  /\ Kept /\ repo' = repo /\ row' = row /\ incidentsLeft' \in 0 .. MaxIncidents
         /\ produced' = produced /\ published' = published /\ writtenOff' = writtenOff
         /\ \/ turn[j].pc = "footer"
            \/ turn[j].pc \in {"saving", "abandon"} /\ turn[j].plan = <<>>
         /\ Turned(j, "none", <<>>, <<>>, NoBranch, FALSE) /\ turn'[j] = NoTurn
<1>1. turn \in [Jobs -> TurnRecords]
  BY DEF TypeInv
<1>2. Works \/ Fails("footer")
  BY DEF EndTurn
<1>3. incidentsLeft' \in 0 .. MaxIncidents
  BY <1>2, IncidentIs
<1>4. Turned(j, "none", <<>>, <<>>, NoBranch, FALSE) /\ turn'[j] = NoTurn
  BY <1>1, EndIs DEF EndTurn
<1>5. QED
  BY <1>3, <1>4 DEF EndTurn, Kept, Done, historyVars, toldVars

(* What goes on beside the turns.                                          *)

LEMMA IdleDoes ==
  ASSUME NEW j \in Jobs, TypeInv, CompleteIdle(j) \/ NotResumed(j)
  PROVE  /\ Kept /\ turn' = turn /\ incidentsLeft' = incidentsLeft
         /\ produced' = produced /\ published' = published /\ writtenOff' = writtenOff
         /\ turn[j] = NoTurn
         /\ Rowed(j, "none", NoBranch, FALSE, FALSE) /\ row'[j] = NoRow
         /\ \/ repo' = repo
            \/ repo' = Vacated(repo, j) /\ row[j].status = "in_progress"
<1>1. row \in [Jobs -> RowsOfJobs] /\ row' = [row EXCEPT ![j] = NoRow]
  BY DEF TypeInv, CompleteIdle, NotResumed
<1>2. Rowed(j, "none", NoBranch, FALSE, FALSE) /\ row'[j] = NoRow
  BY <1>1, NoRowIs
<1>3. /\ Kept /\ turn' = turn /\ incidentsLeft' = incidentsLeft
      /\ produced' = produced /\ published' = published /\ writtenOff' = writtenOff
      /\ turn[j] = NoTurn
      /\ \/ repo' = repo
         \/ repo' = Vacated(repo, j) /\ row[j].status = "in_progress"
  BY DEF CompleteIdle, NotResumed, Kept, historyVars, toldVars, Vacated
<1>4. QED
  BY <1>2, <1>3

LEMMA SweepDoes ==
  ASSUME TypeInv, Sweep
  PROVE  /\ Kept /\ turn' = turn /\ row' = row /\ incidentsLeft' = incidentsLeft
         /\ produced' = produced /\ published' = published /\ writtenOff' = writtenOff
         /\ ~hold
         /\ \/ \E j \in Jobs : /\ Worktrees /\ row[j] = NoRow /\ turn[j] = NoTurn
                               /\ repo' = Vacated(repo, j)
            \/ \E b \in DOMAIN repo.local :
                 /\ b # Default /\ \A j \in Jobs : row[j].branch # b
                 /\ \A d \in Dirs : repo.tree[d].branch # b
                 /\ repo' = Dropped(repo, b)
<1>1. /\ Kept /\ turn' = turn /\ row' = row /\ incidentsLeft' = incidentsLeft
      /\ produced' = produced /\ published' = published /\ writtenOff' = writtenOff /\ ~hold
  BY DEF Sweep, Kept, historyVars, toldVars
<1>2. ASSUME NEW b \in DeletableBranches, NEW o \in DeleteLocalBranch(repo, b), o.err = "none"
      PROVE  /\ b \in DOMAIN repo.local /\ b # Default /\ \A j \in Jobs : row[j].branch # b
             /\ \A d \in Dirs : repo.tree[d].branch # b
             /\ o.repo = Dropped(repo, b)
  BY <1>2 DEF DeletableBranches, DeleteLocalBranch, Ok, Failed, Dropped
<1>3. \/ \E j \in Jobs : /\ Worktrees /\ row[j] = NoRow /\ turn[j] = NoTurn
                         /\ repo' = Vacated(repo, j)
      \/ \E b \in DeletableBranches :
           \E o \in DeleteLocalBranch(repo, b) : o.err = "none" /\ repo' = o.repo
  BY DEF Sweep, Vacated
<1>4. QED
  BY <1>1, <1>2, <1>3

LEMMA MergeDoes ==
  ASSUME NEW b \in Branches, TypeInv, MergePullRequest(b)
  PROVE  /\ Kept /\ turn' = turn /\ row' = row /\ incidentsLeft' \in 0 .. MaxIncidents
         /\ produced' = produced /\ published' = published /\ writtenOff' = writtenOff
         /\ b \in DOMAIN repo.remote /\ repo' = Merged(repo, b)
<1>1. Incident
  BY DEF MergePullRequest
<1>2. incidentsLeft' \in 0 .. MaxIncidents
  BY <1>1, IncidentIs
<1>3. QED
  BY <1>2 DEF MergePullRequest, Kept, historyVars, toldVars, RemoteBranchExists, Merged

LEMMA WithdrawDoes ==
  ASSUME NEW b \in Branches, TypeInv, DeleteRemoteBranch(b)
  PROVE  /\ Kept /\ turn' = turn /\ row' = row /\ incidentsLeft' \in 0 .. MaxIncidents
         /\ produced' = produced /\ published' = published
         /\ writtenOff' = writtenOff \cup repo.remote[b]
         /\ b # Default /\ b \in DOMAIN repo.remote /\ repo' = Withdrawn(repo, b)
<1>1. Incident
  BY DEF DeleteRemoteBranch
<1>2. incidentsLeft' \in 0 .. MaxIncidents
  BY <1>1, IncidentIs
<1>3. QED
  BY <1>2 DEF DeleteRemoteBranch, Kept, RemoteBranchExists, Withdrawn

LEMMA ExitDoes ==
  ASSUME TypeInv, NamesInv, Exit
  PROVE  /\ mode' = mode /\ turnCount' = turnCount /\ repo' = repo
         /\ incidentsLeft' \in 0 .. MaxIncidents
         /\ produced' = produced /\ published' = published
         /\ turn' \in [Jobs -> TurnRecords] /\ \A j \in Jobs : turn'[j] = NoTurn
         /\ \/ /\ row' = row /\ hold' = hold
               /\ writtenOff' = writtenOff \cup {turn[j].work : j \in {k \in Jobs : turn[k] # NoTurn}}
               /\ writtenOff' \subseteq Turns
            \/ /\ row' \in [Jobs -> RowsOfJobs] /\ \A j \in Jobs : row'[j] = NoRow
               /\ hold' = TRUE /\ writtenOff' = writtenOff
<1>1. Incident \/ Works \/ Fails("load")
  BY DEF Exit
<1>2. incidentsLeft' \in 0 .. MaxIncidents
  BY <1>1, IncidentIs
<1>3. \A k \in Jobs : turn[k] # NoTurn => turn[k].work \in Turns
  BY DEF NamesInv, JobOK, TurnOf
<1>4. turn' \in [Jobs -> TurnRecords] /\ \A j \in Jobs : turn'[j] = NoTurn
  BY NoTurnIs DEF Exit
<1>5. CASE /\ writtenOff' = writtenOff \cup {turn[j].work : j \in {k \in Jobs : turn[k] # NoTurn}}
           /\ UNCHANGED <<row, hold>>
  <2>1. {turn[j].work : j \in {k \in Jobs : turn[k] # NoTurn}} \subseteq Turns
    BY <1>3
  <2>2. writtenOff \subseteq Turns
    BY DEF TypeInv
  <2>3. QED
    BY <1>2, <1>4, <1>5, <2>1, <2>2 DEF Exit
<1>6. CASE row' = [j \in Jobs |-> NoRow] /\ hold' = TRUE /\ writtenOff' = writtenOff
  <2>1. NoRow \in RowsOfJobs
    BY DEF NoRow, RowsOfJobs
  <2>2. QED
    BY <1>2, <1>4, <1>6, <2>1 DEF Exit
<1>7. QED
  BY <1>5, <1>6 DEF Exit

LEMMA MarkDoes ==
  ASSUME TypeInv, MarkShuttingDown
  PROVE  /\ UNCHANGED <<mode, repo, row, turn, turnCount, hold, produced, published, writtenOff>>
         /\ incidentsLeft' \in 0 .. MaxIncidents
<1>1. Incident
  BY DEF MarkShuttingDown
<1>2. incidentsLeft' \in 0 .. MaxIncidents
  BY <1>1, IncidentIs
<1>3. QED
  BY <1>2 DEF MarkShuttingDown, historyVars, toldVars

(* The types are kept.                                                     *)

LEMMA TypeInit == GitDeliveryInit => TypeInv
<1> SUFFICES ASSUME GitDeliveryInit PROVE TypeInv
  OBVIOUS
<1>1. Default \in Branches /\ MaxTurns[mode] \in Nat /\ MaxIncidents \in Nat
  BY NamesOf, DeliveryAssumption DEF GitDeliveryInit
<1>2. repo \in Repos
  <2> DEFINE w == [d \in Dirs |-> IF d = Main THEN [NoTree EXCEPT !.branch = Default] ELSE NoTree]
             l == [b \in {Default} |-> {}]
             p == [b \in Branches |-> "none"]
  <2>1. NoTree \in Trees /\ [NoTree EXCEPT !.branch = Default] \in Trees
    BY <1>1 DEF NoTree, Trees
  <2>2. w \in [Dirs -> Trees]
    BY <2>1
  <2>3. l \in [{Default} -> SUBSET Turns] /\ {Default} \in SUBSET Branches
    <3>1. l \in [{Default} -> SUBSET Turns]
      OBVIOUS
    <3>2. {Default} \in SUBSET Branches
      BY <1>1
    <3>3. QED
      BY <3>1, <3>2
  <2>4. l \in BranchMaps
    <3> DEFINE D == {Default}
    <3>1. l \in [D -> SUBSET Turns] /\ D \in SUBSET Branches
      BY <2>3
    <3> HIDE DEF D, l
    <3>2. QED
      BY <3>1 DEF BranchMaps
  <2>5. p \in Requests
    BY DEF Requests
  <2>6. repo = [tree |-> w, local |-> l, remote |-> l, tracking |-> {Default}, stash |-> {}, pr |-> p]
    BY DEF GitDeliveryInit
  <2> HIDE DEF w, l, p
  <2>7. QED
    BY <1>1, <2>2, <2>4, <2>5, <2>6 DEF Repos
<1>3. turn \in [Jobs -> TurnRecords]
  BY NoTurnIs DEF GitDeliveryInit
<1>4. row \in [Jobs -> RowsOfJobs]
  BY DEF GitDeliveryInit, NoRow, RowsOfJobs
<1>5. /\ mode \in Modes /\ turnCount = 0 /\ hold = FALSE /\ incidentsLeft = MaxIncidents
      /\ produced = {} /\ published = {} /\ writtenOff = {}
  BY Zenon DEF GitDeliveryInit
<1>6. turnCount \in 0 .. MaxTurns[mode] /\ hold \in BOOLEAN /\ incidentsLeft \in 0 .. MaxIncidents
  <2>1. turnCount \in 0 .. MaxTurns[mode]
    BY <1>1, <1>5
  <2>2. hold \in BOOLEAN
    BY <1>5
  <2>3. incidentsLeft \in 0 .. MaxIncidents
    BY <1>1, <1>5
  <2>4. QED
    BY <2>1, <2>2, <2>3
<1>7. produced \subseteq Turns /\ published \subseteq Turns /\ writtenOff \subseteq Turns
  BY <1>5
<1>8. QED
  BY <1>2, <1>3, <1>4, <1>5, <1>6, <1>7 DEF TypeInv

LEMMA RunTypes ==
  ASSUME NEW j \in Jobs, TypeInv, NamesInv, RunCommand(j)
  PROVE  TypeInv' /\ repo' \in Repos
<1>1. /\ turn[j].plan # <<>> /\ CommandAt(j)
      /\ Kept /\ produced' = produced
      /\ published' = published \cup UNION Range(repo'.remote)
      /\ Moved(j) \/ Broken(j) \/ Gone(j)
  BY RunCases
<1>2. turn[j].pc # "none"
  BY <1>1 DEF CommandAt
<1>3. /\ repo' \in Repos /\ turn' \in [Jobs -> TurnRecords] /\ row' \in [Jobs -> RowsOfJobs]
      /\ incidentsLeft' \in 0 .. MaxIncidents /\ writtenOff' \subseteq Turns
  <2>1. CASE Moved(j)
    BY <1>1, <2>1, MovedDoes DEF Moved, Turned, TypeInv
  <2>2. CASE Broken(j)
    BY <1>2, <2>2, BrokenDoes DEF Broken, Turned, Rowed
  <2>3. CASE Gone(j)
    <3>1. /\ turn' \in [Jobs -> TurnRecords] /\ row' \in [Jobs -> RowsOfJobs]
          /\ incidentsLeft' \in 0 .. MaxIncidents
          /\ repo' = repo \/ repo' = Removed(repo, j, turn[j].branch)
          /\ writtenOff' = writtenOff \cup {w \in produced : w[1] = j}
      BY <2>3, GoneDoes DEF Turned, Rowed
    <3>2. repo \in Repos /\ j \in Dirs
      BY DEF TypeInv, Dirs
    <3>3. repo' \in Repos
      <4>1. Removed(repo, j, turn[j].branch) \in Repos
        BY <3>2, RemovedIs DEF IsChanged
      <4>2. QED
        BY <3>1, <3>2, <4>1
    <3>4. writtenOff' \subseteq Turns
      BY <3>1 DEF TypeInv
    <3>5. QED
      BY <3>1, <3>3, <3>4
  <2>4. QED
    BY <1>1, <2>1, <2>2, <2>3
<1>4. published' \subseteq Turns
  <2>1. repo'.remote \in BranchMaps
    BY <1>3, RepoFields
  <2>2. UNION Range(repo'.remote) \subseteq Turns
    BY <2>1, RangeOf
  <2>3. QED
    BY <1>1, <2>2 DEF TypeInv
<1>5. QED
  BY <1>1, <1>3, <1>4, TypesOf DEF Kept, TypeInv

LEMMA TurnTypes ==
  ASSUME NEW j \in Jobs, TypeInv, NamesInv, BeginTurn(j) \/ TurnStep(j)
  PROVE  TypeInv' /\ mode' = mode /\ repo' \in Repos
<1>0. /\ repo \in Repos /\ row \in [Jobs -> RowsOfJobs] /\ hold \in BOOLEAN /\ j \in Dirs
      /\ turnCount \in 0 .. MaxTurns[mode] /\ incidentsLeft \in 0 .. MaxIncidents
      /\ produced \subseteq Turns /\ published \subseteq Turns /\ writtenOff \subseteq Turns
  BY DEF TypeInv, Dirs
<1>1. CASE BeginTurn(j)
  <2>1. /\ turn' \in [Jobs -> TurnRecords] /\ turnCount' \in 0 .. MaxTurns[mode]
        /\ UNCHANGED <<mode, repo, row, hold, incidentsLeft, produced, published, writtenOff>>
    BY <1>1, BeginDoes
  <2>2. QED
    BY <1>0, <2>1, TypesOf
<1>2. CASE RunCommand(j)
  BY <1>2, RunTypes, RunCases DEF Kept
<1>3. CASE PrepareForNewConversationWithWorktree(j)
  <2>1. /\ Kept /\ produced' = produced /\ published' = published /\ turn[j].pc = "prepare"
        /\ incidentsLeft' \in 0 .. MaxIncidents
    BY <1>3, PrepareTreeDoes
  <2>2. turn[j].branch \in Branches
    BY <2>1, WorkOf
  <2> DEFINE s == IF hold THEN repo.stash \cup UncommittedIn(j) ELSE repo.stash
  <2>3. s \in SUBSET Turns
    BY <1>0, RepoFields DEF UncommittedIn
  <2>4. Default \in DOMAIN repo.remote
    BY DEF NamesInv, MainInv
  <2> HIDE DEF s
  <2>5. Made(repo, j, turn[j].branch, s) \in Repos
    BY <1>0, <2>2, <2>3, <2>4, MadeIs DEF IsChanged
  <2>6. /\ repo' \in Repos /\ turn' \in [Jobs -> TurnRecords] /\ row' \in [Jobs -> RowsOfJobs]
        /\ writtenOff' \subseteq Turns
    BY <1>0, <1>3, <2>1, <2>5, PrepareTreeDoes, BrokenDoes DEF Turned, Rowed, s
  <2>7. QED
    BY <1>0, <2>1, <2>6, TypesOf DEF Kept
<1>4. CASE Prepared(j)
  <2>1. /\ turn' \in [Jobs -> TurnRecords] /\ Kept /\ repo' = repo /\ row' = row
        /\ incidentsLeft' = incidentsLeft
        /\ produced' = produced /\ published' = published /\ writtenOff' = writtenOff
    BY <1>4, PreparedDoes DEF Turned
  <2>2. QED
    BY <1>0, <2>1, TypesOf DEF Kept
<1>5. CASE UpdateJobData(j)
  <2>1. /\ turn' \in [Jobs -> TurnRecords] /\ Kept /\ repo' = repo /\ row' \in [Jobs -> RowsOfJobs]
        /\ incidentsLeft' = incidentsLeft
        /\ produced' = produced /\ published' = published /\ writtenOff' = writtenOff
    BY <1>5, UpdateDoes DEF Turned, Rowed
  <2>2. QED
    BY <1>0, <2>1, TypesOf DEF Kept
<1>6. CASE RunCLI(j)
  <2>1. Kept /\ incidentsLeft' = incidentsLeft /\ published' = published /\ turn[j].pc = "run"
    BY <1>6, RunCLIDoes
  <2>2. turn[j].work \in Turns
    BY <2>1, WorkOf
  <2>3. repo' \in Repos /\ produced' \subseteq Turns
    <3>1. PICK did \in {{}, {turn[j].work}} : CLIDid(j, did) /\ produced' = produced \cup did
      BY <1>6, RunCLIDoes
    <3>2. QED
      BY <1>0, <2>2, <3>1 DEF CLIDid
  <2>4. /\ turn' \in [Jobs -> TurnRecords] /\ row' \in [Jobs -> RowsOfJobs]
        /\ writtenOff' \subseteq Turns
    <3>1. \/ /\ row' = row /\ writtenOff' = writtenOff
             /\ \E pc \in {"commit", "finish"} :
                  Turned(j, pc, turn[j].plan, turn[j].work, turn[j].branch, turn[j].pr)
          \/ /\ writtenOff' \in {writtenOff, writtenOff \cup {turn[j].work}}
             /\ \/ Turned(j, "none", <<>>, <<>>, NoBranch, FALSE)
                \/ Turned(j, "save", turn[j].plan, turn[j].work, turn[j].branch, turn[j].pr)
             /\ \E status, session : Rowed(j, status, row[j].branch, session, row[j].pr)
      BY <1>6, RunCLIDoes
    <3>2. turn' \in [Jobs -> TurnRecords]
      BY <3>1 DEF Turned
    <3>3. row' \in [Jobs -> RowsOfJobs] /\ writtenOff' \subseteq Turns
      BY <1>0, <2>2, <3>1 DEF Rowed
    <3>4. QED
      BY <3>2, <3>3
  <2>5. QED
    BY <1>0, <2>1, <2>3, <2>4, TypesOf DEF Kept
<1>7. CASE StopBeforeSession(j)
  <2>1. /\ turn' \in [Jobs -> TurnRecords] /\ Kept /\ row' \in [Jobs -> RowsOfJobs]
        /\ incidentsLeft' = incidentsLeft
        /\ produced' = produced /\ published' = published /\ writtenOff' = writtenOff
        /\ repo' = repo \/ repo' = Removed(repo, j, turn[j].branch)
    BY <1>7, StopDoes DEF Turned, Rowed
  <2>2. repo' \in Repos
    <3>1. Removed(repo, j, turn[j].branch) \in Repos
      BY <1>0, RemovedIs DEF IsChanged
    <3>2. QED
      BY <1>0, <2>1, <3>1
  <2>3. QED
    BY <1>0, <2>1, <2>2, TypesOf DEF Kept
<1>8. CASE CommitStoppedWork(j)
  <2>1. /\ turn' \in [Jobs -> TurnRecords] /\ Kept /\ repo' = repo /\ row' = row
        /\ incidentsLeft' = incidentsLeft /\ turn[j].pc = "save"
        /\ produced' = produced /\ published' = published
        /\ writtenOff' \in {writtenOff, writtenOff \cup {turn[j].work}}
    BY <1>8, StoppedDoes DEF Turned
  <2>2. turn[j].work \in Turns
    BY <2>1, WorkOf
  <2>3. QED
    BY <1>0, <2>1, <2>2, TypesOf DEF Kept
<1>9. CASE AutoCommitChangesIfNeeded(j) \/ AutoCommitChangesInWorktreeIfNeeded(j)
  <2>1. /\ Kept /\ repo' = repo /\ produced' = produced /\ published' = published
        /\ incidentsLeft' \in 0 .. MaxIncidents /\ turn[j].pc = "commit"
    BY <1>9, AutoCommitDoes
  <2>2. turn' \in [Jobs -> TurnRecords] /\ row' \in [Jobs -> RowsOfJobs] /\ writtenOff' \subseteq Turns
    BY <1>0, <1>9, <2>1, AutoCommitDoes, BrokenDoes DEF Turned, Rowed
  <2>3. QED
    BY <1>0, <2>1, <2>2, TypesOf DEF Kept
<1>10. CASE handlePRCreationOrUpdate(j) \/ handlePRCreationOrUpdateInWorktree(j)
  <2>1. /\ Kept /\ repo' = repo /\ produced' = produced /\ published' = published
        /\ incidentsLeft' \in 0 .. MaxIncidents /\ turn[j].pc = "pushing"
    BY <1>10, PullRequestDoes
  <2>2. turn' \in [Jobs -> TurnRecords] /\ row' \in [Jobs -> RowsOfJobs] /\ writtenOff' \subseteq Turns
    BY <1>0, <1>10, <2>1, PullRequestDoes, BrokenDoes DEF Turned, Rowed
  <2>3. QED
    BY <1>0, <2>1, <2>2, TypesOf DEF Kept
<1>11. CASE Opened(j)
  <2>1. /\ turn' \in [Jobs -> TurnRecords] /\ Kept /\ repo' = repo /\ row' = row
        /\ incidentsLeft' = incidentsLeft
        /\ produced' = produced /\ published' = published /\ writtenOff' = writtenOff
    BY <1>11, OpenedDoes DEF Turned
  <2>2. QED
    BY <1>0, <2>1, TypesOf DEF Kept
<1>12. CASE FinishTurnWithReply(j)
  <2>1. /\ Kept /\ repo' = repo /\ produced' = produced /\ published' = published
        /\ incidentsLeft' \in 0 .. MaxIncidents /\ turn[j].pc = "finish"
    BY <1>12, FinishDoes
  <2>2. turn' \in [Jobs -> TurnRecords] /\ row' \in [Jobs -> RowsOfJobs] /\ writtenOff' \subseteq Turns
    BY <1>0, <1>12, <2>1, FinishDoes, BrokenDoes DEF Turned, Rowed
  <2>3. QED
    BY <1>0, <2>1, <2>2, TypesOf DEF Kept
<1>13. CASE EndTurn(j)
  <2>1. /\ turn' \in [Jobs -> TurnRecords] /\ Kept /\ repo' = repo /\ row' = row
        /\ incidentsLeft' \in 0 .. MaxIncidents
        /\ produced' = produced /\ published' = published /\ writtenOff' = writtenOff
    BY <1>13, EndTurnDoes DEF Turned
  <2>2. QED
    BY <1>0, <2>1, TypesOf DEF Kept
<1>14. QED
  BY <1>1, <1>2, <1>3, <1>4, <1>5, <1>6, <1>7, <1>8, <1>9, <1>10, <1>11, <1>12, <1>13 DEF TurnStep

LEMMA TypeStep ==
  ASSUME TypeInv, NamesInv, [GitDeliveryNext]_deliveryVars
  PROVE  TypeInv' /\ mode' = mode /\ repo' \in Repos
<1>0. /\ repo \in Repos /\ row \in [Jobs -> RowsOfJobs] /\ turn \in [Jobs -> TurnRecords]
      /\ hold \in BOOLEAN
      /\ turnCount \in 0 .. MaxTurns[mode] /\ incidentsLeft \in 0 .. MaxIncidents
      /\ produced \subseteq Turns /\ published \subseteq Turns /\ writtenOff \subseteq Turns
      /\ Main \in Dirs /\ Jobs \subseteq Dirs
  BY DEF TypeInv, Dirs
<1>1. ASSUME NEW j \in Jobs, BeginTurn(j) \/ TurnStep(j) PROVE TypeInv' /\ mode' = mode /\ repo' \in Repos
  BY <1>1, TurnTypes
<1>2. ASSUME NEW j \in Jobs, CompleteIdle(j) \/ NotResumed(j)
      PROVE  TypeInv' /\ mode' = mode /\ repo' \in Repos
  <2>1. repo' \in Repos /\ row' \in [Jobs -> RowsOfJobs]
    BY <1>0, <1>2, IdleDoes, VacatedIs DEF IsChanged, Rowed
  <2>2. /\ Kept /\ turn' = turn /\ incidentsLeft' = incidentsLeft
        /\ produced' = produced /\ published' = published /\ writtenOff' = writtenOff
    BY <1>2, IdleDoes
  <2>3. QED
    BY <1>0, <2>1, <2>2, TypesOf DEF Kept
<1>3. ASSUME NEW b \in Branches, MergePullRequest(b) PROVE TypeInv' /\ mode' = mode /\ repo' \in Repos
  <2>1. /\ Kept /\ turn' = turn /\ row' = row /\ incidentsLeft' \in 0 .. MaxIncidents
        /\ produced' = produced /\ published' = published /\ writtenOff' = writtenOff
        /\ b \in DOMAIN repo.remote /\ repo' = Merged(repo, b)
    BY <1>3, MergeDoes
  <2>2. Default \in DOMAIN repo.remote
    BY DEF NamesInv, MainInv
  <2>3. repo' \in Repos
    BY <1>0, <2>1, <2>2, MergedIs DEF IsChanged
  <2>4. QED
    BY <1>0, <2>1, <2>3, TypesOf DEF Kept
<1>4. ASSUME NEW b \in Branches, DeleteRemoteBranch(b) PROVE TypeInv' /\ mode' = mode /\ repo' \in Repos
  <2>1. /\ Kept /\ turn' = turn /\ row' = row /\ incidentsLeft' \in 0 .. MaxIncidents
        /\ produced' = produced /\ published' = published
        /\ writtenOff' = writtenOff \cup repo.remote[b]
        /\ b \in DOMAIN repo.remote /\ repo' = Withdrawn(repo, b)
    BY <1>4, WithdrawDoes
  <2>2. repo' \in Repos
    BY <1>0, <2>1, WithdrawnIs DEF IsChanged
  <2>3. writtenOff' \subseteq Turns
    BY <1>0, <2>1, RepoFields
  <2>4. QED
    BY <1>0, <2>1, <2>2, <2>3, TypesOf DEF Kept
<1>5. CASE Sweep
  <2>1. /\ Kept /\ turn' = turn /\ row' = row /\ incidentsLeft' = incidentsLeft
        /\ produced' = produced /\ published' = published /\ writtenOff' = writtenOff
        /\ \/ \E j \in Jobs : repo' = Vacated(repo, j)
           \/ \E b \in DOMAIN repo.local : repo' = Dropped(repo, b)
    BY <1>5, SweepDoes
  <2>2. DOMAIN repo.local \subseteq Branches
    BY <1>0, RepoFields
  <2>3. repo' \in Repos
    BY <1>0, <2>1, <2>2, VacatedIs, DeletedIs DEF IsChanged
  <2>4. QED
    BY <1>0, <2>1, <2>3, TypesOf DEF Kept
<1>6. CASE Exit
  <2>1. /\ mode' = mode /\ turnCount' = turnCount /\ repo' = repo
        /\ incidentsLeft' \in 0 .. MaxIncidents
        /\ produced' = produced /\ published' = published
        /\ turn' \in [Jobs -> TurnRecords]
        /\ row' \in [Jobs -> RowsOfJobs] /\ hold' \in BOOLEAN /\ writtenOff' \subseteq Turns
    BY <1>0, <1>6, ExitDoes
  <2>2. QED
    BY <1>0, <2>1, TypesOf
<1>7. CASE ClearHold
  BY <1>0, <1>7, TypesOf DEF ClearHold
<1>8. CASE UNCHANGED deliveryVars
  BY <1>0, <1>8, TypesOf DEF deliveryVars, historyVars, toldVars
<1>9. CASE MarkShuttingDown
  BY <1>0, <1>9, MarkDoes, TypesOf
<1>10. QED
  BY <1>1, <1>2, <1>3, <1>4, <1>5, <1>6, <1>7, <1>8, <1>9 DEF GitDeliveryNext

-----------------------------------------------------------------------------
(* Whose branches and directories they are, whatever happens.              *)

\* A step that leaves job k as it is, the branches of its row and its directory,
\* and the directory of its turn.
Spared(k) ==
  /\ mode' = mode /\ turnCount <= turnCount'
  /\ turn'[k] = turn[k] /\ row'[k] = row[k] /\ repo'.tree[k] = repo.tree[k]
  /\ Worktrees \/ turn[k].pc = "none" \/ repo'.tree[Main] = repo.tree[Main]
  /\ \A b \in {row[k].branch, repo.tree[k].branch} :
       Names(k, b) /\ b \in DOMAIN repo.local => b \in DOMAIN repo'.local

LEMMA NamesStay ==
  ASSUME TypeInv, TypeInv', mode' = mode, turnCount <= turnCount', NEW k, NEW b, Names(k, b)
  PROVE  Names(k, b)'
<1>1. Turns' = Turns /\ (Worktrees' <=> Worktrees)
  BY SetsKept
<1>2. b \in Turns => b[2] \in Nat
  BY TurnsLeft
<1>3. turnCount \in Nat /\ turnCount' \in Nat
  <2>1. turnCount \in Nat /\ MaxTurns[mode] \in Nat
    BY TurnsLeft
  <2>2. turnCount' \in 0 .. MaxTurns[mode]
    BY DEF TypeInv
  <2>3. QED
    BY <2>1, <2>2
<1>4. QED
  BY <1>1, <1>2, <1>3 DEF Names

LEMMA SparedOK ==
  ASSUME NEW k \in Jobs, TypeInv, TypeInv', JobOK(k), Spared(k)
  PROVE  JobOK(k)'
<1>1. /\ Turns' = Turns /\ (Worktrees' <=> Worktrees) /\ Dir(k)' = Dir(k)
      /\ turn'[k] = turn[k] /\ row'[k] = row[k] /\ repo'.tree[k] = repo.tree[k]
  BY SetsKept DEF Spared
<1>2. \A b : Names(k, b) => Names(k, b)'
  BY NamesStay DEF Spared
<1>3. \A b \in {row[k].branch, repo.tree[k].branch} :
        Names(k, b) /\ b \in DOMAIN repo.local => b \in DOMAIN repo'.local
  BY DEF Spared
<1>4. (First(k)' <=> First(k)) /\ PreparePlans(k)' = PreparePlans(k)
  BY <1>1 DEF First, PreparePlans
<1>5. PlanOf(k)'
  BY <1>1, <1>4 DEF JobOK, PlanOf
<1>6. TreeOf(k)'
  BY <1>1, <1>2, <1>3 DEF JobOK, TreeOf
<1>7. RowOf(k)'
  BY <1>1, <1>2, <1>3 DEF JobOK, RowOf
<1>8. TurnOf(k)'
  <2>1. CASE turn[k].pc = "none"
    BY <1>1, <2>1 DEF JobOK, TurnOf
  <2>2. CASE turn[k].pc # "none"
    <3>1. /\ turn[k].work \in Turns /\ turn[k].work[1] = k /\ turn[k].work[2] <= turnCount
          /\ Names(k, turn[k].branch)
      BY <2>2 DEF JobOK, TurnOf
    <3>2. turn[k].work[2] \in Nat /\ turnCount \in Nat /\ turnCount' \in Nat /\ turnCount <= turnCount'
      <4>1. turn[k].work[2] \in Nat /\ turnCount \in Nat /\ MaxTurns[mode] \in Nat
        BY <3>1, TurnsLeft
      <4>2. turnCount' \in 0 .. MaxTurns[mode] /\ turnCount <= turnCount'
        BY DEF TypeInv, Spared
      <4>3. QED
        BY <4>1, <4>2
    <3>3. turn[k].work[2] <= turnCount'
      BY <3>1, <3>2
    <3>4. QED
      BY <1>1, <1>2, <2>2, <3>1, <3>3 DEF TurnOf
  <2>3. QED
    BY <2>1, <2>2
<1>9. PlaceOf(k)'
  <2>1. CASE turn[k].pc = "none"
    BY <1>1, <2>1 DEF PlaceOf, Ready
  <2>2. CASE turn[k].pc # "none"
    <3>1. repo'.tree[Dir(k)] = repo.tree[Dir(k)]
      BY <1>1, <2>2 DEF Spared, Dir
    <3>2. QED
      BY <1>1, <1>2, <1>4, <3>1 DEF JobOK, PlaceOf
  <2>3. QED
    BY <2>1, <2>2
<1>10. QED
  BY <1>5, <1>6, <1>7, <1>8, <1>9 DEF JobOK

\* A job without a turn is as it should be when its directory and row are.
LEMMA RestOK ==
  ASSUME NEW j \in Jobs, turn'[j] = NoTurn, TreeOf(j)', RowOf(j)'
  PROVE  JobOK(j)'
<1>1. turn'[j].pc = "none" /\ turn'[j].plan = <<>>
  BY NoTurnIs
<1>2. PlanOf(j)'
  BY <1>1 DEF PlanOf
<1>3. TurnOf(j)'
  BY <1>1 DEF TurnOf
<1>4. PlaceOf(j)'
  BY <1>1 DEF PlaceOf, Ready
<1>5. QED
  BY <1>2, <1>3, <1>4 DEF JobOK

\* A directory stays as it should be, and a row.
LEMMA TreeStays ==
  ASSUME NEW j \in Jobs, TypeInv, TypeInv', mode' = mode, turnCount <= turnCount', TreeOf(j),
         repo'.tree[j] = NoTree
         \/ (repo'.tree[j].branch = repo.tree[j].branch /\ repo.tree[j] # NoTree
             /\ (repo.tree[j].branch \in DOMAIN repo.local
                   => repo.tree[j].branch \in DOMAIN repo'.local))
         \/ (repo'.tree[j] = repo.tree[j]
             /\ (repo.tree[j].branch \in DOMAIN repo.local /\ Names(j, repo.tree[j].branch)
                   => repo.tree[j].branch \in DOMAIN repo'.local))
  PROVE  TreeOf(j)'
<1>1. Worktrees' <=> Worktrees
  BY SetsKept
<1>2. \A b : Names(j, b) => Names(j, b)'
  BY NamesStay
<1>3. QED
  BY <1>1, <1>2 DEF TreeOf

LEMMA RowStays ==
  ASSUME NEW j \in Jobs, TypeInv, TypeInv', mode' = mode, turnCount <= turnCount',
         row'[j].branch = NoBranch
         \/ (/\ Names(j, row'[j].branch)
             /\ row'[j].branch \in DOMAIN repo'.local),
         row'[j].session => row'[j].branch # NoBranch
  PROVE  RowOf(j)'
<1>1. \A b : Names(j, b) => Names(j, b)'
  BY NamesStay
<1>2. QED
  BY <1>1 DEF RowOf

\* What the steps of a turn leave of the main directory and of other turns.
LEMMA MainStays ==
  ASSUME NEW j \in Jobs, MainInv, mode' = mode, turn[j].pc # "none",
         \A k \in Jobs : k # j => turn'[k] = turn[k],
         Default \in DOMAIN repo'.local, Default \in DOMAIN repo'.remote,
         repo'.tree[Main].branch \in DOMAIN repo'.local,
         Worktrees => repo'.tree[Main].branch = Default
  PROVE  MainInv'
<1>1. Worktrees' <=> Worktrees
  BY SetsKept
<1>2. ~Worktrees => \A k \in Jobs : turn[k].pc # "none" => j = k
  BY DEF MainInv
<1>3. ~Worktrees => \A k \in Jobs : turn'[k].pc # "none" => j = k
  BY <1>2
<1>4. QED
  BY <1>1, <1>3 DEF MainInv

LEMMA NamesInit == GitDeliveryInit => NamesInv
<1> SUFFICES ASSUME GitDeliveryInit PROVE NamesInv
  OBVIOUS
<1> DEFINE l == [b \in {Default} |-> {}]
<1>1. /\ turn = [j \in Jobs |-> NoTurn] /\ row = [j \in Jobs |-> NoRow]
      /\ repo.local = l /\ repo.remote = l
      /\ repo.tree = [d \in Dirs |-> IF d = Main THEN [NoTree EXCEPT !.branch = Default] ELSE NoTree]
  <2>1. repo = [tree |-> [d \in Dirs |-> IF d = Main THEN [NoTree EXCEPT !.branch = Default] ELSE NoTree],
                local |-> l, remote |-> l, tracking |-> {Default}, stash |-> {},
                pr |-> [b \in Branches |-> "none"]]
    BY Zenon DEF GitDeliveryInit
  <2>2. turn = [j \in Jobs |-> NoTurn] /\ row = [j \in Jobs |-> NoRow]
    BY Zenon DEF GitDeliveryInit
  <2> HIDE DEF l
  <2>3. QED
    BY <2>1, <2>2
<1>2. DOMAIN repo.local = {Default} /\ DOMAIN repo.remote = {Default}
  BY <1>1
<1>3. /\ repo.tree[Main].branch = Default
      /\ \A j \in Jobs : repo.tree[j] = NoTree
  BY <1>1, DeliveryAssumption DEF NoTree, Dirs
<1>4. \A j \in Jobs : turn[j] = NoTurn /\ turn[j].pc = "none" /\ turn[j].plan = <<>>
  BY <1>1, NoTurnIs
<1>5. MainInv
  BY <1>2, <1>3, <1>4 DEF MainInv
<1>6. ASSUME NEW j \in Jobs PROVE JobOK(j)
  <2>1. TreeOf(j)
    BY <1>3 DEF TreeOf
  <2>2. RowOf(j)
    BY <1>1 DEF RowOf, NoRow
  <2>3. PlanOf(j) /\ TurnOf(j)
    BY <1>4 DEF PlanOf, TurnOf
  <2>4. PlaceOf(j)
    BY <1>4 DEF PlaceOf, Ready
  <2>5. QED
    BY <2>1, <2>2, <2>3, <2>4 DEF JobOK
<1>7. QED
  BY <1>5, <1>6 DEF NamesInv


-----------------------------------------------------------------------------
(* What the steps that are no commands do to the repository, in its parts. *)

\* Every directory but that of j is as it was, and what there is to be had back.
Beside(j) ==
  /\ repo'.tree[Main] = repo.tree[Main]
  /\ \A k \in Jobs : k # j => repo'.tree[k] = repo.tree[k]

LEMMA BesideOf ==
  ASSUME NEW j \in Jobs, NEW v, NEW l, NEW r, NEW s, IsChanged(repo', repo, j, v, l, r, s)
  PROVE  /\ repo'.tree[j] = v /\ Beside(j) /\ repo'.local = l /\ repo'.remote = r /\ repo'.stash = s
<1>1. Main \in Dirs /\ Main # j /\ \A k \in Jobs : k \in Dirs
  BY DeliveryAssumption DEF Dirs
<1>2. QED
  BY <1>1 DEF IsChanged, Beside

LEMMA RemovedRepo ==
  ASSUME NEW j \in Jobs, NEW b, TypeInv, repo' = Removed(repo, j, b)
  PROVE  /\ repo'.tree[j] = NoTree /\ Beside(j)
         /\ repo'.remote = repo.remote /\ repo'.stash = repo.stash
         /\ DOMAIN repo'.local = DOMAIN repo.local \ {b}
         /\ \A x \in DOMAIN repo'.local : repo'.local[x] = repo.local[x]
<1>1. repo \in Repos /\ j \in Dirs /\ repo.local \in BranchMaps
  BY RepoFields DEF TypeInv, Dirs
<1>2. IsChanged(Removed(repo, j, b), repo, j, [branch |-> NoBranch, tracked |-> {}, untracked |-> {}],
                Restrict(repo.local, DOMAIN repo.local \ {b}), repo.remote, repo.stash)
  BY <1>1, RemovedIs
<1>3. IsChanged(repo', repo, j, NoTree, Restrict(repo.local, DOMAIN repo.local \ {b}),
                repo.remote, repo.stash)
  BY <1>2 DEF NoTree
<1>4. /\ repo'.tree[j] = NoTree /\ Beside(j)
      /\ repo'.local = Restrict(repo.local, DOMAIN repo.local \ {b})
      /\ repo'.remote = repo.remote /\ repo'.stash = repo.stash
  BY <1>3, BesideOf
<1>5. /\ DOMAIN Restrict(repo.local, DOMAIN repo.local \ {b}) = DOMAIN repo.local \ {b}
      /\ \A x \in DOMAIN repo.local \ {b} :
           Restrict(repo.local, DOMAIN repo.local \ {b})[x] = repo.local[x]
  BY <1>1, RestrictMap
<1>6. QED
  BY <1>4, <1>5

LEMMA VacatedRepo ==
  ASSUME NEW j \in Jobs, TypeInv, repo' = Vacated(repo, j)
  PROVE  /\ repo'.tree[j] = NoTree /\ Beside(j)
         /\ repo'.remote = repo.remote /\ repo'.stash = repo.stash /\ repo'.local = repo.local
<1>1. repo \in Repos /\ j \in Dirs
  BY DEF TypeInv, Dirs
<1>2. IsChanged(Vacated(repo, j), repo, j, [branch |-> NoBranch, tracked |-> {}, untracked |-> {}],
                repo.local, repo.remote, repo.stash)
  BY <1>1, VacatedIs
<1>3. IsChanged(repo', repo, j, NoTree, repo.local, repo.remote, repo.stash)
  BY <1>2 DEF NoTree
<1>4. QED
  BY <1>3, BesideOf

LEMMA MadeRepo ==
  ASSUME NEW j \in Jobs, NEW b \in Branches, NEW s \in SUBSET Turns, TypeInv,
         Default \in DOMAIN repo.remote, repo' = Made(repo, j, b, s)
  PROVE  /\ repo'.tree[j] = [branch |-> b, tracked |-> {}, untracked |-> {}] /\ Beside(j)
         /\ repo'.remote = repo.remote /\ repo'.stash = s
         /\ DOMAIN repo'.local = DOMAIN repo.local \cup {b}
         /\ repo'.local[b] = repo.remote[Default]
         /\ \A x \in DOMAIN repo.local : x # b => repo'.local[x] = repo.local[x]
<1>1. repo \in Repos /\ j \in Dirs /\ repo.local \in BranchMaps /\ repo.remote[Default] \in SUBSET Turns
  BY RepoFields DEF TypeInv, Dirs
<1>2. IsChanged(Made(repo, j, b, s), repo, j, [branch |-> b, tracked |-> {}, untracked |-> {}],
                With(repo.local, b, repo.remote[Default]), repo.remote, s)
  BY <1>1, MadeIs
<1>3. IsChanged(repo', repo, j, [branch |-> b, tracked |-> {}, untracked |-> {}],
                With(repo.local, b, repo.remote[Default]), repo.remote, s)
  BY <1>2
<1>4. /\ repo'.tree[j] = [branch |-> b, tracked |-> {}, untracked |-> {}] /\ Beside(j)
      /\ repo'.local = With(repo.local, b, repo.remote[Default])
      /\ repo'.remote = repo.remote /\ repo'.stash = s
  BY <1>3, BesideOf
<1>5. /\ DOMAIN With(repo.local, b, repo.remote[Default]) = DOMAIN repo.local \cup {b}
      /\ With(repo.local, b, repo.remote[Default])[b] = repo.remote[Default]
      /\ \A x \in DOMAIN repo.local : x # b => With(repo.local, b, repo.remote[Default])[x] = repo.local[x]
  BY <1>1, WithMap
<1>6. QED
  BY <1>4, <1>5

\* The steps that change branches or the remote only.
LEMMA TreesOf ==
  ASSUME TypeInv, NEW l, NEW r, NEW s,
         IsChanged(repo', repo, Main, repo.tree[Main], l, r, s)
  PROVE  /\ repo'.tree[Main] = repo.tree[Main] /\ \A j \in Jobs : repo'.tree[j] = repo.tree[j]
         /\ \A d \in Dirs : repo'.tree[d] = repo.tree[d]
         /\ repo'.local = l /\ repo'.remote = r /\ repo'.stash = s
  BY DEF IsChanged, Dirs

LEMMA DroppedRepo ==
  ASSUME NEW b \in Branches, TypeInv, repo' = Dropped(repo, b)
  PROVE  /\ repo'.tree[Main] = repo.tree[Main] /\ \A j \in Jobs : repo'.tree[j] = repo.tree[j]
         /\ repo'.remote = repo.remote /\ repo'.stash = repo.stash
         /\ DOMAIN repo'.local = DOMAIN repo.local \ {b}
         /\ \A x \in DOMAIN repo'.local : repo'.local[x] = repo.local[x]
<1>1. repo \in Repos /\ repo.local \in BranchMaps
  BY RepoFields DEF TypeInv
<1>2. IsChanged(Dropped(repo, b), repo, Main, repo.tree[Main],
                Restrict(repo.local, DOMAIN repo.local \ {b}), repo.remote, repo.stash)
  BY <1>1, DeletedIs
<1>3. IsChanged(repo', repo, Main, repo.tree[Main],
                Restrict(repo.local, DOMAIN repo.local \ {b}), repo.remote, repo.stash)
  BY <1>2
<1>4. /\ repo'.tree[Main] = repo.tree[Main] /\ \A j \in Jobs : repo'.tree[j] = repo.tree[j]
      /\ repo'.local = Restrict(repo.local, DOMAIN repo.local \ {b})
      /\ repo'.remote = repo.remote /\ repo'.stash = repo.stash
  BY <1>3, TreesOf
<1>5. /\ DOMAIN Restrict(repo.local, DOMAIN repo.local \ {b}) = DOMAIN repo.local \ {b}
      /\ \A x \in DOMAIN repo.local \ {b} :
           Restrict(repo.local, DOMAIN repo.local \ {b})[x] = repo.local[x]
  BY <1>1, RestrictMap
<1>6. QED
  BY <1>4, <1>5

LEMMA MergedRepo ==
  ASSUME NEW b, b \in DOMAIN repo.remote, TypeInv, Default \in DOMAIN repo.remote,
         repo' = Merged(repo, b)
  PROVE  /\ repo'.tree[Main] = repo.tree[Main] /\ \A j \in Jobs : repo'.tree[j] = repo.tree[j]
         /\ repo'.local = repo.local /\ repo'.stash = repo.stash
         /\ DOMAIN repo'.remote = DOMAIN repo.remote
         /\ repo'.remote[Default] = repo.remote[Default] \cup repo.remote[b]
         /\ \A x \in DOMAIN repo.remote : x # Default => repo'.remote[x] = repo.remote[x]
<1> DEFINE S == repo.remote[Default] \cup repo.remote[b]
<1>1. repo \in Repos /\ repo.remote \in BranchMaps /\ Main \in Dirs /\ S \in SUBSET Turns
  BY RepoFields DEF TypeInv, Dirs
<1>2. IsChanged(Merged(repo, b), repo, Main, repo.tree[Main],
                repo.local, [repo.remote EXCEPT ![Default] = S], repo.stash)
  BY <1>1, MergedIs
<1>3. IsChanged(repo', repo, Main, repo.tree[Main],
                repo.local, [repo.remote EXCEPT ![Default] = S], repo.stash)
  BY <1>2
<1>4. /\ repo'.tree[Main] = repo.tree[Main] /\ \A j \in Jobs : repo'.tree[j] = repo.tree[j]
      /\ repo'.remote = [repo.remote EXCEPT ![Default] = S]
      /\ repo'.local = repo.local /\ repo'.stash = repo.stash
  BY <1>3, TreesOf
<1> HIDE DEF S
<1>5. /\ DOMAIN [repo.remote EXCEPT ![Default] = S] = DOMAIN repo.remote
      /\ [repo.remote EXCEPT ![Default] = S][Default] = S
      /\ \A x \in DOMAIN repo.remote : x # Default => [repo.remote EXCEPT ![Default] = S][x] = repo.remote[x]
  BY <1>1, ExceptMap
<1>6. QED
  BY <1>4, <1>5 DEF S

LEMMA WithdrawnRepo ==
  ASSUME NEW b, TypeInv, repo' = Withdrawn(repo, b)
  PROVE  /\ repo'.tree[Main] = repo.tree[Main] /\ \A j \in Jobs : repo'.tree[j] = repo.tree[j]
         /\ repo'.local = repo.local /\ repo'.stash = repo.stash
         /\ DOMAIN repo'.remote = DOMAIN repo.remote \ {b}
         /\ \A x \in DOMAIN repo'.remote : repo'.remote[x] = repo.remote[x]
<1>1. repo \in Repos /\ repo.remote \in BranchMaps /\ Main \in Dirs
  BY RepoFields DEF TypeInv, Dirs
<1>2. IsChanged(Withdrawn(repo, b), repo, Main, repo.tree[Main],
                repo.local, Restrict(repo.remote, DOMAIN repo.remote \ {b}), repo.stash)
  BY <1>1, WithdrawnIs
<1>3. IsChanged(repo', repo, Main, repo.tree[Main],
                repo.local, Restrict(repo.remote, DOMAIN repo.remote \ {b}), repo.stash)
  BY <1>2
<1>4. /\ repo'.tree[Main] = repo.tree[Main] /\ \A j \in Jobs : repo'.tree[j] = repo.tree[j]
      /\ repo'.remote = Restrict(repo.remote, DOMAIN repo.remote \ {b})
      /\ repo'.local = repo.local /\ repo'.stash = repo.stash
  BY <1>3, TreesOf
<1>5. /\ DOMAIN Restrict(repo.remote, DOMAIN repo.remote \ {b}) = DOMAIN repo.remote \ {b}
      /\ \A x \in DOMAIN repo.remote \ {b} :
           Restrict(repo.remote, DOMAIN repo.remote \ {b})[x] = repo.remote[x]
  BY <1>1, RestrictMap
<1>6. QED
  BY <1>4, <1>5

\* The steps of a turn: what they may lose, and what they leave to be shown.
LEMMA StepNames ==
  ASSUME NEW j \in Jobs, TypeInv, NamesInv, TypeInv', Kept, turn[j].pc # "none",
         \A k \in Jobs : k # j => /\ turn'[k] = turn[k] /\ row'[k] = row[k]
                                  /\ repo'.tree[k] = repo.tree[k],
         \A b \in DOMAIN repo.local : b \in DOMAIN repo'.local \/ (b \in Turns /\ b[1] = j),
         Default \in DOMAIN repo'.remote,
         repo'.tree[Main].branch \in DOMAIN repo'.local,
         Worktrees => repo'.tree[Main].branch = Default,
         JobOK(j)'
  PROVE  NamesInv'
<1>1. MainInv /\ \A k \in Jobs : JobOK(k)
  BY DEF NamesInv
<1>2. Default \in DOMAIN repo'.local
  BY <1>1, NamesOf DEF MainInv
<1>3. MainInv'
  BY <1>1, <1>2, MainStays DEF Kept
<1>4. ASSUME NEW k \in Jobs, k # j PROVE JobOK(k)'
  <2>1. turn'[k] = turn[k] /\ row'[k] = row[k] /\ repo'.tree[k] = repo.tree[k]
    BY <1>4
  <2>2. Worktrees \/ turn[k].pc = "none"
    BY <1>1, <1>4 DEF MainInv
  <2>3. ASSUME NEW b \in DOMAIN repo.local, Names(k, b) PROVE b \in DOMAIN repo'.local
    BY <1>2, <1>4, <2>3 DEF Names
  <2>4. mode' = mode /\ turnCount <= turnCount'
    <3>1. turnCount \in Nat /\ turnCount' = turnCount
      BY TurnsLeft DEF Kept
    <3>2. QED
      BY <3>1 DEF Kept
  <2>5. Spared(k)
    BY <2>1, <2>2, <2>3, <2>4 DEF Spared
  <2>6. QED
    BY <1>1, <2>5, SparedOK
<1>5. QED
  BY <1>3, <1>4 DEF NamesInv

\* A turn that ends: its directory and its row are as they should be.
LEMMA EndNames ==
  ASSUME NEW j \in Jobs, TypeInv, NamesInv, TypeInv', Kept, turn[j].pc # "none",
         turn'[j] = NoTurn, \A k \in Jobs : k # j => turn'[k] = turn[k] /\ row'[k] = row[k],
         repo'.tree = repo.tree, repo'.local = repo.local, repo'.remote = repo.remote,
         row'[j].branch \in {NoBranch, row[j].branch}
         \/ (Names(j, row'[j].branch) /\ row'[j].branch \in DOMAIN repo.local),
         row'[j].session => row'[j].branch # NoBranch
  PROVE  NamesInv'
<1>1. MainInv /\ JobOK(j)
  BY DEF NamesInv
<1>2. turnCount <= turnCount' /\ mode' = mode
  <2>1. turnCount \in Nat /\ turnCount' = turnCount
    BY TurnsLeft DEF Kept
  <2>2. QED
    BY <2>1 DEF Kept
<1>3. TreeOf(j)'
  BY <1>1, <1>2, TreeStays DEF JobOK
<1>4. row'[j].branch = NoBranch
      \/ (Names(j, row'[j].branch) /\ row'[j].branch \in DOMAIN repo'.local)
  BY <1>1 DEF JobOK, RowOf
<1>5. RowOf(j)'
  BY <1>2, <1>4, RowStays
<1>6. JobOK(j)'
  BY <1>3, <1>5, RestOK
<1>7. /\ Default \in DOMAIN repo'.remote /\ repo'.tree[Main].branch \in DOMAIN repo'.local
      /\ Worktrees => repo'.tree[Main].branch = Default
  BY <1>1 DEF MainInv
<1>8. QED
  BY <1>6, <1>7, StepNames

LEMMA FailNames ==
  ASSUME NEW j \in Jobs, TypeInv, NamesInv, TypeInv', Kept, turn[j].pc # "none",
         FailTurn(j), Same(repo, repo')
  PROVE  NamesInv'
<1>1. /\ Turned(j, "none", <<>>, <<>>, NoBranch, FALSE) /\ turn'[j] = NoTurn
      /\ Rowed(j, FailedStatus(j),
               row[j].branch, row[j].session, row[j].pr)
  BY BrokenDoes
<1>2. /\ \A k \in Jobs : k # j => turn'[k] = turn[k] /\ row'[k] = row[k]
      /\ row'[j].branch = row[j].branch /\ row'[j].session = row[j].session
  BY <1>1 DEF Turned, Rowed
<1>3. row[j].session => row[j].branch # NoBranch
  BY DEF NamesInv, JobOK, RowOf
<1>4. QED
  BY <1>1, <1>2, <1>3, EndNames DEF Same

\* A command of the plan that is done.
LEMMA MovedPlace ==
  ASSUME NEW j \in Jobs, TypeInv, NamesInv, TypeInv', Kept, turn[j].plan # <<>>, Moved(j)
  PROVE  /\ \A k \in Jobs : k # j => repo'.tree[k] = repo.tree[k]
         /\ \A b \in DOMAIN repo.local : b \in DOMAIN repo'.local \/ (b \in Turns /\ b[1] = j /\ b = turn[j].branch /\ turn[j].pc = "abandon")
         /\ Default \in DOMAIN repo'.remote
         /\ repo'.tree[Main].branch \in DOMAIN repo'.local
         /\ Worktrees => repo'.tree[Main].branch = Default
         /\ Worktrees => repo.tree[j] # NoTree /\ repo'.tree[j].branch = repo.tree[j].branch
                         /\ repo'.tree[j].branch \in DOMAIN repo'.local
         /\ ~Worktrees => repo'.tree[j] = repo.tree[j]
<1> DEFINE c == Head(turn[j].plan)
           d == Dir(j)
           b == turn[j].branch
<1>1. MainInv /\ JobOK(j)
  BY DEF NamesInv
<1>2. CommandAt(j) /\ Next(turn[j].plan) = c
  BY <1>1, AtCommand DEF JobOK
<1>3. Sound(c, repo, d, b)
  BY CommandSound
<1>4. Result(c, repo, d, b, repo')
  BY DEF Moved
<1>5. Worktrees => d = j /\ c \in {"exists", "pullJob", "message", "addAll", "commit", "push", "createPR"}
  BY <1>2 DEF CommandAt, Dir
<1>6. ~Worktrees => d = Main /\ c # "exists"
  BY <1>2 DEF CommandAt, Dir
<1>7. Main \notin Jobs /\ Main \in Dirs /\ d \in Dirs /\ \A k \in Jobs : k \in Dirs
  BY DeliveryAssumption DEF Dirs, Dir
<1>8. \A k \in Jobs : k # j => repo'.tree[k] = repo.tree[k]
  BY <1>4, <1>5, <1>6, <1>7 DEF Result
<1>9. Worktrees => repo'.tree[Main] = repo.tree[Main]
  BY <1>4, <1>5, <1>7 DEF Result
<1>10. ~Worktrees => repo'.tree[j] = repo.tree[j]
  BY <1>4, <1>6, <1>7 DEF Result
<1>11. Names(j, b) /\ b \in Branches /\ turn[j].pc # "none"
  BY <1>2, WorkOf DEF CommandAt
<1>12. c = "delete" => /\ ~Worktrees /\ turn[j].pc = "abandon"
                       /\ repo.tree[Main].branch = Default
  BY <1>1, <1>2 DEF CommandAt, JobOK, PlaceOf, Dir
<1>13. c = "delete" /\ b \in DOMAIN repo.local => /\ repo.tree[Main].branch # b
                                                  /\ b # Default
  BY <1>4, <1>7, <1>12 DEF Result, LocalEffect
<1>14. DOMAIN repo'.local = IF c \in {"create", "checkoutJob"} THEN DOMAIN repo.local \cup {b}
                            ELSE IF c = "delete" THEN DOMAIN repo.local \ {b} ELSE DOMAIN repo.local
  BY <1>4 DEF Result, LocalEffect
<1>15. ASSUME NEW x \in DOMAIN repo.local, x \notin DOMAIN repo'.local
       PROVE  x \in Turns /\ x[1] = j /\ x = b /\ turn[j].pc = "abandon"
  <2>1. c = "delete" /\ x = b
    BY <1>14, <1>15
  <2>2. QED
    BY <1>11, <1>12, <1>13, <2>1 DEF Names
<1>16. Default \in DOMAIN repo'.remote
  BY <1>1, <1>4 DEF Result, RemoteEffect, MainInv
<1>17. repo'.tree[d].branch = IF c = "checkoutDefault" THEN Default
                ELSE IF c \in {"create", "checkoutJob"} THEN b ELSE repo.tree[d].branch
  BY <1>4 DEF Result, TreeEffect
<1>18. repo'.tree[Main].branch \in DOMAIN repo'.local
  <2>1. CASE Worktrees
    BY <1>1, <1>5, <1>9, <1>14, <2>1 DEF MainInv
  <2>2. CASE ~Worktrees
    <3>1. CASE c = "delete"
      BY <1>1, <1>6, <1>13, <1>14, <1>17, <2>2, <3>1 DEF MainInv
    <3>2. CASE c # "delete"
      BY <1>1, <1>6, <1>14, <1>17, <2>2, <3>2 DEF MainInv
    <3>3. QED
      BY <3>1, <3>2
  <2>3. QED
    BY <2>1, <2>2
<1>19. Worktrees => repo'.tree[Main].branch = Default
  BY <1>1, <1>9 DEF MainInv
<1>20. Worktrees => repo.tree[j] # NoTree /\ repo'.tree[j].branch = repo.tree[j].branch
                    /\ repo'.tree[j].branch \in DOMAIN repo'.local
  <2>1. SUFFICES ASSUME Worktrees
                 PROVE  repo.tree[j] # NoTree /\ repo'.tree[j].branch = repo.tree[j].branch
                        /\ repo'.tree[j].branch \in DOMAIN repo'.local
    OBVIOUS
  <2>2. d = j /\ repo'.tree[j].branch = repo.tree[j].branch /\ DOMAIN repo'.local = DOMAIN repo.local
    BY <1>5, <1>14, <1>17, <2>1
  <2>3. repo.tree[j] # NoTree
    <3>1. CASE c = "exists"
      BY <1>4, <2>2, <3>1 DEF Result
    <3>2. CASE c # "exists"
      <4>1. repo.tree[j].branch \in DOMAIN repo.local
        BY <1>3, <2>2, <3>2 DEF Sound
      <4>2. DOMAIN repo.local \subseteq Branches
        BY RepoFields DEF TypeInv
      <4>3. QED
        BY <4>1, <4>2, NamesOf DEF NoTree
    <3>3. QED
      BY <3>1, <3>2
  <2>4. QED
    BY <1>1, <2>2, <2>3 DEF JobOK, TreeOf
<1>21. QED
  BY <1>8, <1>10, <1>15, <1>16, <1>18, <1>19, <1>20

LEMMA MovedNames ==
  ASSUME NEW j \in Jobs, TypeInv, NamesInv, TypeInv', Kept, turn[j].plan # <<>>, Moved(j)
  PROVE  NamesInv'
<1> DEFINE c == Head(turn[j].plan)
           q == Tail(turn[j].plan)
           b == turn[j].branch
<1>1. MainInv /\ JobOK(j) /\ PlanOf(j) /\ TreeOf(j) /\ RowOf(j) /\ TurnOf(j) /\ PlaceOf(j)
  BY DEF NamesInv, JobOK
<1>2. CommandAt(j) /\ Next(turn[j].plan) = c
  BY <1>1, AtCommand
<1>3. /\ turn'[j].pc = turn[j].pc /\ turn'[j].plan = q /\ turn'[j].work = turn[j].work
      /\ turn'[j].branch = b /\ \A k \in Jobs : k # j => turn'[k] = turn[k]
  BY MovedDoes DEF Turned
<1>4. row' = row
  BY DEF Moved
<1>5. mode' = mode /\ turnCount <= turnCount' /\ turnCount' = turnCount
  <2>1. turnCount \in Nat /\ turnCount' = turnCount
    BY TurnsLeft DEF Kept
  <2>2. QED
    BY <2>1 DEF Kept
<1>6. Turns' = Turns /\ (Worktrees' <=> Worktrees) /\ Dir(j)' = Dir(j)
  BY <1>5, SetsKept
<1>7. (First(j)' <=> First(j)) /\ PreparePlans(j)' = PreparePlans(j)
  BY <1>3, <1>6 DEF First, PreparePlans
<1>8. /\ \A k \in Jobs : k # j => repo'.tree[k] = repo.tree[k]
      /\ \A x \in DOMAIN repo.local : x \in DOMAIN repo'.local \/ (x \in Turns /\ x[1] = j /\ x = b /\ turn[j].pc = "abandon")
      /\ Default \in DOMAIN repo'.remote
      /\ repo'.tree[Main].branch \in DOMAIN repo'.local
      /\ Worktrees => repo'.tree[Main].branch = Default
      /\ Worktrees => repo.tree[j] # NoTree /\ repo'.tree[j].branch = repo.tree[j].branch
                      /\ repo'.tree[j].branch \in DOMAIN repo'.local
      /\ ~Worktrees => repo'.tree[j] = repo.tree[j]
  BY MovedPlace
<1>9. PlanOf(j)'
  <2>1. /\ turn[j].pc = "prepare" => q \in PreparePlans(j)
        /\ turn[j].pc = "abandon" => q \in AbandonPlans
        /\ turn[j].pc = "pushing" => q \in CommitPlans
        /\ turn[j].pc = "saving" => q \in SavePlans
        /\ turn[j].pc = "opening" => q \in OpenPlans
    BY <1>1, PlanStep
  <2>2. turn[j].pc \in {"prepare", "abandon", "pushing", "saving", "opening"}
    BY <1>2 DEF CommandAt
  <2>3. QED
    BY <1>1, <1>3, <1>6, <1>7, <2>1, <2>2 DEF PlanOf
<1>10. TreeOf(j)'
  <2>1. CASE Worktrees
    BY <1>1, <1>5, <1>8, <2>1, TreeStays
  <2>2. CASE ~Worktrees
    BY <1>1, <1>5, <1>8, <2>2, TreeStays DEF TreeOf
  <2>3. QED
    BY <2>1, <2>2
<1>11. RowOf(j)'
  <2>1. turn[j].pc = "abandon" => row[j].branch = NoBranch
    BY <1>1 DEF PlaceOf
  <2>2. row'[j].branch = NoBranch
         \/ (Names(j, row'[j].branch) /\ row'[j].branch \in DOMAIN repo'.local)
    BY <1>1, <1>4, <1>8, <2>1 DEF RowOf
  <2>3. row'[j].session => row'[j].branch # NoBranch
    BY <1>1, <1>4 DEF RowOf
  <2>4. QED
    BY <1>5, <2>2, <2>3, RowStays
<1>12. TurnOf(j)' /\ turn[j].pc # "none"
  <2>1. turn[j].pc # "none"
    BY <1>2 DEF CommandAt
  <2>2. /\ turn[j].work \in Turns /\ turn[j].work[1] = j /\ turn[j].work[2] <= turnCount
        /\ Names(j, b)
    BY <1>1, <2>1 DEF TurnOf
  <2>3. \A x : Names(j, x) => Names(j, x)'
    BY <1>5, NamesStay
  <2>4. QED
    BY <1>3, <1>5, <1>6, <2>1, <2>2, <2>3 DEF TurnOf
<1>13. PlaceOf(j)'
  <2> DEFINE n == Next(q)
             here == repo'.tree[Dir(j)].branch
  <2>1. /\ c = "stash" => n = "clean"
        /\ c = "reset" => n = "clean"
        /\ c = "clean" => n = "checkoutDefault"
        /\ c = "checkoutDefault" => n = IF turn[j].pc = "prepare" /\ ~First(j) THEN "pullDefault" ELSE "resetToRef"
        /\ c = "resetToRef" => n = IF turn[j].pc = "prepare" THEN "create" ELSE "delete"
        /\ c = "pullDefault" => n = "checkoutJob"
        /\ c = "checkoutJob" => n = "pullJob"
        /\ c \in {"create", "pullJob", "delete", "push", "createPR"} => n = "over"
    BY <1>1, PlanStep
  <2>2. here = IF c = "checkoutDefault" THEN Default
               ELSE IF c \in {"create", "checkoutJob"} THEN b ELSE repo.tree[Dir(j)].branch
    BY DEF Moved, Result, TreeEffect
  <2>3. turn[j].pc = "prepare" /\ ~Worktrees =>
          /\ n \in {"resetToRef", "create", "pullDefault", "checkoutJob"} => here = Default
          /\ n \in {"pullJob", "over"} => here = b
    <3>1. SUFFICES ASSUME turn[j].pc = "prepare", ~Worktrees
                   PROVE  /\ n \in {"resetToRef", "create", "pullDefault", "checkoutJob"} => here = Default
                          /\ n \in {"pullJob", "over"} => here = b
      OBVIOUS
    <3>2. /\ c \in {"resetToRef", "create", "pullDefault", "checkoutJob"} => repo.tree[Dir(j)].branch = Default
          /\ c = "pullJob" => repo.tree[Dir(j)].branch = b
      BY <1>1, <1>2, <3>1 DEF PlaceOf
    <3>3. c \in {"stash", "clean", "checkoutDefault", "resetToRef", "create", "reset", "pullDefault", "checkoutJob", "pullJob"}
      BY <1>2, <3>1 DEF CommandAt
    <3> HIDE DEF n, here, c, b, q
    <3>4. QED
      BY <2>1, <2>2, <3>1, <3>2, <3>3
  <2>4. turn[j].pc = "abandon" => (n \in {"resetToRef", "delete"} => here = Default) /\ row[j].branch = NoBranch
    <3>1. turn[j].pc = "abandon" => row[j].branch = NoBranch /\ (c = "resetToRef" => repo.tree[Dir(j)].branch = Default)
      BY <1>1, <1>2 DEF PlaceOf
    <3>2. turn[j].pc = "abandon" => c \in {"clean", "checkoutDefault", "resetToRef", "delete"}
      BY <1>2 DEF CommandAt
    <3> HIDE DEF n, here, c, b, q
    <3>3. QED
      BY <2>1, <2>2, <3>1, <3>2
  <2>5. turn[j].pc \in {"pushing", "opening", "saving"} => b = here
    <3>1. turn[j].pc \in {"pushing", "opening", "saving"} => b = repo.tree[Dir(j)].branch
      BY <1>1 DEF PlaceOf
    <3>2. turn[j].pc \in {"pushing", "opening", "saving"} => c \in {"message", "addAll", "commit", "push", "createPR"}
      BY <1>2 DEF CommandAt
    <3>3. QED
      BY <2>2, <3>1, <3>2
  <2>6. /\ turn[j].pc = "prepare" /\ ~First(j) => b = row[j].branch
        /\ turn[j].pc = "saving" => b = row[j].branch
        /\ turn[j].pc \in Ready \ {"row"} => row[j].branch # NoBranch
    BY <1>1 DEF PlaceOf
  <2>7. Worktrees => repo'.tree[j] # NoTree
    <3>1. DOMAIN repo'.local \subseteq Branches /\ NoBranch \notin Branches
      BY RepoFields, NamesOf DEF Moved
    <3>2. QED
      BY <1>8, <3>1 DEF NoTree
  <2>8. turn[j].pc \in {"prepare", "abandon", "pushing", "saving", "opening"}
    BY <1>2 DEF CommandAt
  <2> HIDE DEF c, q
  <2>9. QED
    BY <1>3, <1>4, <1>6, <1>7, <2>3, <2>4, <2>5, <2>6, <2>7, <2>8 DEF PlaceOf, Ready
<1>14. JobOK(j)'
  BY <1>9, <1>10, <1>11, <1>12, <1>13 DEF JobOK
<1>15. QED
  <2>1. \A k \in Jobs : k # j => turn'[k] = turn[k] /\ row'[k] = row[k] /\ repo'.tree[k] = repo.tree[k]
    BY <1>3, <1>4, <1>8
  <2>2. \A x \in DOMAIN repo.local : x \in DOMAIN repo'.local \/ (x \in Turns /\ x[1] = j)
    BY <1>8
  <2>3. QED
    BY <1>8, <1>12, <1>14, <2>1, <2>2, StepNames

\* A turn that goes on to another stage, its directory as it was.
LEMMA GoNames ==
  ASSUME NEW j \in Jobs, TypeInv, NamesInv, TypeInv', Kept, turn[j].pc # "none", repo' = repo,
         turn'[j].pc # "none", turn'[j].work = turn[j].work, Names(j, turn'[j].branch),
         \A k \in Jobs : k # j => turn'[k] = turn[k] /\ row'[k] = row[k],
         row'[j].branch \in {NoBranch, row[j].branch}
         \/ (Names(j, row'[j].branch) /\ row'[j].branch \in DOMAIN repo.local),
         row'[j].session => row'[j].branch # NoBranch,
         PlanOf(j)', PlaceOf(j)'
  PROVE  NamesInv'
<1>1. MainInv /\ JobOK(j)
  BY DEF NamesInv
<1>2. turnCount <= turnCount' /\ mode' = mode /\ turnCount' = turnCount
  <2>1. turnCount \in Nat /\ turnCount' = turnCount
    BY TurnsLeft DEF Kept
  <2>2. QED
    BY <2>1 DEF Kept
<1>3. TreeOf(j)'
  BY <1>1, <1>2, TreeStays DEF JobOK
<1>4. row'[j].branch = NoBranch
      \/ (Names(j, row'[j].branch) /\ row'[j].branch \in DOMAIN repo'.local)
  BY <1>1 DEF JobOK, RowOf
<1>5. RowOf(j)'
  BY <1>2, <1>4, RowStays
<1>6. TurnOf(j)'
  <2>1. Turns' = Turns /\ \A x : Names(j, x) => Names(j, x)'
    BY <1>2, NamesStay, SetsKept
  <2>2. /\ turn[j].work \in Turns /\ turn[j].work[1] = j /\ turn[j].work[2] <= turnCount
    BY <1>1 DEF JobOK, TurnOf
  <2>3. QED
    BY <1>2, <2>1, <2>2 DEF TurnOf
<1>7. JobOK(j)'
  BY <1>3, <1>5, <1>6 DEF JobOK
<1>8. /\ Default \in DOMAIN repo'.remote /\ repo'.tree[Main].branch \in DOMAIN repo'.local
      /\ Worktrees => repo'.tree[Main].branch = Default
  BY <1>1 DEF MainInv
<1>9. QED
  BY <1>7, <1>8, StepNames

LEMMA PreparedNames ==
  ASSUME NEW j \in Jobs, TypeInv, NamesInv, TypeInv', Prepared(j)
  PROVE  NamesInv'
<1>1. /\ Kept /\ repo' = repo /\ row' = row
      /\ turn[j].pc = "prepare" /\ turn[j].plan = <<>> /\ ~(Worktrees /\ First(j))
      /\ Turned(j, "row", <<>>, turn[j].work, turn[j].branch, turn[j].pr)
  BY PreparedDoes
<1>2. /\ turn'[j].pc = "row" /\ turn'[j].plan = <<>> /\ turn'[j].work = turn[j].work
      /\ turn'[j].branch = turn[j].branch /\ \A k \in Jobs : k # j => turn'[k] = turn[k]
  BY <1>1 DEF Turned
<1>3. TreeOf(j) /\ RowOf(j) /\ PlaceOf(j) /\ Names(j, turn[j].branch)
  BY <1>1, WorkOf DEF NamesInv, JobOK
<1>4. /\ (Worktrees' <=> Worktrees) /\ Dir(j)' = Dir(j) /\ \A x : Names(j, x) => Names(j, x)'
  <2>1. turnCount <= turnCount' /\ mode' = mode
    BY <1>1, TurnsLeft DEF Kept
  <2>2. QED
    BY <2>1, SetsKept, NamesStay
<1>5. PlanOf(j)'
  BY <1>2 DEF PlanOf
<1>6. Next(turn[j].plan) = "over"
  BY <1>1, NextOf
<1>7. PlaceOf(j)'
  <2>1. CASE Worktrees
    BY <1>1, <1>2, <1>3, <1>4, <1>6, <2>1 DEF PlaceOf, TreeOf, Ready, Dir
  <2>2. CASE ~Worktrees
    BY <1>1, <1>2, <1>3, <1>4, <1>6, <2>2 DEF PlaceOf, Ready
  <2>3. QED
    BY <2>1, <2>2
<1>8. QED
  BY <1>1, <1>2, <1>3, <1>5, <1>7, GoNames DEF RowOf

LEMMA UpdateNames ==
  ASSUME NEW j \in Jobs, TypeInv, NamesInv, TypeInv', UpdateJobData(j)
  PROVE  NamesInv'
<1>1. /\ Kept /\ repo' = repo /\ turn[j].pc = "row"
      /\ Turned(j, "run", turn[j].plan, turn[j].work, turn[j].branch, turn[j].pr)
      /\ Rowed(j, "in_progress", turn[j].branch, row[j].session, row[j].pr)
  BY UpdateDoes
<1>2. /\ turn'[j].pc = "run" /\ turn'[j].plan = turn[j].plan /\ turn'[j].work = turn[j].work
      /\ turn'[j].branch = turn[j].branch /\ \A k \in Jobs : k # j => turn'[k] = turn[k]
      /\ row'[j].branch = turn[j].branch /\ \A k \in Jobs : k # j => row'[k] = row[k]
  BY <1>1 DEF Turned, Rowed
<1>3. /\ MainInv /\ PlanOf(j) /\ TreeOf(j) /\ RowOf(j) /\ PlaceOf(j) /\ Names(j, turn[j].branch)
      /\ turn[j].branch # NoBranch
  BY <1>1, WorkOf DEF NamesInv, JobOK
<1>4. /\ (Worktrees' <=> Worktrees) /\ Dir(j)' = Dir(j) /\ \A x : Names(j, x) => Names(j, x)'
  <2>1. turnCount <= turnCount' /\ mode' = mode
    BY <1>1, TurnsLeft DEF Kept
  <2>2. QED
    BY <2>1, SetsKept, NamesStay
<1>5. PlanOf(j)'
  BY <1>1, <1>2, <1>3 DEF PlanOf
<1>6. turn[j].branch \in DOMAIN repo.local
  <2>1. repo.tree[Dir(j)].branch \in DOMAIN repo.local
    BY <1>1, <1>3 DEF PlaceOf, TreeOf, MainInv, Ready, Dir
  <2>2. turn[j].branch \in {repo.tree[Dir(j)].branch, row[j].branch}
    BY <1>1, <1>3 DEF PlaceOf
  <2>3. QED
    BY <1>3, <2>1, <2>2 DEF RowOf
<1>7. PlaceOf(j)'
  BY <1>1, <1>2, <1>3, <1>4 DEF PlaceOf, Ready
<1>8. QED
  BY <1>1, <1>2, <1>3, <1>5, <1>6, <1>7, GoNames

\* The worktree of a new conversation is made.
LEMMA PrepareTreeNames ==
  ASSUME NEW j \in Jobs, TypeInv, NamesInv, TypeInv', PrepareForNewConversationWithWorktree(j)
  PROVE  NamesInv'
<1>1. /\ Kept /\ Worktrees /\ turn[j].pc = "prepare"
      /\ \/ /\ Turned(j, "row", <<>>, turn[j].work, turn[j].branch, turn[j].pr)
            /\ row' = row
            /\ repo' = Made(repo, j, turn[j].branch,
                            IF hold THEN repo.stash \cup UncommittedIn(j) ELSE repo.stash)
         \/ FailTurn(j) /\ repo' = repo
  BY PrepareTreeDoes
<1>2. CASE FailTurn(j) /\ repo' = repo
  BY <1>1, <1>2, FailNames DEF Same
<1>3. ASSUME Turned(j, "row", <<>>, turn[j].work, turn[j].branch, turn[j].pr), row' = row,
             repo' = Made(repo, j, turn[j].branch,
                          IF hold THEN repo.stash \cup UncommittedIn(j) ELSE repo.stash)
      PROVE  NamesInv'
  <2> DEFINE b == turn[j].branch
             s == IF hold THEN repo.stash \cup UncommittedIn(j) ELSE repo.stash
  <2>1. /\ turn'[j].pc = "row" /\ turn'[j].plan = <<>> /\ turn'[j].work = turn[j].work
        /\ turn'[j].branch = b /\ \A k \in Jobs : k # j => turn'[k] = turn[k]
    BY <1>3 DEF Turned
  <2>2. /\ MainInv /\ RowOf(j) /\ PlaceOf(j) /\ TurnOf(j) /\ Names(j, b)
        /\ b # NoBranch /\ b \in Branches /\ j \in Dirs /\ repo \in Repos
    BY <1>1, WorkOf DEF NamesInv, JobOK, Dirs, TypeInv
  <2>3. s \in SUBSET Turns
    BY <2>2, RepoFields DEF UncommittedIn
  <2>4. Default \in DOMAIN repo.remote /\ repo' = Made(repo, j, b, s)
    BY <1>3, <2>2 DEF MainInv
  <2>5. /\ repo'.tree[j].branch = b /\ \A k \in Jobs : k # j => repo'.tree[k] = repo.tree[k]
        /\ repo'.tree[Main] = repo.tree[Main] /\ repo'.remote = repo.remote
        /\ DOMAIN repo'.local = DOMAIN repo.local \cup {b}
    <3>1. b \in Branches /\ s \in SUBSET Turns
      BY <2>2, <2>3
    <3> HIDE DEF b, s
    <3>2. /\ repo'.tree[j] = [branch |-> b, tracked |-> {}, untracked |-> {}] /\ Beside(j)
          /\ repo'.remote = repo.remote
          /\ DOMAIN repo'.local = DOMAIN repo.local \cup {b}
      BY <2>4, <3>1, MadeRepo
    <3>3. QED
      BY <3>2 DEF Beside
  <2>6. /\ Turns' = Turns /\ Worktrees' /\ Dir(j)' = j /\ \A x : Names(j, x) => Names(j, x)'
        /\ turnCount <= turnCount' /\ mode' = mode /\ turnCount' = turnCount
    <3>1. turnCount <= turnCount' /\ mode' = mode /\ turnCount' = turnCount
      BY <1>1, TurnsLeft DEF Kept
    <3>2. QED
      BY <1>1, <3>1, SetsKept, NamesStay DEF Dir
  <2> HIDE DEF b, s
  <2>7. PlanOf(j)'
    BY <2>1 DEF PlanOf
  <2>8. TreeOf(j)'
    BY <2>2, <2>5, <2>6 DEF TreeOf
  <2>9. RowOf(j)'
    BY <1>3, <2>2, <2>5, <2>6 DEF RowOf
  <2>10. TurnOf(j)'
    BY <1>1, <2>1, <2>2, <2>6 DEF TurnOf
  <2>11. repo'.tree[j] # NoTree
    BY <2>2, <2>5 DEF NoTree
  <2>12. PlaceOf(j)'
    BY <2>1, <2>2, <2>5, <2>6, <2>11 DEF PlaceOf, Ready
  <2>13. JobOK(j)'
    BY <2>7, <2>8, <2>9, <2>10, <2>12 DEF JobOK
  <2>14. /\ \A x \in DOMAIN repo.local : x \in DOMAIN repo'.local
         /\ Default \in DOMAIN repo'.remote
         /\ repo'.tree[Main].branch \in DOMAIN repo'.local
         /\ Worktrees => repo'.tree[Main].branch = Default
    BY <2>2, <2>5 DEF MainInv
  <2>15. QED
    BY <1>1, <1>3, <2>1, <2>5, <2>13, <2>14, StepNames
<1>4. QED
  BY <1>1, <1>2, <1>3

\* A pull finds its branch gone, and the job is given up.
LEMMA GoneNames ==
  ASSUME NEW j \in Jobs, TypeInv, NamesInv, TypeInv', Kept, turn[j].pc # "none", Gone(j)
  PROVE  NamesInv'
<1>1. /\ Rowed(j, "none", NoBranch, FALSE, FALSE)
      /\ \/ /\ Worktrees
            /\ Turned(j, "none", <<>>, <<>>, NoBranch, FALSE) /\ turn'[j] = NoTurn
            /\ repo' = repo \/ repo' = Removed(repo, j, turn[j].branch)
         \/ /\ ~Worktrees
            /\ Turned(j, "abandon", AbandonJobAndCleanup, turn[j].work, turn[j].branch, turn[j].pr)
            /\ repo' = repo
  BY GoneDoes
<1>2. /\ row'[j].branch = NoBranch /\ row'[j].session = FALSE
      /\ \A k \in Jobs : k # j => row'[k] = row[k]
  BY <1>1 DEF Rowed
<1>3. /\ MainInv /\ TreeOf(j) /\ PlaceOf(j) /\ Names(j, turn[j].branch)
      /\ turn[j].branch \in Branches /\ j \in Dirs /\ repo \in Repos
  BY WorkOf DEF NamesInv, JobOK, Dirs, TypeInv
<1>4. /\ Turns' = Turns /\ (Worktrees' <=> Worktrees) /\ Dir(j)' = Dir(j)
      /\ turnCount <= turnCount' /\ mode' = mode
  <2>1. turnCount <= turnCount' /\ mode' = mode
    BY TurnsLeft DEF Kept
  <2>2. QED
    BY <2>1, SetsKept
<1>5. ASSUME turn'[j] = NoTurn, Turned(j, "none", <<>>, <<>>, NoBranch, FALSE), repo' = repo
      PROVE  NamesInv'
  BY <1>2, <1>5, EndNames DEF Turned
<1>6. ASSUME Worktrees, turn'[j] = NoTurn, Turned(j, "none", <<>>, <<>>, NoBranch, FALSE),
             repo' = Removed(repo, j, turn[j].branch)
      PROVE  NamesInv'
  <2> DEFINE b == turn[j].branch
  <2>2. /\ repo'.tree[j] = NoTree /\ \A k \in Jobs : k # j => repo'.tree[k] = repo.tree[k]
        /\ repo'.tree[Main] = repo.tree[Main] /\ repo'.remote = repo.remote
        /\ DOMAIN repo'.local = DOMAIN repo.local \ {b}
    BY <1>6, RemovedRepo DEF Beside
  <2>3. b \in Turns /\ b[1] = j
    BY <1>3, <1>6 DEF Names
  <2>4. Default # b
    BY <2>3, NamesOf
  <2> HIDE DEF b
  <2>5. TreeOf(j)'
    BY <2>2 DEF TreeOf
  <2>6. RowOf(j)'
    BY <1>2 DEF RowOf
  <2>7. JobOK(j)'
    BY <1>6, <2>5, <2>6, RestOK
  <2>8. /\ \A x \in DOMAIN repo.local : x \in DOMAIN repo'.local \/ (x \in Turns /\ x[1] = j)
        /\ Default \in DOMAIN repo'.remote
        /\ repo'.tree[Main].branch \in DOMAIN repo'.local
        /\ Worktrees => repo'.tree[Main].branch = Default
    BY <1>3, <1>6, <2>2, <2>3, <2>4 DEF MainInv
  <2>9. \A k \in Jobs : k # j => turn'[k] = turn[k]
    BY <1>6 DEF Turned
  <2>10. QED
    BY <1>2, <2>2, <2>7, <2>8, <2>9, StepNames
<1>7. ASSUME ~Worktrees, repo' = repo,
             Turned(j, "abandon", AbandonJobAndCleanup, turn[j].work, turn[j].branch, turn[j].pr)
      PROVE  NamesInv'
  <2>1. /\ turn'[j].pc = "abandon" /\ turn'[j].plan = AbandonJobAndCleanup
        /\ turn'[j].work = turn[j].work /\ turn'[j].branch = turn[j].branch
        /\ \A k \in Jobs : k # j => turn'[k] = turn[k]
    BY <1>7 DEF Turned
  <2>2. AbandonJobAndCleanup \in AbandonPlans /\ Next(AbandonJobAndCleanup) = "clean"
    BY Plan
  <2> DEFINE p == turn'[j].plan
  <2>3. p \in AbandonPlans /\ Next(p) = "clean"
    BY <2>1, <2>2
  <2>4. PlanOf(j)'
    BY <1>4, <1>7, <2>1, <2>3 DEF PlanOf
  <2>5. PlaceOf(j)'
    BY <1>2, <1>4, <1>7, <2>1, <2>3 DEF PlaceOf, Ready
  <2>6. QED
    BY <1>2, <1>3, <1>7, <2>1, <2>4, <2>5, GoNames
<1>8. QED
  BY <1>1, <1>5, <1>6, <1>7

LEMMA RunNames ==
  ASSUME NEW j \in Jobs, TypeInv, NamesInv, TypeInv', RunCommand(j)
  PROVE  NamesInv'
<1>1. /\ turn[j].plan # <<>> /\ CommandAt(j) /\ Kept
      /\ Moved(j) \/ Broken(j) \/ Gone(j)
  BY RunCases
<1>2. turn[j].pc # "none"
  BY <1>1 DEF CommandAt
<1>3. QED
  BY <1>1, <1>2, MovedNames, FailNames, GoneNames DEF Broken

\* What a step of a turn leaves as it is said to be.
LEMMA AfterStep ==
  ASSUME NEW j \in Jobs, TypeInv, TypeInv', Kept
  PROVE  /\ Turns' = Turns /\ (Worktrees' <=> Worktrees) /\ Dir(j)' = Dir(j)
         /\ \A k, x : Names(k, x) => Names(k, x)'
         /\ turnCount' = turnCount /\ turnCount <= turnCount' /\ mode' = mode
<1>1. turnCount' = turnCount /\ turnCount <= turnCount' /\ mode' = mode
  BY TurnsLeft DEF Kept
<1>2. QED
  BY <1>1, SetsKept, NamesStay

\* Where the CLI leaves the job.
LEMMA CLIPlace ==
  ASSUME NEW j \in Jobs, NEW did, TypeInv, NamesInv, TypeInv', turn[j].pc = "run", CLIDid(j, did)
  PROVE  /\ \A k \in Jobs : k # j => repo'.tree[k] = repo.tree[k]
         /\ DOMAIN repo.local \subseteq DOMAIN repo'.local
         /\ repo'.remote = repo.remote
         /\ repo'.tree[Main].branch \in DOMAIN repo'.local
         /\ Worktrees => /\ repo'.tree[Main].branch = Default
                         /\ repo'.tree[j] # NoTree /\ repo'.tree[j].branch \in DOMAIN repo'.local
         /\ ~Worktrees => repo'.tree[j] = repo.tree[j]
         /\ Names(j, repo'.tree[Dir(j)].branch)
<1> DEFINE d == Dir(j)
           w == turn[j].work
<1>1. /\ MainInv /\ TreeOf(j) /\ PlaceOf(j) /\ w \in Turns /\ w[1] = j /\ w[2] <= turnCount
  BY DEF NamesInv, JobOK, TurnOf
<1>2. Main \notin Jobs /\ Main \in Dirs /\ d \in Dirs /\ (\A k \in Jobs : k \in Dirs)
      /\ d = IF Worktrees THEN j ELSE Main
  BY DeliveryAssumption DEF Dirs, Dir
<1>3. /\ \A x \in Dirs : x # d => repo'.tree[x] = repo.tree[x]
      /\ repo'.remote = repo.remote /\ repo' \in Repos
      /\ \/ repo'.tree[d].branch = repo.tree[d].branch /\ repo'.local = repo.local
         \/ repo'.tree[d].branch = w /\ DOMAIN repo'.local = DOMAIN repo.local \cup {w}
         \/ /\ repo'.tree[d].branch = Default /\ "default" \in CLIBranches /\ ~Worktrees
            /\ repo'.local = repo.local
  BY DEF CLIDid
<1>4. DOMAIN repo.local \subseteq DOMAIN repo'.local
  BY <1>3
<1>5. repo.tree[d].branch \in DOMAIN repo.local /\ Names(j, repo.tree[d].branch)
  <2>1. CASE Worktrees
    BY <1>1, <1>2, <2>1 DEF TreeOf, PlaceOf, Ready
  <2>2. CASE ~Worktrees
    BY <1>1, <1>2, <2>2 DEF MainInv, PlaceOf
  <2>3. QED
    BY <2>1, <2>2
<1>6. repo'.tree[d].branch \in DOMAIN repo'.local /\ Names(j, repo'.tree[d].branch)
  <2>1. CASE repo'.tree[d].branch = w /\ DOMAIN repo'.local = DOMAIN repo.local \cup {w}
    BY <1>1, <2>1 DEF Names
  <2>2. CASE repo'.tree[d].branch = repo.tree[d].branch /\ repo'.local = repo.local
    BY <1>5, <2>2
  <2>3. CASE repo'.tree[d].branch = Default /\ "default" \in CLIBranches /\ ~Worktrees
             /\ repo'.local = repo.local
    BY <1>1, <2>3 DEF MainInv, Names
  <2>4. QED
    BY <1>3, <2>1, <2>2, <2>3
<1>7. repo'.tree[d] # NoTree
  <2>1. DOMAIN repo'.local \subseteq Branches
    BY <1>3, RepoFields
  <2>2. QED
    BY <1>6, <2>1, NamesOf DEF NoTree
<1> HIDE DEF d, w
<1>8. CASE Worktrees
  BY <1>1, <1>2, <1>3, <1>4, <1>6, <1>7, <1>8 DEF MainInv, d
<1>9. CASE ~Worktrees
  BY <1>1, <1>2, <1>3, <1>4, <1>6, <1>9 DEF d
<1>10. QED
  BY <1>8, <1>9

LEMMA RunCLINames ==
  ASSUME NEW j \in Jobs, TypeInv, NamesInv, TypeInv', RunCLI(j)
  PROVE  NamesInv'
<1>1. /\ Kept /\ turn[j].pc = "run"
      /\ \E did \in {{}, {turn[j].work}} : CLIDid(j, did) /\ produced' = produced \cup did
      /\ \/ /\ \E pc \in {"commit", "finish"} :
                 /\ Turned(j, pc, turn[j].plan, turn[j].work, turn[j].branch, turn[j].pr)
                 /\ pc = "finish" <=> j \in AskJobs
            /\ row' = row
         \/ /\ Turned(j, "none", <<>>, <<>>, NoBranch, FALSE) /\ turn'[j] = NoTurn
            /\ \E status \in {"failed", row[j].status} :
                 Rowed(j, status, row[j].branch, row[j].session, row[j].pr)
         \/ /\ Turned(j, "save", turn[j].plan, turn[j].work, turn[j].branch, turn[j].pr)
            /\ \E status \in {"completed", "failed"} :
                 Rowed(j, status, row[j].branch, TRUE, row[j].pr)
  BY RunCLIDoes
<1>2. PICK did : CLIDid(j, did)
  BY <1>1
<1>3. /\ \A k \in Jobs : k # j => repo'.tree[k] = repo.tree[k]
      /\ DOMAIN repo.local \subseteq DOMAIN repo'.local
      /\ repo'.remote = repo.remote
      /\ repo'.tree[Main].branch \in DOMAIN repo'.local
      /\ Worktrees => /\ repo'.tree[Main].branch = Default
                      /\ repo'.tree[j] # NoTree /\ repo'.tree[j].branch \in DOMAIN repo'.local
      /\ ~Worktrees => repo'.tree[j] = repo.tree[j]
      /\ Names(j, repo'.tree[Dir(j)].branch)
  BY <1>1, <1>2, CLIPlace
<1>4. /\ Turns' = Turns /\ (Worktrees' <=> Worktrees) /\ Dir(j)' = Dir(j)
      /\ \A x : Names(j, x) => Names(j, x)'
      /\ turnCount' = turnCount /\ turnCount <= turnCount' /\ mode' = mode
  BY <1>1, AfterStep
<1>5. /\ MainInv /\ PlanOf(j) /\ TreeOf(j) /\ RowOf(j) /\ TurnOf(j) /\ PlaceOf(j)
  BY DEF NamesInv, JobOK
<1>6. /\ \A k \in Jobs : k # j => turn'[k] = turn[k]
      /\ \A k \in Jobs : k # j => row'[k] = row[k]
      /\ row'[j].branch = row[j].branch /\ row'[j].session \in {row[j].session, TRUE}
      /\ \/ turn'[j] = NoTurn
         \/ /\ turn'[j].pc \in {"commit", "finish", "save"} /\ turn'[j].plan = turn[j].plan
            /\ turn'[j].work = turn[j].work /\ turn'[j].branch = turn[j].branch
  BY <1>1 DEF Turned, Rowed
<1>7. row[j].branch # NoBranch /\ turn[j].branch = row[j].branch
  BY <1>1, <1>5 DEF PlaceOf, Ready
<1>8. TreeOf(j)'
  <2>1. CASE Worktrees
    BY <1>3, <1>4, <2>1 DEF TreeOf, Dir
  <2>2. CASE ~Worktrees
    BY <1>3, <1>4, <1>5, <2>2 DEF TreeOf
  <2>3. QED
    BY <2>1, <2>2
<1>9. RowOf(j)'
  BY <1>3, <1>4, <1>5, <1>6, <1>7 DEF RowOf
<1>10. JobOK(j)'
  <2>1. CASE turn'[j] = NoTurn
    BY <1>8, <1>9, <2>1, RestOK
  <2>2. CASE /\ turn'[j].pc \in {"commit", "finish", "save"} /\ turn'[j].plan = turn[j].plan
             /\ turn'[j].work = turn[j].work /\ turn'[j].branch = turn[j].branch
    <3>1. turn[j].plan = <<>>
      BY <1>1, <1>5 DEF PlanOf
    <3>2. PlanOf(j)'
      BY <2>2, <3>1 DEF PlanOf
    <3>3. TurnOf(j)'
      BY <1>1, <1>4, <1>5, <2>2 DEF TurnOf
    <3>4. PlaceOf(j)'
      BY <1>3, <1>4, <1>6, <1>7, <2>2 DEF PlaceOf, Ready
    <3>5. QED
      BY <1>8, <1>9, <3>2, <3>3, <3>4 DEF JobOK
  <2>3. QED
    BY <1>6, <2>1, <2>2
<1>11. Default \in DOMAIN repo'.remote /\ \A x \in DOMAIN repo.local : x \in DOMAIN repo'.local
  BY <1>3, <1>5 DEF MainInv
<1>12. QED
  BY <1>1, <1>3, <1>6, <1>10, <1>11, StepNames

LEMMA StopNames ==
  ASSUME NEW j \in Jobs, TypeInv, NamesInv, TypeInv', StopBeforeSession(j)
  PROVE  NamesInv'
<1>1. /\ Kept /\ turn[j].pc = "run"
      /\ Turned(j, "none", <<>>, <<>>, NoBranch, FALSE) /\ turn'[j] = NoTurn
      /\ Rowed(j, "completed", NoBranch, FALSE, FALSE)
      /\ repo' = IF Worktrees THEN Removed(repo, j, turn[j].branch) ELSE repo
  BY StopDoes
<1>2. /\ \A k \in Jobs : k # j => turn'[k] = turn[k]
      /\ \A k \in Jobs : k # j => row'[k] = row[k]
      /\ row'[j].branch = NoBranch /\ row'[j].session = FALSE
  BY <1>1 DEF Turned, Rowed
<1>3. MainInv /\ Names(j, turn[j].branch)
  BY <1>1, WorkOf DEF NamesInv
<1>4. CASE ~Worktrees
  BY <1>1, <1>2, <1>4, EndNames
<1>5. CASE Worktrees
  <2> DEFINE b == turn[j].branch
  <2>1. repo' = Removed(repo, j, b)
    BY <1>1, <1>5
  <2>2. /\ repo'.tree[j] = NoTree /\ \A k \in Jobs : k # j => repo'.tree[k] = repo.tree[k]
        /\ repo'.tree[Main] = repo.tree[Main] /\ repo'.remote = repo.remote
        /\ DOMAIN repo'.local = DOMAIN repo.local \ {b}
    BY <2>1, RemovedRepo DEF Beside
  <2>3. b \in Turns /\ b[1] = j
    BY <1>3, <1>5 DEF Names
  <2>4. Default # b
    BY <2>3, NamesOf
  <2> HIDE DEF b
  <2>5. TreeOf(j)'
    BY <2>2 DEF TreeOf
  <2>6. RowOf(j)'
    BY <1>2 DEF RowOf
  <2>7. JobOK(j)'
    BY <1>1, <2>5, <2>6, RestOK
  <2>8. /\ \A x \in DOMAIN repo.local : x \in DOMAIN repo'.local \/ (x \in Turns /\ x[1] = j)
        /\ Default \in DOMAIN repo'.remote
        /\ repo'.tree[Main].branch \in DOMAIN repo'.local
        /\ Worktrees => repo'.tree[Main].branch = Default
    BY <1>3, <1>5, <2>2, <2>3, <2>4 DEF MainInv
  <2>9. QED
    BY <1>1, <1>2, <2>2, <2>7, <2>8, StepNames
<1>6. QED
  BY <1>4, <1>5

LEMMA StoppedNames ==
  ASSUME NEW j \in Jobs, TypeInv, NamesInv, TypeInv', CommitStoppedWork(j)
  PROVE  NamesInv'
<1>1. /\ Kept /\ repo' = repo /\ row' = row /\ turn[j].pc = "save"
      /\ \/ Turned(j, "none", <<>>, <<>>, NoBranch, FALSE) /\ turn'[j] = NoTurn
         \/ /\ Turned(j, "saving", StoppedWorkPlan, turn[j].work, turn[j].branch, turn[j].pr)
            /\ repo.tree[Dir(j)].branch = row[j].branch
  BY StoppedDoes
<1>2. /\ RowOf(j) /\ PlaceOf(j) /\ Names(j, turn[j].branch)
  BY <1>1, WorkOf DEF NamesInv, JobOK
<1>3. ASSUME turn'[j] = NoTurn, Turned(j, "none", <<>>, <<>>, NoBranch, FALSE)
      PROVE  NamesInv'
  BY <1>1, <1>2, <1>3, EndNames DEF Turned, RowOf
<1>4. ASSUME Turned(j, "saving", StoppedWorkPlan, turn[j].work, turn[j].branch, turn[j].pr),
             repo.tree[Dir(j)].branch = row[j].branch
      PROVE  NamesInv'
  <2>1. /\ turn'[j].pc = "saving" /\ turn'[j].plan = StoppedWorkPlan
        /\ turn'[j].work = turn[j].work /\ turn'[j].branch = turn[j].branch
        /\ \A k \in Jobs : k # j => turn'[k] = turn[k]
    BY <1>4 DEF Turned
  <2>2. PlanOf(j)'
    BY <2>1, Plan DEF PlanOf
  <2>3. PlaceOf(j)'
    <3>1. (Worktrees' <=> Worktrees) /\ Dir(j)' = Dir(j)
      BY <1>1, AfterStep
    <3>2. QED
      BY <1>1, <1>2, <1>4, <2>1, <3>1 DEF PlaceOf, Ready
  <2>4. QED
    BY <1>1, <1>2, <2>1, <2>2, <2>3, GoNames DEF RowOf
<1>5. QED
  BY <1>1, <1>3, <1>4

LEMMA AutoCommitNames ==
  ASSUME NEW j \in Jobs, TypeInv, NamesInv, TypeInv',
         AutoCommitChangesIfNeeded(j) \/ AutoCommitChangesInWorktreeIfNeeded(j)
  PROVE  NamesInv'
<1> DEFINE b == repo.tree[Dir(j)].branch
<1>1. /\ Kept /\ repo' = repo /\ turn[j].pc = "commit"
      /\ \/ /\ row' = row
            /\ \/ Turned(j, "pushing", CommitPlan, turn[j].work, b, turn[j].pr)
               \/ Turned(j, "finish", <<>>, turn[j].work, b, turn[j].pr)
         \/ FailTurn(j)
  BY AutoCommitDoes
<1>2. /\ RowOf(j) /\ PlaceOf(j) /\ Names(j, b)
  BY <1>1 DEF NamesInv, JobOK, PlaceOf
<1>3. CASE FailTurn(j)
  BY <1>1, <1>3, FailNames DEF Same
<1>4. ASSUME row' = row,
             \/ Turned(j, "pushing", CommitPlan, turn[j].work, b, turn[j].pr)
             \/ Turned(j, "finish", <<>>, turn[j].work, b, turn[j].pr)
      PROVE  NamesInv'
  <2>1. /\ \/ turn'[j].pc = "pushing" /\ turn'[j].plan = CommitPlan
           \/ turn'[j].pc = "finish" /\ turn'[j].plan = <<>>
        /\ turn'[j].work = turn[j].work /\ turn'[j].branch = b
        /\ \A k \in Jobs : k # j => turn'[k] = turn[k]
    BY <1>4 DEF Turned
  <2>2. PlanOf(j)'
    BY <2>1, Plan DEF PlanOf
  <2>3. PlaceOf(j)'
    <3>1. (Worktrees' <=> Worktrees) /\ Dir(j)' = Dir(j)
      BY <1>1, AfterStep
    <3>2. QED
      BY <1>1, <1>2, <1>4, <2>1, <3>1 DEF PlaceOf, Ready
  <2> HIDE DEF b
  <2>4. QED
    BY <1>1, <1>2, <1>4, <2>1, <2>2, <2>3, GoNames DEF RowOf
<1>5. QED
  BY <1>1, <1>3, <1>4

LEMMA PullRequestNames ==
  ASSUME NEW j \in Jobs, TypeInv, NamesInv, TypeInv',
         handlePRCreationOrUpdate(j) \/ handlePRCreationOrUpdateInWorktree(j)
  PROVE  NamesInv'
<1>1. /\ Kept /\ repo' = repo /\ turn[j].pc = "pushing"
      /\ \/ /\ row' = row
            /\ \/ \E pr \in BOOLEAN :
                    Turned(j, "finish", <<>>, turn[j].work, turn[j].branch, pr)
               \/ Turned(j, "opening", PullRequestPlan, turn[j].work, turn[j].branch, turn[j].pr)
         \/ FailTurn(j)
  BY PullRequestDoes
<1>2. /\ RowOf(j) /\ PlaceOf(j) /\ Names(j, turn[j].branch)
  BY <1>1, WorkOf DEF NamesInv, JobOK
<1>3. CASE FailTurn(j)
  BY <1>1, <1>3, FailNames DEF Same
<1>4. ASSUME row' = row,
             \/ \E pr \in BOOLEAN :
                  Turned(j, "finish", <<>>, turn[j].work, turn[j].branch, pr)
             \/ Turned(j, "opening", PullRequestPlan, turn[j].work, turn[j].branch, turn[j].pr)
      PROVE  NamesInv'
  <2>1. /\ \/ turn'[j].pc = "opening" /\ turn'[j].plan = PullRequestPlan
           \/ turn'[j].pc = "finish" /\ turn'[j].plan = <<>>
        /\ turn'[j].work = turn[j].work /\ turn'[j].branch = turn[j].branch
        /\ \A k \in Jobs : k # j => turn'[k] = turn[k]
    BY <1>4 DEF Turned
  <2>2. PlanOf(j)'
    BY <2>1, Plan DEF PlanOf
  <2>3. PlaceOf(j)'
    <3>1. (Worktrees' <=> Worktrees) /\ Dir(j)' = Dir(j)
      BY <1>1, AfterStep
    <3>2. QED
      BY <1>1, <1>2, <1>4, <2>1, <3>1 DEF PlaceOf, Ready
  <2>4. QED
    BY <1>1, <1>2, <1>4, <2>1, <2>2, <2>3, GoNames DEF RowOf
<1>5. QED
  BY <1>1, <1>3, <1>4

LEMMA OpenedNames ==
  ASSUME NEW j \in Jobs, TypeInv, NamesInv, TypeInv', Opened(j)
  PROVE  NamesInv'
<1>1. /\ Kept /\ repo' = repo /\ row' = row /\ turn[j].pc = "opening"
      /\ Turned(j, "finish", <<>>, turn[j].work, turn[j].branch, TRUE)
  BY OpenedDoes
<1>2. /\ RowOf(j) /\ PlaceOf(j) /\ Names(j, turn[j].branch)
  BY <1>1, WorkOf DEF NamesInv, JobOK
<1>3. /\ turn'[j].pc = "finish" /\ turn'[j].plan = <<>>
      /\ turn'[j].work = turn[j].work /\ turn'[j].branch = turn[j].branch
      /\ \A k \in Jobs : k # j => turn'[k] = turn[k]
  BY <1>1 DEF Turned
<1>4. PlanOf(j)'
  BY <1>3 DEF PlanOf
<1>5. PlaceOf(j)'
  <2>1. (Worktrees' <=> Worktrees) /\ Dir(j)' = Dir(j)
    BY <1>1, AfterStep
  <2>2. QED
    BY <1>1, <1>2, <1>3, <2>1 DEF PlaceOf, Ready
<1>6. QED
  BY <1>1, <1>2, <1>3, <1>4, <1>5, GoNames DEF RowOf

LEMMA FinishNames ==
  ASSUME NEW j \in Jobs, TypeInv, NamesInv, TypeInv', FinishTurnWithReply(j)
  PROVE  NamesInv'
<1>1. /\ Kept /\ repo' = repo /\ turn[j].pc = "finish"
      /\ \/ /\ Turned(j, "footer", turn[j].plan, turn[j].work, turn[j].branch, turn[j].pr)
            /\ \E pr \in BOOLEAN :
                 Rowed(j, "completed", IF j \in AskJobs THEN row[j].branch ELSE turn[j].branch,
                       TRUE, pr)
         \/ FailTurn(j)
  BY FinishDoes
<1>2. /\ MainInv /\ PlanOf(j) /\ TreeOf(j) /\ RowOf(j) /\ PlaceOf(j) /\ Names(j, turn[j].branch)
      /\ turn[j].branch # NoBranch
  BY <1>1, WorkOf DEF NamesInv, JobOK
<1>3. CASE FailTurn(j)
  BY <1>1, <1>3, FailNames DEF Same
<1>4. ASSUME Turned(j, "footer", turn[j].plan, turn[j].work, turn[j].branch, turn[j].pr),
             NEW pr, Rowed(j, "completed", IF j \in AskJobs THEN row[j].branch ELSE turn[j].branch,
                           TRUE, pr)
      PROVE  NamesInv'
  <2>1. /\ turn'[j].pc = "footer" /\ turn'[j].plan = turn[j].plan
        /\ turn'[j].work = turn[j].work /\ turn'[j].branch = turn[j].branch
        /\ \A k \in Jobs : k # j => turn'[k] = turn[k]
    BY <1>4 DEF Turned
  <2>2. /\ row'[j].branch \in {row[j].branch, turn[j].branch}
        /\ \A k \in Jobs : k # j => row'[k] = row[k]
    BY <1>4 DEF Rowed
  <2>3. PlanOf(j)'
    BY <1>1, <1>2, <2>1 DEF PlanOf
  <2>4. row[j].branch # NoBranch /\ (Worktrees => repo.tree[j] # NoTree)
    BY <1>1, <1>2 DEF PlaceOf, Ready
  <2>5. turn[j].branch \in DOMAIN repo.local
    <3>1. repo.tree[Dir(j)].branch \in DOMAIN repo.local
      BY <1>2, <2>4 DEF TreeOf, MainInv, Dir
    <3>2. turn[j].branch \in {repo.tree[Dir(j)].branch, row[j].branch}
      BY <1>1, <1>2 DEF PlaceOf
    <3>3. QED
      BY <1>2, <2>4, <3>1, <3>2 DEF RowOf
  <2>6. row'[j].branch # NoBranch
    BY <1>2, <2>2, <2>4
  <2>7. PlaceOf(j)'
    <3>1. (Worktrees' <=> Worktrees) /\ Dir(j)' = Dir(j)
      BY <1>1, AfterStep
    <3>2. QED
      BY <1>1, <2>1, <2>4, <2>6, <3>1 DEF PlaceOf, Ready
  <2>8. QED
    BY <1>1, <1>2, <2>1, <2>2, <2>3, <2>5, <2>6, <2>7, GoNames
<1>5. QED
  BY <1>1, <1>3, <1>4

LEMMA EndTurnNames ==
  ASSUME NEW j \in Jobs, TypeInv, NamesInv, TypeInv', EndTurn(j)
  PROVE  NamesInv'
<1>1. /\ Kept /\ repo' = repo /\ row' = row /\ turn[j].pc # "none"
      /\ Turned(j, "none", <<>>, <<>>, NoBranch, FALSE) /\ turn'[j] = NoTurn
  BY EndTurnDoes
<1>2. RowOf(j)
  BY DEF NamesInv, JobOK
<1>3. QED
  BY <1>1, <1>2, EndNames DEF Turned, RowOf

LEMMA BeginNames ==
  ASSUME NEW j \in Jobs, TypeInv, NamesInv, TypeInv', BeginTurn(j)
  PROVE  NamesInv'
<1>0. PICK w : w = <<j, turnCount + 1>>
  OBVIOUS
<1>1. LET t == turn'[j]
      IN
      /\ w \in Turns /\ w \notin {Default, NoBranch} /\ turn[j] = NoTurn
      /\ Worktrees \/ \A k \in Jobs : turn[k] = NoTurn
      /\ turnCount' = turnCount + 1 /\ turnCount' \in 0 .. MaxTurns[mode]
      /\ UNCHANGED <<mode, repo, row, hold, incidentsLeft, produced, published, writtenOff>>
      /\ turn' \in [Jobs -> TurnRecords] /\ \A k \in Jobs : k # j => turn'[k] = turn[k]
      /\ t.pc = "prepare" /\ t.work = w /\ t.branch = IF row[j].session THEN row[j].branch ELSE w
      /\ t.plan \in IF row[j].session THEN (IF Worktrees THEN TreePlans ELSE AgainPlans)
                                      ELSE (IF Worktrees THEN {<<>>} ELSE FirstPlans)
      /\ Next(t.plan) = IF row[j].session THEN (IF Worktrees THEN "exists" ELSE "reset")
                        ELSE IF Worktrees THEN "over" ELSE IF hold THEN "stash" ELSE "clean"
  BY <1>0, BeginDoes
<1>2. turnCount \in Nat /\ turnCount' = turnCount + 1 /\ turnCount < turnCount' /\ turnCount <= turnCount'
  BY <1>1, TurnsLeft
<1>3. w[1] = j /\ w[2] = turnCount'
  BY <1>0, <1>2
<1>4. mode' = mode /\ repo' = repo /\ row' = row /\ w \in Turns /\ w \notin {Default, NoBranch}
  BY <1>1
<1>5. /\ Turns' = Turns /\ (Worktrees' <=> Worktrees) /\ Dir(j)' = Dir(j)
      /\ \A k, x : Names(k, x) => Names(k, x)'
  BY <1>2, <1>4, SetsKept, NamesStay
<1>6. MainInv /\ \A k \in Jobs : JobOK(k)
  BY DEF NamesInv
<1>7. TreeOf(j) /\ RowOf(j)
  BY <1>6 DEF JobOK
<1>8. ASSUME NEW k \in Jobs, k # j PROVE JobOK(k)'
  <2>1. turn'[k] = turn[k]
    BY <1>1, <1>8
  <2>2. Spared(k)
    BY <1>2, <1>4, <2>1 DEF Spared
  <2>3. QED
    BY <1>6, <2>2, SparedOK
<1>9. TreeOf(j)'
  BY <1>4, <1>5, <1>7 DEF TreeOf
<1>10. RowOf(j)'
  BY <1>4, <1>5, <1>7 DEF RowOf
<1>11. First(j)' <=> ~row[j].session
  <2>1. CASE row[j].session
    <3>1. Names(j, row[j].branch) /\ turn'[j].branch = row[j].branch /\ turn'[j].work = w
      BY <1>1, <1>7, <2>1 DEF RowOf
    <3>2. ASSUME row[j].branch = w PROVE FALSE
      <4>1. w[2] <= turnCount
        BY <1>4, <3>1, <3>2 DEF Names
      <4>2. QED
        BY <1>2, <1>3, <4>1
    <3>3. QED
      BY <2>1, <3>1, <3>2 DEF First
  <2>2. CASE ~row[j].session
    BY <1>1, <2>2 DEF First
  <2>3. QED
    BY <2>1, <2>2
<1>12. turn'[j].pc = "prepare" /\ turn'[j].work = w
  BY <1>1
<1>13. PlanOf(j)'
  <2>1. turn'[j].plan \in PreparePlans(j)'
    BY <1>1, <1>5, <1>11 DEF PreparePlans
  <2>2. QED
    BY <1>12, <2>1 DEF PlanOf
<1>14. Names(j, turn[j].branch)'
  <2>1. turnCount' <= turnCount'
    BY <1>2
  <2>2. Names(j, w)'
    BY <1>3, <1>4, <1>5, <2>1 DEF Names
  <2>3. \A x : row[j].session /\ x = row[j].branch => Names(j, x)'
    BY <1>5, <1>7 DEF RowOf
  <2>4. turn'[j].branch = IF row[j].session THEN row[j].branch ELSE w
    BY <1>1
  <2>5. PICK x : x = turn'[j].branch
    OBVIOUS
  <2>6. Names(j, x)'
    BY <2>2, <2>3, <2>4, <2>5
  <2>7. QED
    BY <2>5, <2>6
<1>15. TurnOf(j)'
  <2>1. turn'[j].work \in Turns' /\ turn'[j].work[1] = j /\ turn'[j].work[2] <= turnCount'
    <3>1. turnCount' <= turnCount'
      BY <1>2
    <3>2. w \in Turns' /\ w[1] = j /\ w[2] <= turnCount'
      BY <1>3, <1>4, <1>5, <3>1
    <3>3. QED
      BY <1>12, <3>2
  <2>2. QED
    BY <1>12, <1>14, <2>1 DEF TurnOf
<1>16. PlaceOf(j)'
  <2>1. Next(turn'[j].plan) \in {"exists", "reset", "stash", "clean", "over"}
    BY <1>1
  <2>2. Next(turn'[j].plan) = "over" => Worktrees /\ First(j)'
    BY <1>1, <1>11
  <2>3. ~First(j)' => turn'[j].branch = row'[j].branch
    BY <1>1, <1>4, <1>11
  <2>4. QED
    BY <1>5, <1>12, <2>1, <2>2, <2>3 DEF PlaceOf, Ready
<1>17. JobOK(j)'
  BY <1>9, <1>10, <1>13, <1>15, <1>16 DEF JobOK
<1>18. MainInv'
  <2>1. ASSUME ~Worktrees, NEW k \in Jobs, NEW m \in Jobs, turn'[k].pc # "none", turn'[m].pc # "none"
        PROVE  k = m
    <3>1. \A x \in Jobs : turn[x].pc = "none"
      BY <1>1, <2>1, NoTurnIs
    <3>2. \A x \in Jobs : x # j => turn'[x].pc = "none"
      BY <1>1, <3>1
    <3>3. QED
      BY <2>1, <3>2
  <2>2. QED
    BY <1>4, <1>5, <1>6, <2>1 DEF MainInv
<1>19. QED
  BY <1>8, <1>17, <1>18 DEF NamesInv

LEMMA TurnNames ==
  ASSUME NEW j \in Jobs, TypeInv, NamesInv, TypeInv', BeginTurn(j) \/ TurnStep(j)
  PROVE  NamesInv'
<1>1. CASE BeginTurn(j)
  BY <1>1, BeginNames
<1>2. CASE TurnStep(j)
  BY <1>2, RunNames, PrepareTreeNames, PreparedNames, UpdateNames, RunCLINames, StopNames,
     StoppedNames, AutoCommitNames, PullRequestNames, OpenedNames, FinishNames, EndTurnNames
     DEF TurnStep
<1>3. QED
  BY <1>1, <1>2

\* The turns go on as they are or are gone, and so are their branches and directories.
Still ==
  /\ mode' = mode /\ turnCount' = turnCount
  /\ \A k \in Jobs :
       /\ \/ turn'[k] = turn[k] /\ row'[k] = row[k]
          \/ turn'[k] = NoTurn /\ row'[k] \in {row[k], NoRow}
       /\ repo'.tree[k] = repo.tree[k] \/ (turn'[k] = NoTurn /\ repo'.tree[k] = NoTree)
  /\ repo'.tree[Main] = repo.tree[Main]
  /\ Default \in DOMAIN repo'.remote /\ Default \in DOMAIN repo'.local
  /\ \A b \in DOMAIN repo.local :
       b \in DOMAIN repo'.local
       \/ ((\A k \in Jobs : row[k].branch # b) /\ (\A d \in Dirs : repo.tree[d].branch # b))

LEMMA StillNames ==
  ASSUME TypeInv, NamesInv, TypeInv', Still
  PROVE  NamesInv'
<1>0. /\ mode' = mode /\ turnCount' = turnCount
      /\ \A k \in Jobs : \/ turn'[k] = turn[k] /\ row'[k] = row[k]
                         \/ turn'[k] = NoTurn /\ row'[k] \in {row[k], NoRow}
      /\ \A k \in Jobs : repo'.tree[k] = repo.tree[k] \/ (turn'[k] = NoTurn /\ repo'.tree[k] = NoTree)
      /\ repo'.tree[Main] = repo.tree[Main]
      /\ Default \in DOMAIN repo'.remote /\ Default \in DOMAIN repo'.local
      /\ \A b \in DOMAIN repo.local :
           b \in DOMAIN repo'.local
           \/ ((\A k \in Jobs : row[k].branch # b) /\ (\A d \in Dirs : repo.tree[d].branch # b))
  BY DEF Still
<1>1. turnCount <= turnCount'
  BY <1>0, TurnsLeft
<1>2. /\ Turns' = Turns /\ (Worktrees' <=> Worktrees) /\ \A k, x : Names(k, x) => Names(k, x)'
  BY <1>0, <1>1, SetsKept, NamesStay
<1>3. MainInv /\ \A k \in Jobs : JobOK(k)
  BY DEF NamesInv
<1>4. Main \in Dirs /\ \A k \in Jobs : k \in Dirs
  BY DEF Dirs
<1>5. MainInv'
  <2>1. repo'.tree[Main].branch \in DOMAIN repo'.local
    BY <1>0, <1>3, <1>4 DEF MainInv
  <2>2. \A k \in Jobs : turn'[k].pc # "none" => turn[k].pc # "none"
    BY <1>0, NoTurnIs
  <2>3. QED
    BY <1>0, <1>2, <1>3, <2>1, <2>2 DEF MainInv
<1>6. ASSUME NEW k \in Jobs PROVE JobOK(k)'
  <2>1. CASE turn'[k] = turn[k] /\ row'[k] = row[k] /\ repo'.tree[k] = repo.tree[k]
    <3>1. Spared(k)
      BY <1>0, <1>1, <1>4, <2>1 DEF Spared
    <3>2. QED
      BY <1>3, <3>1, SparedOK
  <2>2. CASE turn'[k] = NoTurn
    <3>1. TreeOf(k) /\ RowOf(k)
      BY <1>3 DEF JobOK
    <3>2. TreeOf(k)'
      BY <1>0, <1>2, <1>4, <3>1 DEF TreeOf
    <3>3. NoRow.branch = NoBranch /\ NoRow.session = FALSE
      BY DEF NoRow
    <3>4. RowOf(k)'
      BY <1>0, <1>2, <2>2, <3>1, <3>3 DEF RowOf
    <3>5. QED
      BY <2>2, <3>2, <3>4, RestOK
  <2>3. QED
    BY <1>0, <2>1, <2>2
<1>7. QED
  BY <1>5, <1>6 DEF NamesInv

LEMMA BesideNames ==
  ASSUME TypeInv, NamesInv, TypeInv',
         \/ \E j \in Jobs : CompleteIdle(j) \/ NotResumed(j)
         \/ \E b \in Branches : MergePullRequest(b) \/ DeleteRemoteBranch(b)
         \/ Sweep \/ MarkShuttingDown \/ Exit \/ ClearHold
  PROVE  NamesInv'
<1>1. Default \in DOMAIN repo.remote /\ Default \in DOMAIN repo.local
  BY DEF NamesInv, MainInv
<1>2. CASE \E j \in Jobs : CompleteIdle(j) \/ NotResumed(j)
  <2>1. PICK j \in Jobs : CompleteIdle(j) \/ NotResumed(j)
    BY <1>2
  <2>2. /\ mode' = mode /\ turnCount' = turnCount /\ turn' = turn /\ turn[j] = NoTurn
        /\ Rowed(j, "none", NoBranch, FALSE, FALSE) /\ row'[j] = NoRow
        /\ repo' = repo \/ repo' = Vacated(repo, j)
    BY <2>1, IdleDoes DEF Kept
  <2>3. \A k \in Jobs : k # j => row'[k] = row[k]
    BY <2>2 DEF Rowed
  <2>4. \/ repo' = repo
        \/ repo'.tree[j] = NoTree /\ Beside(j) /\ repo'.remote = repo.remote /\ repo'.local = repo.local
    BY <2>2, VacatedRepo
  <2>5. /\ repo'.tree[Main] = repo.tree[Main] /\ repo'.local = repo.local /\ repo'.remote = repo.remote
        /\ \A k \in Jobs : repo'.tree[k] = repo.tree[k] \/ (turn'[k] = NoTurn /\ repo'.tree[k] = NoTree)
    BY <2>2, <2>4 DEF Beside
  <2>6. Still
    BY <1>1, <2>2, <2>3, <2>5 DEF Still
  <2>7. QED
    BY <2>6, StillNames
<1>3. CASE \E b \in Branches : MergePullRequest(b)
  <2>1. PICK b \in Branches : MergePullRequest(b)
    BY <1>3
  <2>2. /\ mode' = mode /\ turnCount' = turnCount /\ turn' = turn /\ row' = row
        /\ b \in DOMAIN repo.remote /\ repo' = Merged(repo, b)
    BY <2>1, MergeDoes DEF Kept
  <2>3. /\ repo'.tree[Main] = repo.tree[Main] /\ \A k \in Jobs : repo'.tree[k] = repo.tree[k]
        /\ repo'.local = repo.local /\ DOMAIN repo'.remote = DOMAIN repo.remote
    BY <1>1, <2>2, MergedRepo
  <2>4. Still
    BY <1>1, <2>2, <2>3 DEF Still
  <2>5. QED
    BY <2>4, StillNames
<1>4. CASE \E b \in Branches : DeleteRemoteBranch(b)
  <2>1. PICK b \in Branches : DeleteRemoteBranch(b)
    BY <1>4
  <2>2. /\ mode' = mode /\ turnCount' = turnCount /\ turn' = turn /\ row' = row
        /\ b # Default /\ repo' = Withdrawn(repo, b)
    BY <2>1, WithdrawDoes DEF Kept
  <2>3. /\ repo'.tree[Main] = repo.tree[Main] /\ \A k \in Jobs : repo'.tree[k] = repo.tree[k]
        /\ repo'.local = repo.local /\ DOMAIN repo'.remote = DOMAIN repo.remote \ {b}
    BY <2>2, WithdrawnRepo
  <2>4. Still
    BY <1>1, <2>2, <2>3 DEF Still
  <2>5. QED
    BY <2>4, StillNames
<1>5. CASE Sweep
  <2>1. /\ mode' = mode /\ turnCount' = turnCount /\ turn' = turn /\ row' = row
        /\ \/ \E j \in Jobs : /\ Worktrees /\ row[j] = NoRow /\ turn[j] = NoTurn
                              /\ repo' = Vacated(repo, j)
           \/ \E b \in DOMAIN repo.local :
                /\ b # Default /\ \A j \in Jobs : row[j].branch # b
                /\ \A d \in Dirs : repo.tree[d].branch # b
                /\ repo' = Dropped(repo, b)
    BY <1>5, SweepDoes DEF Kept
  <2>2. ASSUME NEW j \in Jobs, turn[j] = NoTurn, repo' = Vacated(repo, j)
        PROVE  NamesInv'
    <3>1. repo'.tree[j] = NoTree /\ Beside(j) /\ repo'.remote = repo.remote /\ repo'.local = repo.local
      BY <2>2, VacatedRepo
    <3>2. /\ repo'.tree[Main] = repo.tree[Main]
          /\ \A k \in Jobs : repo'.tree[k] = repo.tree[k] \/ (turn'[k] = NoTurn /\ repo'.tree[k] = NoTree)
      BY <2>1, <2>2, <3>1 DEF Beside
    <3>3. Still
      BY <1>1, <2>1, <3>1, <3>2 DEF Still
    <3>4. QED
      BY <3>3, StillNames
  <2>3. ASSUME NEW b \in DOMAIN repo.local, b # Default, \A j \in Jobs : row[j].branch # b,
               \A d \in Dirs : repo.tree[d].branch # b, repo' = Dropped(repo, b)
        PROVE  NamesInv'
    <3>1. b \in Branches
      BY RepoFields DEF TypeInv
    <3>2. /\ repo'.tree[Main] = repo.tree[Main] /\ \A k \in Jobs : repo'.tree[k] = repo.tree[k]
          /\ repo'.remote = repo.remote /\ DOMAIN repo'.local = DOMAIN repo.local \ {b}
      BY <2>3, <3>1, DroppedRepo
    <3>3. \A x \in DOMAIN repo.local : x \in DOMAIN repo'.local
            \/ ((\A k \in Jobs : row[k].branch # x) /\ (\A d \in Dirs : repo.tree[d].branch # x))
      BY <2>3, <3>2
    <3>4. Still
      BY <1>1, <2>1, <2>3, <3>2, <3>3 DEF Still
    <3>5. QED
      BY <3>4, StillNames
  <2>4. QED
    BY <2>1, <2>2, <2>3
<1>6. CASE Exit
  <2>1. /\ mode' = mode /\ turnCount' = turnCount /\ repo' = repo
        /\ \A j \in Jobs : turn'[j] = NoTurn
        /\ row' = row \/ \A j \in Jobs : row'[j] = NoRow
    BY <1>6, ExitDoes
  <2>2. Still
    BY <1>1, <2>1 DEF Still
  <2>3. QED
    BY <2>2, StillNames
<1>7. CASE ClearHold \/ MarkShuttingDown
  <2>1. mode' = mode /\ turnCount' = turnCount /\ repo' = repo /\ turn' = turn /\ row' = row
    BY <1>7, MarkDoes DEF ClearHold
  <2>2. Still
    BY <1>1, <2>1 DEF Still
  <2>3. QED
    BY <2>2, StillNames
<1>8. QED
  BY <1>2, <1>3, <1>4, <1>5, <1>6, <1>7

LEMMA NamesStep ==
  ASSUME TypeInv, NamesInv, [GitDeliveryNext]_deliveryVars
  PROVE  NamesInv'
<1>1. TypeInv'
  BY TypeStep
<1>2. CASE \E j \in Jobs : BeginTurn(j) \/ TurnStep(j)
  BY <1>1, <1>2, TurnNames
<1>3. CASE \/ \E j \in Jobs : CompleteIdle(j) \/ NotResumed(j)
           \/ \E b \in Branches : MergePullRequest(b) \/ DeleteRemoteBranch(b)
           \/ Sweep \/ MarkShuttingDown \/ Exit \/ ClearHold
  BY <1>1, <1>3, BesideNames
<1>4. CASE UNCHANGED deliveryVars
  <2>1. mode' = mode /\ turnCount' = turnCount /\ repo' = repo /\ turn' = turn /\ row' = row
    BY <1>4 DEF deliveryVars
  <2>2. Default \in DOMAIN repo.remote /\ Default \in DOMAIN repo.local
    BY DEF NamesInv, MainInv
  <2>3. Still
    BY <1>1, <2>1, <2>2 DEF Still
  <2>4. QED
    BY <1>1, <2>3, StillNames
<1>5. QED
  BY <1>2, <1>3, <1>4 DEF GitDeliveryNext

LEMMA Invariants == GitDeliverySpec => [](TypeInv /\ NamesInv)
<1>1. GitDeliveryInit => TypeInv /\ NamesInv
  BY TypeInit, NamesInit
<1>2. TypeInv /\ NamesInv /\ [GitDeliveryNext]_deliveryVars => (TypeInv /\ NamesInv)'
  BY TypeStep, NamesStep
<1>3. QED
  BY <1>1, <1>2, PTL DEF GitDeliverySpec

(* What the thread is not told, and a shutdown.                            *)

HistoryInv == stopping \in BOOLEAN /\ left \subseteq Turns /\ unheard \subseteq Turns

\* A step of the turn of job j says nothing of any other work that is not left already.
Tells(j) ==
  /\ stopping' = stopping
  /\ left' \subseteq left \cup {turn[j].work}
  /\ unheard' \subseteq unheard \cup left \cup {turn[j].work}

LEMMA TurnTells ==
  ASSUME NEW j \in Jobs, BeginTurn(j) \/ TurnStep(j)
  PROVE  Tells(j)
<1>1. CASE BeginTurn(j) \/ Prepared(j) \/ StopBeforeSession(j) \/ Opened(j) \/ EndTurn(j)
  BY <1>1 DEF BeginTurn, Prepared, StopBeforeSession, Opened, EndTurn, historyVars, toldVars, Tells
<1>2. ASSUME FailTurn(j), stopping' = stopping PROVE Tells(j)
  BY <1>2 DEF FailTurn, Tells
<1>3. ASSUME UNCHANGED toldVars, stopping' = stopping PROVE Tells(j)
  BY <1>3 DEF toldVars, Tells
<1>4. CASE RunCommand(j)
  <2>1. stopping' = stopping /\ (FailTurn(j) \/ AbandonJob(j) \/ UNCHANGED toldVars)
    BY <1>4 DEF RunCommand, toldVars
  <2>2. AbandonJob(j) => left' \subseteq left /\ unheard' = unheard
    BY DEF AbandonJob
  <2>3. QED
    BY <1>2, <1>3, <2>1, <2>2 DEF Tells
<1>5. CASE \/ PrepareForNewConversationWithWorktree(j) \/ AutoCommitChangesIfNeeded(j)
           \/ AutoCommitChangesInWorktreeIfNeeded(j) \/ handlePRCreationOrUpdate(j)
           \/ handlePRCreationOrUpdateInWorktree(j) \/ FinishTurnWithReply(j)
  <2>1. stopping' = stopping /\ (FailTurn(j) \/ UNCHANGED toldVars)
    BY <1>5 DEF PrepareForNewConversationWithWorktree, AutoCommitChangesIfNeeded,
         AutoCommitChangesInWorktreeIfNeeded, AutoCommit, handlePRCreationOrUpdate,
         handlePRCreationOrUpdateInWorktree, PullRequestOf, FinishTurnWithReply, toldVars
  <2>2. QED
    BY <1>2, <1>3, <2>1
<1>6. CASE UpdateJobData(j)
  BY <1>6 DEF UpdateJobData, Tells
<1>7. CASE RunCLI(j)
  <2>1. stopping' = stopping /\ (CLIAnswers(j) \/ CLIFails(j) \/ CLIStopped(j))
    BY <1>7 DEF RunCLI
  <2>2. QED
    BY <2>1 DEF CLIAnswers, CLIFails, LeftForRecovery, CLIStopped, toldVars, Tells
<1>8. CASE CommitStoppedWork(j)
  BY <1>8 DEF CommitStoppedWork, Tells
<1>9. QED
  BY <1>1, <1>4, <1>5, <1>6, <1>7, <1>8 DEF TurnStep

LEMMA HistoryStep ==
  ASSUME TypeInv, NamesInv, HistoryInv, [GitDeliveryNext]_deliveryVars
  PROVE  HistoryInv'
<1>1. Turns' = Turns
  BY TypeStep, SetsKept
<1>2. ASSUME NEW j \in Jobs, BeginTurn(j) \/ TurnStep(j) PROVE HistoryInv'
  <2>1. CASE BeginTurn(j)
    BY <1>1, <2>1 DEF BeginTurn, historyVars, toldVars, HistoryInv
  <2>2. CASE RunCommand(j)
    <3>1. turn[j].pc # "none"
      BY <2>2, RunCases DEF CommandAt
    <3>2. QED
      BY <1>1, <1>2, <3>1, TurnTells, WorkOf DEF Tells, HistoryInv
  <2>3. CASE TurnStep(j) /\ ~RunCommand(j)
    <3>1. turn[j].pc # "none"
      BY <2>3 DEF TurnStep, PrepareForNewConversationWithWorktree, Prepared, UpdateJobData, RunCLI,
           StopBeforeSession, CommitStoppedWork, AutoCommitChangesIfNeeded,
           AutoCommitChangesInWorktreeIfNeeded, AutoCommit, handlePRCreationOrUpdate,
           handlePRCreationOrUpdateInWorktree, PullRequestOf, Opened, FinishTurnWithReply,
           EndTurn, Done
    <3>2. QED
      BY <1>1, <1>2, <3>1, TurnTells, WorkOf DEF Tells, HistoryInv
  <2>4. QED
    BY <1>2, <2>1, <2>2, <2>3
<1>3. CASE Exit
  <2>1. stopping' = FALSE /\ left' = {}
    BY <1>3 DEF Exit
  <2>2. \A k \in Jobs : turn[k].pc \in {"save", "saving"} => turn[k].work \in Turns
    BY WorkOf
  <2>3. unheard' \subseteq Turns
    BY <1>3, <2>2 DEF Exit, HistoryInv
  <2>4. QED
    BY <1>1, <2>1, <2>3 DEF HistoryInv
<1>4. CASE MarkShuttingDown
  BY <1>1, <1>4 DEF MarkShuttingDown, historyVars, toldVars, HistoryInv
<1>5. ASSUME UNCHANGED <<stopping, left, unheard>> PROVE HistoryInv'
  BY <1>1, <1>5 DEF HistoryInv
<1>6. ASSUME NEW j \in Jobs, CompleteIdle(j) \/ NotResumed(j) PROVE HistoryInv'
  BY <1>5, <1>6 DEF CompleteIdle, NotResumed, historyVars, toldVars
<1>7. ASSUME NEW b \in Branches, MergePullRequest(b) \/ DeleteRemoteBranch(b) PROVE HistoryInv'
  BY <1>5, <1>7 DEF MergePullRequest, DeleteRemoteBranch, historyVars, toldVars
<1>8. CASE Sweep \/ ClearHold \/ UNCHANGED deliveryVars
  BY <1>5, <1>8 DEF Sweep, ClearHold, deliveryVars, historyVars, toldVars
<1>9. QED
  BY <1>2, <1>3, <1>4, <1>6, <1>7, <1>8 DEF GitDeliveryNext

LEMMA HistoryKept == GitDeliverySpec => [](TypeInv /\ NamesInv /\ HistoryInv)
<1>1. GitDeliveryInit => HistoryInv
  <2>1. GitDeliveryInit => stopping = FALSE /\ left = {} /\ unheard = {}
    BY Zenon DEF GitDeliveryInit
  <2>2. QED
    BY <2>1 DEF HistoryInv
<1>2. (TypeInv /\ NamesInv) /\ HistoryInv /\ [GitDeliveryNext]_deliveryVars => HistoryInv'
  BY HistoryStep
<1>3. QED
  BY <1>1, <1>2, Invariants, PTL DEF GitDeliverySpec

LEMMA PlansAreCommands == Plans \subseteq Seq(Commands)
<1>1. FirstPlans \subseteq Seq(Commands)
  BY DEF FirstPlans, Commands
<1>2. AgainPlans \subseteq Seq(Commands)
  BY DEF AgainPlans, Commands
<1>3. TreePlans \subseteq Seq(Commands)
  BY DEF TreePlans, Commands
<1>4. AbandonPlans \subseteq Seq(Commands)
  BY DEF AbandonPlans, Commands
<1>5. CommitPlans \subseteq Seq(Commands)
  BY DEF CommitPlans, SavePlans, Commands
<1>6. OpenPlans \subseteq Seq(Commands)
  BY DEF OpenPlans, Commands
<1>7. QED
  BY <1>1, <1>2, <1>3, <1>4, <1>5, <1>6 DEF Plans

\* Every value stays in its set: directories, branches, pull requests, rows and turns;
\* the default branch is always there.
THEOREM TypeCorrect == GitDeliverySpec => []GitDeliveryTypeOK
<1>1. ASSUME TypeInv, NamesInv, HistoryInv PROVE GitDeliveryTypeOK
  <2>1. repo \in Repos /\ Default \in DOMAIN repo.local /\ Default \in DOMAIN repo.remote
    BY <1>1 DEF TypeInv, NamesInv, MainInv
  <2>2. /\ repo.tree \in [Dirs -> Trees]
        /\ DOMAIN repo.local \subseteq Branches /\ DOMAIN repo.remote \subseteq Branches
        /\ \A b \in DOMAIN repo.local : repo.local[b] \subseteq Turns
        /\ \A b \in DOMAIN repo.remote : repo.remote[b] \subseteq Turns
        /\ repo.tracking \subseteq Branches /\ repo.stash \subseteq Turns /\ repo.pr \in Requests
    BY <2>1, RepoFields
  <2>3. ASSUME NEW j \in Jobs
        PROVE  /\ turn[j].pc \in Stages /\ turn[j].plan \in Seq(Commands)
               /\ turn[j].work \in Turns \cup {<<>>}
               /\ turn[j].branch \in Branches \cup {NoBranch} /\ turn[j].pr \in BOOLEAN
    <3>1. turn[j] \in TurnRecords
      BY <1>1 DEF TypeInv
    <3>2. QED
      BY <3>1, TurnFields, PlansAreCommands
  <2>4. \A j \in Jobs :
          turn[j].pc \in {"none", "prepare", "row", "run", "abandon", "commit", "pushing",
                          "pr", "opening", "finish", "footer", "save", "saving"}
    BY <2>3 DEF Stages
  <2>5. QED
    BY <1>1, <2>1, <2>2, <2>3, <2>4 DEF TypeInv, HistoryInv, GitDeliveryTypeOK, Requests
<1>2. QED
  BY <1>1, HistoryKept, PTL

-----------------------------------------------------------------------------
(* Where the work of a turn is, until it is pushed.                        *)

WorkOK(j) ==
  LET t == turn[j]
      w == t.work
      n == Next(t.plan)
      d == repo.tree[Dir(j)]
  IN
  /\ t.pc \in {"prepare", "row", "run"} => w \notin produced
  /\ w \in produced =>
       /\ t.pc = "commit" => w \in d.tracked \cup d.untracked
       /\ t.pc = "pushing" =>
            /\ n \in {"message", "addAll"} => w \in d.tracked \cup d.untracked
            /\ n = "commit" => w \in d.tracked
            /\ n = "push" => w \in repo.local[d.branch]
            /\ n = "over" => w \in published
       /\ t.pc \in {"opening", "finish", "footer"} /\ j \notin AskJobs => w \in published

WorkInv ==
  /\ \A w \in produced : w[2] <= turnCount
  /\ \A j \in Jobs : WorkOK(j)

\* A step of job j, beside which the others are as they were.
Aside(j) ==
  /\ \A k \in Jobs : k # j => turn'[k] = turn[k] /\ repo'.tree[k] = repo.tree[k]
  /\ \A b \in DOMAIN repo.local :
       \/ b \in DOMAIN repo'.local /\ repo'.local[b] = repo.local[b]
       \/ (b \in Turns /\ b[1] = j) \/ ~Worktrees
  /\ produced' = produced \/ produced' = produced \cup {turn[j].work}
  /\ published \subseteq published'

LEMMA NoWork ==
  ASSUME NEW j, turn[j].pc \in {"none", "abandon", "save", "saving"}
  PROVE  WorkOK(j)
  BY DEF WorkOK

LEMMA NoWorkNext ==
  ASSUME NEW j, turn'[j].pc \in {"none", "abandon", "save", "saving"}
  PROVE  WorkOK(j)'
  BY DEF WorkOK

LEMMA WorkAside ==
  ASSUME NEW j \in Jobs, TypeInv, NamesInv, TypeInv', WorkInv, Kept, turn[j].pc # "none",
         Aside(j), WorkOK(j)'
  PROVE  WorkInv'
<1>1. /\ (Worktrees' <=> Worktrees) /\ \A k \in Jobs : Dir(k)' = Dir(k)
      /\ turnCount' = turnCount
  BY SetsKept DEF Kept
<1>2. turn[j].work \in Turns /\ turn[j].work[1] = j /\ turn[j].work[2] <= turnCount
  BY DEF NamesInv, JobOK, TurnOf
<1>3. \A w \in produced' : w[2] <= turnCount'
  BY <1>1, <1>2 DEF WorkInv, Aside
<1>4. ASSUME NEW k \in Jobs, k # j PROVE WorkOK(k)'
  <2>1. turn'[k] = turn[k] /\ repo'.tree[k] = repo.tree[k]
    BY <1>4 DEF Aside
  <2>2. CASE turn[k].pc = "none"
    BY <2>1, <2>2, NoWorkNext
  <2>3. CASE turn[k].pc # "none"
    <3>1. Worktrees /\ Dir(k) = k /\ Dir(k)' = k
      BY <1>1, <1>4, <2>3 DEF NamesInv, MainInv, Dir
    <3>2. WorkOK(k) /\ JobOK(k)
      BY DEF WorkInv, NamesInv
    <3>3. turn[k].work[1] = k
      BY <2>3, <3>2 DEF JobOK, TurnOf
    <3>4. turn[k].work \in produced' <=> turn[k].work \in produced
      BY <1>2, <1>4, <3>3 DEF Aside
    <3>5. turn[k].pc = "pushing" => repo'.local[repo.tree[k].branch] = repo.local[repo.tree[k].branch]
      <4>1. turn[k].pc = "pushing" => repo.tree[k].branch \in DOMAIN repo.local /\ Names(k, repo.tree[k].branch)
        BY <3>1, <3>2 DEF JobOK, PlaceOf, TreeOf, Ready
      <4>2. turn[k].pc = "pushing" => repo.tree[k].branch[1] = k
        BY <3>1, <4>1 DEF Names
      <4>3. QED
        BY <1>4, <3>1, <4>1, <4>2 DEF Aside
    <3>6. published \subseteq published'
      BY DEF Aside
    <3>7. QED
      BY <2>1, <3>1, <3>2, <3>4, <3>5, <3>6 DEF WorkOK
  <2>4. QED
    BY <2>2, <2>3
<1>5. QED
  BY <1>3, <1>4 DEF WorkInv

\* Steps that leave directories and branches.
LEMMA AsideOf ==
  ASSUME NEW j \in Jobs, repo' = repo, \A k \in Jobs : k # j => turn'[k] = turn[k],
         produced' = produced, published' = published
  PROVE  Aside(j)
  BY DEF Aside

LEMMA AsideOfSame ==
  ASSUME NEW j \in Jobs, Same(repo, repo'), \A k \in Jobs : k # j => turn'[k] = turn[k],
         produced' = produced, published \subseteq published'
  PROVE  Aside(j)
  BY DEF Aside, Same

LEMMA MovedAside ==
  ASSUME NEW j \in Jobs, TypeInv, NamesInv, TypeInv', Kept, turn[j].plan # <<>>, Moved(j),
         produced' = produced, published \subseteq published'
  PROVE  Aside(j)
<1> DEFINE c == Head(turn[j].plan)
           d == Dir(j)
           b == turn[j].branch
<1>1. /\ \A k \in Jobs : k # j => repo'.tree[k] = repo.tree[k]
      /\ \A x \in DOMAIN repo.local : x \in DOMAIN repo'.local \/ (x \in Turns /\ x[1] = j /\ x = turn[j].branch /\ turn[j].pc = "abandon")
      /\ Worktrees => repo.tree[j] # NoTree
  BY MovedPlace
<1>2. \A k \in Jobs : k # j => turn'[k] = turn[k]
  BY MovedDoes DEF Turned
<1>3. ASSUME NEW x \in DOMAIN repo.local, Worktrees
      PROVE  \/ x \in DOMAIN repo'.local /\ repo'.local[x] = repo.local[x]
             \/ x \in Turns /\ x[1] = j
  <2>1. d = j /\ repo.tree[j].branch \in Turns /\ repo.tree[j].branch[1] = j
    BY <1>1, <1>3 DEF NamesInv, JobOK, TreeOf, Names, Dir
  <2>2. CommandAt(j)
    BY AtCommand DEF NamesInv, JobOK
  <2>3. turn[j].pc # "none"
    BY <2>2 DEF CommandAt
  <2>4. b \in Turns /\ b[1] = j
    BY <1>3, <2>3, WorkOf DEF Names
  <2>5. CASE x \in DOMAIN repo'.local
    <3>1. \/ x = repo.tree[d].branch \/ x = b \/ repo'.local[x] = repo.local[x]
      BY <2>5 DEF Moved, Result, LocalEffect
    <3>2. QED
      BY <2>1, <2>4, <2>5, <3>1
  <2>6. CASE x \notin DOMAIN repo'.local
    BY <1>1, <2>6
  <2>7. QED
    BY <2>5, <2>6
<1>4. QED
  BY <1>1, <1>2, <1>3 DEF Aside

LEMMA MovedWork ==
  ASSUME NEW j \in Jobs, TypeInv, NamesInv, TypeInv', WorkInv, Kept, turn[j].plan # <<>>, Moved(j),
         produced' = produced, published' = published \cup UNION Range(repo'.remote)
  PROVE  WorkInv'
<1> DEFINE c == Head(turn[j].plan)
           n == Next(Tail(turn[j].plan))
           w == turn[j].work
           cur == repo.tree[Dir(j)].branch
           before == repo.tree[Dir(j)]
           after == repo'.tree[Dir(j)]
<1>1. /\ turn'[j].pc = turn[j].pc /\ turn'[j].plan = Tail(turn[j].plan) /\ turn'[j].work = w
  BY MovedDoes DEF Turned
<1>2. CommandAt(j) /\ Next(turn[j].plan) = c /\ WorkOK(j) /\ PlanOf(j)
  BY AtCommand DEF NamesInv, JobOK, WorkInv
<1>3. Result(c, repo, Dir(j), turn[j].branch, repo') /\ repo' \in Repos
  BY DEF Moved
<1>4. /\ (Worktrees' <=> Worktrees) /\ Dir(j)' = Dir(j)
  BY AfterStep
<1>5. turn[j].pc \in {"prepare", "abandon", "pushing", "saving", "opening"} /\ turn[j].pc # "none"
  BY <1>2 DEF CommandAt
<1>6. /\ c = "message" => n = "addAll"
      /\ c = "addAll" => n = "commit"
      /\ c = "commit" => n = "push"
      /\ c = "push" => n = "over"
  BY <1>2, PlanStep
<1>7. ASSUME turn[j].pc = "pushing", w \in produced
      PROVE  /\ n \in {"message", "addAll"} => w \in after.tracked \cup after.untracked
             /\ n = "commit" => w \in after.tracked
             /\ n = "push" => w \in repo'.local[after.branch]
             /\ n = "over" => w \in published'
  <2>1. c \in {"message", "addAll", "commit", "push"}
    BY <1>2, <1>7 DEF CommandAt
  <2>2. CASE c = "message"
    <3>1. w \in before.tracked \cup before.untracked
      BY <1>2, <1>7, <2>2 DEF WorkOK
    <3>2. after.tracked = before.tracked /\ after.untracked = before.untracked
      BY <1>3, <2>2 DEF Result, TreeEffect
    <3>3. QED
      BY <1>6, <2>2, <3>1, <3>2
  <2>3. CASE c = "addAll"
    <3>1. w \in before.tracked \cup before.untracked
      BY <1>2, <1>7, <2>3 DEF WorkOK
    <3>2. after.tracked = before.tracked \cup before.untracked
      BY <1>3, <2>3 DEF Result, TreeEffect
    <3>3. QED
      BY <1>6, <2>3, <3>1, <3>2
  <2>4. CASE c = "commit"
    <3>1. w \in before.tracked
      BY <1>2, <1>7, <2>4 DEF WorkOK
    <3>2. after.branch = cur /\ repo'.local[cur] = repo.local[cur] \cup before.tracked
      BY <1>3, <2>4 DEF Result, TreeEffect, LocalEffect
    <3>3. QED
      BY <1>6, <2>4, <3>1, <3>2
  <2>5. CASE c = "push"
    <3>1. w \in repo.local[cur]
      BY <1>2, <1>7, <2>5 DEF WorkOK
    <3>2. cur \in DOMAIN repo'.remote /\ repo'.remote[cur] = repo.local[cur]
      BY <1>3, <2>5 DEF Result, RemoteEffect
    <3>3. repo'.remote[cur] \subseteq UNION Range(repo'.remote)
      <4>1. repo'.remote \in BranchMaps
        BY <1>3, RepoFields
      <4>2. QED
        BY <3>2, <4>1, RangeOf
    <3>4. w \in published'
      BY <3>1, <3>2, <3>3
    <3>5. QED
      BY <1>6, <2>5, <3>4
  <2>6. QED
    BY <2>1, <2>2, <2>3, <2>4, <2>5
<1>8. turn[j].pc \in {"prepare", "row", "run"} => w \notin produced
  BY <1>2 DEF WorkOK
<1>9. turn[j].pc = "opening" /\ j \notin AskJobs /\ w \in produced => w \in published'
  BY <1>2 DEF WorkOK
<1> HIDE DEF n, w, cur, c
<1>10. WorkOK(j)'
  <2>1. Next(turn'[j].plan) = n
    BY <1>1 DEF n
  <2>2. QED
    BY <1>1, <1>4, <1>5, <1>7, <1>8, <1>9, <2>1 DEF WorkOK
<1>11. Aside(j)
  BY MovedAside
<1>12. QED
  BY <1>5, <1>10, <1>11, WorkAside

\* A turn that ends, its directory and the branches as they were.
LEMMA EndWork ==
  ASSUME NEW j \in Jobs, TypeInv, NamesInv, TypeInv', WorkInv, Kept, turn[j].pc # "none",
         turn'[j] = NoTurn, Aside(j)
  PROVE  WorkInv'
<1>1. WorkOK(j)'
  BY NoTurnIs, NoWorkNext
<1>2. QED
  BY <1>1, WorkAside

LEMMA FailWork ==
  ASSUME NEW j \in Jobs, TypeInv, NamesInv, TypeInv', WorkInv, Kept, turn[j].pc # "none",
         FailTurn(j), Same(repo, repo'), produced' = produced, published \subseteq published'
  PROVE  WorkInv'
<1>1. turn'[j] = NoTurn /\ \A k \in Jobs : k # j => turn'[k] = turn[k]
  BY BrokenDoes DEF Turned
<1>2. Aside(j)
  BY <1>1, AsideOfSame
<1>3. QED
  BY <1>1, <1>2, EndWork

\* A worktree that is removed with the branch of the turn: the job's own.
LEMMA RemovedAside ==
  ASSUME NEW j \in Jobs, TypeInv, NamesInv, Worktrees, turn[j].pc # "none",
         repo' = Removed(repo, j, turn[j].branch), \A k \in Jobs : k # j => turn'[k] = turn[k],
         produced' = produced, published \subseteq published'
  PROVE  Aside(j)
<1>1. turn[j].branch \in Turns /\ turn[j].branch[1] = j
  BY WorkOf DEF Names
<1>2. /\ Beside(j) /\ DOMAIN repo'.local = DOMAIN repo.local \ {turn[j].branch}
      /\ \A x \in DOMAIN repo'.local : repo'.local[x] = repo.local[x]
  BY RemovedRepo
<1>3. QED
  BY <1>1, <1>2 DEF Aside, Beside

LEMMA RunWork ==
  ASSUME NEW j \in Jobs, TypeInv, NamesInv, TypeInv', WorkInv, RunCommand(j)
  PROVE  WorkInv'
<1>1. /\ turn[j].plan # <<>> /\ CommandAt(j) /\ Kept /\ produced' = produced
      /\ published' = published \cup UNION Range(repo'.remote) /\ published \subseteq published'
      /\ Moved(j) \/ Broken(j) \/ Gone(j)
  BY RunCases
<1>2. turn[j].pc # "none"
  BY <1>1 DEF CommandAt
<1>3. CASE Moved(j)
  BY <1>1, <1>3, MovedWork
<1>4. CASE Broken(j)
  BY <1>1, <1>2, <1>4, FailWork DEF Broken
<1>5. CASE Gone(j)
  <2>1. \/ /\ Worktrees
           /\ Turned(j, "none", <<>>, <<>>, NoBranch, FALSE) /\ turn'[j] = NoTurn
           /\ repo' = repo \/ repo' = Removed(repo, j, turn[j].branch)
        \/ /\ ~Worktrees
           /\ Turned(j, "abandon", AbandonJobAndCleanup, turn[j].work, turn[j].branch, turn[j].pr)
           /\ repo' = repo
    BY <1>5, GoneDoes
  <2>2. \A k \in Jobs : k # j => turn'[k] = turn[k]
    BY <2>1 DEF Turned
  <2>3. turn'[j].pc \in {"none", "abandon"}
    BY <2>1 DEF Turned
  <2>4. WorkOK(j)'
    BY <2>3, NoWorkNext
  <2>5. Aside(j)
    <3>1. CASE repo' = repo
      BY <1>1, <2>2, <3>1, AsideOfSame DEF Same
    <3>2. CASE Worktrees /\ repo' = Removed(repo, j, turn[j].branch)
      BY <1>1, <1>2, <2>2, <3>2, RemovedAside
    <3>3. QED
      BY <2>1, <3>1, <3>2
  <2>6. QED
    BY <1>1, <1>2, <2>4, <2>5, WorkAside
<1>6. QED
  BY <1>1, <1>3, <1>4, <1>5

LEMMA PrepareTreeWork ==
  ASSUME NEW j \in Jobs, TypeInv, NamesInv, TypeInv', WorkInv,
         PrepareForNewConversationWithWorktree(j)
  PROVE  WorkInv'
<1> DEFINE b == turn[j].branch
           s == IF hold THEN repo.stash \cup UncommittedIn(j) ELSE repo.stash
<1>1. /\ Kept /\ produced' = produced /\ published' = published /\ Worktrees /\ turn[j].pc = "prepare"
      /\ \/ /\ Turned(j, "row", <<>>, turn[j].work, b, turn[j].pr)
            /\ repo' = Made(repo, j, b, s)
         \/ FailTurn(j) /\ repo' = repo
  BY PrepareTreeDoes
<1>2. CASE FailTurn(j) /\ repo' = repo
  BY <1>1, <1>2, FailWork DEF Same
<1>3. ASSUME Turned(j, "row", <<>>, turn[j].work, b, turn[j].pr), repo' = Made(repo, j, b, s)
      PROVE  WorkInv'
  <2>1. /\ turn'[j].pc = "row" /\ turn'[j].work = turn[j].work
        /\ \A k \in Jobs : k # j => turn'[k] = turn[k]
    BY <1>3 DEF Turned
  <2>2. WorkOK(j)'
    BY <1>1, <2>1 DEF WorkInv, WorkOK
  <2>3. b \in Branches /\ s \in SUBSET Turns /\ Default \in DOMAIN repo.remote /\ repo' = Made(repo, j, b, s)
    <3>1. repo \in Repos /\ j \in Dirs /\ Default \in DOMAIN repo.remote
      BY DEF TypeInv, Dirs, NamesInv, MainInv
    <3>2. QED
      BY <1>1, <1>3, <3>1, WorkOf, RepoFields DEF UncommittedIn
  <2>4. b \in Turns /\ b[1] = j
    BY <1>1, WorkOf DEF Names
  <2> HIDE DEF b, s
  <2>5. /\ Beside(j) /\ DOMAIN repo'.local = DOMAIN repo.local \cup {b}
        /\ \A x \in DOMAIN repo.local : x # b => repo'.local[x] = repo.local[x]
    BY <2>3, MadeRepo
  <2>6. Aside(j)
    BY <1>1, <2>1, <2>4, <2>5 DEF Aside, Beside
  <2>7. QED
    BY <1>1, <2>2, <2>6, WorkAside
<1>4. QED
  BY <1>1, <1>2, <1>3

LEMMA RunCLIWork ==
  ASSUME NEW j \in Jobs, TypeInv, NamesInv, TypeInv', WorkInv, RunCLI(j)
  PROVE  WorkInv'
<1> DEFINE w == turn[j].work
<1>1. /\ Kept /\ published' = published /\ turn[j].pc = "run"
      /\ \E did \in {{}, {w}} : CLIDid(j, did) /\ produced' = produced \cup did
      /\ \/ \E pc \in {"commit", "finish"} :
              /\ Turned(j, pc, turn[j].plan, w, turn[j].branch, turn[j].pr)
              /\ pc = "finish" <=> j \in AskJobs
         \/ Turned(j, "none", <<>>, <<>>, NoBranch, FALSE)
         \/ Turned(j, "save", turn[j].plan, w, turn[j].branch, turn[j].pr)
  BY RunCLIDoes
<1>2. PICK did \in {{}, {w}} : CLIDid(j, did) /\ produced' = produced \cup did
  BY <1>1
<1>3. /\ \A k \in Jobs : k # j => turn'[k] = turn[k]
      /\ \/ turn'[j].pc \in {"none", "save"}
         \/ turn'[j].pc = "finish" /\ j \in AskJobs
         \/ turn'[j].pc = "commit" /\ turn'[j].work = w
  BY <1>1 DEF Turned
<1>4. w \notin produced /\ w \in Turns /\ w[1] = j
  BY <1>1, WorkOf DEF WorkInv, WorkOK
<1>5. Dir(j)' = Dir(j)
  BY <1>1, AfterStep
<1>6. w \in produced' => w \in repo'.tree[Dir(j)].tracked \cup repo'.tree[Dir(j)].untracked
  <2>1. w \in produced' => did = {w}
    BY <1>2, <1>4
  <2>2. did = {w} => w \in repo'.tree[Dir(j)].tracked \cup repo'.tree[Dir(j)].untracked
    BY <1>2 DEF CLIDid
  <2>3. QED
    BY <2>1, <2>2
<1>7. Aside(j)
  <2>1. \A k \in Jobs : k # j => repo'.tree[k] = repo.tree[k]
    BY <1>1, <1>2, CLIPlace
  <2>2. \A x \in DOMAIN repo.local :
          \/ x \in DOMAIN repo'.local /\ repo'.local[x] = repo.local[x]
          \/ x = w
    BY <1>2 DEF CLIDid
  <2>3. produced' = produced \/ produced' = produced \cup {turn[j].work}
    BY <1>2
  <2> HIDE DEF w
  <2>4. QED
    BY <1>1, <1>3, <1>4, <2>1, <2>2, <2>3 DEF Aside
<1> HIDE DEF w
<1>8. WorkOK(j)'
  <2>1. CASE turn'[j].pc \in {"none", "save"}
    BY <2>1, NoWorkNext
  <2>2. CASE turn'[j].pc = "finish" /\ j \in AskJobs
    BY <2>2 DEF WorkOK
  <2>3. CASE turn'[j].pc = "commit" /\ turn'[j].work = w
    BY <1>5, <1>6, <2>3 DEF WorkOK
  <2>4. QED
    BY <1>3, <2>1, <2>2, <2>3
<1>9. QED
  BY <1>1, <1>7, <1>8, WorkAside

LEMMA StopWork ==
  ASSUME NEW j \in Jobs, TypeInv, NamesInv, TypeInv', WorkInv, StopBeforeSession(j)
  PROVE  WorkInv'
<1>1. /\ Kept /\ produced' = produced /\ published' = published /\ turn[j].pc = "run"
      /\ Turned(j, "none", <<>>, <<>>, NoBranch, FALSE) /\ turn'[j] = NoTurn
      /\ repo' = IF Worktrees THEN Removed(repo, j, turn[j].branch) ELSE repo
  BY StopDoes
<1>2. \A k \in Jobs : k # j => turn'[k] = turn[k]
  BY <1>1 DEF Turned
<1>3. Aside(j)
  <2>1. CASE Worktrees
    BY <1>1, <1>2, <2>1, RemovedAside
  <2>2. CASE ~Worktrees
    BY <1>1, <1>2, <2>2, AsideOf
  <2>3. QED
    BY <2>1, <2>2
<1>4. QED
  BY <1>1, <1>3, EndWork

LEMMA AutoCommitWork ==
  ASSUME NEW j \in Jobs, TypeInv, NamesInv, TypeInv', WorkInv,
         AutoCommitChangesIfNeeded(j) \/ AutoCommitChangesInWorktreeIfNeeded(j)
  PROVE  WorkInv'
<1> DEFINE b == repo.tree[Dir(j)].branch
<1>1. /\ Kept /\ repo' = repo /\ produced' = produced /\ published' = published
      /\ turn[j].pc = "commit"
      /\ \/ UncommittedIn(Dir(j)) # {} /\ Turned(j, "pushing", CommitPlan, turn[j].work, b, turn[j].pr)
         \/ UncommittedIn(Dir(j)) = {} /\ Turned(j, "finish", <<>>, turn[j].work, b, turn[j].pr)
         \/ FailTurn(j)
  BY AutoCommitDoes
<1>2. CASE FailTurn(j)
  BY <1>1, <1>2, FailWork DEF Same
<1>3. ASSUME \/ Turned(j, "pushing", CommitPlan, turn[j].work, b, turn[j].pr)
             \/ UncommittedIn(Dir(j)) = {} /\ Turned(j, "finish", <<>>, turn[j].work, b, turn[j].pr)
      PROVE  WorkInv'
  <2>1. /\ \/ turn'[j].pc = "pushing" /\ turn'[j].plan = CommitPlan
           \/ turn'[j].pc = "finish" /\ UncommittedIn(Dir(j)) = {}
        /\ turn'[j].work = turn[j].work
        /\ \A k \in Jobs : k # j => turn'[k] = turn[k]
    BY <1>3 DEF Turned
  <2>2. turn[j].work \in produced =>
          turn[j].work \in repo.tree[Dir(j)].tracked \cup repo.tree[Dir(j)].untracked
    BY <1>1 DEF WorkInv, WorkOK
  <2>3. Dir(j)' = Dir(j) /\ Next(CommitPlan) = "message"
    BY <1>1, AfterStep, Plan
  <2>4. WorkOK(j)'
    <3>1. CASE turn'[j].pc = "pushing" /\ turn'[j].plan = CommitPlan
      <4> DEFINE p == turn'[j].plan
      <4>1. Next(p) = "message"
        BY <2>3, <3>1
      <4>2. QED
        BY <1>1, <2>1, <2>2, <2>3, <3>1, <4>1 DEF WorkOK
    <3>2. CASE turn'[j].pc = "finish" /\ UncommittedIn(Dir(j)) = {}
      <4>1. turn[j].work \notin produced
        BY <2>2, <3>2 DEF UncommittedIn
      <4>2. QED
        BY <1>1, <2>1, <3>2, <4>1 DEF WorkOK
    <3>3. QED
      BY <2>1, <3>1, <3>2
  <2>5. Aside(j)
    BY <1>1, <2>1, AsideOf
  <2>6. QED
    BY <1>1, <2>4, <2>5, WorkAside
<1>4. QED
  BY <1>1, <1>2, <1>3

\* The steps that only move the turn on.
LEMMA GoWork ==
  ASSUME NEW j \in Jobs, TypeInv, NamesInv, TypeInv', WorkInv, Kept, repo' = repo,
         produced' = produced, published' = published, turn[j].pc # "none",
         \A k \in Jobs : k # j => turn'[k] = turn[k], turn'[j].work = turn[j].work,
         \/ turn[j].pc \in {"prepare", "row"} /\ turn'[j].pc \in {"row", "run"}
         \/ turn'[j].pc \in {"none", "abandon", "save", "saving"}
         \/ turn[j].pc = "pushing" /\ turn[j].plan = <<>> /\ turn'[j].pc \in {"finish", "opening"}
         \/ turn[j].pc \in {"opening", "finish"} /\ turn'[j].pc \in {"finish", "footer"}
  PROVE  WorkInv'
<1>1. Next(<<>>) = "over" /\ WorkOK(j) /\ Aside(j)
  BY NextOf, AsideOf DEF WorkInv
<1>2. WorkOK(j)'
  <2>1. CASE turn'[j].pc \in {"none", "abandon", "save", "saving"}
    BY <2>1, NoWorkNext
  <2>2. CASE turn[j].pc \in {"prepare", "row"} /\ turn'[j].pc \in {"row", "run"}
    BY <1>1, <2>2 DEF WorkOK
  <2>3. CASE turn[j].pc = "pushing" /\ turn[j].plan = <<>> /\ turn'[j].pc \in {"finish", "opening"}
    <3>1. turn[j].work \in produced => turn[j].work \in published
      BY <1>1, <2>3 DEF WorkOK
    <3>2. QED
      BY <2>3, <3>1 DEF WorkOK
  <2>4. CASE turn[j].pc \in {"opening", "finish"} /\ turn'[j].pc \in {"finish", "footer"}
    <3>1. turn[j].work \in produced /\ j \notin AskJobs => turn[j].work \in published
      BY <1>1, <2>4 DEF WorkOK
    <3>2. QED
      BY <2>4, <3>1 DEF WorkOK
  <2>5. QED
    BY <2>1, <2>2, <2>3, <2>4
<1>3. QED
  BY <1>1, <1>2, WorkAside

LEMMA BeginWork ==
  ASSUME NEW j \in Jobs, TypeInv, NamesInv, TypeInv', WorkInv, BeginTurn(j)
  PROVE  WorkInv'
<1>1. /\ turn[j] = NoTurn
      /\ Worktrees \/ \A k \in Jobs : turn[k] = NoTurn
      /\ turnCount' = turnCount + 1 /\ mode' = mode /\ repo' = repo
      /\ produced' = produced /\ published' = published
      /\ \A k \in Jobs : k # j => turn'[k] = turn[k]
      /\ turn'[j].pc = "prepare" /\ turn'[j].work = <<j, turnCount + 1>>
  BY BeginDoes
<1>2. turnCount \in Nat /\ produced \subseteq Turns
  BY TurnsLeft DEF TypeInv
<1>3. \A w \in produced : w[2] \in Nat /\ w[2] <= turnCount
  BY <1>2, TurnsLeft DEF WorkInv
<1>4. \A w \in produced' : w[2] <= turnCount'
  BY <1>1, <1>2, <1>3
<1>5. \A k \in Jobs : Dir(k)' = Dir(k)
  BY <1>1, SetsKept
<1>6. ASSUME NEW k \in Jobs PROVE WorkOK(k)'
  <2>1. CASE k = j
    <3>1. <<j, turnCount + 1>> \notin produced
      BY <1>2, <1>3
    <3>2. turn'[j].work \notin produced'
      BY <1>1, <3>1
    <3>3. QED
      BY <1>1, <2>1, <3>2 DEF WorkOK
  <2>2. CASE k # j
    BY <1>1, <1>5, <2>2 DEF WorkInv, WorkOK
  <2>3. QED
    BY <2>1, <2>2
<1>7. QED
  BY <1>4, <1>6 DEF WorkInv

LEMMA TurnWork ==
  ASSUME NEW j \in Jobs, TypeInv, NamesInv, TypeInv', WorkInv, BeginTurn(j) \/ TurnStep(j)
  PROVE  WorkInv'
<1>1. CASE Prepared(j)
  BY <1>1, PreparedDoes, GoWork DEF Turned
<1>2. CASE UpdateJobData(j)
  BY <1>2, UpdateDoes, GoWork DEF Turned
<1>3. CASE CommitStoppedWork(j)
  <2>1. /\ Kept /\ repo' = repo /\ produced' = produced /\ published' = published /\ turn[j].pc = "save"
        /\ \/ Turned(j, "none", <<>>, <<>>, NoBranch, FALSE)
           \/ Turned(j, "saving", StoppedWorkPlan, turn[j].work, turn[j].branch, turn[j].pr)
    BY <1>3, StoppedDoes
  <2>2. /\ turn'[j].pc \in {"none", "saving"} /\ \A k \in Jobs : k # j => turn'[k] = turn[k]
    BY <2>1 DEF Turned
  <2>3. WorkOK(j)' /\ Aside(j)
    BY <2>1, <2>2, NoWorkNext, AsideOf
  <2>4. QED
    BY <2>1, <2>3, WorkAside
<1>4. CASE handlePRCreationOrUpdate(j) \/ handlePRCreationOrUpdateInWorktree(j)
  <2>1. /\ Kept /\ repo' = repo /\ produced' = produced /\ published' = published
        /\ turn[j].pc = "pushing" /\ turn[j].plan = <<>>
        /\ \/ \E pr \in BOOLEAN : Turned(j, "finish", <<>>, turn[j].work, turn[j].branch, pr)
           \/ Turned(j, "opening", PullRequestPlan, turn[j].work, turn[j].branch, turn[j].pr)
           \/ FailTurn(j)
    BY <1>4, PullRequestDoes
  <2>2. CASE FailTurn(j)
    BY <2>1, <2>2, FailWork DEF Same
  <2>3. ASSUME \/ \E pr \in BOOLEAN : Turned(j, "finish", <<>>, turn[j].work, turn[j].branch, pr)
               \/ Turned(j, "opening", PullRequestPlan, turn[j].work, turn[j].branch, turn[j].pr)
        PROVE  WorkInv'
    <3>1. /\ turn'[j].pc \in {"finish", "opening"} /\ turn'[j].work = turn[j].work
          /\ \A k \in Jobs : k # j => turn'[k] = turn[k]
      BY <2>3 DEF Turned
    <3>2. QED
      BY <2>1, <3>1, GoWork
  <2>4. QED
    BY <2>1, <2>2, <2>3
<1>5. CASE Opened(j)
  BY <1>5, OpenedDoes, GoWork DEF Turned
<1>6. CASE FinishTurnWithReply(j)
  <2>1. /\ Kept /\ repo' = repo /\ produced' = produced /\ published' = published
        /\ turn[j].pc = "finish"
        /\ \/ Turned(j, "footer", turn[j].plan, turn[j].work, turn[j].branch, turn[j].pr)
           \/ FailTurn(j)
    BY <1>6, FinishDoes
  <2>2. CASE FailTurn(j)
    BY <2>1, <2>2, FailWork DEF Same
  <2>3. CASE Turned(j, "footer", turn[j].plan, turn[j].work, turn[j].branch, turn[j].pr)
    BY <2>1, <2>3, GoWork DEF Turned
  <2>4. QED
    BY <2>1, <2>2, <2>3
<1>7. CASE EndTurn(j)
  <2>1. /\ Kept /\ repo' = repo /\ produced' = produced /\ published' = published
        /\ turn[j].pc # "none"
        /\ Turned(j, "none", <<>>, <<>>, NoBranch, FALSE) /\ turn'[j] = NoTurn
    BY <1>7, EndTurnDoes
  <2>2. Aside(j)
    BY <2>1, AsideOf DEF Turned
  <2>3. QED
    BY <2>1, <2>2, EndWork
<1>8. QED
  BY <1>1, <1>2, <1>3, <1>4, <1>5, <1>6, <1>7, BeginWork, RunWork, PrepareTreeWork, RunCLIWork,
     StopWork, AutoCommitWork DEF TurnStep

\* Beside the turns nothing touches the directory of a turn, or its branch.
LEMMA StillWork ==
  ASSUME TypeInv, NamesInv, WorkInv, mode' = mode, turnCount' = turnCount,
         produced' = produced, published' = published,
         \A k \in Jobs :
           \/ turn'[k] = NoTurn
           \/ /\ turn'[k] = turn[k] /\ repo'.tree[Dir(k)] = repo.tree[Dir(k)]
              /\ turn[k].pc = "pushing" =>
                   repo'.local[repo.tree[Dir(k)].branch] = repo.local[repo.tree[Dir(k)].branch]
  PROVE  WorkInv'
<1>1. \A k \in Jobs : Dir(k)' = Dir(k)
  BY SetsKept
<1>2. ASSUME NEW k \in Jobs PROVE WorkOK(k)'
  <2>1. CASE turn'[k] = NoTurn
    BY <2>1, NoTurnIs, NoWorkNext
  <2>2. CASE /\ turn'[k] = turn[k] /\ repo'.tree[Dir(k)] = repo.tree[Dir(k)]
             /\ turn[k].pc = "pushing" =>
                  repo'.local[repo.tree[Dir(k)].branch] = repo.local[repo.tree[Dir(k)].branch]
    BY <1>1, <2>2 DEF WorkInv, WorkOK
  <2>3. QED
    BY <2>1, <2>2
<1>3. QED
  BY <1>2 DEF WorkInv

LEMMA BesideWork ==
  ASSUME TypeInv, NamesInv, WorkInv,
         \/ \E j \in Jobs : CompleteIdle(j) \/ NotResumed(j)
         \/ \E b \in Branches : MergePullRequest(b) \/ DeleteRemoteBranch(b)
         \/ Sweep \/ MarkShuttingDown \/ Exit \/ ClearHold \/ UNCHANGED deliveryVars
  PROVE  WorkInv'
<1>1. Default \in DOMAIN repo.remote /\ \A k \in Jobs : Dir(k) \in {k, Main}
  BY DEF NamesInv, MainInv, Dir
<1>2. ASSUME NEW j \in Jobs, turn[j] = NoTurn, turn' = turn, repo' = repo \/ repo' = Vacated(repo, j),
             mode' = mode, turnCount' = turnCount, produced' = produced, published' = published
      PROVE  WorkInv'
  <2>1. \/ repo' = repo
        \/ Beside(j) /\ repo'.local = repo.local
    BY <1>2, VacatedRepo
  <2>2. /\ repo'.tree[Main] = repo.tree[Main] /\ repo'.local = repo.local
        /\ \A k \in Jobs : k # j => repo'.tree[k] = repo.tree[k]
    BY <2>1 DEF Beside
  <2>3. \A k \in Jobs : k # j => repo'.tree[Dir(k)] = repo.tree[Dir(k)]
    BY <1>1, <2>2
  <2>4. QED
    BY <1>2, <2>2, <2>3, StillWork
<1>3. ASSUME turn' = turn, mode' = mode, turnCount' = turnCount,
             produced' = produced, published' = published,
             repo'.tree[Main] = repo.tree[Main], \A k \in Jobs : repo'.tree[k] = repo.tree[k],
             \A d \in Dirs : repo'.local[repo.tree[d].branch] = repo.local[repo.tree[d].branch]
      PROVE  WorkInv'
  <2>1. \A k \in Jobs : repo'.tree[Dir(k)] = repo.tree[Dir(k)] /\ Dir(k) \in Dirs
    BY <1>1, <1>3 DEF Dirs
  <2>2. QED
    BY <1>3, <2>1, StillWork
<1>4. CASE \E j \in Jobs : CompleteIdle(j) \/ NotResumed(j)
  <2>1. PICK j \in Jobs : CompleteIdle(j) \/ NotResumed(j)
    BY <1>4
  <2>2. QED
    BY <1>2, <2>1, IdleDoes DEF Kept
<1>5. CASE \E b \in Branches : MergePullRequest(b)
  <2>1. PICK b \in Branches : MergePullRequest(b)
    BY <1>5
  <2>2. /\ mode' = mode /\ turnCount' = turnCount /\ turn' = turn
        /\ produced' = produced /\ published' = published
        /\ b \in DOMAIN repo.remote /\ repo' = Merged(repo, b)
    BY <2>1, MergeDoes DEF Kept
  <2>3. /\ repo'.tree[Main] = repo.tree[Main] /\ \A k \in Jobs : repo'.tree[k] = repo.tree[k]
        /\ repo'.local = repo.local
    BY <1>1, <2>2, MergedRepo
  <2>4. QED
    BY <1>3, <2>2, <2>3
<1>6. CASE \E b \in Branches : DeleteRemoteBranch(b)
  <2>1. PICK b \in Branches : DeleteRemoteBranch(b)
    BY <1>6
  <2>2. /\ mode' = mode /\ turnCount' = turnCount /\ turn' = turn
        /\ produced' = produced /\ published' = published /\ repo' = Withdrawn(repo, b)
    BY <2>1, WithdrawDoes DEF Kept
  <2>3. /\ repo'.tree[Main] = repo.tree[Main] /\ \A k \in Jobs : repo'.tree[k] = repo.tree[k]
        /\ repo'.local = repo.local
    BY <2>2, WithdrawnRepo
  <2>4. QED
    BY <1>3, <2>2, <2>3
<1>7. CASE Sweep
  <2>1. /\ mode' = mode /\ turnCount' = turnCount /\ turn' = turn
        /\ produced' = produced /\ published' = published
        /\ \/ \E j \in Jobs : turn[j] = NoTurn /\ repo' = Vacated(repo, j)
           \/ \E b \in DOMAIN repo.local :
                (\A d \in Dirs : repo.tree[d].branch # b) /\ repo' = Dropped(repo, b)
    BY <1>7, SweepDoes DEF Kept
  <2>2. CASE \E j \in Jobs : turn[j] = NoTurn /\ repo' = Vacated(repo, j)
    BY <1>2, <2>1, <2>2
  <2>3. ASSUME NEW b \in DOMAIN repo.local, \A d \in Dirs : repo.tree[d].branch # b,
               repo' = Dropped(repo, b)
        PROVE  WorkInv'
    <3>1. b \in Branches
      BY RepoFields DEF TypeInv
    <3>2. /\ repo'.tree[Main] = repo.tree[Main] /\ \A k \in Jobs : repo'.tree[k] = repo.tree[k]
          /\ DOMAIN repo'.local = DOMAIN repo.local \ {b}
          /\ \A x \in DOMAIN repo'.local : repo'.local[x] = repo.local[x]
      BY <2>3, <3>1, DroppedRepo
    <3>3. ASSUME NEW k \in Jobs, turn[k].pc = "pushing"
          PROVE  repo'.local[repo.tree[Dir(k)].branch] = repo.local[repo.tree[Dir(k)].branch]
      <4>1. repo.tree[Dir(k)].branch \in DOMAIN repo.local
        BY <3>3 DEF NamesInv, MainInv, JobOK, TreeOf, PlaceOf, Ready, Dir
      <4>2. Dir(k) \in Dirs
        BY <1>1 DEF Dirs
      <4>3. QED
        BY <2>3, <3>2, <4>1, <4>2
    <3>4. \A k \in Jobs : repo'.tree[Dir(k)] = repo.tree[Dir(k)]
      BY <1>1, <3>2
    <3>5. QED
      BY <2>1, <3>3, <3>4, StillWork
  <2>4. QED
    BY <2>1, <2>2, <2>3
<1>8. CASE Exit
  <2>1. /\ mode' = mode /\ turnCount' = turnCount
        /\ produced' = produced /\ published' = published
        /\ \A j \in Jobs : turn'[j] = NoTurn
    BY <1>8, ExitDoes
  <2>2. QED
    BY <2>1, StillWork
<1>9. CASE ClearHold \/ MarkShuttingDown
  BY <1>3, <1>9, MarkDoes DEF ClearHold
<1>10. CASE UNCHANGED deliveryVars
  BY <1>3, <1>10 DEF deliveryVars, historyVars, toldVars
<1>11. QED
  BY <1>4, <1>5, <1>6, <1>7, <1>8, <1>9, <1>10

LEMMA WorkInit == GitDeliveryInit => WorkInv
<1> SUFFICES ASSUME GitDeliveryInit PROVE WorkInv
  OBVIOUS
<1>1. produced = {}
  BY Zenon DEF GitDeliveryInit
<1>2. turn = [j \in Jobs |-> NoTurn]
  BY Zenon DEF GitDeliveryInit
<1>3. \A j \in Jobs : turn[j].pc = "none"
  BY <1>2, NoTurnIs
<1>4. QED
  BY <1>1, <1>3, NoWork DEF WorkInv

LEMMA WorkStep ==
  ASSUME TypeInv, NamesInv, WorkInv, [GitDeliveryNext]_deliveryVars
  PROVE  WorkInv'
<1>1. TypeInv'
  BY TypeStep
<1>2. CASE \E j \in Jobs : BeginTurn(j) \/ TurnStep(j)
  BY <1>1, <1>2, TurnWork
<1>3. CASE \/ \E j \in Jobs : CompleteIdle(j) \/ NotResumed(j)
           \/ \E b \in Branches : MergePullRequest(b) \/ DeleteRemoteBranch(b)
           \/ Sweep \/ MarkShuttingDown \/ Exit \/ ClearHold
  BY <1>3, BesideWork
<1>4. CASE UNCHANGED deliveryVars
  BY <1>4, BesideWork
<1>5. QED
  BY <1>2, <1>3, <1>4 DEF GitDeliveryNext

LEMMA WorkKept == GitDeliverySpec => [](TypeInv /\ NamesInv /\ WorkInv)
<1>1. GitDeliveryInit => TypeInv /\ NamesInv /\ WorkInv
  BY TypeInit, NamesInit, WorkInit
<1>2. TypeInv /\ NamesInv /\ WorkInv /\ [GitDeliveryNext]_deliveryVars
        => (TypeInv /\ NamesInv /\ WorkInv)'
  BY TypeStep, NamesStep, WorkStep
<1>3. QED
  BY <1>1, <1>2, PTL DEF GitDeliverySpec

\* No turn stores an answer for work that is not on the remote, or has not been.
THEOREM AnsweredWork == GitDeliverySpec => []AnsweredWorkIsPushed
<1>1. TypeInv /\ NamesInv /\ WorkInv => AnsweredWorkIsPushed
  BY DEF WorkInv, WorkOK, AnsweredWorkIsPushed
<1>2. QED
  BY <1>1, WorkKept, PTL

-----------------------------------------------------------------------------
(* Whose work is on a branch.                                              *)

\* CLIs leave the default branch alone.  Work that one commits there and a push
\* refuses would be on the branch the next turn of that job makes from it.
KeptOffDefault == "default" \notin CLIBranches

Mine(j, S) == \A w \in S : w[1] = j

OwnOrMerged(b, S) == \A w \in S : w[1] = b[1] \/ w \in repo.remote[Default]

BranchesOwn ==
  /\ repo.local[Default] \subseteq repo.remote[Default]
  /\ \A b \in DOMAIN repo.local \ {Default} : OwnOrMerged(b, repo.local[b])
  /\ \A b \in DOMAIN repo.remote \ {Default} : OwnOrMerged(b, repo.remote[b])

\* The shared directory while job j has it: emptied before the turn works in it.
CleanOK(j) ==
  LET t == turn[j]
      n == Next(t.plan)
      m == repo.tree[Main]
  IN
  /\ t.pc = "prepare" /\ First(j) =>
       /\ n \in {"checkoutDefault", "resetToRef", "create", "over"} => m.untracked = {}
       /\ n \in {"create", "over"} => m.tracked = {}
  /\ t.pc = "prepare" /\ ~First(j) =>
       /\ n # "reset" => m.tracked = {}
       /\ n \notin {"reset", "clean"} => m.untracked = {}
  /\ t.pc \in {"row", "run"} => m.tracked = {} /\ m.untracked = {}
  /\ t.pc \in {"commit", "pushing", "save", "saving"} =>
       Mine(j, m.tracked) /\ Mine(j, m.untracked)

TreeOwn(j) == Mine(j, repo.tree[j].tracked) /\ Mine(j, repo.tree[j].untracked)

OwnOK(j) == TreeOwn(j) /\ (Worktrees \/ CleanOK(j))

OwnInv == BranchesOwn /\ \A j \in Jobs : OwnOK(j)

\* The branch of a turn is its own job's.
LEMMA OwnBranch ==
  ASSUME KeptOffDefault, NEW j, NEW b, Names(j, b)
  PROVE  b \in Turns /\ b[1] = j /\ b # Default
  BY NamesOf DEF KeptOffDefault, Names

LEMMA OwnAside ==
  ASSUME NEW j \in Jobs, TypeInv, NamesInv, TypeInv', OwnInv, mode' = mode, turn[j].pc # "none",
         \A k \in Jobs : k # j => turn'[k] = turn[k] /\ repo'.tree[k] = repo.tree[k],
         BranchesOwn', OwnOK(j)'
  PROVE  OwnInv'
<1>1. Worktrees' <=> Worktrees
  BY SetsKept
<1>2. ASSUME NEW k \in Jobs, k # j PROVE OwnOK(k)'
  <2>1. turn'[k] = turn[k] /\ repo'.tree[k] = repo.tree[k]
    BY <1>2
  <2>2. TreeOwn(k)'
    BY <2>1 DEF OwnInv, OwnOK, TreeOwn, Mine
  <2>3. Worktrees' \/ turn'[k].pc = "none"
    BY <1>1, <1>2, <2>1 DEF NamesInv, MainInv
  <2>4. turn'[k].pc = "none" => CleanOK(k)'
    BY DEF CleanOK
  <2>5. QED
    BY <2>2, <2>3, <2>4 DEF OwnOK
<1>3. QED
  BY <1>2 DEF OwnInv

LEMMA BranchesStay ==
  ASSUME BranchesOwn, repo'.local = repo.local, repo'.remote = repo.remote
  PROVE  BranchesOwn'
  BY DEF BranchesOwn, OwnOrMerged

\* Branches that lose or change nothing but what is said of them.
LEMMA LocalOwn ==
  ASSUME BranchesOwn, repo'.remote = repo.remote, Default \in DOMAIN repo'.local,
         \A x \in DOMAIN repo'.local :
           \/ x \in DOMAIN repo.local /\ repo'.local[x] = repo.local[x]
           \/ x # Default /\ OwnOrMerged(x, repo'.local[x])
           \/ repo'.local[x] \subseteq repo.remote[Default]
  PROVE  BranchesOwn'
<1>1. \A x \in DOMAIN repo'.local \ {Default} : OwnOrMerged(x, repo'.local[x])
  BY DEF BranchesOwn, OwnOrMerged
<1>2. repo'.local[Default] \subseteq repo.remote[Default]
  BY DEF BranchesOwn
<1>3. QED
  BY <1>1, <1>2 DEF BranchesOwn, OwnOrMerged

\* A turn that ends, its branches kept and its directory left or removed.
LEMMA EndOwn ==
  ASSUME NEW j \in Jobs, TypeInv, NamesInv, TypeInv', OwnInv, mode' = mode, turn[j].pc # "none",
         turn'[j].pc \in {"none", "abandon", "opening", "finish", "footer"},
         repo'.tree[j] = NoTree \/ repo'.tree[j] = repo.tree[j],
         \A k \in Jobs : k # j => turn'[k] = turn[k] /\ repo'.tree[k] = repo.tree[k],
         BranchesOwn'
  PROVE  OwnInv'
<1>1. TreeOwn(j)'
  <2>1. CASE repo'.tree[j] = NoTree
    BY <2>1 DEF TreeOwn, Mine, NoTree
  <2>2. CASE repo'.tree[j] = repo.tree[j]
    BY <2>2 DEF OwnInv, OwnOK, TreeOwn, Mine
  <2>3. QED
    BY <2>1, <2>2
<1>2. CleanOK(j)'
  BY DEF CleanOK
<1>3. OwnOK(j)'
  BY <1>1, <1>2 DEF OwnOK
<1>4. QED
  BY <1>3, OwnAside

LEMMA FailOwn ==
  ASSUME NEW j \in Jobs, TypeInv, NamesInv, TypeInv', OwnInv, Kept, turn[j].pc # "none",
         FailTurn(j), Same(repo, repo')
  PROVE  OwnInv'
<1>1. turn'[j] = NoTurn /\ \A k \in Jobs : k # j => turn'[k] = turn[k]
  BY BrokenDoes DEF Turned
<1>2. turn'[j].pc = "none"
  BY <1>1, NoTurnIs
<1>3. repo'.tree = repo.tree /\ BranchesOwn'
  BY BranchesStay DEF Same, OwnInv
<1>4. QED
  BY <1>1, <1>2, <1>3, EndOwn DEF Kept

\* What a command leaves on the branches.
LEMMA MovedBranches ==
  ASSUME NEW j \in Jobs, TypeInv, NamesInv, OwnInv, KeptOffDefault, turn[j].plan # <<>>, Moved(j)
  PROVE  BranchesOwn'
<1> DEFINE c == Head(turn[j].plan)
           d == Dir(j)
           b == turn[j].branch
           cur == repo.tree[d].branch
<1>1. CommandAt(j) /\ Next(turn[j].plan) = c /\ JobOK(j) /\ OwnOK(j) /\ BranchesOwn
  BY AtCommand DEF NamesInv, JobOK, OwnInv
<1>2. turn[j].pc # "none"
  BY <1>1 DEF CommandAt
<1>3. b \in Turns /\ b[1] = j /\ b # Default
  BY <1>2, WorkOf, OwnBranch
<1>4. LocalEffect(c, repo, repo', d, b) /\ RemoteEffect(c, repo, repo', d)
  BY DEF Moved, Result
<1>5. Default \in DOMAIN repo.local /\ Default \in DOMAIN repo.remote
  BY DEF NamesInv, MainInv
<1>6. c \in {"commit", "push"} => cur = b
  BY <1>1 DEF CommandAt, JobOK, PlaceOf
<1>7. c = "commit" => Mine(j, repo.tree[d].tracked)
  BY <1>1 DEF CommandAt, OwnOK, TreeOwn, CleanOK, Dir
<1>8. c = "create" => cur = Default
  BY <1>1 DEF CommandAt, JobOK, PlaceOf, Dir
<1>9. Default \in DOMAIN repo'.local
  BY <1>3, <1>4, <1>5 DEF LocalEffect
<1>10. cur \in DOMAIN repo.local \/ c = "exists"
  BY CommandSound DEF Sound
<1> HIDE DEF c, d, b, cur
<1>11. CASE c = "push"
  <2>1. repo'.local = repo.local \/ \A x \in DOMAIN repo'.local : x \in DOMAIN repo.local /\ repo'.local[x] = repo.local[x]
    BY <1>4, <1>11 DEF LocalEffect
  <2>2. DOMAIN repo'.local = DOMAIN repo.local
    BY <1>4, <1>11 DEF LocalEffect
  <2>3. /\ DOMAIN repo'.remote = DOMAIN repo.remote \cup {b}
        /\ repo'.remote[b] = repo.local[b] /\ b \in DOMAIN repo.local
        /\ \A x \in DOMAIN repo.remote : x # b => repo'.remote[x] = repo.remote[x]
    BY <1>4, <1>6, <1>10, <1>11 DEF RemoteEffect, cur
  <2>4. repo'.remote[Default] = repo.remote[Default]
    BY <1>3, <1>5, <2>3
  <2>5. \A x \in DOMAIN repo'.local : x \in DOMAIN repo.local /\ repo'.local[x] = repo.local[x]
    BY <2>1, <2>2
  <2>6. \A x \in DOMAIN repo'.remote \ {Default} :
          \A w \in repo'.remote[x] : w[1] = x[1] \/ w \in repo.remote[Default]
    BY <1>1, <1>3, <2>3 DEF BranchesOwn, OwnOrMerged
  <2>7. QED
    BY <1>1, <1>5, <1>9, <2>4, <2>5, <2>6 DEF BranchesOwn, OwnOrMerged
<1>12. CASE c # "push"
  <2>1. repo'.remote = repo.remote
    BY <1>4, <1>12 DEF RemoteEffect
  <2>2. ASSUME NEW x \in DOMAIN repo'.local, x \notin DOMAIN repo.local
        PROVE  x # Default /\ OwnOrMerged(x, repo'.local[x])
    <3>1. x = b /\ c \in {"create", "checkoutJob"}
      BY <1>4, <2>2 DEF LocalEffect
    <3>2. CASE c = "create"
      <4>1. repo'.local[b] = repo.local[Default]
        BY <1>4, <1>8, <3>2 DEF LocalEffect, cur
      <4>2. QED
        BY <1>1, <1>3, <3>1, <4>1 DEF BranchesOwn, OwnOrMerged
    <3>3. CASE c = "checkoutJob"
      <4>1. b \in DOMAIN repo.remote /\ repo'.local[b] = repo.remote[b]
        BY <1>4, <2>2, <3>1, <3>3 DEF LocalEffect
      <4>2. QED
        BY <1>1, <1>3, <3>1, <4>1 DEF BranchesOwn
    <3>4. QED
      BY <3>1, <3>2, <3>3
  <2>3. ASSUME NEW x \in DOMAIN repo'.local, x \in DOMAIN repo.local, repo'.local[x] # repo.local[x]
        PROVE  \/ x # Default /\ OwnOrMerged(x, repo'.local[x])
               \/ repo'.local[x] \subseteq repo.remote[Default]
    <3>1. \/ x = cur /\ c \in {"resetToRef", "commit", "pullDefault", "pullJob"}
          \/ x = b /\ c = "create"
      BY <1>4, <2>3 DEF LocalEffect, cur
    <3>2. CASE c = "create"
      <4>1. repo'.local[b] = repo.local[Default]
        BY <1>4, <1>8, <3>2 DEF LocalEffect, cur
      <4>2. QED
        BY <1>1, <3>1, <3>2, <4>1 DEF BranchesOwn
    <3>3. CASE c = "resetToRef"
      BY <1>4, <3>1, <3>3 DEF LocalEffect, cur
    <3>4. CASE c = "commit"
      <4>1. x = b /\ repo'.local[b] = repo.local[b] \cup repo.tree[d].tracked
        BY <1>4, <1>6, <3>1, <3>4 DEF LocalEffect, cur
      <4>2. QED
        BY <1>1, <1>3, <1>7, <2>3, <3>4, <4>1 DEF BranchesOwn, OwnOrMerged, Mine
    <3>5. CASE c \in {"pullDefault", "pullJob"}
      <4>1. /\ x = cur
            /\ \A w \in repo'.local[x] :
                 w \in repo.local[x] \/ w \in repo.remote[Default] \/ (x \in DOMAIN repo.remote /\ w \in repo.remote[x])
        BY <1>4, <3>1, <3>5 DEF LocalEffect, cur
      <4>2. CASE x = Default
        BY <1>1, <4>1, <4>2 DEF BranchesOwn
      <4>3. CASE x # Default
        BY <1>1, <2>3, <4>1, <4>3 DEF BranchesOwn, OwnOrMerged
      <4>4. QED
        BY <4>2, <4>3
    <3>6. QED
      BY <3>1, <3>2, <3>3, <3>4, <3>5
  <2>4. QED
    BY <1>1, <1>9, <2>1, <2>2, <2>3, LocalOwn
<1>13. QED
  BY <1>11, <1>12

\* What it leaves in the directory.
LEMMA MovedTree ==
  ASSUME NEW j \in Jobs, TypeInv, NamesInv, TypeInv', OwnInv, Kept, turn[j].plan # <<>>, Moved(j)
  PROVE  OwnOK(j)'
<1> DEFINE c == Head(turn[j].plan)
           n == Next(Tail(turn[j].plan))
           d == Dir(j)
           before == repo.tree[d]
           after == repo'.tree[d]
           pc == turn[j].pc
<1>1. CommandAt(j) /\ Next(turn[j].plan) = c /\ JobOK(j) /\ OwnOK(j) /\ PlanOf(j)
  BY AtCommand DEF NamesInv, JobOK, OwnInv
<1>2. /\ turn'[j].pc = pc /\ turn'[j].plan = Tail(turn[j].plan)
      /\ turn'[j].branch = turn[j].branch /\ turn'[j].work = turn[j].work
  BY MovedDoes DEF Turned
<1>3. First(j)' <=> First(j)
  BY <1>2 DEF First
<1>4. Worktrees' <=> Worktrees
  BY SetsKept DEF Kept
<1>5. TreeEffect(c, before, after, turn[j].branch)
  BY DEF Moved, Result
<1>6. after.tracked \subseteq before.tracked \cup before.untracked /\ after.untracked \subseteq before.untracked
  BY <1>5 DEF TreeEffect
<1>7. CASE Worktrees
  <2>1. d = j
    BY <1>7 DEF Dir
  <2>2. TreeOwn(j)'
    BY <1>1, <1>6, <2>1 DEF OwnOK, TreeOwn, Mine
  <2>3. QED
    BY <1>4, <1>7, <2>2 DEF OwnOK
<1>8. CASE ~Worktrees
  <2>1. d = Main /\ repo'.tree[j] = repo.tree[j]
    BY <1>8, MovedPlace DEF Dir
  <2>2. TreeOwn(j)'
    BY <1>1, <2>1 DEF OwnOK, TreeOwn
  <2>3. CleanOK(j)
    BY <1>1, <1>8 DEF OwnOK
  <2>4. pc = "prepare" /\ First(j) =>
          /\ n \in {"checkoutDefault", "resetToRef", "create", "over"} => after.untracked = {}
          /\ n \in {"create", "over"} => after.tracked = {}
    <3>1. SUFFICES ASSUME pc = "prepare", First(j)
                   PROVE  /\ n \in {"checkoutDefault", "resetToRef", "create", "over"} => after.untracked = {}
                          /\ n \in {"create", "over"} => after.tracked = {}
      OBVIOUS
    <3>2. c \in {"stash", "clean", "checkoutDefault", "resetToRef", "create"}
      BY <1>1, <1>8, <3>1 DEF CommandAt
    <3>3. /\ c = "stash" => n = "clean"
          /\ c = "clean" => n = "checkoutDefault"
          /\ c = "checkoutDefault" => n = "resetToRef"
          /\ c = "resetToRef" => n = "create"
          /\ c = "create" => n = "over"
      BY <1>1, <3>1, PlanStep
    <3>4. /\ c \in {"checkoutDefault", "resetToRef", "create"} => before.untracked = {}
          /\ c = "create" => before.tracked = {}
      BY <1>1, <2>1, <2>3, <3>1 DEF CleanOK
    <3> HIDE DEF c, n, before, after
    <3>5. QED
      BY <1>5, <3>2, <3>3, <3>4 DEF TreeEffect
  <2>5. pc = "prepare" /\ ~First(j) =>
          /\ n # "reset" => after.tracked = {}
          /\ n \notin {"reset", "clean"} => after.untracked = {}
    <3>1. SUFFICES ASSUME pc = "prepare", ~First(j)
                   PROVE  /\ n # "reset" => after.tracked = {}
                          /\ n \notin {"reset", "clean"} => after.untracked = {}
      OBVIOUS
    <3>2. c \in {"reset", "clean", "checkoutDefault", "pullDefault", "checkoutJob", "pullJob"}
      BY <1>1, <1>8, <3>1 DEF CommandAt
    <3>3. c = "reset" => n = "clean"
      BY <1>1, <3>1, PlanStep
    <3>4. /\ c # "reset" => before.tracked = {}
          /\ c \notin {"reset", "clean"} => before.untracked = {}
      BY <1>1, <2>1, <2>3, <3>1 DEF CleanOK
    <3> HIDE DEF c, n, before, after
    <3>5. QED
      BY <1>5, <3>2, <3>3, <3>4 DEF TreeEffect
  <2>6. pc \in {"pushing", "saving"} => Mine(j, after.tracked) /\ Mine(j, after.untracked)
    BY <1>6, <2>1, <2>3 DEF CleanOK, Mine
  <2>7. pc \in {"prepare", "abandon", "pushing", "saving", "opening"}
    BY <1>1 DEF CommandAt
  <2>8. CleanOK(j)'
    <3>1. Next(turn'[j].plan) = n /\ turn'[j].pc = pc /\ repo'.tree[Main] = after
      BY <1>2, <2>1
    <3>2. (First(j)' <=> First(j)) /\ turn'[j].pc \in {"prepare", "abandon", "pushing", "saving", "opening"}
      BY <1>3, <2>7, <3>1
    <3> HIDE DEF n, after, pc
    <3>3. QED
      BY <2>4, <2>5, <2>6, <3>1, <3>2 DEF CleanOK, Mine
  <2>9. QED
    BY <2>2, <2>8 DEF OwnOK
<1>9. QED
  BY <1>7, <1>8

LEMMA MovedOwn ==
  ASSUME NEW j \in Jobs, TypeInv, NamesInv, TypeInv', OwnInv, KeptOffDefault, Kept,
         turn[j].plan # <<>>, Moved(j)
  PROVE  OwnInv'
<1>1. BranchesOwn' /\ OwnOK(j)'
  BY MovedBranches, MovedTree
<1>2. \A k \in Jobs : k # j => turn'[k] = turn[k] /\ repo'.tree[k] = repo.tree[k]
  BY MovedDoes, MovedPlace DEF Turned
<1>3. turn[j].pc # "none"
  BY AtCommand DEF NamesInv, JobOK, CommandAt
<1>4. QED
  BY <1>1, <1>2, <1>3, OwnAside DEF Kept

\* A worktree that is removed with the branch of the turn.
LEMMA RemovedOwn ==
  ASSUME NEW j \in Jobs, TypeInv, NamesInv, BranchesOwn, KeptOffDefault, turn[j].pc # "none",
         repo' = Removed(repo, j, turn[j].branch)
  PROVE  /\ BranchesOwn' /\ repo'.tree[j] = NoTree
         /\ \A k \in Jobs : k # j => repo'.tree[k] = repo.tree[k]
<1>1. turn[j].branch # Default /\ Default \in DOMAIN repo.local
  BY WorkOf, OwnBranch DEF NamesInv, MainInv
<1>2. /\ repo'.tree[j] = NoTree /\ Beside(j) /\ repo'.remote = repo.remote
      /\ DOMAIN repo'.local = DOMAIN repo.local \ {turn[j].branch}
      /\ \A x \in DOMAIN repo'.local : repo'.local[x] = repo.local[x]
  BY RemovedRepo
<1>3. BranchesOwn'
  BY <1>1, <1>2, LocalOwn
<1>4. QED
  BY <1>2, <1>3 DEF Beside

LEMMA RunOwn ==
  ASSUME NEW j \in Jobs, TypeInv, NamesInv, TypeInv', OwnInv, KeptOffDefault, RunCommand(j)
  PROVE  OwnInv'
<1>1. /\ turn[j].plan # <<>> /\ CommandAt(j) /\ Kept
      /\ Moved(j) \/ Broken(j) \/ Gone(j)
  BY RunCases
<1>2. turn[j].pc # "none"
  BY <1>1 DEF CommandAt
<1>3. CASE Moved(j)
  BY <1>1, <1>3, MovedOwn
<1>4. CASE Broken(j)
  BY <1>1, <1>2, <1>4, FailOwn DEF Broken
<1>5. CASE Gone(j)
  <2>1. \/ /\ Worktrees
           /\ Turned(j, "none", <<>>, <<>>, NoBranch, FALSE) /\ turn'[j] = NoTurn
           /\ repo' = repo \/ repo' = Removed(repo, j, turn[j].branch)
        \/ /\ ~Worktrees
           /\ Turned(j, "abandon", AbandonJobAndCleanup, turn[j].work, turn[j].branch, turn[j].pr)
           /\ repo' = repo
    BY <1>5, GoneDoes
  <2>2. turn'[j].pc \in {"none", "abandon"} /\ \A k \in Jobs : k # j => turn'[k] = turn[k]
    BY <2>1 DEF Turned
  <2>3. BranchesOwn
    BY DEF OwnInv
  <2>4. CASE repo' = repo
    BY <1>1, <1>2, <2>2, <2>3, <2>4, BranchesStay, EndOwn DEF Kept
  <2>5. CASE repo' = Removed(repo, j, turn[j].branch)
    <3>1. /\ BranchesOwn' /\ repo'.tree[j] = NoTree
          /\ \A k \in Jobs : k # j => repo'.tree[k] = repo.tree[k]
      BY <1>2, <2>3, <2>5, RemovedOwn
    <3>2. QED
      BY <1>1, <1>2, <2>2, <3>1, EndOwn DEF Kept
  <2>6. QED
    BY <2>1, <2>4, <2>5
<1>6. QED
  BY <1>1, <1>3, <1>4, <1>5

LEMMA PrepareTreeOwn ==
  ASSUME NEW j \in Jobs, TypeInv, NamesInv, TypeInv', OwnInv, KeptOffDefault,
         PrepareForNewConversationWithWorktree(j)
  PROVE  OwnInv'
<1> DEFINE b == turn[j].branch
           s == IF hold THEN repo.stash \cup UncommittedIn(j) ELSE repo.stash
<1>1. /\ Kept /\ Worktrees /\ turn[j].pc = "prepare"
      /\ \/ /\ Turned(j, "row", <<>>, turn[j].work, b, turn[j].pr)
            /\ repo' = Made(repo, j, b, s)
         \/ FailTurn(j) /\ repo' = repo
  BY PrepareTreeDoes
<1>2. CASE FailTurn(j) /\ repo' = repo
  BY <1>1, <1>2, FailOwn DEF Same
<1>3. ASSUME Turned(j, "row", <<>>, turn[j].work, b, turn[j].pr), repo' = Made(repo, j, b, s)
      PROVE  OwnInv'
  <2>1. \A k \in Jobs : k # j => turn'[k] = turn[k]
    BY <1>3 DEF Turned
  <2>2. b \in Branches /\ s \in SUBSET Turns /\ Default \in DOMAIN repo.remote /\ repo' = Made(repo, j, b, s)
    <3>1. repo \in Repos /\ j \in Dirs /\ Default \in DOMAIN repo.remote
      BY DEF TypeInv, Dirs, NamesInv, MainInv
    <3>2. QED
      BY <1>1, <1>3, <3>1, WorkOf, RepoFields DEF UncommittedIn
  <2>3. b # Default /\ Default \in DOMAIN repo.local
    BY <1>1, WorkOf, OwnBranch DEF NamesInv, MainInv
  <2> HIDE DEF b, s
  <2>4. /\ repo'.tree[j] = [branch |-> b, tracked |-> {}, untracked |-> {}] /\ Beside(j)
        /\ repo'.remote = repo.remote /\ DOMAIN repo'.local = DOMAIN repo.local \cup {b}
        /\ repo'.local[b] = repo.remote[Default]
        /\ \A x \in DOMAIN repo.local : x # b => repo'.local[x] = repo.local[x]
    BY <2>2, MadeRepo
  <2>5. BranchesOwn'
    BY <2>3, <2>4, LocalOwn DEF OwnInv
  <2>6. TreeOwn(j)' /\ Worktrees'
    BY <1>1, <2>4, SetsKept DEF TreeOwn, Mine, Kept
  <2>7. \A k \in Jobs : k # j => repo'.tree[k] = repo.tree[k]
    BY <2>4 DEF Beside
  <2>8. OwnOK(j)'
    BY <2>6 DEF OwnOK
  <2>9. QED
    BY <1>1, <2>1, <2>5, <2>7, <2>8, OwnAside DEF Kept
<1>4. QED
  BY <1>1, <1>2, <1>3

LEMMA RunCLIOwn ==
  ASSUME NEW j \in Jobs, TypeInv, NamesInv, TypeInv', OwnInv, KeptOffDefault, RunCLI(j)
  PROVE  OwnInv'
<1> DEFINE w == turn[j].work
           b == turn[j].branch
           d == Dir(j)
           before == repo.tree[d]
           after == repo'.tree[d]
<1>1. /\ Kept /\ turn[j].pc = "run"
      /\ \E did \in {{}, {w}} : CLIDid(j, did)
      /\ \/ \E pc \in {"commit", "finish"} :
              Turned(j, pc, turn[j].plan, w, b, turn[j].pr)
         \/ Turned(j, "none", <<>>, <<>>, NoBranch, FALSE)
         \/ Turned(j, "save", turn[j].plan, w, b, turn[j].pr)
  BY RunCLIDoes
<1>2. PICK did \in {{}, {w}} : CLIDid(j, did)
  BY <1>1
<1>3. /\ \A k \in Jobs : k # j => turn'[k] = turn[k]
      /\ turn'[j].pc \in {"commit", "finish", "none", "save"}
  BY <1>1 DEF Turned
<1>4. /\ w \in Turns /\ w[1] = j /\ w # Default
      /\ b \in Turns /\ b[1] = j /\ b # Default
  BY <1>1, WorkOf, OwnBranch, NamesOf
<1>5. b \in DOMAIN repo.local
  BY <1>1 DEF NamesInv, JobOK, PlaceOf, RowOf, Ready
<1>6. /\ repo'.remote = repo.remote
      /\ \A x \in Dirs : x # d => repo'.tree[x] = repo.tree[x]
      /\ \/ repo'.local = repo.local
         \/ /\ DOMAIN repo'.local = DOMAIN repo.local \cup {w} /\ repo'.local[w] = repo.local[b]
            /\ \A x \in DOMAIN repo.local : x # w => repo'.local[x] = repo.local[x]
      /\ after.tracked \subseteq before.tracked \cup {w}
      /\ after.untracked \subseteq before.untracked \cup {w}
  BY <1>2 DEF CLIDid
<1>7. \A k \in Jobs : k # j => repo'.tree[k] = repo.tree[k]
  BY <1>1, <1>2, CLIPlace
<1>8. /\ OwnOK(j) /\ BranchesOwn
      /\ Default \in DOMAIN repo.local
  BY DEF OwnInv, NamesInv, MainInv
<1>9. Worktrees' <=> Worktrees
  BY <1>1, SetsKept DEF Kept
<1> HIDE DEF w, b
<1>10. BranchesOwn'
  <2>1. OwnOrMerged(w, repo.local[b])
    BY <1>4, <1>5, <1>8 DEF BranchesOwn, OwnOrMerged
  <2>2. CASE repo'.local = repo.local
    BY <1>6, <1>8, <2>2, BranchesStay
  <2>3. CASE /\ DOMAIN repo'.local = DOMAIN repo.local \cup {w} /\ repo'.local[w] = repo.local[b]
             /\ \A x \in DOMAIN repo.local : x # w => repo'.local[x] = repo.local[x]
    BY <1>4, <1>6, <1>8, <2>1, <2>3, LocalOwn
  <2>4. QED
    BY <1>6, <2>2, <2>3
<1>11. OwnOK(j)'
  <2>1. CASE Worktrees
    <3>1. d = j
      BY <2>1 DEF Dir
    <3>2. TreeOwn(j)'
      BY <1>4, <1>6, <1>8, <3>1 DEF OwnOK, TreeOwn, Mine
    <3>3. QED
      BY <1>9, <2>1, <3>2 DEF OwnOK
  <2>2. CASE ~Worktrees
    <3>1. d = Main /\ j # Main /\ j \in Dirs
      BY <2>2, DeliveryAssumption DEF Dir, Dirs
    <3>2. before.tracked = {} /\ before.untracked = {}
      BY <1>1, <1>8, <2>2, <3>1 DEF OwnOK, CleanOK
    <3>3. Mine(j, repo'.tree[Main].tracked) /\ Mine(j, repo'.tree[Main].untracked)
      BY <1>4, <1>6, <3>1, <3>2 DEF Mine
    <3>4. TreeOwn(j)'
      BY <1>6, <1>8, <3>1 DEF OwnOK, TreeOwn, Mine
    <3>5. CleanOK(j)'
      BY <1>3, <3>3 DEF CleanOK, Mine
    <3>6. QED
      BY <3>4, <3>5 DEF OwnOK
  <2>3. QED
    BY <2>1, <2>2
<1>12. QED
  BY <1>1, <1>3, <1>7, <1>10, <1>11, OwnAside DEF Kept

LEMMA StopOwn ==
  ASSUME NEW j \in Jobs, TypeInv, NamesInv, TypeInv', OwnInv, KeptOffDefault, StopBeforeSession(j)
  PROVE  OwnInv'
<1>1. /\ Kept /\ turn[j].pc = "run"
      /\ Turned(j, "none", <<>>, <<>>, NoBranch, FALSE) /\ turn'[j] = NoTurn
      /\ repo' = IF Worktrees THEN Removed(repo, j, turn[j].branch) ELSE repo
  BY StopDoes
<1>2. turn'[j].pc = "none" /\ \A k \in Jobs : k # j => turn'[k] = turn[k]
  BY <1>1 DEF Turned
<1>3. /\ BranchesOwn'
      /\ repo'.tree[j] = NoTree \/ repo'.tree[j] = repo.tree[j]
      /\ \A k \in Jobs : k # j => repo'.tree[k] = repo.tree[k]
  <2>1. CASE Worktrees
    <3>1. repo' = Removed(repo, j, turn[j].branch) /\ turn[j].pc # "none" /\ BranchesOwn
      BY <1>1, <2>1 DEF OwnInv
    <3>2. QED
      BY <3>1, RemovedOwn
  <2>2. CASE ~Worktrees
    BY <1>1, <2>2, BranchesStay DEF OwnInv
  <2>3. QED
    BY <2>1, <2>2
<1>4. QED
  BY <1>1, <1>2, <1>3, EndOwn DEF Kept

\* The steps that only move the turn on.
LEMMA GoOwn ==
  ASSUME NEW j \in Jobs, TypeInv, NamesInv, TypeInv', OwnInv, mode' = mode, repo' = repo,
         turn[j].pc # "none", \A k \in Jobs : k # j => turn'[k] = turn[k],
         \/ turn'[j].pc \in {"none", "opening", "finish", "footer"}
         \/ turn[j].pc = "prepare" /\ turn[j].plan = <<>> /\ turn'[j].pc = "row"
         \/ turn[j].pc = "row" /\ turn'[j].pc = "run"
         \/ turn[j].pc \in {"commit", "save"} /\ turn'[j].pc \in {"pushing", "saving"}
  PROVE  OwnInv'
<1>1. BranchesOwn' /\ OwnOK(j) /\ (Worktrees' <=> Worktrees)
  BY BranchesStay, SetsKept DEF OwnInv
<1>2. TreeOwn(j)'
  BY <1>1 DEF OwnOK, TreeOwn
<1>3. CASE turn'[j].pc \in {"none", "opening", "finish", "footer"}
  BY <1>1, <1>3, EndOwn
<1>4. CASE Worktrees
  BY <1>1, <1>2, <1>4, OwnAside DEF OwnOK
<1>5. CASE ~Worktrees /\ turn'[j].pc \notin {"none", "opening", "finish", "footer"}
  <2>1. CleanOK(j) /\ Next(<<>>) = "over"
    BY <1>1, <1>5, NextOf DEF OwnOK
  <2>2. CleanOK(j)'
    <3>1. CASE turn[j].pc = "prepare" /\ turn[j].plan = <<>> /\ turn'[j].pc = "row"
      <4>1. repo.tree[Main].tracked = {} /\ repo.tree[Main].untracked = {}
        BY <2>1, <3>1 DEF CleanOK
      <4>2. QED
        BY <3>1, <4>1 DEF CleanOK
    <3>2. CASE turn[j].pc = "row" /\ turn'[j].pc = "run"
      BY <2>1, <3>2 DEF CleanOK
    <3>3. CASE turn[j].pc \in {"commit", "save"} /\ turn'[j].pc \in {"pushing", "saving"}
      BY <2>1, <3>3 DEF CleanOK
    <3>4. QED
      BY <1>5, <3>1, <3>2, <3>3
  <2>3. OwnOK(j)'
    BY <1>2, <2>2 DEF OwnOK
  <2>4. QED
    BY <1>1, <2>3, OwnAside
<1>6. QED
  BY <1>3, <1>4, <1>5

LEMMA BeginOwn ==
  ASSUME NEW j \in Jobs, TypeInv, NamesInv, TypeInv', OwnInv, BeginTurn(j)
  PROVE  OwnInv'
<1>1. /\ mode' = mode /\ repo' = repo
      /\ Worktrees \/ \A k \in Jobs : turn[k] = NoTurn
      /\ \A k \in Jobs : k # j => turn'[k] = turn[k]
      /\ turn'[j].pc = "prepare" /\ turn'[j].work = <<j, turnCount + 1>>
      /\ turn'[j].branch = IF row[j].session THEN row[j].branch ELSE <<j, turnCount + 1>>
      /\ Next(turn'[j].plan) = IF row[j].session THEN (IF Worktrees THEN "exists" ELSE "reset")
                               ELSE IF Worktrees THEN "over" ELSE IF hold THEN "stash" ELSE "clean"
  BY BeginDoes
<1>2. BranchesOwn' /\ (Worktrees' <=> Worktrees)
  BY <1>1, BranchesStay, SetsKept DEF OwnInv
<1>3. ASSUME NEW k \in Jobs PROVE TreeOwn(k)'
  BY <1>1 DEF OwnInv, OwnOK, TreeOwn
<1>4. ASSUME NEW k \in Jobs, ~Worktrees PROVE CleanOK(k)'
  <2>1. CASE k = j
    <3>1. row[j].session => Next(turn'[j].plan) = "reset"
      BY <1>1, <1>4
    <3>2. ~row[j].session =>
            /\ First(j)' /\ Next(turn'[j].plan) \in {"stash", "clean"}
      BY <1>1, <1>4 DEF First
    <3>3. turn'[j].pc = "prepare"
      BY <1>1
    <3>4. QED
      BY <2>1, <3>1, <3>2, <3>3 DEF CleanOK
  <2>2. CASE k # j
    <3>1. turn'[k].pc = "none"
      BY <1>1, <1>4, <2>2, NoTurnIs
    <3>2. QED
      BY <3>1 DEF CleanOK
  <2>3. QED
    BY <2>1, <2>2
<1>5. QED
  BY <1>2, <1>3, <1>4 DEF OwnInv, OwnOK

LEMMA TurnOwn ==
  ASSUME NEW j \in Jobs, TypeInv, NamesInv, TypeInv', OwnInv, KeptOffDefault,
         BeginTurn(j) \/ TurnStep(j)
  PROVE  OwnInv'
<1>1. CASE Prepared(j)
  <2>1. /\ Kept /\ repo' = repo /\ turn[j].pc = "prepare" /\ turn[j].plan = <<>>
        /\ Turned(j, "row", <<>>, turn[j].work, turn[j].branch, turn[j].pr)
    BY <1>1, PreparedDoes
  <2>2. QED
    BY <2>1, GoOwn DEF Turned, Kept
<1>2. CASE UpdateJobData(j)
  <2>1. /\ Kept /\ repo' = repo /\ turn[j].pc = "row"
        /\ Turned(j, "run", turn[j].plan, turn[j].work, turn[j].branch, turn[j].pr)
    BY <1>2, UpdateDoes
  <2>2. QED
    BY <2>1, GoOwn DEF Turned, Kept
<1>3. CASE CommitStoppedWork(j)
  <2>1. /\ Kept /\ repo' = repo /\ turn[j].pc = "save"
        /\ \/ Turned(j, "none", <<>>, <<>>, NoBranch, FALSE)
           \/ Turned(j, "saving", StoppedWorkPlan, turn[j].work, turn[j].branch, turn[j].pr)
    BY <1>3, StoppedDoes
  <2>2. /\ turn'[j].pc \in {"none", "saving"} /\ \A k \in Jobs : k # j => turn'[k] = turn[k]
    BY <2>1 DEF Turned
  <2>3. QED
    BY <2>1, <2>2, GoOwn DEF Kept
<1>4. CASE handlePRCreationOrUpdate(j) \/ handlePRCreationOrUpdateInWorktree(j)
  <2>1. /\ Kept /\ repo' = repo /\ turn[j].pc = "pushing"
        /\ \/ \E pr \in BOOLEAN : Turned(j, "finish", <<>>, turn[j].work, turn[j].branch, pr)
           \/ Turned(j, "opening", PullRequestPlan, turn[j].work, turn[j].branch, turn[j].pr)
           \/ FailTurn(j)
    BY <1>4, PullRequestDoes
  <2>2. CASE FailTurn(j)
    BY <2>1, <2>2, FailOwn DEF Same
  <2>3. ASSUME \/ \E pr \in BOOLEAN : Turned(j, "finish", <<>>, turn[j].work, turn[j].branch, pr)
               \/ Turned(j, "opening", PullRequestPlan, turn[j].work, turn[j].branch, turn[j].pr)
        PROVE  OwnInv'
    <3>1. turn'[j].pc \in {"finish", "opening"} /\ \A k \in Jobs : k # j => turn'[k] = turn[k]
      BY <2>3 DEF Turned
    <3>2. QED
      BY <2>1, <3>1, GoOwn DEF Kept
  <2>4. QED
    BY <2>1, <2>2, <2>3
<1>5. CASE Opened(j)
  <2>1. /\ Kept /\ repo' = repo /\ turn[j].pc = "opening"
        /\ Turned(j, "finish", <<>>, turn[j].work, turn[j].branch, TRUE)
    BY <1>5, OpenedDoes
  <2>2. QED
    BY <2>1, GoOwn DEF Turned, Kept
<1>6. CASE FinishTurnWithReply(j)
  <2>1. /\ Kept /\ repo' = repo /\ turn[j].pc = "finish"
        /\ \/ Turned(j, "footer", turn[j].plan, turn[j].work, turn[j].branch, turn[j].pr)
           \/ FailTurn(j)
    BY <1>6, FinishDoes
  <2>2. CASE FailTurn(j)
    BY <2>1, <2>2, FailOwn DEF Same
  <2>3. CASE Turned(j, "footer", turn[j].plan, turn[j].work, turn[j].branch, turn[j].pr)
    BY <2>1, <2>3, GoOwn DEF Turned, Kept
  <2>4. QED
    BY <2>1, <2>2, <2>3
<1>7. CASE EndTurn(j)
  <2>1. /\ Kept /\ repo' = repo /\ turn[j].pc # "none"
        /\ Turned(j, "none", <<>>, <<>>, NoBranch, FALSE)
    BY <1>7, EndTurnDoes
  <2>2. QED
    BY <2>1, GoOwn DEF Turned, Kept
<1>8. CASE AutoCommitChangesIfNeeded(j) \/ AutoCommitChangesInWorktreeIfNeeded(j)
  <2> DEFINE b == repo.tree[Dir(j)].branch
  <2>1. /\ Kept /\ repo' = repo /\ turn[j].pc = "commit"
        /\ \/ Turned(j, "pushing", CommitPlan, turn[j].work, b, turn[j].pr)
           \/ Turned(j, "finish", <<>>, turn[j].work, b, turn[j].pr)
           \/ FailTurn(j)
    BY <1>8, AutoCommitDoes
  <2>2. CASE FailTurn(j)
    BY <2>1, <2>2, FailOwn DEF Same
  <2>3. ASSUME \/ Turned(j, "pushing", CommitPlan, turn[j].work, b, turn[j].pr)
               \/ Turned(j, "finish", <<>>, turn[j].work, b, turn[j].pr)
        PROVE  OwnInv'
    <3>1. turn'[j].pc \in {"finish", "pushing"} /\ \A k \in Jobs : k # j => turn'[k] = turn[k]
      BY <2>3 DEF Turned
    <3>2. QED
      BY <2>1, <3>1, GoOwn DEF Kept
  <2>4. QED
    BY <2>1, <2>2, <2>3
<1>9. QED
  BY <1>1, <1>2, <1>3, <1>4, <1>5, <1>6, <1>7, <1>8, BeginOwn, RunOwn, PrepareTreeOwn, RunCLIOwn,
     StopOwn DEF TurnStep

\* Beside the turns directories are left or removed.
LEMMA StillOwn ==
  ASSUME TypeInv, OwnInv, mode' = mode, BranchesOwn', repo'.tree[Main] = repo.tree[Main],
         \A k \in Jobs : repo'.tree[k] \in {NoTree, repo.tree[k]},
         \A k \in Jobs : turn'[k] \in {NoTurn, turn[k]}
  PROVE  OwnInv'
<1>1. ASSUME NEW k \in Jobs PROVE OwnOK(k)'
  <2>1. TreeOwn(k)'
    <3>1. CASE repo'.tree[k] = NoTree
      BY <3>1 DEF TreeOwn, Mine, NoTree
    <3>2. CASE repo'.tree[k] = repo.tree[k]
      BY <3>2 DEF OwnInv, OwnOK, TreeOwn
    <3>3. QED
      BY <3>1, <3>2
  <2>2. Worktrees' \/ CleanOK(k)'
    <3>1. CASE turn'[k] = NoTurn
      BY <3>1, NoTurnIs DEF CleanOK
    <3>2. CASE turn'[k] = turn[k] /\ ~Worktrees
      <4>1. CleanOK(k)
        BY <3>2 DEF OwnInv, OwnOK
      <4>2. QED
        BY <3>2, <4>1 DEF CleanOK, First
    <3>3. QED
      BY <3>1, <3>2, SetsKept
  <2>3. QED
    BY <2>1, <2>2 DEF OwnOK
<1>2. QED
  BY <1>1 DEF OwnInv

LEMMA BesideOwn ==
  ASSUME TypeInv, NamesInv, OwnInv,
         \/ \E j \in Jobs : CompleteIdle(j) \/ NotResumed(j)
         \/ \E b \in Branches : MergePullRequest(b) \/ DeleteRemoteBranch(b)
         \/ Sweep \/ MarkShuttingDown \/ Exit \/ ClearHold \/ UNCHANGED deliveryVars
  PROVE  OwnInv'
<1>1. Default \in DOMAIN repo.remote /\ Default \in DOMAIN repo.local /\ BranchesOwn
  BY DEF NamesInv, MainInv, OwnInv
<1>2. ASSUME NEW j \in Jobs, repo' = repo \/ repo' = Vacated(repo, j), turn' = turn, mode' = mode
      PROVE  OwnInv'
  <2>1. /\ repo'.tree[Main] = repo.tree[Main] /\ repo'.local = repo.local /\ repo'.remote = repo.remote
        /\ \A k \in Jobs : repo'.tree[k] \in {NoTree, repo.tree[k]}
    BY <1>2, VacatedRepo DEF Beside
  <2>2. QED
    BY <1>1, <1>2, <2>1, BranchesStay, StillOwn
<1>3. CASE \E j \in Jobs : CompleteIdle(j) \/ NotResumed(j)
  <2>1. PICK j \in Jobs : CompleteIdle(j) \/ NotResumed(j)
    BY <1>3
  <2>2. QED
    BY <1>2, <2>1, IdleDoes DEF Kept
<1>4. CASE \E b \in Branches : MergePullRequest(b)
  <2>1. PICK b \in Branches : MergePullRequest(b)
    BY <1>4
  <2>2. mode' = mode /\ turn' = turn /\ b \in DOMAIN repo.remote /\ repo' = Merged(repo, b)
    BY <2>1, MergeDoes DEF Kept
  <2>3. /\ repo'.tree[Main] = repo.tree[Main] /\ \A k \in Jobs : repo'.tree[k] = repo.tree[k]
        /\ repo'.local = repo.local /\ DOMAIN repo'.remote = DOMAIN repo.remote
        /\ repo'.remote[Default] = repo.remote[Default] \cup repo.remote[b]
        /\ \A x \in DOMAIN repo.remote : x # Default => repo'.remote[x] = repo.remote[x]
    BY <1>1, <2>2, MergedRepo
  <2>4. BranchesOwn'
    BY <1>1, <2>3 DEF BranchesOwn, OwnOrMerged
  <2>5. QED
    BY <2>2, <2>3, <2>4, StillOwn
<1>5. CASE \E b \in Branches : DeleteRemoteBranch(b)
  <2>1. PICK b \in Branches : DeleteRemoteBranch(b)
    BY <1>5
  <2>2. mode' = mode /\ turn' = turn /\ b # Default /\ repo' = Withdrawn(repo, b)
    BY <2>1, WithdrawDoes DEF Kept
  <2>3. /\ repo'.tree[Main] = repo.tree[Main] /\ \A k \in Jobs : repo'.tree[k] = repo.tree[k]
        /\ repo'.local = repo.local /\ DOMAIN repo'.remote = DOMAIN repo.remote \ {b}
        /\ \A x \in DOMAIN repo'.remote : repo'.remote[x] = repo.remote[x]
    BY <2>2, WithdrawnRepo
  <2>4. BranchesOwn'
    BY <1>1, <2>2, <2>3 DEF BranchesOwn, OwnOrMerged
  <2>5. QED
    BY <2>2, <2>3, <2>4, StillOwn
<1>6. CASE Sweep
  <2>1. /\ mode' = mode /\ turn' = turn
        /\ \/ \E j \in Jobs : repo' = Vacated(repo, j)
           \/ \E b \in DOMAIN repo.local : b # Default /\ repo' = Dropped(repo, b)
    BY <1>6, SweepDoes DEF Kept
  <2>2. CASE \E j \in Jobs : repo' = Vacated(repo, j)
    BY <1>2, <2>1, <2>2
  <2>3. ASSUME NEW b \in DOMAIN repo.local, b # Default, repo' = Dropped(repo, b)
        PROVE  OwnInv'
    <3>1. b \in Branches
      BY RepoFields DEF TypeInv
    <3>2. /\ repo'.tree[Main] = repo.tree[Main] /\ \A k \in Jobs : repo'.tree[k] = repo.tree[k]
          /\ repo'.remote = repo.remote /\ DOMAIN repo'.local = DOMAIN repo.local \ {b}
          /\ \A x \in DOMAIN repo'.local : repo'.local[x] = repo.local[x]
      BY <2>3, <3>1, DroppedRepo
    <3>3. BranchesOwn'
      BY <1>1, <2>3, <3>2, LocalOwn
    <3>4. QED
      BY <2>1, <3>2, <3>3, StillOwn
  <2>4. QED
    BY <2>1, <2>2, <2>3
<1>7. CASE Exit
  <2>1. mode' = mode /\ repo' = repo /\ \A k \in Jobs : turn'[k] = NoTurn
    BY <1>7, ExitDoes
  <2>2. QED
    BY <1>1, <2>1, BranchesStay, StillOwn
<1>8. CASE ClearHold \/ MarkShuttingDown \/ UNCHANGED deliveryVars
  <2>1. mode' = mode /\ repo' = repo /\ turn' = turn
    BY <1>8, MarkDoes DEF ClearHold, deliveryVars, historyVars, toldVars
  <2>2. QED
    BY <1>1, <2>1, BranchesStay, StillOwn
<1>9. QED
  BY <1>3, <1>4, <1>5, <1>6, <1>7, <1>8

LEMMA OwnInit == GitDeliveryInit => OwnInv
<1> SUFFICES ASSUME GitDeliveryInit PROVE OwnInv
  OBVIOUS
<1>1. BranchesOwn /\ \A j \in Jobs : repo.tree[j] = NoTree
  <2> DEFINE l == [b \in {Default} |-> {}]
  <2>1. repo = [tree |-> [d \in Dirs |-> IF d = Main THEN [NoTree EXCEPT !.branch = Default] ELSE NoTree],
                local |-> l, remote |-> l, tracking |-> {Default}, stash |-> {},
                pr |-> [b \in Branches |-> "none"]]
    BY Zenon DEF GitDeliveryInit
  <2>2. l[Default] = {} /\ DOMAIN l = {Default}
    OBVIOUS
  <2> HIDE DEF l
  <2>3. /\ repo.local = l /\ repo.remote = l
        /\ repo.tree = [d \in Dirs |-> IF d = Main THEN [NoTree EXCEPT !.branch = Default] ELSE NoTree]
    BY <2>1
  <2>4. \A j \in Jobs : repo.tree[j] = NoTree
    BY <2>3, DeliveryAssumption DEF Dirs
  <2>5. QED
    BY <2>2, <2>3, <2>4 DEF BranchesOwn
<1>2. turn = [j \in Jobs |-> NoTurn]
  BY Zenon DEF GitDeliveryInit
<1>3. \A j \in Jobs : turn[j].pc = "none"
  BY <1>2, NoTurnIs
<1>4. \A j \in Jobs : OwnOK(j)
  BY <1>1, <1>3 DEF OwnOK, TreeOwn, CleanOK, Mine, NoTree
<1>5. QED
  BY <1>1, <1>4 DEF OwnInv

LEMMA OwnStep ==
  ASSUME TypeInv, NamesInv, OwnInv, KeptOffDefault, [GitDeliveryNext]_deliveryVars
  PROVE  OwnInv'
<1>1. TypeInv'
  BY TypeStep
<1>2. CASE \E j \in Jobs : BeginTurn(j) \/ TurnStep(j)
  BY <1>1, <1>2, TurnOwn
<1>3. CASE \/ \E j \in Jobs : CompleteIdle(j) \/ NotResumed(j)
           \/ \E b \in Branches : MergePullRequest(b) \/ DeleteRemoteBranch(b)
           \/ Sweep \/ MarkShuttingDown \/ Exit \/ ClearHold
  BY <1>3, BesideOwn
<1>4. CASE UNCHANGED deliveryVars
  BY <1>4, BesideOwn
<1>5. QED
  BY <1>2, <1>3, <1>4 DEF GitDeliveryNext

LEMMA OwnKept ==
  ASSUME KeptOffDefault
  PROVE  GitDeliverySpec => [](TypeInv /\ NamesInv /\ WorkInv /\ OwnInv)
<1>1. GitDeliveryInit => TypeInv /\ NamesInv /\ WorkInv /\ OwnInv
  BY TypeInit, NamesInit, WorkInit, OwnInit
<1>2. TypeInv /\ NamesInv /\ WorkInv /\ OwnInv /\ [GitDeliveryNext]_deliveryVars
        => (TypeInv /\ NamesInv /\ WorkInv /\ OwnInv)'
  BY TypeStep, NamesStep, WorkStep, OwnStep
<1>3. QED
  BY <1>1, <1>2, PTL DEF GitDeliverySpec

\* Whatever fails or is cut off, and however turns share a directory, a branch has
\* the work of the job it was made for, and what was merged.
THEOREM OwnWork == ASSUME KeptOffDefault PROVE GitDeliverySpec => []OwnWorkOnly
<1>1. OwnInv => OwnWorkOnly
  BY DEF OwnInv, BranchesOwn, OwnOrMerged, OwnWorkOnly
<1>2. QED
  BY <1>1, OwnKept, PTL

-----------------------------------------------------------------------------
(* What is fresh: the branch a turn may make is not there yet.             *)

FreshOK(j) ==
  LET t == turn[j] IN
  /\ t.pc = "prepare" /\ First(j) /\ (Worktrees \/ t.plan # <<>>) => t.work \notin DOMAIN repo.local
  /\ t.pc \in {"prepare", "row", "run"} =>
       /\ First(j) <=> ~row[j].session
       /\ First(j) \/ t.work \notin DOMAIN repo.local
  /\ Worktrees /\ t.pc \in {"row", "run"} /\ First(j) =>
       /\ UncommittedIn(j) = {} /\ t.branch \in DOMAIN repo.local
       /\ repo.local[t.branch] \subseteq repo.remote[Default]

FreshInv ==
  /\ \A b \in DOMAIN repo.local \ {Default} : b[2] <= turnCount
  /\ \A j \in Jobs : FreshOK(j)

\* A step of job j makes no branch but its own, and takes nothing back from the
\* default branch of the remote.
MakesOwn(j) ==
  /\ \A k \in Jobs : k # j => row'[k] = row[k]
  /\ \A b \in DOMAIN repo'.local :
       b \in DOMAIN repo.local \/ (b \in Turns /\ b[1] = j /\ b[2] <= turnCount)
  /\ Default \in DOMAIN repo'.remote /\ repo.remote[Default] \subseteq repo'.remote[Default]

LEMMA FreshAside ==
  ASSUME NEW j \in Jobs, TypeInv, NamesInv, KeptOffDefault, FreshInv, Kept, turn[j].pc # "none",
         Aside(j), MakesOwn(j), FreshOK(j)'
  PROVE  FreshInv'
<1>1. (Worktrees' <=> Worktrees) /\ turnCount' = turnCount
  BY SetsKept DEF Kept
<1>2. \A b \in DOMAIN repo'.local \ {Default} : b[2] <= turnCount'
  BY <1>1 DEF FreshInv, MakesOwn
<1>3. ASSUME NEW k \in Jobs, k # j PROVE FreshOK(k)'
  <2>1. /\ turn'[k] = turn[k] /\ repo'.tree[k] = repo.tree[k] /\ row'[k] = row[k] /\ FreshOK(k)
    BY <1>3 DEF Aside, MakesOwn, FreshInv
  <2>2. CASE turn[k].pc = "none"
    BY <2>1, <2>2 DEF FreshOK
  <2>3. CASE turn[k].pc # "none"
    <3>1. Worktrees
      BY <1>3, <2>3 DEF NamesInv, MainInv
    <3>2. /\ turn[k].work \in Turns /\ turn[k].work[1] = k
          /\ turn[k].branch \in Turns /\ turn[k].branch[1] = k
      BY <2>3, WorkOf, OwnBranch
    <3>3. turn[k].work \notin DOMAIN repo.local => turn[k].work \notin DOMAIN repo'.local
      BY <1>3, <3>2 DEF MakesOwn
    <3>4. turn[k].branch \in DOMAIN repo.local =>
            /\ turn[k].branch \in DOMAIN repo'.local
            /\ repo'.local[turn[k].branch] = repo.local[turn[k].branch]
      BY <1>3, <3>1, <3>2 DEF Aside
    <3>5. First(k)' <=> First(k)
      BY <2>1 DEF First
    <3>6. UncommittedIn(k)' = UncommittedIn(k)
      BY <2>1 DEF UncommittedIn
    <3>7. /\ turn[k].pc = "prepare" /\ First(k) => turn[k].work \notin DOMAIN repo'.local
          /\ turn[k].pc \in {"prepare", "row", "run"} =>
               /\ First(k) <=> ~row[k].session
               /\ First(k) \/ turn[k].work \notin DOMAIN repo'.local
          /\ turn[k].pc \in {"row", "run"} /\ First(k) =>
               /\ UncommittedIn(k) = {} /\ turn[k].branch \in DOMAIN repo'.local
               /\ repo'.local[turn[k].branch] \subseteq repo'.remote[Default]
      BY <2>1, <3>1, <3>3, <3>4 DEF FreshOK, MakesOwn
    <3>8. QED
      BY <2>1, <3>5, <3>6, <3>7 DEF FreshOK
  <2>4. QED
    BY <2>2, <2>3
<1>4. QED
  BY <1>2, <1>3 DEF FreshInv

\* A turn whose CLI is not still to run.
LEMMA FreshDone ==
  ASSUME NEW j \in Jobs, TypeInv, NamesInv, KeptOffDefault, FreshInv, Kept, turn[j].pc # "none",
         Aside(j), MakesOwn(j), turn'[j].pc \notin {"prepare", "row", "run"}
  PROVE  FreshInv'
<1>1. FreshOK(j)'
  BY DEF FreshOK
<1>2. QED
  BY <1>1, FreshAside

LEMMA MakesNone ==
  ASSUME NEW j \in Jobs, NamesInv, repo'.local = repo.local, repo'.remote = repo.remote,
         \A k \in Jobs : k # j => row'[k] = row[k]
  PROVE  MakesOwn(j)
  BY DEF MakesOwn, NamesInv, MainInv

LEMMA FailFresh ==
  ASSUME NEW j \in Jobs, TypeInv, NamesInv, KeptOffDefault, FreshInv, Kept, turn[j].pc # "none",
         FailTurn(j), Same(repo, repo'), produced' = produced, published \subseteq published'
  PROVE  FreshInv'
<1>1. /\ turn'[j].pc = "none" /\ \A k \in Jobs : k # j => turn'[k] = turn[k] /\ row'[k] = row[k]
  BY BrokenDoes DEF Turned, Rowed
<1>2. Aside(j) /\ MakesOwn(j)
  BY <1>1, AsideOfSame, MakesNone DEF Same
<1>3. QED
  BY <1>1, <1>2, FreshDone

\* A worktree that is removed with the branch of the turn.
LEMMA RemovedMakes ==
  ASSUME NEW j \in Jobs, TypeInv, NamesInv, repo' = Removed(repo, j, turn[j].branch),
         \A k \in Jobs : k # j => row'[k] = row[k]
  PROVE  MakesOwn(j)
<1>1. /\ repo'.remote = repo.remote /\ DOMAIN repo'.local = DOMAIN repo.local \ {turn[j].branch}
  BY RemovedRepo
<1>2. QED
  BY <1>1 DEF MakesOwn, NamesInv, MainInv

\* What a command makes.
LEMMA MovedMakes ==
  ASSUME NEW j \in Jobs, TypeInv, NamesInv, KeptOffDefault, turn[j].plan # <<>>, Moved(j)
  PROVE  MakesOwn(j)
<1> DEFINE c == Head(turn[j].plan)
           d == Dir(j)
           b == turn[j].branch
           cur == repo.tree[d].branch
<1>1. CommandAt(j)
  BY AtCommand DEF NamesInv, JobOK
<1>2. Names(j, b) /\ b \in Turns /\ b[1] = j
  BY <1>1, WorkOf, OwnBranch DEF CommandAt
<1>3. b[2] <= turnCount
  BY <1>2, OwnBranch DEF Names
<1>4. LocalEffect(c, repo, repo', d, b) /\ RemoteEffect(c, repo, repo', d) /\ row' = row
  BY DEF Moved, Result
<1>5. Default \in DOMAIN repo.remote
  BY DEF NamesInv, MainInv
<1>6. Default \in DOMAIN repo'.remote /\ repo.remote[Default] \subseteq repo'.remote[Default]
  <2>1. CASE c = "push"
    <3>1. CASE cur = Default
      BY <1>4, <1>5, <2>1, <3>1 DEF RemoteEffect
    <3>2. CASE cur # Default
      BY <1>4, <1>5, <2>1, <3>2 DEF RemoteEffect
    <3>3. QED
      BY <3>1, <3>2
  <2>2. CASE c # "push"
    BY <1>4, <1>5, <2>2 DEF RemoteEffect
  <2>3. QED
    BY <2>1, <2>2
<1>7. \A x \in DOMAIN repo'.local : x \in DOMAIN repo.local \/ x = b
  BY <1>4 DEF LocalEffect
<1> HIDE DEF b
<1>8. QED
  BY <1>2, <1>3, <1>4, <1>6, <1>7 DEF MakesOwn

LEMMA MovedFresh ==
  ASSUME NEW j \in Jobs, TypeInv, NamesInv, TypeInv', KeptOffDefault, FreshInv, Kept,
         turn[j].plan # <<>>, Moved(j), produced' = produced, published \subseteq published'
  PROVE  FreshInv'
<1> DEFINE c == Head(turn[j].plan)
           n == Next(Tail(turn[j].plan))
           b == turn[j].branch
           pc == turn[j].pc
<1>1. CommandAt(j) /\ FreshOK(j) /\ PlanOf(j)
  BY AtCommand DEF NamesInv, JobOK, FreshInv
<1>2. pc # "none" /\ pc \notin {"row", "run"}
  BY <1>1 DEF CommandAt
<1>3. Aside(j) /\ MakesOwn(j) /\ (Worktrees' <=> Worktrees)
  BY MovedAside, MovedMakes, SetsKept DEF Kept
<1>4. /\ turn'[j].pc = pc /\ turn'[j].plan = Tail(turn[j].plan)
      /\ turn'[j].branch = b /\ turn'[j].work = turn[j].work
  BY MovedDoes DEF Turned
<1>5. row' = row /\ LocalEffect(c, repo, repo', Dir(j), b)
  BY DEF Moved, Result
<1>6. First(j)' <=> First(j)
  BY <1>4 DEF First
<1>7. CASE pc # "prepare"
  BY <1>2, <1>3, <1>4, <1>7, FreshDone
<1>8. CASE pc = "prepare" /\ First(j)
  <2>1. ~Worktrees /\ c \in {"stash", "clean", "checkoutDefault", "resetToRef", "create"}
    BY <1>1, <1>8 DEF CommandAt
  <2>2. turn[j].work \notin DOMAIN repo.local /\ ~row[j].session
    BY <1>1, <1>8 DEF FreshOK
  <2>3. c = "create" => turn'[j].plan = <<>>
    <3>1. c = "create" => n = "over"
      BY <1>1, PlanStep
    <3>2. Tail(turn[j].plan) \in Plans
      BY <1>1, PlanStep
    <3>3. QED
      BY <1>4, <3>1, <3>2, NextOf
  <2>4. c # "create" => DOMAIN repo'.local = DOMAIN repo.local
    BY <1>5, <2>1 DEF LocalEffect
  <2>5. turn'[j].plan # <<>> => turn'[j].work \notin DOMAIN repo'.local
    BY <1>4, <2>2, <2>3, <2>4
  <2>6. FreshOK(j)'
    BY <1>3, <1>4, <1>5, <1>6, <1>8, <2>1, <2>2, <2>5 DEF FreshOK
  <2>7. QED
    BY <1>2, <1>3, <2>6, FreshAside
<1>9. CASE pc = "prepare" /\ ~First(j)
  <2>1. turn[j].work \notin DOMAIN repo.local /\ row[j].session /\ turn[j].work # b
    BY <1>1, <1>9 DEF FreshOK, First
  <2>2. DOMAIN repo'.local \subseteq DOMAIN repo.local \cup {b}
    BY <1>5 DEF LocalEffect
  <2>3. turn'[j].work \notin DOMAIN repo'.local
    BY <1>4, <2>1, <2>2
  <2>4. FreshOK(j)'
    BY <1>4, <1>5, <1>6, <1>9, <2>1, <2>3 DEF FreshOK
  <2>5. QED
    BY <1>2, <1>3, <2>4, FreshAside
<1>10. QED
  BY <1>7, <1>8, <1>9

\* Every step of a turn is beside the other jobs.
LEMMA SameAside ==
  ASSUME NEW j \in Jobs, NamesInv, Same(repo, repo'), produced' = produced, published \subseteq published',
         \A k \in Jobs : k # j => turn'[k] = turn[k] /\ row'[k] = row[k]
  PROVE  Aside(j) /\ MakesOwn(j)
  BY AsideOfSame, MakesNone DEF Same

LEMMA FailAside ==
  ASSUME NEW j \in Jobs, TypeInv, NamesInv, turn[j].pc # "none", FailTurn(j), Same(repo, repo'),
         produced' = produced, published \subseteq published'
  PROVE  Aside(j) /\ MakesOwn(j)
<1>1. \A k \in Jobs : k # j => turn'[k] = turn[k] /\ row'[k] = row[k]
  BY BrokenDoes DEF Turned, Rowed
<1>2. QED
  BY <1>1, SameAside

LEMMA RunAside ==
  ASSUME NEW j \in Jobs, TypeInv, NamesInv, TypeInv', KeptOffDefault, RunCommand(j)
  PROVE  Aside(j) /\ MakesOwn(j)
<1>1. /\ turn[j].plan # <<>> /\ CommandAt(j) /\ Kept /\ produced' = produced
      /\ published \subseteq published'
      /\ Moved(j) \/ Broken(j) \/ Gone(j)
  BY RunCases
<1>2. turn[j].pc # "none"
  BY <1>1 DEF CommandAt
<1>3. CASE Moved(j)
  BY <1>1, <1>3, MovedAside, MovedMakes
<1>4. CASE Broken(j)
  BY <1>1, <1>2, <1>4, FailAside DEF Broken
<1>5. CASE Gone(j)
  <2>1. /\ Rowed(j, "none", NoBranch, FALSE, FALSE)
        /\ \/ /\ Worktrees
              /\ Turned(j, "none", <<>>, <<>>, NoBranch, FALSE)
              /\ repo' = repo \/ repo' = Removed(repo, j, turn[j].branch)
           \/ /\ Turned(j, "abandon", AbandonJobAndCleanup, turn[j].work, turn[j].branch, turn[j].pr)
              /\ repo' = repo
    BY <1>5, GoneDoes
  <2>2. \A k \in Jobs : k # j => turn'[k] = turn[k] /\ row'[k] = row[k]
    BY <2>1 DEF Turned, Rowed
  <2>3. CASE repo' = repo
    BY <1>1, <2>2, <2>3, SameAside DEF Same
  <2>4. CASE Worktrees /\ repo' = Removed(repo, j, turn[j].branch)
    BY <1>1, <1>2, <2>2, <2>4, RemovedAside, RemovedMakes
  <2>5. QED
    BY <2>1, <2>3, <2>4
<1>6. QED
  BY <1>1, <1>3, <1>4, <1>5

\* What the new worktree of a conversation is.
TreeMade(j) ==
  /\ repo'.tree[j] = [branch |-> turn[j].branch, tracked |-> {}, untracked |-> {}] /\ Beside(j)
  /\ repo'.remote = repo.remote
  /\ repo'.stash = IF hold THEN repo.stash \cup UncommittedIn(j) ELSE repo.stash
  /\ DOMAIN repo'.local = DOMAIN repo.local \cup {turn[j].branch}
  /\ repo'.local[turn[j].branch] = repo.remote[Default]
  /\ \A x \in DOMAIN repo.local : x # turn[j].branch => repo'.local[x] = repo.local[x]

LEMMA TreeMadeIs ==
  ASSUME NEW j \in Jobs, TypeInv, NamesInv, turn[j].pc # "none",
         repo' = Made(repo, j, turn[j].branch,
                      IF hold THEN repo.stash \cup UncommittedIn(j) ELSE repo.stash)
  PROVE  TreeMade(j)
<1> DEFINE s == IF hold THEN repo.stash \cup UncommittedIn(j) ELSE repo.stash
           b == turn[j].branch
<1>1. repo \in Repos /\ j \in Dirs /\ Default \in DOMAIN repo.remote
  BY DEF TypeInv, Dirs, NamesInv, MainInv
<1>2. b \in Branches /\ s \in SUBSET Turns /\ repo' = Made(repo, j, b, s)
  BY <1>1, WorkOf, RepoFields DEF UncommittedIn
<1> HIDE DEF s, b
<1>3. /\ repo'.tree[j] = [branch |-> b, tracked |-> {}, untracked |-> {}] /\ Beside(j)
      /\ repo'.remote = repo.remote /\ repo'.stash = s
      /\ DOMAIN repo'.local = DOMAIN repo.local \cup {b}
      /\ repo'.local[b] = repo.remote[Default]
      /\ \A x \in DOMAIN repo.local : x # b => repo'.local[x] = repo.local[x]
  BY <1>1, <1>2, MadeRepo
<1>4. QED
  BY <1>3 DEF TreeMade, b, s

LEMMA PrepareTreeAside ==
  ASSUME NEW j \in Jobs, TypeInv, NamesInv, KeptOffDefault,
         PrepareForNewConversationWithWorktree(j)
  PROVE  Aside(j) /\ MakesOwn(j)
<1>1. /\ produced' = produced /\ published' = published /\ turn[j].pc = "prepare"
      /\ \/ /\ Turned(j, "row", <<>>, turn[j].work, turn[j].branch, turn[j].pr)
            /\ row' = row
            /\ repo' = Made(repo, j, turn[j].branch,
                            IF hold THEN repo.stash \cup UncommittedIn(j) ELSE repo.stash)
         \/ FailTurn(j) /\ repo' = repo
  BY PrepareTreeDoes
<1>2. CASE FailTurn(j) /\ repo' = repo
  BY <1>1, <1>2, FailAside DEF Same
<1>3. ASSUME Turned(j, "row", <<>>, turn[j].work, turn[j].branch, turn[j].pr), row' = row,
             repo' = Made(repo, j, turn[j].branch,
                          IF hold THEN repo.stash \cup UncommittedIn(j) ELSE repo.stash)
      PROVE  Aside(j) /\ MakesOwn(j)
  <2>1. \A k \in Jobs : k # j => turn'[k] = turn[k]
    BY <1>3 DEF Turned
  <2>2. Names(j, turn[j].branch) /\ turn[j].branch \in Turns /\ turn[j].branch[1] = j
    BY <1>1, WorkOf, OwnBranch
  <2>3. turn[j].branch[2] <= turnCount
    BY <2>2, OwnBranch DEF Names
  <2>4. TreeMade(j)
    BY <1>1, <1>3, TreeMadeIs
  <2>5. Aside(j)
    BY <1>1, <2>1, <2>2, <2>4 DEF Aside, TreeMade, Beside
  <2>6. MakesOwn(j)
    BY <1>3, <2>2, <2>3, <2>4 DEF MakesOwn, TreeMade, NamesInv, MainInv
  <2>7. QED
    BY <2>5, <2>6
<1>4. QED
  BY <1>1, <1>2, <1>3

LEMMA RunCLIAside ==
  ASSUME NEW j \in Jobs, TypeInv, NamesInv, TypeInv', KeptOffDefault, RunCLI(j)
  PROVE  Aside(j) /\ MakesOwn(j)
<1> DEFINE w == turn[j].work
<1>1. /\ Kept /\ published' = published /\ turn[j].pc = "run"
      /\ \E did \in {{}, {w}} : CLIDid(j, did) /\ produced' = produced \cup did
      /\ \/ \E pc \in {"commit", "finish"} :
              Turned(j, pc, turn[j].plan, w, turn[j].branch, turn[j].pr) /\ row' = row
         \/ /\ Turned(j, "none", <<>>, <<>>, NoBranch, FALSE)
            /\ \E status \in {"failed", row[j].status} :
                 Rowed(j, status, row[j].branch, row[j].session, row[j].pr)
         \/ /\ Turned(j, "save", turn[j].plan, w, turn[j].branch, turn[j].pr)
            /\ \E status \in {"completed", "failed"} :
                 Rowed(j, status, row[j].branch, TRUE, row[j].pr)
  BY RunCLIDoes
<1>2. PICK did \in {{}, {w}} : CLIDid(j, did) /\ produced' = produced \cup did
  BY <1>1
<1>3. \A k \in Jobs : k # j => turn'[k] = turn[k] /\ row'[k] = row[k]
  BY <1>1 DEF Turned, Rowed
<1>4. w \in Turns /\ w[1] = j /\ w[2] <= turnCount
  BY <1>1 DEF NamesInv, JobOK, TurnOf
<1>5. \A k \in Jobs : k # j => repo'.tree[k] = repo.tree[k]
  BY <1>1, <1>2, CLIPlace
<1>6. /\ \A x \in DOMAIN repo.local :
           \/ x \in DOMAIN repo'.local /\ repo'.local[x] = repo.local[x]
           \/ x = w
      /\ DOMAIN repo'.local \subseteq DOMAIN repo.local \cup {w}
      /\ repo'.remote = repo.remote
  BY <1>2 DEF CLIDid
<1>7. produced' = produced \/ produced' = produced \cup {turn[j].work}
  BY <1>2
<1> HIDE DEF w
<1>8. Aside(j)
  BY <1>1, <1>3, <1>4, <1>5, <1>6, <1>7 DEF Aside
<1>9. MakesOwn(j)
  BY <1>3, <1>4, <1>6 DEF MakesOwn, NamesInv, MainInv
<1>10. QED
  BY <1>8, <1>9

LEMMA StopAside ==
  ASSUME NEW j \in Jobs, TypeInv, NamesInv, StopBeforeSession(j)
  PROVE  Aside(j) /\ MakesOwn(j)
<1>1. /\ produced' = produced /\ published' = published /\ turn[j].pc = "run"
      /\ Turned(j, "none", <<>>, <<>>, NoBranch, FALSE)
      /\ Rowed(j, "completed", NoBranch, FALSE, FALSE)
      /\ repo' = IF Worktrees THEN Removed(repo, j, turn[j].branch) ELSE repo
  BY StopDoes
<1>2. \A k \in Jobs : k # j => turn'[k] = turn[k] /\ row'[k] = row[k]
  BY <1>1 DEF Turned, Rowed
<1>3. CASE Worktrees
  BY <1>1, <1>2, <1>3, RemovedAside, RemovedMakes
<1>4. CASE ~Worktrees
  BY <1>1, <1>2, <1>4, SameAside DEF Same
<1>5. QED
  BY <1>3, <1>4

\* The steps that leave the repository.
Leaves(j) ==
  /\ Kept /\ repo' = repo /\ turn[j].pc # "none" /\ produced' = produced /\ published' = published
  /\ \A k \in Jobs : k # j => turn'[k] = turn[k] /\ row'[k] = row[k]

LEMMA LeavesAside ==
  ASSUME NEW j \in Jobs, NamesInv, Leaves(j)
  PROVE  Aside(j) /\ MakesOwn(j)
  BY SameAside DEF Leaves, Same

\* The stages of such a step: on to the CLI, past a commit, or from commit to push.
Onward(j) ==
  /\ turn'[j].work = turn[j].work /\ turn'[j].branch = turn[j].branch
  /\ row'[j].session = row[j].session
  /\ \/ turn[j].pc = "prepare" /\ turn[j].plan = <<>> /\ ~(Worktrees /\ First(j)) /\ turn'[j].pc = "row"
     \/ turn[j].pc = "row" /\ turn'[j].pc = "run"

Past(j) ==
  /\ turn[j].pc \in {"pushing", "opening", "finish", "footer", "saving", "abandon"}
  /\ turn[j].pc \in {"pushing", "saving"} => turn[j].plan = <<>>
  /\ turn'[j].pc \notin {"prepare", "row", "run", "abandon"}

Saving(j) ==
  /\ turn[j].pc \in {"commit", "save"}
  /\ turn'[j].pc \notin {"prepare", "row", "run", "abandon"}
  /\ \/ j \in AskJobs \/ UncommittedIn(Dir(j)) = {} \/ turn[j].work \in writtenOff'
     \/ /\ turn'[j].work = turn[j].work
        /\ turn'[j].pc \in {"pushing", "saving"} /\ Next(turn'[j].plan) \in {"message", "addAll"}

Quiet(j) ==
  /\ Leaves(j) /\ writtenOff \subseteq writtenOff'
  /\ Onward(j) \/ Past(j) \/ Saving(j)

LEMMA PreparedQuiet ==
  ASSUME NEW j \in Jobs, TypeInv, NamesInv, Prepared(j) \/ UpdateJobData(j)
  PROVE  Quiet(j)
<1>1. CASE Prepared(j)
  <2>1. /\ Kept /\ repo' = repo /\ row' = row
        /\ produced' = produced /\ published' = published /\ writtenOff' = writtenOff
        /\ turn[j].pc = "prepare" /\ turn[j].plan = <<>> /\ ~(Worktrees /\ First(j))
        /\ Turned(j, "row", <<>>, turn[j].work, turn[j].branch, turn[j].pr)
    BY <1>1, PreparedDoes
  <2>2. QED
    BY <2>1 DEF Turned, Quiet, Leaves, Onward
<1>2. CASE UpdateJobData(j)
  <2>1. /\ Kept /\ repo' = repo
        /\ produced' = produced /\ published' = published /\ writtenOff' = writtenOff
        /\ turn[j].pc = "row"
        /\ Turned(j, "run", turn[j].plan, turn[j].work, turn[j].branch, turn[j].pr)
        /\ Rowed(j, "in_progress", turn[j].branch, row[j].session, row[j].pr)
    BY <1>2, UpdateDoes
  <2>2. QED
    BY <2>1 DEF Turned, Rowed, Quiet, Leaves, Onward
<1>3. QED
  BY <1>1, <1>2

LEMMA FailQuiet ==
  ASSUME NEW j \in Jobs, TypeInv, NamesInv, Kept, repo' = repo, turn[j].pc # "none",
         produced' = produced, published' = published, FailTurn(j)
  PROVE  /\ Leaves(j) /\ turn'[j].pc = "none" /\ writtenOff \subseteq writtenOff'
         /\ turn[j].work \in writtenOff'
<1>1. /\ Turned(j, "none", <<>>, <<>>, NoBranch, FALSE)
      /\ Rowed(j, FailedStatus(j),
               row[j].branch, row[j].session, row[j].pr)
      /\ writtenOff' = writtenOff \cup {turn[j].work}
  BY BrokenDoes
<1>2. turn'[j].pc = "none" /\ \A k \in Jobs : k # j => turn'[k] = turn[k] /\ row'[k] = row[k]
  BY <1>1 DEF Turned, Rowed
<1>3. QED
  BY <1>1, <1>2 DEF Leaves

LEMMA SavingQuiet ==
  ASSUME NEW j \in Jobs, TypeInv, NamesInv,
         \/ CommitStoppedWork(j)
         \/ AutoCommitChangesIfNeeded(j) \/ AutoCommitChangesInWorktreeIfNeeded(j)
  PROVE  Quiet(j)
<1>1. CASE CommitStoppedWork(j)
  <2>1. /\ Kept /\ repo' = repo /\ row' = row
        /\ produced' = produced /\ published' = published /\ turn[j].pc = "save"
        /\ \/ /\ Turned(j, "none", <<>>, <<>>, NoBranch, FALSE)
              /\ \/ j \in AskJobs \/ UncommittedIn(Dir(j)) = {}
                    \/ writtenOff' = writtenOff \cup {turn[j].work}
              /\ writtenOff' \in {writtenOff, writtenOff \cup {turn[j].work}}
           \/ /\ Turned(j, "saving", StoppedWorkPlan, turn[j].work, turn[j].branch, turn[j].pr)
              /\ writtenOff' = writtenOff
    BY <1>1, StoppedDoes
  <2>2. Leaves(j) /\ writtenOff \subseteq writtenOff'
    BY <2>1 DEF Turned, Leaves
  <2>3. Saving(j)
    BY <2>1, Plan DEF Turned, Saving
  <2>4. QED
    BY <2>2, <2>3 DEF Quiet
<1>2. CASE AutoCommitChangesIfNeeded(j) \/ AutoCommitChangesInWorktreeIfNeeded(j)
  <2> DEFINE b == repo.tree[Dir(j)].branch
  <2>1. /\ Kept /\ repo' = repo /\ produced' = produced /\ published' = published
        /\ turn[j].pc = "commit"
        /\ \/ /\ row' = row /\ writtenOff' = writtenOff
              /\ \/ UncommittedIn(Dir(j)) # {} /\ Turned(j, "pushing", CommitPlan, turn[j].work, b, turn[j].pr)
                 \/ UncommittedIn(Dir(j)) = {} /\ Turned(j, "finish", <<>>, turn[j].work, b, turn[j].pr)
           \/ FailTurn(j)
    BY <1>2, AutoCommitDoes
  <2> HIDE DEF b
  <2>2. CASE FailTurn(j)
    BY <2>1, <2>2, FailQuiet DEF Quiet, Saving
  <2>3. ASSUME row' = row, writtenOff' = writtenOff,
               \/ Turned(j, "pushing", CommitPlan, turn[j].work, b, turn[j].pr)
               \/ UncommittedIn(Dir(j)) = {} /\ Turned(j, "finish", <<>>, turn[j].work, b, turn[j].pr)
        PROVE  Quiet(j)
    <3>1. Leaves(j)
      BY <2>1, <2>3 DEF Turned, Leaves
    <3>2. Saving(j)
      BY <2>1, <2>3, Plan DEF Turned, Saving
    <3>3. QED
      BY <2>3, <3>1, <3>2 DEF Quiet
  <2>4. QED
    BY <2>1, <2>2, <2>3
<1>3. QED
  BY <1>1, <1>2

LEMMA PastQuiet ==
  ASSUME NEW j \in Jobs, TypeInv, NamesInv,
         \/ handlePRCreationOrUpdate(j) \/ handlePRCreationOrUpdateInWorktree(j)
         \/ Opened(j) \/ FinishTurnWithReply(j) \/ EndTurn(j)
  PROVE  Quiet(j)
<1>1. CASE handlePRCreationOrUpdate(j) \/ handlePRCreationOrUpdateInWorktree(j)
  <2>1. /\ Kept /\ repo' = repo /\ produced' = produced /\ published' = published
        /\ turn[j].pc = "pushing" /\ turn[j].plan = <<>>
        /\ \/ /\ row' = row /\ writtenOff' = writtenOff
              /\ \/ \E pr \in BOOLEAN : Turned(j, "finish", <<>>, turn[j].work, turn[j].branch, pr)
                 \/ Turned(j, "opening", PullRequestPlan, turn[j].work, turn[j].branch, turn[j].pr)
           \/ FailTurn(j)
    BY <1>1, PullRequestDoes
  <2>2. CASE FailTurn(j)
    BY <2>1, <2>2, FailQuiet DEF Quiet, Past
  <2>3. ASSUME row' = row, writtenOff' = writtenOff,
               \/ \E pr \in BOOLEAN : Turned(j, "finish", <<>>, turn[j].work, turn[j].branch, pr)
               \/ Turned(j, "opening", PullRequestPlan, turn[j].work, turn[j].branch, turn[j].pr)
        PROVE  Quiet(j)
    <3>1. turn'[j].pc \in {"finish", "opening"} /\ \A k \in Jobs : k # j => turn'[k] = turn[k]
      BY <2>3 DEF Turned
    <3>2. QED
      BY <2>1, <2>3, <3>1 DEF Quiet, Leaves, Past
  <2>4. QED
    BY <2>1, <2>2, <2>3
<1>2. CASE Opened(j)
  <2>1. /\ Kept /\ repo' = repo /\ row' = row
        /\ produced' = produced /\ published' = published /\ writtenOff' = writtenOff
        /\ turn[j].pc = "opening"
        /\ Turned(j, "finish", <<>>, turn[j].work, turn[j].branch, TRUE)
    BY <1>2, OpenedDoes
  <2>2. QED
    BY <2>1 DEF Turned, Quiet, Leaves, Past
<1>3. CASE FinishTurnWithReply(j)
  <2>1. /\ Kept /\ repo' = repo /\ produced' = produced /\ published' = published
        /\ turn[j].pc = "finish"
        /\ \/ /\ writtenOff' = writtenOff
              /\ Turned(j, "footer", turn[j].plan, turn[j].work, turn[j].branch, turn[j].pr)
              /\ \E pr \in BOOLEAN :
                   Rowed(j, "completed", IF j \in AskJobs THEN row[j].branch ELSE turn[j].branch,
                         TRUE, pr)
           \/ FailTurn(j)
    BY <1>3, FinishDoes
  <2>2. CASE FailTurn(j)
    BY <2>1, <2>2, FailQuiet DEF Quiet, Past
  <2>3. ASSUME writtenOff' = writtenOff,
               Turned(j, "footer", turn[j].plan, turn[j].work, turn[j].branch, turn[j].pr),
               \E pr \in BOOLEAN :
                 Rowed(j, "completed", IF j \in AskJobs THEN row[j].branch ELSE turn[j].branch,
                       TRUE, pr)
        PROVE  Quiet(j)
    <3>1. turn'[j].pc = "footer" /\ \A k \in Jobs : k # j => turn'[k] = turn[k] /\ row'[k] = row[k]
      BY <2>3 DEF Turned, Rowed
    <3>2. QED
      BY <2>1, <2>3, <3>1 DEF Quiet, Leaves, Past
  <2>4. QED
    BY <2>1, <2>2, <2>3
<1>4. CASE EndTurn(j)
  <2>1. /\ Kept /\ repo' = repo /\ row' = row
        /\ produced' = produced /\ published' = published /\ writtenOff' = writtenOff
        /\ \/ turn[j].pc = "footer"
           \/ turn[j].pc \in {"saving", "abandon"} /\ turn[j].plan = <<>>
        /\ Turned(j, "none", <<>>, <<>>, NoBranch, FALSE)
    BY <1>4, EndTurnDoes
  <2>2. turn[j].pc # "none" /\ turn'[j].pc = "none" /\ \A k \in Jobs : k # j => turn'[k] = turn[k]
    BY <2>1 DEF Turned
  <2>3. QED
    BY <2>1, <2>2 DEF Quiet, Leaves, Past
<1>5. QED
  BY <1>1, <1>2, <1>3, <1>4

LEMMA QuietStep ==
  ASSUME NEW j \in Jobs, TypeInv, NamesInv, TurnStep(j)
  PROVE  \/ Quiet(j)
         \/ RunCommand(j) \/ PrepareForNewConversationWithWorktree(j) \/ RunCLI(j)
         \/ StopBeforeSession(j)
  BY PreparedQuiet, SavingQuiet, PastQuiet DEF TurnStep

LEMMA RunFresh ==
  ASSUME NEW j \in Jobs, TypeInv, NamesInv, TypeInv', KeptOffDefault, FreshInv, RunCommand(j)
  PROVE  FreshInv'
<1>1. /\ turn[j].plan # <<>> /\ CommandAt(j) /\ Kept /\ produced' = produced
      /\ published \subseteq published'
      /\ Moved(j) \/ Broken(j) \/ Gone(j)
  BY RunCases
<1>2. turn[j].pc # "none" /\ Aside(j) /\ MakesOwn(j)
  BY <1>1, RunAside DEF CommandAt
<1>3. CASE Moved(j)
  BY <1>1, <1>3, MovedFresh
<1>4. CASE Broken(j)
  BY <1>1, <1>2, <1>4, FailFresh DEF Broken
<1>5. CASE Gone(j)
  <2>1. turn'[j].pc \in {"none", "abandon"}
    BY <1>5, GoneDoes DEF Turned
  <2>2. QED
    BY <1>1, <1>2, <2>1, FreshDone
<1>6. QED
  BY <1>1, <1>3, <1>4, <1>5

LEMMA PrepareTreeFresh ==
  ASSUME NEW j \in Jobs, TypeInv, NamesInv, TypeInv', KeptOffDefault, FreshInv,
         PrepareForNewConversationWithWorktree(j)
  PROVE  FreshInv'
<1>1. /\ Kept /\ produced' = produced /\ published' = published /\ Worktrees
      /\ turn[j].pc = "prepare" /\ First(j)
      /\ \/ /\ Turned(j, "row", <<>>, turn[j].work, turn[j].branch, turn[j].pr)
            /\ row' = row
            /\ repo' = Made(repo, j, turn[j].branch,
                            IF hold THEN repo.stash \cup UncommittedIn(j) ELSE repo.stash)
         \/ FailTurn(j) /\ repo' = repo
  BY PrepareTreeDoes
<1>2. CASE FailTurn(j) /\ repo' = repo
  BY <1>1, <1>2, FailFresh DEF Same
<1>3. ASSUME Turned(j, "row", <<>>, turn[j].work, turn[j].branch, turn[j].pr), row' = row,
             repo' = Made(repo, j, turn[j].branch,
                          IF hold THEN repo.stash \cup UncommittedIn(j) ELSE repo.stash)
      PROVE  FreshInv'
  <2>1. /\ turn'[j].pc = "row" /\ turn'[j].work = turn[j].work /\ turn'[j].branch = turn[j].branch
    BY <1>3 DEF Turned
  <2>2. First(j)' /\ ~row[j].session
    BY <1>1, <2>1 DEF First, FreshInv, FreshOK
  <2>3. TreeMade(j)
    BY <1>1, <1>3, TreeMadeIs
  <2>4. /\ UncommittedIn(j)' = {} /\ turn[j].branch \in DOMAIN repo'.local
        /\ repo'.local[turn[j].branch] = repo'.remote[Default]
    BY <2>3 DEF TreeMade, UncommittedIn
  <2>5. FreshOK(j)'
    BY <1>3, <2>1, <2>2, <2>4 DEF FreshOK
  <2>6. QED
    BY <1>1, <2>5, PrepareTreeAside, FreshAside
<1>4. QED
  BY <1>1, <1>2, <1>3

LEMMA QuietFresh ==
  ASSUME NEW j \in Jobs, TypeInv, NamesInv, KeptOffDefault, FreshInv, Quiet(j)
  PROVE  FreshInv'
<1>1. Leaves(j) /\ Aside(j) /\ MakesOwn(j) /\ Kept /\ turn[j].pc # "none" /\ repo' = repo
  BY LeavesAside DEF Quiet, Leaves
<1>2. CASE Onward(j)
  <2>1. (First(j)' <=> First(j)) /\ UncommittedIn(j)' = UncommittedIn(j) /\ (Worktrees' <=> Worktrees)
    BY <1>1, <1>2, SetsKept DEF Onward, First, UncommittedIn, Kept
  <2>2. FreshOK(j)
    BY DEF FreshInv
  <2>3. ASSUME turn[j].pc = "prepare", ~(Worktrees /\ First(j)), turn'[j].pc = "row"
        PROVE  FreshOK(j)'
    BY <1>1, <1>2, <2>1, <2>2, <2>3 DEF FreshOK, Onward
  <2>4. ASSUME turn[j].pc = "row", turn'[j].pc = "run"
        PROVE  FreshOK(j)'
    BY <1>1, <1>2, <2>1, <2>2, <2>4 DEF FreshOK, Onward
  <2>5. FreshOK(j)'
    BY <1>2, <2>3, <2>4 DEF Onward
  <2>6. QED
    BY <1>1, <2>5, FreshAside
<1>3. CASE Past(j) \/ Saving(j)
  BY <1>1, <1>3, FreshDone DEF Past, Saving
<1>4. QED
  BY <1>2, <1>3 DEF Quiet

LEMMA TurnFresh ==
  ASSUME NEW j \in Jobs, TypeInv, NamesInv, TypeInv', KeptOffDefault, FreshInv, TurnStep(j)
  PROVE  FreshInv'
<1>1. CASE RunCLI(j)
  <2>1. /\ Kept /\ turn[j].pc = "run"
        /\ \/ \E pc \in {"commit", "finish"} :
                Turned(j, pc, turn[j].plan, turn[j].work, turn[j].branch, turn[j].pr)
           \/ Turned(j, "none", <<>>, <<>>, NoBranch, FALSE)
           \/ Turned(j, "save", turn[j].plan, turn[j].work, turn[j].branch, turn[j].pr)
    BY <1>1, RunCLIDoes
  <2>2. turn'[j].pc \in {"commit", "finish", "none", "save"}
    BY <2>1 DEF Turned
  <2>3. QED
    BY <1>1, <2>1, <2>2, RunCLIAside, FreshDone
<1>2. CASE StopBeforeSession(j)
  <2>1. Kept /\ turn[j].pc = "run" /\ turn'[j].pc = "none"
    BY <1>2, StopDoes DEF Turned
  <2>2. QED
    BY <1>2, <2>1, StopAside, FreshDone
<1>3. QED
  BY <1>1, <1>2, QuietStep, QuietFresh, RunFresh, PrepareTreeFresh

LEMMA BeginFresh ==
  ASSUME NEW j \in Jobs, TypeInv, NamesInv, TypeInv', KeptOffDefault, FreshInv, BeginTurn(j)
  PROVE  FreshInv'
<1> DEFINE w == <<j, turnCount + 1>>
<1>1. /\ turnCount' = turnCount + 1 /\ w \in Turns /\ w # Default
      /\ UNCHANGED <<mode, repo, row>>
      /\ \A k \in Jobs : k # j => turn'[k] = turn[k]
      /\ turn'[j].pc = "prepare" /\ turn'[j].work = w
      /\ turn'[j].branch = IF row[j].session THEN row[j].branch ELSE w
  BY BeginDoes
<1>2. turnCount \in Nat /\ DOMAIN repo.local \subseteq Branches
  BY TurnsLeft, RepoFields DEF TypeInv
<1>3. w[2] = turnCount + 1
  OBVIOUS
<1> HIDE DEF w
<1>4. \A b \in DOMAIN repo.local \ {Default} : b[2] \in Nat /\ b[2] <= turnCount
  BY <1>2, TurnsLeft DEF FreshInv, Branches
<1>5. w \notin DOMAIN repo.local
  BY <1>1, <1>2, <1>3, <1>4
<1>6. \A b \in DOMAIN repo'.local \ {Default} : b[2] <= turnCount'
  BY <1>1, <1>2, <1>4
<1>7. row[j].session => row[j].branch # w
  <2>1. row[j].session => Names(j, row[j].branch) /\ row[j].branch \in Turns
    BY OwnBranch DEF NamesInv, JobOK, RowOf
  <2>2. row[j].session => row[j].branch[2] <= turnCount
    BY <2>1, OwnBranch DEF Names
  <2>3. QED
    BY <1>2, <1>3, <2>2
<1>8. First(j)' <=> ~row[j].session
  BY <1>1, <1>7 DEF First
<1>9. (Worktrees' <=> Worktrees)
  BY <1>1, SetsKept
<1>10. ASSUME NEW k \in Jobs PROVE FreshOK(k)'
  <2>1. CASE k = j
    BY <1>1, <1>5, <1>8, <1>9, <2>1 DEF FreshOK
  <2>2. CASE k # j
    <3>1. FreshOK(k) /\ turn'[k] = turn[k]
      BY <1>1, <2>2 DEF FreshInv
    <3>2. (First(k)' <=> First(k)) /\ UncommittedIn(k)' = UncommittedIn(k)
      BY <1>1, <3>1 DEF First, UncommittedIn
    <3>3. QED
      BY <1>1, <1>9, <3>1, <3>2 DEF FreshOK
  <2>3. QED
    BY <2>1, <2>2
<1>11. QED
  BY <1>6, <1>10 DEF FreshInv

\* Beside the turns.
LEMMA StillFresh ==
  ASSUME TypeInv, NamesInv, KeptOffDefault, FreshInv, mode' = mode, turnCount' = turnCount,
         DOMAIN repo'.local \subseteq DOMAIN repo.local,
         repo.remote[Default] \subseteq repo'.remote[Default],
         \A k \in Jobs :
           \/ turn'[k] = NoTurn
           \/ /\ turn'[k] = turn[k] /\ row'[k] = row[k] /\ repo'.tree[k] = repo.tree[k]
              /\ \A b \in DOMAIN repo.local \cap {row[k].branch, repo.tree[k].branch} :
                   b \in DOMAIN repo'.local /\ repo'.local[b] = repo.local[b]
  PROVE  FreshInv'
<1>1. \A b \in DOMAIN repo'.local \ {Default} : b[2] <= turnCount'
  BY DEF FreshInv
<1>2. Worktrees' <=> Worktrees
  BY SetsKept
<1>3. ASSUME NEW k \in Jobs PROVE FreshOK(k)'
  <2>1. CASE turn'[k] = NoTurn
    BY <2>1, NoTurnIs DEF FreshOK
  <2>2. CASE /\ turn'[k] = turn[k] /\ row'[k] = row[k] /\ repo'.tree[k] = repo.tree[k]
             /\ \A b \in DOMAIN repo.local \cap {row[k].branch, repo.tree[k].branch} :
                  b \in DOMAIN repo'.local /\ repo'.local[b] = repo.local[b]
    <3>1. FreshOK(k) /\ JobOK(k)
      BY DEF FreshInv, NamesInv
    <3>2. (First(k)' <=> First(k)) /\ UncommittedIn(k)' = UncommittedIn(k)
      BY <2>2 DEF First, UncommittedIn
    <3>3. Worktrees /\ turn[k].pc \in {"row", "run"} => turn[k].branch \in {row[k].branch, repo.tree[k].branch}
      BY <3>1 DEF JobOK, PlaceOf, Dir
    <3>4. Worktrees /\ turn[k].pc \in {"row", "run"} /\ First(k) =>
            /\ UncommittedIn(k) = {} /\ turn[k].branch \in DOMAIN repo'.local
            /\ repo'.local[turn[k].branch] \subseteq repo'.remote[Default]
      BY <2>2, <3>1, <3>3 DEF FreshOK
    <3>5. QED
      BY <1>2, <2>2, <3>1, <3>2, <3>4 DEF FreshOK
  <2>3. QED
    BY <2>1, <2>2
<1>4. QED
  BY <1>1, <1>3 DEF FreshInv

LEMMA BesideFresh ==
  ASSUME TypeInv, NamesInv, KeptOffDefault, FreshInv,
         \/ \E j \in Jobs : CompleteIdle(j) \/ NotResumed(j)
         \/ \E b \in Branches : MergePullRequest(b) \/ DeleteRemoteBranch(b)
         \/ Sweep \/ MarkShuttingDown \/ Exit \/ ClearHold \/ UNCHANGED deliveryVars
  PROVE  FreshInv'
<1>1. Default \in DOMAIN repo.remote /\ Default \in DOMAIN repo.local
  BY DEF NamesInv, MainInv
<1>2. ASSUME NEW j \in Jobs, turn[j] = NoTurn, turn' = turn, \A k \in Jobs : k # j => row'[k] = row[k],
             repo' = repo \/ repo' = Vacated(repo, j), mode' = mode, turnCount' = turnCount
      PROVE  FreshInv'
  <2>1. /\ repo'.local = repo.local /\ repo'.remote = repo.remote
        /\ \A k \in Jobs : k # j => repo'.tree[k] = repo.tree[k]
    BY <1>2, VacatedRepo DEF Beside
  <2>2. QED
    BY <1>2, <2>1, StillFresh
<1>3. ASSUME turn' = turn, row' = row, mode' = mode, turnCount' = turnCount,
             \A k \in Jobs : repo'.tree[k] = repo.tree[k], repo'.local = repo.local,
             repo.remote[Default] \subseteq repo'.remote[Default]
      PROVE  FreshInv'
  BY <1>3, StillFresh
<1>4. CASE \E j \in Jobs : CompleteIdle(j) \/ NotResumed(j)
  <2>1. PICK j \in Jobs : CompleteIdle(j) \/ NotResumed(j)
    BY <1>4
  <2>2. /\ Kept /\ turn' = turn /\ turn[j] = NoTurn
        /\ repo' = repo \/ repo' = Vacated(repo, j)
        /\ Rowed(j, "none", NoBranch, FALSE, FALSE)
    BY <2>1, IdleDoes
  <2>3. QED
    BY <1>2, <2>2 DEF Kept, Rowed
<1>5. CASE \E b \in Branches : MergePullRequest(b)
  <2>1. PICK b \in Branches : MergePullRequest(b)
    BY <1>5
  <2>2. /\ mode' = mode /\ turnCount' = turnCount /\ turn' = turn /\ row' = row
        /\ b \in DOMAIN repo.remote /\ repo' = Merged(repo, b)
    BY <2>1, MergeDoes DEF Kept
  <2>3. /\ \A k \in Jobs : repo'.tree[k] = repo.tree[k]
        /\ repo'.local = repo.local
        /\ repo'.remote[Default] = repo.remote[Default] \cup repo.remote[b]
    BY <1>1, <2>2, MergedRepo
  <2>4. QED
    BY <1>3, <2>2, <2>3
<1>6. CASE \E b \in Branches : DeleteRemoteBranch(b)
  <2>1. PICK b \in Branches : DeleteRemoteBranch(b)
    BY <1>6
  <2>2. /\ mode' = mode /\ turnCount' = turnCount /\ turn' = turn /\ row' = row
        /\ b # Default /\ repo' = Withdrawn(repo, b)
    BY <2>1, WithdrawDoes DEF Kept
  <2>3. /\ \A k \in Jobs : repo'.tree[k] = repo.tree[k]
        /\ repo'.local = repo.local
        /\ repo'.remote[Default] = repo.remote[Default]
    BY <1>1, <2>2, WithdrawnRepo
  <2>4. QED
    BY <1>3, <2>2, <2>3
<1>7. CASE Sweep
  <2>1. /\ mode' = mode /\ turnCount' = turnCount /\ turn' = turn /\ row' = row
        /\ \/ \E j \in Jobs : turn[j] = NoTurn /\ repo' = Vacated(repo, j)
           \/ \E b \in DOMAIN repo.local :
                /\ \A k \in Jobs : row[k].branch # b
                /\ \A d \in Dirs : repo.tree[d].branch # b
                /\ repo' = Dropped(repo, b)
    BY <1>7, SweepDoes DEF Kept
  <2>2. CASE \E j \in Jobs : turn[j] = NoTurn /\ repo' = Vacated(repo, j)
    BY <1>2, <2>1, <2>2
  <2>3. ASSUME NEW b \in DOMAIN repo.local, \A k \in Jobs : row[k].branch # b,
               \A d \in Dirs : repo.tree[d].branch # b, repo' = Dropped(repo, b)
        PROVE  FreshInv'
    <3>1. b \in Branches /\ \A k \in Jobs : repo.tree[k].branch # b
      BY <2>3, RepoFields DEF TypeInv, Dirs
    <3>2. /\ \A k \in Jobs : repo'.tree[k] = repo.tree[k]
          /\ DOMAIN repo'.local = DOMAIN repo.local \ {b} /\ repo'.remote = repo.remote
          /\ \A x \in DOMAIN repo'.local : repo'.local[x] = repo.local[x]
      BY <2>3, <3>1, DroppedRepo
    <3>3. \A k \in Jobs : \A x \in DOMAIN repo.local \cap {row[k].branch, repo.tree[k].branch} :
            x \in DOMAIN repo'.local /\ repo'.local[x] = repo.local[x]
      BY <2>3, <3>1, <3>2
    <3>4. QED
      BY <2>1, <3>2, <3>3, StillFresh
  <2>4. QED
    BY <2>1, <2>2, <2>3
<1>8. CASE Exit
  <2>1. /\ mode' = mode /\ turnCount' = turnCount /\ repo' = repo /\ \A j \in Jobs : turn'[j] = NoTurn
    BY <1>8, ExitDoes
  <2>2. QED
    BY <2>1, StillFresh
<1>9. CASE ClearHold \/ MarkShuttingDown
  BY <1>3, <1>9, MarkDoes DEF ClearHold
<1>10. CASE UNCHANGED deliveryVars
  BY <1>3, <1>10 DEF deliveryVars, historyVars, toldVars
<1>11. QED
  BY <1>4, <1>5, <1>6, <1>7, <1>8, <1>9, <1>10

LEMMA FreshInit == GitDeliveryInit => FreshInv
<1> SUFFICES ASSUME GitDeliveryInit PROVE FreshInv
  OBVIOUS
<1>1. DOMAIN repo.local = {Default}
  <2> DEFINE l == [b \in {Default} |-> {}]
  <2>1. repo = [tree |-> [d \in Dirs |-> IF d = Main THEN [NoTree EXCEPT !.branch = Default] ELSE NoTree],
                local |-> l, remote |-> l, tracking |-> {Default}, stash |-> {},
                pr |-> [b \in Branches |-> "none"]]
    BY Zenon DEF GitDeliveryInit
  <2>2. DOMAIN l = {Default}
    OBVIOUS
  <2> HIDE DEF l
  <2>3. QED
    BY <2>1, <2>2
<1>2. turn = [j \in Jobs |-> NoTurn]
  BY Zenon DEF GitDeliveryInit
<1>3. \A j \in Jobs : turn[j].pc = "none"
  BY <1>2, NoTurnIs
<1>4. QED
  BY <1>1, <1>3 DEF FreshInv, FreshOK

LEMMA FreshStep ==
  ASSUME TypeInv, NamesInv, KeptOffDefault, FreshInv, [GitDeliveryNext]_deliveryVars
  PROVE  FreshInv'
<1>1. TypeInv'
  BY TypeStep
<1>2. CASE \E j \in Jobs : BeginTurn(j) \/ TurnStep(j)
  BY <1>1, <1>2, BeginFresh, TurnFresh
<1>3. CASE \/ \E j \in Jobs : CompleteIdle(j) \/ NotResumed(j)
           \/ \E b \in Branches : MergePullRequest(b) \/ DeleteRemoteBranch(b)
           \/ Sweep \/ MarkShuttingDown \/ Exit \/ ClearHold
  BY <1>3, BesideFresh
<1>4. CASE UNCHANGED deliveryVars
  BY <1>4, BesideFresh
<1>5. QED
  BY <1>2, <1>3, <1>4 DEF GitDeliveryNext

-----------------------------------------------------------------------------
(* Where work is that is not lost.                                         *)

\* It may be thrown away, its failure was told, or it can be had back.
Safe(w) ==
  \/ w[1] \in AskJobs \/ w \in writtenOff \/ w \in repo.stash
  \/ \E b \in DOMAIN repo.remote : w \in repo.remote[b]

\* The turn of job j is still to commit or push it.
Held(j) ==
  LET t == turn[j]
      w == t.work
      n == Next(t.plan)
      d == repo.tree[Dir(j)]
  IN
  \/ t.pc \in {"commit", "save"} /\ w \in UncommittedIn(Dir(j))
  \/ /\ t.pc \in {"pushing", "saving"}
     /\ \/ n \in {"message", "addAll"} /\ w \in UncommittedIn(Dir(j))
        \/ n = "commit" /\ w \in d.tracked
        \/ n = "push" /\ w \in repo.local[d.branch]

Running(w) == turn[w[1]].work = w /\ Held(w[1])

\* While what a lost state file knew is held: in a directory that no turn has been
\* in since, or on a branch that is not deleted.
Stranded(w) ==
  IF Worktrees
    THEN /\ w \in UncommittedIn(w[1]) /\ ~row[w[1]].session /\ row[w[1]].status # "in_progress"
         /\ turn[w[1]].pc \in {"none", "prepare"}
    ELSE /\ w \in UncommittedIn(Main)
         /\ \A j \in Jobs :
              /\ ~row[j].session
              /\ turn[j].pc # "none" => turn[j].pc = "prepare" /\ Next(turn[j].plan) = "stash"

OnBranch(w) == \E b \in DOMAIN repo.local : w \in repo.local[b]

LossOK(w) == Safe(w) \/ Running(w) \/ (hold /\ (Stranded(w) \/ OnBranch(w)))

\* A job that is given up has told its thread before its branch goes.
ToldOf(j) == turn[j].pc = "abandon" => {w \in produced : w[1] = j} \subseteq writtenOff

LossInv == (\A j \in Jobs : ToldOf(j)) /\ \A w \in produced : LossOK(w)

\* What a step keeps: what is told, stashed and on the remote.
Grows ==
  /\ writtenOff \subseteq writtenOff' /\ repo.stash \subseteq repo'.stash
  /\ \A b \in DOMAIN repo.remote : b \in DOMAIN repo'.remote /\ repo.remote[b] \subseteq repo'.remote[b]

LEMMA GrowsSafe ==
  ASSUME Grows, NEW w, Safe(w)
  PROVE  Safe(w)'
  BY DEF Grows, Safe

\* What it does to the work of its own turn, of a directory, and of the branches.
KeepsWork(j) ==
  \A w \in produced' : w = turn[j].work /\ (Held(j) \/ w \notin produced) => Safe(w)' \/ Running(w)'

KeepsDir(j) ==
  \A w \in produced : hold /\ Stranded(w) /\ (w[1] = j \/ ~Worktrees) => Safe(w)' \/ Stranded(w)'

KeepsBranches ==
  \A b \in DOMAIN repo.local : \A w \in repo.local[b] \cap produced : Safe(w)' \/ OnBranch(w)'

LEMMA RunningAside ==
  ASSUME NEW j \in Jobs, TypeInv, NamesInv, Kept, turn[j].pc # "none", Aside(j),
         NEW w \in Turns, w[1] # j, Running(w)
  PROVE  Running(w)'
<1> DEFINE k == w[1]
<1>1. k \in Jobs /\ turn'[k] = turn[k] /\ repo'.tree[k] = repo.tree[k] /\ JobOK(k)
  BY TurnsLeft DEF Aside, NamesInv
<1>2. turn[k].pc # "none"
  BY DEF Running, Held
<1>3. Worktrees /\ Worktrees' /\ Dir(k) = k /\ Dir(k)' = k
  BY <1>1, <1>2, SetsKept DEF NamesInv, MainInv, Dir, Kept
<1>4. turn[k].pc \in {"pushing", "saving"} => repo'.local[repo.tree[k].branch] = repo.local[repo.tree[k].branch]
  <2>1. turn[k].pc \in {"pushing", "saving"} =>
          repo.tree[k].branch \in DOMAIN repo.local /\ Names(k, repo.tree[k].branch)
    BY <1>1, <1>3 DEF JobOK, PlaceOf, TreeOf, Ready
  <2>2. turn[k].pc \in {"pushing", "saving"} => repo.tree[k].branch[1] = k
    BY <1>3, <2>1 DEF Names
  <2>3. QED
    BY <1>3, <2>1, <2>2 DEF Aside
<1>5. UncommittedIn(k)' = UncommittedIn(k)
  BY <1>1 DEF UncommittedIn
<1>6. turn[k].work = w /\ Held(k)
  BY DEF Running
<1> HIDE DEF k
<1>7. Held(k)'
  <2> DEFINE n == Next(turn[k].plan)
             m == Next(turn'[k].plan)
  <2>1. m = n
    BY <1>1
  <2>2. \/ turn[k].pc \in {"commit", "save"} /\ w \in UncommittedIn(k)
        \/ /\ turn[k].pc \in {"pushing", "saving"}
           /\ \/ n \in {"message", "addAll"} /\ w \in UncommittedIn(k)
              \/ n = "commit" /\ w \in repo.tree[k].tracked
              \/ n = "push" /\ w \in repo.local[repo.tree[k].branch]
    BY <1>3, <1>6 DEF Held
  <2>3. \/ turn'[k].pc \in {"commit", "save"} /\ turn'[k].work \in UncommittedIn(k)'
        \/ /\ turn'[k].pc \in {"pushing", "saving"}
           /\ \/ m \in {"message", "addAll"} /\ turn'[k].work \in UncommittedIn(k)'
              \/ m = "commit" /\ turn'[k].work \in repo'.tree[k].tracked
              \/ m = "push" /\ turn'[k].work \in repo'.local[repo'.tree[k].branch]
    BY <1>1, <1>4, <1>5, <1>6, <2>1, <2>2
  <2>4. Dir(k)' = k
    BY <1>3
  <2>5. QED
    BY <2>3, <2>4 DEF Held
<1>8. turn'[k].work = w
  BY <1>1, <1>6
<1>9. QED
  BY <1>7, <1>8 DEF Running, k

LEMMA StrandedAside ==
  ASSUME NEW j \in Jobs, TypeInv, Kept, Aside(j), MakesOwn(j), Worktrees,
         NEW w \in Turns, w[1] # j, Stranded(w)
  PROVE  Stranded(w)'
<1>1. w[1] \in Jobs /\ Worktrees'
  BY TurnsLeft, SetsKept DEF Kept
<1>2. turn'[w[1]] = turn[w[1]] /\ repo'.tree[w[1]] = repo.tree[w[1]] /\ row'[w[1]] = row[w[1]]
  BY <1>1 DEF Aside, MakesOwn
<1>3. UncommittedIn(w[1])' = UncommittedIn(w[1])
  BY <1>2 DEF UncommittedIn
<1>4. QED
  BY <1>1, <1>2, <1>3 DEF Stranded

LEMMA LossAside ==
  ASSUME NEW j \in Jobs, TypeInv, NamesInv, LossInv, Kept, turn[j].pc # "none",
         Aside(j), MakesOwn(j), Grows,
         ToldOf(j)', KeepsWork(j), KeepsDir(j), KeepsBranches
  PROVE  LossInv'
<1>1. Turns' = Turns /\ hold' = hold /\ produced \subseteq Turns
  BY SetsKept DEF Kept, TypeInv
<1>2. ASSUME NEW k \in Jobs PROVE ToldOf(k)'
  <2>1. CASE k = j
    BY <2>1
  <2>2. CASE k # j
    <3>1. turn'[k] = turn[k] /\ produced' \subseteq produced \cup {turn[j].work} /\ turn[j].work[1] = j
      BY <2>2, WorkOf DEF Aside
    <3>2. {w \in produced' : w[1] = k} \subseteq {w \in produced : w[1] = k}
      BY <2>2, <3>1
    <3>3. QED
      BY <3>1, <3>2 DEF LossInv, ToldOf, Grows
  <2>3. QED
    BY <2>1, <2>2
<1>3. ASSUME NEW w \in produced' PROVE LossOK(w)'
  <2>1. w \in produced \/ w = turn[j].work
    BY <1>3 DEF Aside
  <2>2. CASE w \notin produced
    BY <1>3, <2>1, <2>2 DEF KeepsWork, LossOK
  <2>3. CASE w \in produced /\ Safe(w)
    BY <2>3, GrowsSafe DEF LossOK
  <2>4. CASE w \in produced /\ Running(w)
    <3>1. CASE w[1] = j
      BY <1>3, <2>4, <3>1 DEF Running, KeepsWork, LossOK
    <3>2. CASE w[1] # j
      BY <1>1, <2>4, <3>2, RunningAside DEF LossOK
    <3>3. QED
      BY <3>1, <3>2
  <2>5. CASE w \in produced /\ hold /\ Stranded(w)
    <3>1. CASE w[1] = j \/ ~Worktrees
      BY <1>1, <2>5, <3>1 DEF KeepsDir, LossOK
    <3>2. CASE w[1] # j /\ Worktrees
      BY <1>1, <2>5, <3>2, StrandedAside DEF LossOK
    <3>3. QED
      BY <3>1, <3>2
  <2>6. CASE w \in produced /\ hold /\ OnBranch(w)
    BY <1>1, <2>6 DEF OnBranch, KeepsBranches, LossOK
  <2>7. QED
    BY <2>2, <2>3, <2>4, <2>5, <2>6 DEF LossInv, LossOK
<1>4. QED
  BY <1>2, <1>3 DEF LossInv

LEMMA NoneStranded ==
  ASSUME NEW j \in Jobs, FreshInv,
         \/ turn[j].pc \notin {"none", "prepare"}
         \/ turn[j].pc = "prepare" /\ Next(turn[j].plan) # "stash" /\ ~(Worktrees /\ First(j))
  PROVE  KeepsDir(j)
<1>1. ASSUME NEW w, Stranded(w), w[1] = j \/ ~Worktrees PROVE FALSE
  <2>1. CASE Worktrees
    <3>1. turn[j].pc \in {"none", "prepare"} /\ ~row[j].session
      BY <1>1, <2>1 DEF Stranded
    <3>2. turn[j].pc = "prepare" => First(j)
      BY <3>1 DEF FreshInv, FreshOK
    <3>3. QED
      BY <2>1, <3>1, <3>2
  <2>2. CASE ~Worktrees
    BY <1>1, <2>2 DEF Stranded
  <2>3. QED
    BY <2>1, <2>2
<1>2. QED
  BY <1>1 DEF KeepsDir

LEMMA SameGrows ==
  ASSUME Same(repo, repo'), writtenOff \subseteq writtenOff'
  PROVE  Grows /\ KeepsBranches
  BY DEF Same, Grows, KeepsBranches, OnBranch

LEMMA QuietLoss ==
  ASSUME NEW j \in Jobs, TypeInv, NamesInv, FreshInv, LossInv, Quiet(j)
  PROVE  LossInv'
<1>1. /\ Leaves(j) /\ Aside(j) /\ MakesOwn(j) /\ Kept /\ turn[j].pc # "none"
      /\ repo' = repo /\ produced' = produced
  BY LeavesAside DEF Quiet, Leaves
<1>2. Grows /\ KeepsBranches
  BY <1>1, SameGrows DEF Quiet, Same
<1>3. ToldOf(j)'
  BY DEF Quiet, Onward, Past, Saving, ToldOf
<1>4. KeepsDir(j)
  BY NoneStranded, NextOf DEF Quiet, Onward, Past, Saving
<1>5. KeepsWork(j)
  <2>1. CASE ~Held(j)
    BY <1>1, <2>1 DEF KeepsWork
  <2>2. ASSUME Held(j), NEW w \in produced', w = turn[j].work PROVE Safe(w)' \/ Running(w)'
    <3>1. w[1] = j
      BY <1>1, <2>2, WorkOf
    <3>2. Saving(j)
      BY <2>2, NextOf DEF Held, Quiet, Onward, Past
    <3>3. w \in UncommittedIn(Dir(j))
      BY <2>2, <3>2 DEF Held, Saving
    <3>4. CASE j \in AskJobs \/ w \in writtenOff'
      BY <3>1, <3>4 DEF Safe
    <3>5. ASSUME turn'[j].work = w, turn'[j].pc \in {"pushing", "saving"},
                 Next(turn'[j].plan) \in {"message", "addAll"}
          PROVE  Running(w)'
      <4>1. Dir(j)' = Dir(j)
        BY <1>1, SetsKept DEF Kept
      <4>2. UncommittedIn(Dir(j))' = UncommittedIn(Dir(j))
        BY <1>1, <4>1 DEF UncommittedIn
      <4>3. Held(j)'
        BY <3>3, <3>5, <4>2 DEF Held
      <4>4. QED
        BY <3>1, <3>5, <4>3 DEF Running
    <3>6. QED
      BY <2>2, <3>2, <3>3, <3>4, <3>5 DEF Saving
  <2>3. QED
    BY <1>1, <2>1, <2>2 DEF KeepsWork
<1>6. QED
  BY <1>1, <1>2, <1>3, <1>4, <1>5, LossAside

\* A turn that fails leaves its directory, and tells.
LEMMA FailLoss ==
  ASSUME NEW j \in Jobs, TypeInv, NamesInv, FreshInv, LossInv, Kept, turn[j].pc # "none",
         FailTurn(j), Same(repo, repo'), produced' = produced, published \subseteq published'
  PROVE  LossInv'
<1>1. /\ Turned(j, "none", <<>>, <<>>, NoBranch, FALSE)
      /\ Rowed(j, FailedStatus(j),
               row[j].branch, row[j].session, row[j].pr)
      /\ writtenOff' = writtenOff \cup {turn[j].work}
  BY BrokenDoes
<1>2. Aside(j) /\ MakesOwn(j) /\ Grows /\ KeepsBranches
  BY <1>1, FailAside, SameGrows
<1>3. ToldOf(j)'
  BY <1>1 DEF Turned, ToldOf
<1>4. KeepsWork(j)
  BY <1>1 DEF KeepsWork, Safe
<1>5. KeepsDir(j)
  <2>1. SUFFICES ASSUME NEW w \in produced, Stranded(w), w[1] = j \/ ~Worktrees
                 PROVE  Stranded(w)'
    BY DEF KeepsDir
  <2>2. /\ repo'.tree = repo.tree /\ (Worktrees' <=> Worktrees) /\ turn'[j].pc = "none"
        /\ row'[j].session = row[j].session
        /\ row[j].status # "in_progress" => row'[j].status = row[j].status
        /\ \A k \in Jobs : k # j => turn'[k] = turn[k] /\ row'[k] = row[k]
    BY <1>1, SetsKept DEF Turned, Rowed, FailedStatus, Same, Kept
  <2>3. UncommittedIn(j)' = UncommittedIn(j) /\ UncommittedIn(Main)' = UncommittedIn(Main)
    BY <2>2 DEF UncommittedIn
  <2>4. CASE Worktrees
    <3>1. w[1] = j
      BY <2>1, <2>4
    <3>2. w \in UncommittedIn(j) /\ ~row[j].session /\ row[j].status # "in_progress"
      BY <2>1, <2>4, <3>1 DEF Stranded
    <3>3. QED
      BY <2>2, <2>3, <2>4, <3>1, <3>2 DEF Stranded
  <2>5. CASE ~Worktrees
    <3>1. /\ w \in UncommittedIn(Main)
          /\ \A k \in Jobs :
               /\ ~row[k].session
               /\ turn[k].pc # "none" => turn[k].pc = "prepare" /\ Next(turn[k].plan) = "stash"
      BY <2>1, <2>5 DEF Stranded
    <3>2. \A k \in Jobs :
               /\ ~row'[k].session
               /\ turn'[k].pc # "none" => turn'[k].pc = "prepare" /\ Next(turn'[k].plan) = "stash"
      BY <2>2, <3>1
    <3>3. QED
      BY <2>2, <2>3, <2>5, <3>1, <3>2 DEF Stranded
  <2>6. QED
    BY <2>4, <2>5
<1>6. QED
  BY <1>2, <1>3, <1>4, <1>5, LossAside

\* The work on a branch of the job is its own, or merged.
LEMMA OnOwnBranch ==
  ASSUME NEW j \in Jobs, TypeInv, NamesInv, OwnInv, KeptOffDefault, turn[j].pc # "none",
         NEW w, turn[j].branch \in DOMAIN repo.local, w \in repo.local[turn[j].branch]
  PROVE  (w \in Turns /\ w[1] = j) \/ Safe(w)
<1>1. turn[j].branch # Default /\ turn[j].branch[1] = j
  BY WorkOf, OwnBranch
<1>2. w \in Turns
  BY RepoFields DEF TypeInv
<1>3. w[1] = j \/ w \in repo.remote[Default]
  BY <1>1 DEF OwnInv, BranchesOwn, OwnOrMerged
<1>4. w \in repo.remote[Default] => Safe(w)
  BY DEF Safe, NamesInv, MainInv
<1>5. QED
  BY <1>2, <1>3, <1>4

LEMMA RemovedGrows ==
  ASSUME NEW j \in Jobs, TypeInv, NamesInv, repo' = Removed(repo, j, turn[j].branch),
         writtenOff \subseteq writtenOff',
         \A w \in produced : turn[j].branch \in DOMAIN repo.local /\ w \in repo.local[turn[j].branch]
           => w \in writtenOff' \/ Safe(w)
  PROVE  Grows /\ KeepsBranches
<1>1. /\ repo'.remote = repo.remote /\ repo'.stash = repo.stash
      /\ DOMAIN repo'.local = DOMAIN repo.local \ {turn[j].branch}
      /\ \A x \in DOMAIN repo'.local : repo'.local[x] = repo.local[x]
  BY RemovedRepo
<1>2. Grows
  BY <1>1 DEF Grows
<1>3. ASSUME NEW b \in DOMAIN repo.local, NEW w \in repo.local[b] \cap produced
      PROVE  Safe(w)' \/ OnBranch(w)'
  <2>1. CASE b = turn[j].branch
    <3>1. w \in writtenOff' \/ Safe(w)
      BY <2>1
    <3>2. CASE w \in writtenOff'
      BY <3>2 DEF Safe
    <3>3. CASE Safe(w)
      BY <1>2, <3>3, GrowsSafe
    <3>4. QED
      BY <3>1, <3>2, <3>3
  <2>2. CASE b # turn[j].branch
    BY <1>1, <2>2 DEF OnBranch
  <2>3. QED
    BY <2>1, <2>2
<1>4. QED
  BY <1>2, <1>3 DEF KeepsBranches

LEMMA MovedGrows ==
  ASSUME NEW j \in Jobs, TypeInv, NamesInv, turn[j].plan # <<>>, Moved(j)
  PROVE  Grows
<1> DEFINE c == Head(turn[j].plan)
           cur == repo.tree[Dir(j)].branch
<1>1. RemoteEffect(c, repo, repo', Dir(j)) /\ repo.stash \subseteq repo'.stash /\ writtenOff' = writtenOff
  BY DEF Moved, Result
<1>2. CASE c = "push"
  <2>1. /\ DOMAIN repo'.remote = DOMAIN repo.remote \cup {cur}
        /\ repo'.remote[cur] = repo.local[cur]
        /\ cur \in DOMAIN repo.remote => repo.remote[cur] \subseteq repo.local[cur]
        /\ \A x \in DOMAIN repo.remote : x # cur => repo'.remote[x] = repo.remote[x]
    BY <1>1, <1>2 DEF RemoteEffect
  <2> HIDE DEF cur
  <2>2. \A x \in DOMAIN repo.remote : x \in DOMAIN repo'.remote /\ repo.remote[x] \subseteq repo'.remote[x]
    BY <2>1
  <2>3. QED
    BY <1>1, <2>2 DEF Grows
<1>3. CASE c # "push"
  BY <1>1, <1>3 DEF RemoteEffect, Grows
<1>4. QED
  BY <1>2, <1>3

\* A command takes no work from a branch but what was reset, and what was told of.
LEMMA MovedKeepsBranches ==
  ASSUME NEW j \in Jobs, TypeInv, NamesInv, OwnInv, KeptOffDefault, FreshInv, LossInv,
         turn[j].plan # <<>>, Moved(j)
  PROVE  KeepsBranches
<1> DEFINE c == Head(turn[j].plan)
           d == Dir(j)
           b == turn[j].branch
           cur == repo.tree[d].branch
<1>1. CommandAt(j) /\ JobOK(j) /\ FreshOK(j) /\ ToldOf(j) /\ Next(turn[j].plan) = c
  BY AtCommand DEF NamesInv, JobOK, FreshInv, LossInv
<1>2. turn[j].pc # "none" /\ Grows /\ writtenOff' = writtenOff
  BY <1>1, MovedGrows DEF CommandAt, Moved
<1>3. LocalEffect(c, repo, repo', d, b)
  BY DEF Moved, Result
<1>4. c = "resetToRef" => cur = Default
  BY <1>1 DEF CommandAt, JobOK, PlaceOf, Dir
<1>5. c = "create" => b \notin DOMAIN repo.local
  BY <1>1 DEF CommandAt, FreshOK, First
<1>6. c = "delete" => turn[j].pc = "abandon"
  BY <1>1 DEF CommandAt
<1>7. ASSUME NEW x \in DOMAIN repo.local, NEW w \in repo.local[x] \cap produced
      PROVE  Safe(w)' \/ OnBranch(w)'
  <2>1. CASE c = "delete" /\ x = b
    <3>1. (w \in Turns /\ w[1] = j) \/ Safe(w)
      BY <1>2, <1>7, <2>1, OnOwnBranch
    <3>2. w[1] = j => w \in writtenOff
      BY <1>1, <1>6, <1>7, <2>1 DEF ToldOf
    <3>3. Safe(w)
      BY <3>1, <3>2 DEF Safe
    <3>4. QED
      BY <1>2, <3>3, GrowsSafe
  <2>2. CASE c = "resetToRef" /\ x = cur
    <3>1. w \in repo.remote[Default] /\ Default \in DOMAIN repo.remote
      BY <1>4, <1>7, <2>2 DEF OwnInv, BranchesOwn, NamesInv, MainInv
    <3>2. Safe(w)
      BY <3>1 DEF Safe
    <3>3. QED
      BY <1>2, <3>2, GrowsSafe
  <2>3. CASE ~(c = "delete" /\ x = b) /\ ~(c = "resetToRef" /\ x = cur)
    <3>1. x \in DOMAIN repo'.local
      BY <1>3, <2>3 DEF LocalEffect
    <3>2. repo.local[x] \subseteq repo'.local[x]
      <4>1. \/ x = cur /\ c \in {"resetToRef", "commit", "pullDefault", "pullJob"}
            \/ x = b /\ c = "create"
            \/ repo'.local[x] = repo.local[x]
        BY <1>3, <3>1 DEF LocalEffect
      <4>2. CASE x = cur /\ c = "commit"
        BY <1>3, <4>2 DEF LocalEffect
      <4>3. CASE x = cur /\ c \in {"pullDefault", "pullJob"}
        BY <1>3, <4>3 DEF LocalEffect
      <4>4. QED
        BY <1>5, <2>3, <4>1, <4>2, <4>3
    <3>3. QED
      BY <1>7, <3>1, <3>2 DEF OnBranch
  <2>4. QED
    BY <2>1, <2>2, <2>3
<1>8. QED
  BY <1>7 DEF KeepsBranches

\* It brings the work of its turn nearer to the remote.
LEMMA MovedKeepsWork ==
  ASSUME NEW j \in Jobs, TypeInv, NamesInv, Kept, turn[j].plan # <<>>, Moved(j),
         produced' = produced
  PROVE  KeepsWork(j)
<1> DEFINE c == Head(turn[j].plan)
           n == Next(Tail(turn[j].plan))
           cur == repo.tree[Dir(j)].branch
           before == repo.tree[Dir(j)]
           after == repo'.tree[Dir(j)]
<1>1. /\ turn'[j].pc = turn[j].pc /\ turn'[j].plan = Tail(turn[j].plan) /\ turn'[j].work = turn[j].work
  BY MovedDoes DEF Turned
<1>2. CommandAt(j) /\ Next(turn[j].plan) = c /\ PlanOf(j)
  BY AtCommand DEF NamesInv, JobOK
<1>3. Result(c, repo, Dir(j), turn[j].branch, repo')
  BY DEF Moved
<1>4. Dir(j)' = Dir(j)
  BY SetsKept DEF Kept
<1>5. UncommittedIn(Dir(j)) = before.tracked \cup before.untracked
      /\ UncommittedIn(Dir(j))' = after.tracked \cup after.untracked
  BY <1>4 DEF UncommittedIn
<1>6. turn[j].pc # "none" /\ (Held(j) => turn[j].pc \in {"pushing", "saving"})
  BY <1>2 DEF CommandAt, Held
<1>7. /\ c = "message" => n = "addAll"
      /\ c = "addAll" => n = "commit"
      /\ c = "commit" => n = "push"
  BY <1>2, PlanStep
<1>8. ASSUME NEW w, w = turn[j].work, Held(j)
      PROVE  Safe(w)' \/ Running(w)'
  <2>1. w[1] = j
    BY <1>6, <1>8, WorkOf
  <2>2. \/ c \in {"message", "addAll"} /\ w \in UncommittedIn(Dir(j))
        \/ c = "commit" /\ w \in before.tracked
        \/ c = "push" /\ w \in repo.local[cur]
    BY <1>2, <1>6, <1>8 DEF Held
  <2>3. CASE c = "push"
    <3>1. cur \in DOMAIN repo'.remote /\ repo'.remote[cur] = repo.local[cur]
      BY <1>3, <2>3 DEF Result, RemoteEffect
    <3>2. QED
      BY <2>2, <2>3, <3>1 DEF Safe
  <2>4. CASE c # "push"
    <3>1. \/ n \in {"message", "addAll"} /\ w \in after.tracked \cup after.untracked
          \/ n = "commit" /\ w \in after.tracked
          \/ n = "push" /\ w \in repo'.local[after.branch]
      <4>1. CASE c = "message"
        <5>1. after.tracked = before.tracked /\ after.untracked = before.untracked
          BY <1>3, <4>1 DEF Result, TreeEffect
        <5>2. QED
          BY <1>5, <1>7, <2>2, <4>1, <5>1
      <4>2. CASE c = "addAll"
        <5>1. after.tracked = before.tracked \cup before.untracked
          BY <1>3, <4>2 DEF Result, TreeEffect
        <5>2. QED
          BY <1>5, <1>7, <2>2, <4>2, <5>1
      <4>3. CASE c = "commit"
        <5>1. after.branch = cur /\ repo'.local[cur] = repo.local[cur] \cup before.tracked
          BY <1>3, <4>3 DEF Result, TreeEffect, LocalEffect
        <5>2. QED
          BY <1>7, <2>2, <4>3, <5>1
      <4>4. QED
        BY <2>2, <2>4, <4>1, <4>2, <4>3
    <3>2. /\ turn'[j].pc \in {"pushing", "saving"} /\ turn'[j].work = w
          /\ \/ Next(turn'[j].plan) \in {"message", "addAll"} /\ w \in UncommittedIn(Dir(j))'
             \/ Next(turn'[j].plan) = "commit" /\ w \in repo'.tree[Dir(j)'].tracked
             \/ Next(turn'[j].plan) = "push" /\ w \in repo'.local[repo'.tree[Dir(j)'].branch]
      BY <1>1, <1>4, <1>5, <1>6, <1>8, <3>1
    <3>3. Held(j)'
      BY <3>2 DEF Held
    <3>4. QED
      BY <2>1, <3>2, <3>3 DEF Running
  <2>5. QED
    BY <2>3, <2>4
<1>9. QED
  BY <1>8 DEF KeepsWork

\* What is stranded in the shared directory is stashed before anything else.
LEMMA MovedKeepsDir ==
  ASSUME NEW j \in Jobs, TypeInv, NamesInv, FreshInv, turn[j].plan # <<>>, Moved(j)
  PROVE  KeepsDir(j)
<1> DEFINE c == Head(turn[j].plan)
<1>1. CommandAt(j) /\ Next(turn[j].plan) = c
  BY AtCommand DEF NamesInv, JobOK
<1>2. turn[j].pc # "none" /\ ~(turn[j].pc = "prepare" /\ Worktrees /\ First(j))
  BY <1>1 DEF CommandAt
<1>3. CASE turn[j].pc # "prepare" \/ c # "stash"
  BY <1>1, <1>2, <1>3, NoneStranded
<1>4. CASE turn[j].pc = "prepare" /\ c = "stash"
  <2>1. ~Worktrees /\ Dir(j) = Main
    BY <1>1, <1>4 DEF CommandAt, Dir
  <2>2. UncommittedIn(Main) \subseteq repo'.stash
    BY <1>4, <2>1 DEF Moved, Result, UncommittedIn
  <2>3. \A w : Stranded(w) => Safe(w)'
    BY <2>1, <2>2 DEF Stranded, Safe
  <2>4. QED
    BY <2>3 DEF KeepsDir
<1>5. QED
  BY <1>3, <1>4

LEMMA MovedLoss ==
  ASSUME NEW j \in Jobs, TypeInv, NamesInv, TypeInv', OwnInv, KeptOffDefault, FreshInv, LossInv, Kept,
         turn[j].plan # <<>>, Moved(j), produced' = produced, published \subseteq published'
  PROVE  LossInv'
<1>1. turn[j].pc # "none"
  BY AtCommand DEF NamesInv, JobOK, CommandAt
<1>2. Aside(j) /\ MakesOwn(j)
  BY MovedAside, MovedMakes
<1>3. Grows /\ KeepsBranches /\ KeepsWork(j) /\ KeepsDir(j)
  BY MovedGrows, MovedKeepsBranches, MovedKeepsWork, MovedKeepsDir
<1>4. turn'[j].pc = turn[j].pc /\ writtenOff' = writtenOff /\ Turns' = Turns
  BY MovedDoes, SetsKept DEF Turned, Moved, Kept
<1>5. ToldOf(j)'
  BY <1>4 DEF ToldOf, LossInv
<1>6. QED
  BY <1>1, <1>2, <1>3, <1>5, LossAside

\* A job that is given up tells of all its work first.
LEMMA GoneLoss ==
  ASSUME NEW j \in Jobs, TypeInv, NamesInv, TypeInv', OwnInv, KeptOffDefault, FreshInv, LossInv, Kept,
         turn[j].plan # <<>>, CommandAt(j), Gone(j), Aside(j), MakesOwn(j), produced' = produced
  PROVE  LossInv'
<1>1. /\ writtenOff' = writtenOff \cup {w \in produced : w[1] = j}
      /\ repo' = repo \/ (Worktrees /\ repo' = Removed(repo, j, turn[j].branch))
  BY GoneDoes
<1>2. turn[j].pc # "none" /\ Turns' = Turns
  BY SetsKept DEF CommandAt, Kept
<1>3. ToldOf(j)'
  BY <1>1 DEF ToldOf
<1>4. KeepsWork(j)
  <2>1. turn[j].work \in produced => turn[j].work \in writtenOff'
    BY <1>1, <1>2, WorkOf
  <2>2. QED
    BY <2>1 DEF KeepsWork, Safe
<1>5. KeepsDir(j)
  <2>1. turn[j].pc = "prepare" => Next(turn[j].plan) # "stash" /\ ~(Worktrees /\ First(j))
    BY NextOf DEF CommandAt, Gone
  <2>2. QED
    BY <1>2, <2>1, NoneStranded
<1>6. Grows /\ KeepsBranches
  <2>1. CASE repo' = repo
    BY <1>1, <2>1, SameGrows DEF Same
  <2>2. CASE repo' = Removed(repo, j, turn[j].branch)
    <3>1. \A w \in produced : turn[j].branch \in DOMAIN repo.local /\ w \in repo.local[turn[j].branch]
                   => w \in writtenOff' \/ Safe(w)
      BY <1>1, <1>2, OnOwnBranch
    <3>2. QED
      BY <1>1, <2>2, <3>1, RemovedGrows
  <2>3. QED
    BY <1>1, <2>1, <2>2
<1>7. QED
  BY <1>2, <1>3, <1>4, <1>5, <1>6, LossAside

LEMMA RunLoss ==
  ASSUME NEW j \in Jobs, TypeInv, NamesInv, TypeInv', OwnInv, KeptOffDefault, FreshInv, LossInv,
         RunCommand(j)
  PROVE  LossInv'
<1>1. /\ turn[j].plan # <<>> /\ CommandAt(j) /\ Kept /\ produced' = produced
      /\ published \subseteq published'
      /\ Moved(j) \/ Broken(j) \/ Gone(j)
  BY RunCases
<1>2. turn[j].pc # "none" /\ Aside(j) /\ MakesOwn(j)
  BY <1>1, RunAside DEF CommandAt
<1>3. CASE Moved(j)
  BY <1>1, <1>3, MovedLoss
<1>4. CASE Broken(j)
  BY <1>1, <1>2, <1>4, FailLoss DEF Broken
<1>5. CASE Gone(j)
  BY <1>1, <1>2, <1>5, GoneLoss
<1>6. QED
  BY <1>1, <1>3, <1>4, <1>5

\* What is in the place of a new worktree is put aside under a hold.
LEMMA PrepareTreeLoss ==
  ASSUME NEW j \in Jobs, TypeInv, NamesInv, TypeInv', KeptOffDefault, FreshInv, LossInv,
         PrepareForNewConversationWithWorktree(j)
  PROVE  LossInv'
<1>1. /\ Kept /\ produced' = produced /\ published' = published /\ Worktrees
      /\ turn[j].pc = "prepare" /\ First(j)
      /\ \/ /\ Turned(j, "row", <<>>, turn[j].work, turn[j].branch, turn[j].pr)
            /\ row' = row /\ writtenOff' = writtenOff
            /\ repo' = Made(repo, j, turn[j].branch,
                            IF hold THEN repo.stash \cup UncommittedIn(j) ELSE repo.stash)
         \/ FailTurn(j) /\ repo' = repo
  BY PrepareTreeDoes
<1>2. CASE FailTurn(j) /\ repo' = repo
  BY <1>1, <1>2, FailLoss DEF Same
<1>3. ASSUME Turned(j, "row", <<>>, turn[j].work, turn[j].branch, turn[j].pr), writtenOff' = writtenOff,
             repo' = Made(repo, j, turn[j].branch,
                          IF hold THEN repo.stash \cup UncommittedIn(j) ELSE repo.stash)
      PROVE  LossInv'
  <2>1. turn'[j].pc = "row"
    BY <1>3 DEF Turned
  <2>2. TreeMade(j)
    BY <1>1, <1>3, TreeMadeIs
  <2>3. turn[j].branch \notin DOMAIN repo.local
    BY <1>1 DEF FreshInv, FreshOK, First
  <2>4. Grows
    BY <1>3, <2>2 DEF TreeMade, Grows
  <2>5. KeepsBranches
    BY <2>2, <2>3 DEF TreeMade, KeepsBranches, OnBranch
  <2>6. KeepsWork(j)
    BY <1>1 DEF KeepsWork, Held
  <2>7. KeepsDir(j)
    BY <1>1, <2>2 DEF TreeMade, KeepsDir, Stranded, Safe
  <2>8. ToldOf(j)'
    BY <2>1 DEF ToldOf
  <2>9. QED
    BY <1>1, <2>4, <2>5, <2>6, <2>7, <2>8, PrepareTreeAside, LossAside
<1>4. QED
  BY <1>1, <1>2, <1>3

\* What a CLI leaves is in the directory of its turn, which goes on to save it.
LEMMA CLIKeepsWork ==
  ASSUME NEW j \in Jobs, TypeInv, NamesInv, WorkInv, Kept, turn[j].pc = "run",
         NEW did \in {{}, {turn[j].work}}, CLIDid(j, did), produced' = produced \cup did,
         \/ j \in AskJobs \/ turn[j].work \in writtenOff'
         \/ turn'[j].pc \in {"commit", "save"} /\ turn'[j].work = turn[j].work
  PROVE  KeepsWork(j)
<1>1. turn[j].work \notin produced /\ ~Held(j)
  BY DEF WorkInv, WorkOK, Held
<1>2. turn[j].work[1] = j
  BY WorkOf
<1>3. Dir(j)' = Dir(j)
  BY SetsKept DEF Kept
<1>4. ASSUME NEW w \in produced', w = turn[j].work
      PROVE  Safe(w)' \/ Running(w)'
  <2>1. did = {w}
    BY <1>1, <1>4
  <2>2. w \in repo'.tree[Dir(j)].tracked \cup repo'.tree[Dir(j)].untracked
    BY <1>4, <2>1 DEF CLIDid
  <2>3. w \in UncommittedIn(Dir(j))'
    BY <1>3, <2>2 DEF UncommittedIn
  <2>4. CASE j \in AskJobs \/ w \in writtenOff'
    BY <1>2, <1>4, <2>4 DEF Safe
  <2>5. CASE turn'[j].pc \in {"commit", "save"} /\ turn'[j].work = w
    <3>1. Held(j)'
      BY <2>3, <2>5 DEF Held
    <3>2. QED
      BY <1>2, <1>4, <2>5, <3>1 DEF Running
  <2>6. QED
    BY <1>4, <2>4, <2>5
<1>5. QED
  BY <1>4 DEF KeepsWork

LEMMA RunCLILoss ==
  ASSUME NEW j \in Jobs, TypeInv, NamesInv, TypeInv', WorkInv, KeptOffDefault, FreshInv, LossInv,
         RunCLI(j)
  PROVE  LossInv'
<1>1. /\ Kept /\ turn[j].pc = "run"
      /\ \E did \in {{}, {turn[j].work}} : CLIDid(j, did) /\ produced' = produced \cup did
      /\ \/ /\ \E pc \in {"commit", "finish"} :
                 /\ Turned(j, pc, turn[j].plan, turn[j].work, turn[j].branch, turn[j].pr)
                 /\ pc = "finish" <=> j \in AskJobs
            /\ row' = row /\ writtenOff' = writtenOff
         \/ /\ writtenOff' = writtenOff \cup {turn[j].work}
            /\ Turned(j, "none", <<>>, <<>>, NoBranch, FALSE) /\ turn'[j] = NoTurn
            /\ \E status \in {"failed", row[j].status} :
                 Rowed(j, status, row[j].branch, row[j].session, row[j].pr)
         \/ /\ writtenOff' \in {writtenOff, writtenOff \cup {turn[j].work}}
            /\ Turned(j, "save", turn[j].plan, turn[j].work, turn[j].branch, turn[j].pr)
            /\ \E status \in {"completed", "failed"} :
                 Rowed(j, status, row[j].branch, TRUE, row[j].pr)
  BY RunCLIDoes
<1>2. PICK did \in {{}, {turn[j].work}} : CLIDid(j, did) /\ produced' = produced \cup did
  BY <1>1
<1>3. Aside(j) /\ MakesOwn(j)
  BY RunCLIAside
<1>4. /\ writtenOff \subseteq writtenOff' /\ turn'[j].pc \in {"commit", "finish", "none", "save"}
      /\ \/ j \in AskJobs \/ turn[j].work \in writtenOff'
         \/ turn'[j].pc \in {"commit", "save"} /\ turn'[j].work = turn[j].work
  <2>1. ASSUME NEW pc \in {"commit", "finish"}, pc = "finish" <=> j \in AskJobs,
               Turned(j, pc, turn[j].plan, turn[j].work, turn[j].branch, turn[j].pr)
        PROVE  /\ turn'[j].pc \in {"commit", "finish"}
               /\ j \in AskJobs \/ (turn'[j].pc = "commit" /\ turn'[j].work = turn[j].work)
    BY <2>1 DEF Turned
  <2>2. Turned(j, "none", <<>>, <<>>, NoBranch, FALSE) => turn'[j].pc = "none"
    BY DEF Turned
  <2>3. Turned(j, "save", turn[j].plan, turn[j].work, turn[j].branch, turn[j].pr)
          => turn'[j].pc = "save" /\ turn'[j].work = turn[j].work
    BY DEF Turned
  <2>4. QED
    BY <1>1, <2>1, <2>2, <2>3
<1>5. KeepsWork(j)
  BY <1>1, <1>2, <1>4, CLIKeepsWork
<1>6. KeepsDir(j)
  BY <1>1, NoneStranded
<1>7. Grows
  BY <1>2, <1>4 DEF CLIDid, Grows
<1>8. KeepsBranches
  <2>1. turn[j].work # turn[j].branch => turn[j].work \notin DOMAIN repo.local
    BY <1>1 DEF FreshInv, FreshOK, First
  <2>2. \A b \in DOMAIN repo.local : b \in DOMAIN repo'.local /\ repo'.local[b] = repo.local[b]
    BY <1>2, <2>1 DEF CLIDid
  <2>3. QED
    BY <2>2 DEF KeepsBranches, OnBranch
<1>9. ToldOf(j)'
  BY <1>4 DEF ToldOf
<1>10. QED
  BY <1>1, <1>3, <1>5, <1>6, <1>7, <1>8, <1>9, LossAside

\* A worktree that goes before there was a session has nothing but what was merged.
LEMMA StopLoss ==
  ASSUME NEW j \in Jobs, TypeInv, NamesInv, TypeInv', KeptOffDefault, FreshInv, LossInv,
         StopBeforeSession(j)
  PROVE  LossInv'
<1>1. /\ Kept /\ produced' = produced /\ writtenOff' = writtenOff
      /\ turn[j].pc = "run" /\ ~row[j].session /\ turn'[j].pc = "none"
      /\ repo' = IF Worktrees THEN Removed(repo, j, turn[j].branch) ELSE repo
  BY StopDoes DEF Turned
<1>2. Grows /\ KeepsBranches
  <2>1. CASE Worktrees
    <3>1. Default \in DOMAIN repo.remote /\ repo.local[turn[j].branch] \subseteq repo.remote[Default]
      BY <1>1, <2>1 DEF FreshInv, FreshOK, NamesInv, MainInv
    <3>2. \A w \in repo.local[turn[j].branch] : Safe(w)
      BY <3>1 DEF Safe
    <3>3. QED
      BY <1>1, <2>1, <3>2, RemovedGrows
  <2>2. CASE ~Worktrees
    BY <1>1, <2>2, SameGrows DEF Same
  <2>3. QED
    BY <2>1, <2>2
<1>3. KeepsWork(j)
  BY <1>1 DEF KeepsWork, Held
<1>4. KeepsDir(j)
  BY <1>1, NoneStranded
<1>5. ToldOf(j)'
  BY <1>1 DEF ToldOf
<1>6. QED
  BY <1>1, <1>2, <1>3, <1>4, <1>5, StopAside, LossAside

LEMMA TurnLoss ==
  ASSUME NEW j \in Jobs, TypeInv, NamesInv, TypeInv', WorkInv, OwnInv, KeptOffDefault, FreshInv,
         LossInv, TurnStep(j)
  PROVE  LossInv'
  BY QuietStep, QuietLoss, RunLoss, PrepareTreeLoss, RunCLILoss, StopLoss

\* A turn that goes on in its directory as it is.
LEMMA HeldStays ==
  ASSUME NEW k \in Jobs, mode' = mode, turn'[k] = turn[k], repo'.tree[Dir(k)] = repo.tree[Dir(k)],
         turn[k].pc \in {"pushing", "saving"} =>
           repo'.local[repo.tree[Dir(k)].branch] = repo.local[repo.tree[Dir(k)].branch],
         Held(k)
  PROVE  Held(k)'
<1>0. PICK d : d = Dir(k)
  OBVIOUS
<1>1. Dir(k)' = d
  BY <1>0, SetsKept
<1>2. UncommittedIn(d)' = UncommittedIn(d)
  BY <1>0 DEF UncommittedIn
<1>3. \/ turn[k].pc \in {"commit", "save"} /\ turn[k].work \in UncommittedIn(d)
      \/ /\ turn[k].pc \in {"pushing", "saving"}
         /\ \/ Next(turn[k].plan) \in {"message", "addAll"} /\ turn[k].work \in UncommittedIn(d)
            \/ Next(turn[k].plan) = "commit" /\ turn[k].work \in repo.tree[d].tracked
            \/ Next(turn[k].plan) = "push" /\ turn[k].work \in repo.local[repo.tree[d].branch]
  BY <1>0 DEF Held
<1>4. \/ turn'[k].pc \in {"commit", "save"} /\ turn'[k].work \in UncommittedIn(d)'
      \/ /\ turn'[k].pc \in {"pushing", "saving"}
         /\ \/ Next(turn'[k].plan) \in {"message", "addAll"} /\ turn'[k].work \in UncommittedIn(d)'
            \/ Next(turn'[k].plan) = "commit" /\ turn'[k].work \in repo'.tree[d].tracked
            \/ Next(turn'[k].plan) = "push" /\ turn'[k].work \in repo'.local[repo'.tree[d].branch]
  BY <1>0, <1>2, <1>3
<1>5. QED
  BY <1>1, <1>4 DEF Held

LEMMA BeginLoss ==
  ASSUME NEW j \in Jobs, TypeInv, NamesInv, LossInv, BeginTurn(j)
  PROVE  LossInv'
<1>1. /\ turn[j] = NoTurn /\ mode' = mode /\ repo' = repo /\ row' = row /\ hold' = hold
      /\ produced' = produced /\ writtenOff' = writtenOff
      /\ \A k \in Jobs : k # j => turn'[k] = turn[k]
      /\ turn'[j].pc = "prepare"
      /\ ~row[j].session /\ ~Worktrees /\ hold => Next(turn'[j].plan) = "stash"
  BY BeginDoes
<1>2. Turns' = Turns /\ (Worktrees' <=> Worktrees) /\ produced \subseteq Turns /\ turn[j].pc = "none"
  BY <1>1, SetsKept, NoTurnIs DEF TypeInv
<1>3. ASSUME NEW k \in Jobs PROVE ToldOf(k)'
  BY <1>1, <1>2 DEF LossInv, ToldOf
<1>4. ASSUME NEW w \in produced PROVE LossOK(w)'
  <2>1. w[1] \in Jobs
    BY <1>2, TurnsLeft
  <2>2. CASE Safe(w)
    BY <1>1, <1>2, <2>2 DEF Safe, LossOK
  <2>3. CASE Running(w)
    <3>1. w[1] # j /\ turn[w[1]].work = w /\ Held(w[1])
      BY <1>2, <2>3 DEF Running, Held
    <3>2. turn'[w[1]] = turn[w[1]]
      BY <1>1, <2>1, <3>1
    <3>3. Held(w[1])'
      BY <1>1, <2>1, <3>1, <3>2, HeldStays
    <3>4. QED
      BY <3>1, <3>2, <3>3 DEF Running, LossOK
  <2>4. CASE hold /\ Stranded(w)
    <3>1. UncommittedIn(w[1])' = UncommittedIn(w[1]) /\ UncommittedIn(Main)' = UncommittedIn(Main)
      BY <1>1 DEF UncommittedIn
    <3>2. CASE Worktrees
      <4>1. turn'[w[1]].pc \in {"none", "prepare"}
        BY <1>1, <2>1, <2>4, <3>2 DEF Stranded
      <4>2. Stranded(w)'
        BY <1>1, <1>2, <2>4, <3>1, <3>2, <4>1 DEF Stranded
      <4>3. QED
        BY <1>1, <2>4, <4>2 DEF LossOK
    <3>3. CASE ~Worktrees
      <4>1. \A k \in Jobs :
              /\ ~row[k].session
              /\ turn[k].pc # "none" => turn[k].pc = "prepare" /\ Next(turn[k].plan) = "stash"
        BY <2>4, <3>3 DEF Stranded
      <4>2. \A k \in Jobs :
              /\ ~row'[k].session
              /\ turn'[k].pc # "none" => turn'[k].pc = "prepare" /\ Next(turn'[k].plan) = "stash"
        BY <1>1, <2>4, <3>3, <4>1
      <4>3. w \in UncommittedIn(Main)'
        BY <2>4, <3>1, <3>3 DEF Stranded
      <4>4. Stranded(w)'
        BY <1>2, <3>3, <4>2, <4>3 DEF Stranded
      <4>5. QED
        BY <1>1, <2>4, <4>4 DEF LossOK
    <3>4. QED
      BY <3>2, <3>3
  <2>5. CASE hold /\ OnBranch(w)
    BY <1>1, <2>5 DEF OnBranch, LossOK
  <2>6. QED
    BY <2>2, <2>3, <2>4, <2>5 DEF LossInv, LossOK
<1>5. QED
  BY <1>1, <1>3, <1>4 DEF LossInv

\* Beside the turns nothing touches the directory of a turn, or its branch.
LEMMA StillLoss ==
  ASSUME TypeInv, NamesInv, LossInv, mode' = mode, produced' = produced, turn' = turn,
         writtenOff \subseteq writtenOff',
         \A w : Safe(w) => Safe(w)',
         \A k \in Jobs : turn[k].pc # "none" =>
           /\ repo'.tree[Dir(k)] = repo.tree[Dir(k)]
           /\ repo.tree[Dir(k)].branch \in DOMAIN repo.local =>
                repo'.local[repo.tree[Dir(k)].branch] = repo.local[repo.tree[Dir(k)].branch],
         hold => /\ hold' /\ \A w \in Turns : Stranded(w) => Stranded(w)'
                 /\ \A w : OnBranch(w) => OnBranch(w)'
  PROVE  LossInv'
<1>1. Turns' = Turns /\ produced \subseteq Turns
  BY SetsKept DEF TypeInv
<1>2. ASSUME NEW k \in Jobs PROVE ToldOf(k)'
  BY <1>1 DEF LossInv, ToldOf
<1>3. ASSUME NEW w \in produced PROVE LossOK(w)'
  <2>1. w[1] \in Jobs /\ w \in Turns
    BY <1>1, TurnsLeft
  <2>2. CASE Running(w)
    <3>1. turn[w[1]].work = w /\ Held(w[1]) /\ turn[w[1]].pc # "none"
      BY <2>2 DEF Running, Held
    <3>2. turn[w[1]].pc \in {"pushing", "saving"} => repo.tree[Dir(w[1])].branch \in DOMAIN repo.local
      BY <2>1 DEF NamesInv, MainInv, JobOK, TreeOf, PlaceOf, Ready, Dir
    <3>3. Held(w[1])'
      BY <2>1, <3>1, <3>2, HeldStays
    <3>4. QED
      BY <3>1, <3>3 DEF Running, LossOK
  <2>3. QED
    BY <2>1, <2>2 DEF LossInv, LossOK
<1>4. QED
  BY <1>2, <1>3 DEF LossInv

\* A row is given up, and its worktree with it if the job was in progress.
LEMMA IdleLoss ==
  ASSUME NEW j \in Jobs, TypeInv, NamesInv, LossInv, CompleteIdle(j) \/ NotResumed(j)
  PROVE  LossInv'
<1>1. /\ Kept /\ turn' = turn /\ produced' = produced /\ writtenOff' = writtenOff
      /\ turn[j] = NoTurn /\ ~row'[j].session /\ row'[j].status = "none"
      /\ \A k \in Jobs : k # j => row'[k] = row[k]
      /\ repo' = repo \/ (repo' = Vacated(repo, j) /\ row[j].status = "in_progress")
  BY IdleDoes DEF Rowed
<1>2. /\ repo'.local = repo.local /\ repo'.remote = repo.remote /\ repo'.stash = repo.stash
      /\ repo'.tree[Main] = repo.tree[Main]
      /\ \A k \in Jobs : k # j => repo'.tree[k] = repo.tree[k]
      /\ row[j].status # "in_progress" => repo'.tree[j] = repo.tree[j]
  BY <1>1, VacatedRepo DEF Beside
<1>3. turn[j].pc = "none" /\ (Worktrees' <=> Worktrees) /\ mode' = mode /\ hold' = hold
  BY <1>1, SetsKept, NoTurnIs DEF Kept
<1>4. \A w : Safe(w) => Safe(w)'
  BY <1>1, <1>2 DEF Safe
<1>5. \A w : OnBranch(w) => OnBranch(w)'
  BY <1>2 DEF OnBranch
<1>6. \A k \in Jobs : turn[k].pc # "none" => repo'.tree[Dir(k)] = repo.tree[Dir(k)]
  BY <1>2, <1>3 DEF Dir
<1>7. ASSUME NEW w \in Turns, Stranded(w)
      PROVE  Stranded(w)'
  <2>1. w[1] \in Jobs /\ UncommittedIn(Main)' = UncommittedIn(Main)
    BY <1>2, TurnsLeft DEF UncommittedIn
  <2>2. CASE Worktrees
    <3>1. w \in UncommittedIn(w[1]) /\ ~row[w[1]].session /\ row[w[1]].status # "in_progress"
          /\ turn[w[1]].pc \in {"none", "prepare"}
      BY <1>7, <2>2 DEF Stranded
    <3>2. repo'.tree[w[1]] = repo.tree[w[1]]
      BY <1>2, <2>1, <3>1
    <3>3. UncommittedIn(w[1])' = UncommittedIn(w[1])
      BY <3>2 DEF UncommittedIn
    <3>4. ~row'[w[1]].session /\ row'[w[1]].status # "in_progress"
      BY <1>1, <2>1, <3>1
    <3>5. QED
      BY <1>1, <1>3, <2>2, <3>1, <3>3, <3>4 DEF Stranded
  <2>3. CASE ~Worktrees
    <3>1. \A k \in Jobs :
            /\ ~row[k].session
            /\ turn[k].pc # "none" => turn[k].pc = "prepare" /\ Next(turn[k].plan) = "stash"
      BY <1>7, <2>3 DEF Stranded
    <3>2. \A k \in Jobs : ~row'[k].session
      BY <1>1, <3>1
    <3>3. w \in UncommittedIn(Main)
      BY <1>7, <2>3 DEF Stranded
    <3>4. QED
      BY <1>1, <1>3, <2>1, <2>3, <3>1, <3>2, <3>3 DEF Stranded
  <2>4. QED
    BY <2>2, <2>3
<1>8. QED
  BY <1>1, <1>2, <1>3, <1>4, <1>5, <1>6, <1>7, StillLoss

\* Only branches and the remote change, and what a clean-up takes while nothing is held.
LEMMA SharedLoss ==
  ASSUME TypeInv, NamesInv, LossInv, mode' = mode, hold' = hold, turn' = turn, row' = row,
         produced' = produced, writtenOff \subseteq writtenOff', repo.stash \subseteq repo'.stash,
         \A w : \A b \in DOMAIN repo.remote : w \in repo.remote[b] => Safe(w)',
         \/ ~hold /\ \E j \in Jobs : turn[j] = NoTurn /\ Beside(j)
         \/ \A d \in Dirs : repo'.tree[d] = repo.tree[d],
         \/ repo'.local = repo.local
         \/ ~hold /\ \A d \in Dirs : repo.tree[d].branch \in DOMAIN repo.local =>
              repo'.local[repo.tree[d].branch] = repo.local[repo.tree[d].branch]
  PROVE  LossInv'
<1>1. \A w : Safe(w) => Safe(w)'
  <2>1. ASSUME NEW w, Safe(w) PROVE Safe(w)'
    <3>1. CASE \E b \in DOMAIN repo.remote : w \in repo.remote[b]
      BY <3>1
    <3>2. CASE w[1] \in AskJobs \/ w \in writtenOff \/ w \in repo.stash
      BY <3>2 DEF Safe
    <3>3. QED
      BY <2>1, <3>1, <3>2 DEF Safe
  <2>2. QED
    BY <2>1
<1>2. \A k \in Jobs : Dir(k) \in Dirs
  BY DEF Dir, Dirs
<1>3. \A k \in Jobs : turn[k].pc # "none" => repo'.tree[Dir(k)] = repo.tree[Dir(k)]
  <2>1. CASE \E j \in Jobs : turn[j] = NoTurn /\ Beside(j)
    BY <2>1, NoTurnIs DEF Beside, Dir
  <2>2. CASE \A d \in Dirs : repo'.tree[d] = repo.tree[d]
    BY <1>2, <2>2
  <2>3. QED
    BY <2>1, <2>2
<1>4. \A k \in Jobs : repo.tree[Dir(k)].branch \in DOMAIN repo.local =>
        repo'.local[repo.tree[Dir(k)].branch] = repo.local[repo.tree[Dir(k)].branch]
  BY <1>2
<1>5. Worktrees' <=> Worktrees
  BY SetsKept
<1>6. ASSUME hold, NEW w \in Turns, Stranded(w) PROVE Stranded(w)'
  <2>1. w[1] \in Jobs /\ \A d \in Dirs : repo'.tree[d] = repo.tree[d]
    BY <1>6, TurnsLeft
  <2>2. UncommittedIn(w[1])' = UncommittedIn(w[1]) /\ UncommittedIn(Main)' = UncommittedIn(Main)
    BY <2>1 DEF Dirs, UncommittedIn
  <2>3. CASE Worktrees
    BY <1>5, <1>6, <2>2, <2>3 DEF Stranded
  <2>4. CASE ~Worktrees
    BY <1>5, <1>6, <2>2, <2>4 DEF Stranded
  <2>5. QED
    BY <2>3, <2>4
<1>7. ASSUME hold, NEW w, OnBranch(w) PROVE OnBranch(w)'
  BY <1>7 DEF OnBranch
<1>8. QED
  BY <1>1, <1>3, <1>4, <1>6, <1>7, StillLoss

LEMMA PeopleLoss ==
  ASSUME NEW b \in Branches, TypeInv, NamesInv, LossInv,
         MergePullRequest(b) \/ DeleteRemoteBranch(b)
  PROVE  LossInv'
<1>1. Default \in DOMAIN repo.remote
  BY DEF NamesInv, MainInv
<1>2. CASE MergePullRequest(b)
  <2>1. /\ Kept /\ turn' = turn /\ row' = row /\ produced' = produced /\ writtenOff' = writtenOff
        /\ b \in DOMAIN repo.remote /\ repo' = Merged(repo, b)
    BY <1>2, MergeDoes
  <2>2. /\ repo'.tree[Main] = repo.tree[Main] /\ \A j \in Jobs : repo'.tree[j] = repo.tree[j]
        /\ repo'.local = repo.local /\ repo'.stash = repo.stash
        /\ DOMAIN repo'.remote = DOMAIN repo.remote
        /\ repo'.remote[Default] = repo.remote[Default] \cup repo.remote[b]
        /\ \A x \in DOMAIN repo.remote : x # Default => repo'.remote[x] = repo.remote[x]
    BY <1>1, <2>1, MergedRepo
  <2>3. \A w : \A x \in DOMAIN repo.remote : w \in repo.remote[x] => Safe(w)'
    BY <2>2 DEF Safe
  <2>4. \A d \in Dirs : repo'.tree[d] = repo.tree[d]
    BY <2>2 DEF Dirs
  <2>5. QED
    BY <2>1, <2>2, <2>3, <2>4, SharedLoss DEF Kept
<1>3. CASE DeleteRemoteBranch(b)
  <2>1. /\ Kept /\ turn' = turn /\ row' = row /\ produced' = produced
        /\ writtenOff' = writtenOff \cup repo.remote[b] /\ repo' = Withdrawn(repo, b)
    BY <1>3, WithdrawDoes
  <2>2. /\ repo'.tree[Main] = repo.tree[Main] /\ \A j \in Jobs : repo'.tree[j] = repo.tree[j]
        /\ repo'.local = repo.local /\ repo'.stash = repo.stash
        /\ DOMAIN repo'.remote = DOMAIN repo.remote \ {b}
        /\ \A x \in DOMAIN repo'.remote : repo'.remote[x] = repo.remote[x]
    BY <2>1, WithdrawnRepo
  <2>3. \A w : \A x \in DOMAIN repo.remote : w \in repo.remote[x] => Safe(w)'
    BY <2>1, <2>2 DEF Safe
  <2>4. \A d \in Dirs : repo'.tree[d] = repo.tree[d]
    BY <2>2 DEF Dirs
  <2>5. QED
    BY <2>1, <2>2, <2>3, <2>4, SharedLoss DEF Kept
<1>4. QED
  BY <1>2, <1>3

LEMMA SweepLoss ==
  ASSUME TypeInv, NamesInv, LossInv, Sweep
  PROVE  LossInv'
<1>1. /\ Kept /\ turn' = turn /\ row' = row /\ produced' = produced /\ writtenOff' = writtenOff /\ ~hold
      /\ \/ \E j \in Jobs : turn[j] = NoTurn /\ repo' = Vacated(repo, j)
         \/ \E b \in DOMAIN repo.local :
              /\ \A d \in Dirs : repo.tree[d].branch # b
              /\ repo' = Dropped(repo, b)
  BY SweepDoes
<1>2. ASSUME NEW j \in Jobs, turn[j] = NoTurn, repo' = Vacated(repo, j)
      PROVE  LossInv'
  <2>1. /\ Beside(j) /\ repo'.remote = repo.remote /\ repo'.stash = repo.stash
        /\ repo'.local = repo.local
    BY <1>2, VacatedRepo
  <2>2. \A w : \A x \in DOMAIN repo.remote : w \in repo.remote[x] => Safe(w)'
    BY <2>1 DEF Safe
  <2>3. QED
    BY <1>1, <1>2, <2>1, <2>2, SharedLoss DEF Kept
<1>3. ASSUME NEW b \in DOMAIN repo.local, \A d \in Dirs : repo.tree[d].branch # b,
             repo' = Dropped(repo, b)
      PROVE  LossInv'
  <2>1. b \in Branches
    BY RepoFields DEF TypeInv
  <2>2. /\ repo'.tree[Main] = repo.tree[Main] /\ \A j \in Jobs : repo'.tree[j] = repo.tree[j]
        /\ repo'.remote = repo.remote /\ repo'.stash = repo.stash
        /\ DOMAIN repo'.local = DOMAIN repo.local \ {b}
        /\ \A x \in DOMAIN repo'.local : repo'.local[x] = repo.local[x]
    BY <1>3, <2>1, DroppedRepo
  <2>3. \A w : \A x \in DOMAIN repo.remote : w \in repo.remote[x] => Safe(w)'
    BY <2>2 DEF Safe
  <2>4. \A d \in Dirs : repo'.tree[d] = repo.tree[d]
    BY <2>2 DEF Dirs
  <2>5. \A d \in Dirs : repo.tree[d].branch \in DOMAIN repo.local =>
          repo'.local[repo.tree[d].branch] = repo.local[repo.tree[d].branch]
    BY <1>3, <2>2
  <2>6. QED
    BY <1>1, <2>2, <2>3, <2>4, <2>5, SharedLoss DEF Kept
<1>4. QED
  BY <1>1, <1>2, <1>3

\* The work of the turns that are cut off is run again, or stranded by the file that
\* could not be read.
LEMMA ExitLoss ==
  ASSUME TypeInv, NamesInv, LossInv, Exit
  PROVE  LossInv'
<1>1. /\ mode' = mode /\ repo' = repo /\ produced' = produced
      /\ \A j \in Jobs : turn'[j] = NoTurn
      /\ \/ /\ row' = row /\ hold' = hold
            /\ writtenOff' = writtenOff \cup {turn[j].work : j \in {k \in Jobs : turn[k] # NoTurn}}
         \/ /\ \A j \in Jobs : row'[j] = NoRow
            /\ hold' = TRUE /\ writtenOff' = writtenOff
  BY ExitDoes
<1>2. /\ (Worktrees' <=> Worktrees) /\ produced \subseteq Turns
      /\ \A j \in Jobs : turn'[j].pc = "none"
  BY <1>1, SetsKept, NoTurnIs DEF TypeInv
<1>3. \A j \in Jobs : ToldOf(j)'
  BY <1>2 DEF ToldOf
<1>4. \A d : UncommittedIn(d)' = UncommittedIn(d)
  BY <1>1 DEF UncommittedIn
<1>5. ASSUME NEW w \in produced, Safe(w) PROVE LossOK(w)'
  BY <1>1, <1>5 DEF Safe, LossOK
<1>6. ASSUME NEW w \in produced, Stranded(w) PROVE Stranded(w)'
  <2>1. w[1] \in Jobs
    BY <1>2, TurnsLeft
  <2>2. \A j \in Jobs : row'[j] = row[j] \/ (~row'[j].session /\ row'[j].status = "none")
    BY <1>1 DEF NoRow
  <2>3. CASE Worktrees
    <3>1. w \in UncommittedIn(w[1]) /\ ~row[w[1]].session /\ row[w[1]].status # "in_progress"
      BY <1>6, <2>3 DEF Stranded
    <3>2. ~row'[w[1]].session /\ row'[w[1]].status # "in_progress"
      BY <2>1, <2>2, <3>1
    <3>3. QED
      BY <1>2, <1>4, <2>1, <2>3, <3>1, <3>2 DEF Stranded
  <2>4. CASE ~Worktrees
    <3>1. w \in UncommittedIn(Main) /\ \A k \in Jobs : ~row[k].session
      BY <1>6, <2>4 DEF Stranded
    <3>2. \A k \in Jobs : ~row'[k].session
      BY <2>2, <3>1
    <3>3. QED
      BY <1>2, <1>4, <2>4, <3>1, <3>2 DEF Stranded
  <2>5. QED
    BY <2>3, <2>4
<1>7. ASSUME NEW w, OnBranch(w) PROVE OnBranch(w)'
  BY <1>1, <1>7 DEF OnBranch
<1>8. CASE /\ hold' = hold
           /\ writtenOff' = writtenOff \cup {turn[j].work : j \in {k \in Jobs : turn[k] # NoTurn}}
  <2>1. ASSUME NEW w \in produced, Running(w) PROVE Safe(w)'
    <3>1. w[1] \in Jobs /\ turn[w[1]].work = w /\ turn[w[1]].pc # "none"
      BY <1>2, <2>1, TurnsLeft DEF Running, Held
    <3>2. turn[w[1]] # NoTurn
      BY <3>1, NoTurnIs
    <3>3. w \in writtenOff'
      BY <1>8, <3>1, <3>2
    <3>4. QED
      BY <3>3 DEF Safe
  <2>2. ASSUME NEW w \in produced PROVE LossOK(w)'
    <3>1. Safe(w) \/ Running(w) \/ (hold /\ (Stranded(w) \/ OnBranch(w)))
      BY DEF LossInv, LossOK
    <3>2. QED
      BY <1>5, <1>6, <1>7, <1>8, <2>1, <3>1 DEF LossOK
  <2>3. QED
    BY <1>1, <1>3, <2>2 DEF LossInv
<1>9. CASE /\ \A j \in Jobs : row'[j] = NoRow
           /\ hold' = TRUE /\ writtenOff' = writtenOff
  <2>1. \A j \in Jobs : ~row'[j].session /\ row'[j].status = "none"
    BY <1>9 DEF NoRow
  <2>2. ASSUME NEW w \in produced, Running(w) PROVE Stranded(w)' \/ OnBranch(w)'
    <3>1. w[1] \in Jobs /\ turn[w[1]].work = w /\ Held(w[1])
      BY <1>2, <2>2, TurnsLeft DEF Running
    <3>2. \/ w \in UncommittedIn(Dir(w[1]))
          \/ /\ turn[w[1]].pc \in {"pushing", "saving"}
             /\ w \in repo.local[repo.tree[Dir(w[1])].branch]
      BY <3>1 DEF Held, UncommittedIn
    <3>3. turn[w[1]].pc \in {"pushing", "saving"} => repo.tree[Dir(w[1])].branch \in DOMAIN repo.local
      BY <3>1 DEF NamesInv, MainInv, JobOK, TreeOf, PlaceOf, Ready, Dir
    <3>4. CASE w \in UncommittedIn(Dir(w[1])) /\ Worktrees
      BY <1>2, <1>4, <2>1, <3>1, <3>4 DEF Stranded, Dir
    <3>5. CASE w \in UncommittedIn(Dir(w[1])) /\ ~Worktrees
      BY <1>2, <1>4, <2>1, <3>5 DEF Stranded, Dir
    <3>6. CASE /\ turn[w[1]].pc \in {"pushing", "saving"}
               /\ w \in repo.local[repo.tree[Dir(w[1])].branch]
      <4>1. OnBranch(w)
        BY <3>3, <3>6 DEF OnBranch
      <4>2. QED
        BY <1>7, <4>1
    <3>7. QED
      BY <3>2, <3>4, <3>5, <3>6
  <2>3. ASSUME NEW w \in produced PROVE LossOK(w)'
    <3>1. Safe(w) \/ Running(w) \/ (hold /\ (Stranded(w) \/ OnBranch(w)))
      BY DEF LossInv, LossOK
    <3>2. QED
      BY <1>5, <1>6, <1>7, <1>9, <2>2, <3>1 DEF LossOK
  <2>4. QED
    BY <1>1, <1>3, <2>3 DEF LossInv
<1>10. QED
  BY <1>1, <1>8, <1>9

LEMMA BesideLoss ==
  ASSUME TypeInv, NamesInv, LossInv,
         \/ \E j \in Jobs : CompleteIdle(j) \/ NotResumed(j)
         \/ \E b \in Branches : MergePullRequest(b) \/ DeleteRemoteBranch(b)
         \/ Sweep \/ MarkShuttingDown \/ Exit \/ ClearHold \/ UNCHANGED deliveryVars
  PROVE  LossInv'
<1>1. CASE ClearHold
  <2>1. produced' = produced /\ produced \subseteq writtenOff'
    BY <1>1 DEF ClearHold
  <2>2. \A j \in Jobs : ToldOf(j)'
    BY <2>1 DEF ToldOf
  <2>3. \A w \in produced : LossOK(w)'
    BY <2>1 DEF LossOK, Safe
  <2>4. QED
    BY <2>1, <2>2, <2>3 DEF LossInv
<1>2. CASE MarkShuttingDown \/ UNCHANGED deliveryVars
  <2>1. /\ UNCHANGED <<mode, repo, row, turn, hold, produced, writtenOff>>
    BY <1>2, MarkDoes DEF deliveryVars, historyVars, toldVars
  <2>2. \A w : \A x \in DOMAIN repo.remote : w \in repo.remote[x] => Safe(w)'
    BY <2>1 DEF Safe
  <2>3. QED
    BY <2>1, <2>2, SharedLoss
<1>3. QED
  BY <1>1, <1>2, IdleLoss, PeopleLoss, SweepLoss, ExitLoss

LEMMA LossInit == GitDeliveryInit => LossInv
<1> SUFFICES ASSUME GitDeliveryInit PROVE LossInv
  OBVIOUS
<1>1. turn = [j \in Jobs |-> NoTurn] /\ produced = {}
  BY Zenon DEF GitDeliveryInit
<1>2. \A j \in Jobs : turn[j].pc = "none"
  BY <1>1, NoTurnIs
<1>3. QED
  BY <1>1, <1>2 DEF LossInv, ToldOf

LEMMA LossStep ==
  ASSUME TypeInv, NamesInv, WorkInv, OwnInv, KeptOffDefault, FreshInv, LossInv,
         [GitDeliveryNext]_deliveryVars
  PROVE  LossInv'
<1>1. TypeInv'
  BY TypeStep
<1>2. CASE \E j \in Jobs : BeginTurn(j) \/ TurnStep(j)
  BY <1>1, <1>2, BeginLoss, TurnLoss
<1>3. CASE \/ \E j \in Jobs : CompleteIdle(j) \/ NotResumed(j)
           \/ \E b \in Branches : MergePullRequest(b) \/ DeleteRemoteBranch(b)
           \/ Sweep \/ MarkShuttingDown \/ Exit \/ ClearHold
  BY <1>3, BesideLoss
<1>4. CASE UNCHANGED deliveryVars
  BY <1>4, BesideLoss
<1>5. QED
  BY <1>2, <1>3, <1>4 DEF GitDeliveryNext

LEMMA LossKept ==
  ASSUME KeptOffDefault
  PROVE  GitDeliverySpec => [](TypeInv /\ NamesInv /\ FreshInv /\ LossInv)
<1>1. GitDeliveryInit => FreshInv /\ LossInv
  BY FreshInit, LossInit
<1>2. (TypeInv /\ NamesInv /\ WorkInv /\ OwnInv) /\ (FreshInv /\ LossInv)
        /\ [GitDeliveryNext]_deliveryVars => (FreshInv /\ LossInv)'
  BY FreshStep, LossStep
<1>3. GitDeliverySpec => [](TypeInv /\ NamesInv /\ WorkInv /\ OwnInv)
  BY OwnKept
<1>4. QED
  BY <1>1, <1>2, <1>3, PTL DEF GitDeliverySpec

\* Wherever a turn is cut off, fails or is stopped, and whatever is cleaned up after
\* it: work that is nowhere any more was reported, its thread only asked, a shutdown
\* left it to the next start, or it is one of the three cases nobody hears of.
THEOREM LossReported == ASSUME KeptOffDefault PROVE GitDeliverySpec => []LossIsReported
<1>1. TypeInv /\ NamesInv /\ LossInv => LossIsReported
  <2> SUFFICES ASSUME TypeInv, NamesInv, LossInv, NEW w \in produced, w \notin KeptWork
               PROVE  w \in writtenOff \cup (AskJobs \X TurnNumbers)
    BY DEF LossIsReported, Reported
  <2>1. w \in Turns /\ w[1] \in Jobs /\ w = <<w[1], w[2]>> /\ w[2] \in TurnNumbers
    BY TurnsLeft DEF TypeInv, Turns
  <2>2. repo.local \in BranchMaps /\ repo.remote \in BranchMaps
    BY RepoFields DEF TypeInv
  <2>3. w \notin repo.stash /\ \A d \in Dirs : w \notin UncommittedIn(d)
    BY DEF KeptWork
  <2>4. w \notin UNION Range(repo.local) /\ w \notin UNION Range(repo.remote)
    BY DEF KeptWork
  <2>5. /\ \A b \in DOMAIN repo.local : w \notin repo.local[b]
        /\ \A b \in DOMAIN repo.remote : w \notin repo.remote[b]
    BY <2>2, <2>4, RangeOf
  <2>6. Dir(w[1]) \in Dirs /\ w[1] \in Dirs /\ Main \in Dirs
    BY <2>1 DEF Dir, Dirs
  <2>7. ~Running(w)
    <3>1. turn[w[1]].pc \in {"pushing", "saving"} => repo.tree[Dir(w[1])].branch \in DOMAIN repo.local
      BY <2>1 DEF NamesInv, MainInv, JobOK, TreeOf, PlaceOf, Ready, Dir
    <3>2. QED
      BY <2>3, <2>5, <2>6, <3>1 DEF Running, Held, UncommittedIn
  <2>8. ~Stranded(w)
    BY <2>3, <2>6 DEF Stranded
  <2>9. ~OnBranch(w)
    BY <2>5 DEF OnBranch
  <2>10. Safe(w)
    BY <2>7, <2>8, <2>9 DEF LossInv, LossOK
  <2>11. w[1] \in AskJobs \/ w \in writtenOff
    BY <2>3, <2>5, <2>10 DEF Safe
  <2>12. QED
    BY <2>1, <2>11
<1>2. QED
  BY <1>1, LossKept, PTL
=============================================================================
