--------------------------- MODULE WorktreesProofs ---------------------------
(***************************************************************************)
(* Proofs about Worktrees: for any number of jobs, pool directories,       *)
(* conversations, failures and crashes.                                    *)
(*                                                                         *)
(* The inductive invariant says who may touch what.  A pool directory is   *)
(* in one list or with one turn, and is there, registered and on its own   *)
(* branch for as long; a branch a pool directory was made with is not made *)
(* again while any job's directory may still have it checked out, because  *)
(* clearing that directory away deletes the branch.                        *)
(***************************************************************************)
EXTENDS Worktrees, WellFoundedInduction, TLAPS

-----------------------------------------------------------------------------
(* The inductive invariant. *)

EntriesOf(s) == {s[i] : i \in 1 .. Len(s)}
SlotsOf(s) == {e.slot : e \in EntriesOf(s)}
Distinct(s) == \A i, k \in 1 .. Len(s) : s[i].slot = s[k].slot => i = k

(* The slots the pool has in its lists. *)
Pooling == SlotsOf(ready) \cup SlotsOf(replenisher.stale) \cup SlotsOf(replenisher.recovered)

(* A directory git knows. *)
Checked(p) == p \in DOMAIN dirs /\ p \in registered

(* Before the start is over there are no turns and no sweep, and the        *)
(* replenisher has not begun; what a position says of the local variables. *)
ShapeInv ==
  /\ phase \in {"load", "stale", "reclaim"} => replenisher.pc = "off"
  /\ phase \in {"load", "stale"} => ready = <<>>
  /\ phase # "up" => sweep = NoSweep /\ \A j \in Jobs : turn[j] = NoTurn
  /\ replenisher.pc # "reset" => replenisher.stale = <<>> /\ replenisher.recovered = <<>>
  /\ replenisher.pc = "branch" => replenisher.slot \in Slots
  /\ replenisher.pc \in {"off", "branch"} => replenisher.then = "wait"
  /\ \A j \in Jobs : turn[j].slot # NoSlot <=> turn[j].pc \in {"move", "rename"}
  /\ \A j \in Jobs : turn[j].pc # "none" =>
       turn[j].branch \in Attempts /\ turn[j].branch[1] = j /\ turn[j].branch[2] <= attempts

(* The pool never has more than it wants, nor has what it will have when    *)
(* the worktree it is making is ready.                                     *)
CountInv ==
  LET n == Len(ready) + Len(replenisher.stale) + Len(replenisher.recovered) IN
  /\ n <= Target
  /\ replenisher.pc \in {"name", "branch"} \/ replenisher.then = "name" => n < Target

HolderInv ==
  /\ Distinct(ready) /\ Distinct(replenisher.stale) /\ Distinct(replenisher.recovered)
  /\ SlotsOf(ready) \cap SlotsOf(replenisher.stale) = {}
  /\ SlotsOf(ready) \cap SlotsOf(replenisher.recovered) = {}
  /\ SlotsOf(replenisher.stale) \cap SlotsOf(replenisher.recovered) = {}
  /\ \A j \in Jobs : turn[j].slot # NoSlot =>
       turn[j].slot \notin Pooling /\ \A k \in Jobs : turn[k].slot = turn[j].slot => k = j

(* A pool directory in a list or about to be moved is there; one that is    *)
(* there is nobody's and, if git knows it, on its own branch.              *)
PoolInv ==
  /\ \A s \in Pooling : Checked(s)
  /\ \A j \in Jobs : turn[j].pc = "move" => Checked(turn[j].slot)
  /\ \A s \in Slots : s \in DOMAIN dirs => dirs[s].work = NoBranch
  /\ \A s \in Slots : Checked(s) => s \in branches /\ dirs[s].branch = s

(* What the replenisher makes is new. *)
NewInv ==
  replenisher.pc = "branch" =>
    /\ replenisher.slot \notin DOMAIN dirs /\ replenisher.slot \notin registered
    /\ replenisher.slot \notin branches

(* A turn that waits for a directory has none; one that moved a pool        *)
(* directory to its place has its branch still to rename.                  *)
MovedInv ==
  \A j \in Jobs :
    /\ turn[j].pc \in {"pop", "move", "create"} => ~Checked(j)
    /\ turn[j].pc = "rename" =>
         /\ turn[j].slot \in branches /\ turn[j].slot \notin DOMAIN dirs
         /\ Checked(j) => dirs[j].branch = turn[j].slot /\ dirs[j].work = NoBranch

(* A job's directory that is still on a pool branch: nobody else has that   *)
(* branch or a pool directory of that slot.                                *)
StrayInv ==
  \A j \in Jobs : Checked(j) /\ dirs[j].branch \in Slots =>
    /\ dirs[j].branch \in branches /\ dirs[j].branch \notin DOMAIN dirs
    /\ \A k \in Jobs : turn[k].pc = "rename" /\ turn[k].slot = dirs[j].branch => k = j
    /\ \A k \in Jobs : Checked(k) /\ dirs[k].branch = dirs[j].branch => k = j

(* The commit recorded for a pooled worktree is not newer than the worktree.*)
BaseInv ==
  /\ fetched <= origin
  /\ replenisher.base <= fetched
  /\ \A e \in EntriesOf(ready) \cup EntriesOf(replenisher.recovered) :
       e.base <= dirs[e.slot].base

CleanInv ==
  \A j \in Jobs : turn[j].pc \in {"row", "work"} /\ j \in DOMAIN dirs =>
    dirs[j].branch = turn[j].branch /\ dirs[j].work = NoBranch

(* Attempts are numbered: what a turn makes is new to all others. *)
FreshInv ==
  /\ \A p \in Attempts : p \in DOMAIN dirs => p[2] <= attempts
  /\ \A p \in DOMAIN dirs : dirs[p].work # NoBranch => dirs[p].work[2] <= attempts
  /\ \A b \in lost \cup sweep.safe : b[2] <= attempts
  /\ \A j \in Jobs : row[j] # NoBranch => row[j][1] = j /\ row[j][2] <= attempts
  /\ \A j \in Jobs : turn[j].pc \notin {"none", "work"} =>
       row[j] # turn[j].branch /\ turn[j].branch \notin sweep.safe
  /\ \A j \in Jobs : turn[j].pc # "none" => turn[j].branch \notin lost

(* While rows are lost nothing is swept, and a row that is there again      *)
(* tracks a directory made since.                                          *)
HoldInv ==
  /\ ~hold => lost = {}
  /\ hold => sweep.pc \notin {"rows", "remove"}
  /\ \A j \in Jobs : row[j] # NoBranch /\ j \in DOMAIN dirs => dirs[j].work \notin lost
  /\ HeldWorkSurvives

SweepInv ==
  /\ sweep.paths \cap Slots = {} /\ sweep.names \cap Slots = {}
  /\ sweep.pc = "remove" => \A j \in Jobs : row[j] \in sweep.safe => j \notin sweep.paths

IInv ==
  /\ WorktreesTypeOK
  /\ ShapeInv
  /\ CountInv
  /\ HolderInv
  /\ PoolInv
  /\ NewInv
  /\ MovedInv
  /\ StrayInv
  /\ BaseInv
  /\ CleanInv
  /\ FreshInv
  /\ HoldInv
  /\ SweepInv


-----------------------------------------------------------------------------
(* Induction on the naturals, as the least element of a set. *)

LEMMA Minimum ==
  ASSUME NEW R, IsWellFoundedOn(R, Nat), \A x, y \in Nat : x < y => <<x, y>> \in R,
         NEW S, S \subseteq Nat, S # {}
  PROVE  \E n \in S : \A m \in S : n <= m
<1>1. PICK n \in S : \A m \in S : ~(<<m, n>> \in R)
  BY WFMin, ZenonT(60)
<1>2. \A m \in S : ~(m < n)
  BY <1>1
<1>3. QED
  BY <1>2

LEMMA LeastElement ==
  ASSUME NEW S, S \subseteq Nat, S # {}
  PROVE  \E n \in S : \A m \in S : n <= m
<1>1. IsWellFoundedOn(OpToRel(<, Nat), Nat)
  BY NatLessThanWellFounded
<1>2. \A x, y \in Nat : x < y => <<x, y>> \in OpToRel(<, Nat)
  BY DEF OpToRel
<1>3. QED
  BY <1>1, <1>2, Minimum

(* A set with zero, and with every number one of whose predecessors it has, *)
(* has all numbers up to n.                                                *)
LEMMA Induction ==
  ASSUME NEW n \in Nat, NEW S, 0 \in S, \A i \in 1 .. n : i - 1 \in S => i \in S
  PROVE  \A i \in 0 .. n : i \in S
<1> SUFFICES ASSUME ~ \A i \in 0 .. n : i \in S PROVE FALSE
  OBVIOUS
<1> DEFINE B == {i \in 0 .. n : i \notin S}
<1>1. B \subseteq Nat /\ B # {}
  OBVIOUS
<1>2. PICK m \in B : \A i \in B : m <= i
  BY <1>1, LeastElement
<1>3. m \in 1 .. n /\ m \notin S
  BY <1>2
<1>4. m - 1 \in 0 .. n /\ m - 1 \notin B
  BY <1>2, <1>3
<1>5. QED
  BY <1>3, <1>4

-----------------------------------------------------------------------------
(* Keeping. *)

Kept(s, T, f, n) ==
  f = [i \in 0 .. n |->
        IF i = 0 THEN <<>> ELSE IF s[i] \in T THEN Append(f[i - 1], s[i]) ELSE f[i - 1]]

LEMMA KeptExists ==
  ASSUME NEW s, NEW n \in Nat, NEW T
  PROVE  \E f : Kept(s, T, f, n)
<1> DEFINE S == {i \in Nat : \E f : Kept(s, T, f, i)}
<1>1. 0 \in S
  <2>1. Kept(s, T, [i \in 0 .. 0 |-> <<>>], 0)
    BY DEF Kept
  <2>2. QED
    BY <2>1
<1>2. ASSUME NEW i \in 1 .. n, i - 1 \in S PROVE i \in S
  <2>1. PICK f : Kept(s, T, f, i - 1)
    BY <1>2
  <2> DEFINE x == IF s[i] \in T THEN Append(f[i - 1], s[i]) ELSE f[i - 1]
             g == [k \in 0 .. i |-> IF k = i THEN x ELSE f[k]]
  <2>2. \A k \in 0 .. i - 1 :
          f[k] = IF k = 0 THEN <<>>
                 ELSE IF s[k] \in T THEN Append(f[k - 1], s[k]) ELSE f[k - 1]
    BY <2>1 DEF Kept
  <2>3. \A k \in 0 .. i - 1 : g[k] = f[k]
    OBVIOUS
  <2>4. g[i] = x
    OBVIOUS
  <2> HIDE DEF x
  <2>5. \A k \in 0 .. i :
          g[k] = IF k = 0 THEN <<>>
                 ELSE IF s[k] \in T THEN Append(g[k - 1], s[k]) ELSE g[k - 1]
    <3> SUFFICES ASSUME NEW k \in 0 .. i
                 PROVE  g[k] = IF k = 0 THEN <<>>
                               ELSE IF s[k] \in T THEN Append(g[k - 1], s[k]) ELSE g[k - 1]
      OBVIOUS
    <3> HIDE DEF g
    <3>1. CASE k = i
      <4>1. g[k - 1] = f[k - 1] /\ k # 0
        BY <2>3, <3>1
      <4>2. QED
        BY <2>4, <3>1, <4>1 DEF x
    <3>2. CASE k # i /\ k # 0
      <4>1. k \in 0 .. i - 1 /\ k - 1 \in 0 .. i - 1
        BY <3>2
      <4>2. g[k] = f[k] /\ g[k - 1] = f[k - 1]
        BY <2>3, <4>1
      <4>3. QED
        BY <2>2, <3>2, <4>1, <4>2
    <3>3. CASE k # i /\ k = 0
      <4>1. k \in 0 .. i - 1
        BY <3>3
      <4>2. QED
        BY <2>2, <2>3, <3>3, <4>1
    <3>4. QED
      BY <3>1, <3>2, <3>3
  <2>6. g = [k \in 0 .. i |->
               IF k = 0 THEN <<>>
               ELSE IF s[k] \in T THEN Append(g[k - 1], s[k]) ELSE g[k - 1]]
    <3>1. g = [k \in 0 .. i |-> g[k]]
      OBVIOUS
    <3> HIDE DEF g
    <3>2. QED
      BY <2>5, <3>1
  <2> HIDE DEF g
  <2>7. Kept(s, T, g, i)
    BY <2>6 DEF Kept
  <2>8. QED
    BY <2>7
<1> HIDE DEF S
<1>3. n \in S
  BY <1>1, <1>2, Induction
<1>4. QED
  BY <1>3 DEF S

LEMMA KeptSteps ==
  ASSUME NEW s, NEW n \in Nat, NEW T, NEW f, Kept(s, T, f, n)
  PROVE  /\ f[0] = <<>>
         /\ \A i \in 1 .. n :
              f[i] = IF s[i] \in T THEN Append(f[i - 1], s[i]) ELSE f[i - 1]
<1>1. \A i \in 0 .. n :
        f[i] = IF i = 0 THEN <<>>
               ELSE IF s[i] \in T THEN Append(f[i - 1], s[i]) ELSE f[i - 1]
  BY DEF Kept
<1>2. f[0] = <<>>
  <2>1. 0 \in 0 .. n
    OBVIOUS
  <2>2. f[0] = IF 0 = 0 THEN <<>>
               ELSE IF s[0] \in T THEN Append(f[0 - 1], s[0]) ELSE f[0 - 1]
    BY ONLY <1>1, <2>1, Zenon
  <2>3. QED
    BY <2>2
<1>3. ASSUME NEW i \in 1 .. n
      PROVE  f[i] = IF s[i] \in T THEN Append(f[i - 1], s[i]) ELSE f[i - 1]
  <2>1. i \in 0 .. n /\ i # 0
    OBVIOUS
  <2>2. QED
    BY <1>1, <2>1
<1>4. QED
  BY <1>2, <1>3

LEMMA KeepingSteps ==
  ASSUME NEW s, Len(s) \in Nat, NEW T
  PROVE  \E f : /\ Keeping(s, T) = f[Len(s)] /\ f[0] = <<>>
                /\ \A i \in 1 .. Len(s) :
                     f[i] = IF s[i] \in T THEN Append(f[i - 1], s[i]) ELSE f[i - 1]
<1> DEFINE f == CHOOSE f : Kept(s, T, f, Len(s))
<1>1. Kept(s, T, f, Len(s))
  BY KeptExists
<1>2. Keeping(s, T) = f[Len(s)]
  BY DEF Keeping, Kept
<1> HIDE DEF f
<1>3. /\ f[0] = <<>>
      /\ \A i \in 1 .. Len(s) :
           f[i] = IF s[i] \in T THEN Append(f[i - 1], s[i]) ELSE f[i - 1]
  BY <1>1, KeptSteps
<1>4. QED
  BY <1>2, <1>3


-----------------------------------------------------------------------------
(* The lists of the pool. *)

LEMMA NoEntries == EntriesOf(<<>>) = {} /\ SlotsOf(<<>>) = {} /\ Distinct(<<>>)
<1>1. EntriesOf(<<>>) = {}
  BY DEF EntriesOf
<1>2. QED
  BY <1>1 DEF SlotsOf, Distinct

LEMMA EntriesAre ==
  ASSUME NEW s \in Seq(Pooled)
  PROVE  /\ EntriesOf(s) \subseteq Pooled /\ SlotsOf(s) \subseteq Slots
         /\ \A i \in 1 .. Len(s) : s[i] \in EntriesOf(s) /\ s[i].slot \in SlotsOf(s)
         /\ \A e \in EntriesOf(s) : e.slot \in SlotsOf(s)
         /\ \A x \in SlotsOf(s) : \E e \in EntriesOf(s) : x = e.slot
<1>1. \A i \in 1 .. Len(s) : s[i] \in Pooled
  OBVIOUS
<1>2. EntriesOf(s) \subseteq Pooled
  BY <1>1 DEF EntriesOf
<1>3. \A e \in Pooled : e.slot \in Slots
  BY DEF Pooled
<1>4. QED
  BY <1>2, <1>3 DEF EntriesOf, SlotsOf

LEMMA Distinctly ==
  ASSUME NEW s \in Seq(Pooled), Distinct(s), NEW d \in EntriesOf(s), NEW e \in EntriesOf(s),
         d.slot = e.slot
  PROVE  d = e
<1>1. PICK i \in 1 .. Len(s) : d = s[i]
  BY DEF EntriesOf
<1>2. PICK k \in 1 .. Len(s) : e = s[k]
  BY DEF EntriesOf
<1>3. i = k
  BY <1>1, <1>2 DEF Distinct
<1>4. QED
  BY <1>1, <1>2, <1>3

LEMMA Appended ==
  ASSUME NEW s \in Seq(Pooled), NEW e \in Pooled
  PROVE  /\ Append(s, e) \in Seq(Pooled) /\ Len(Append(s, e)) = Len(s) + 1
         /\ EntriesOf(Append(s, e)) = EntriesOf(s) \cup {e}
         /\ SlotsOf(Append(s, e)) = SlotsOf(s) \cup {e.slot}
         /\ Distinct(s) /\ e.slot \notin SlotsOf(s) => Distinct(Append(s, e))
<1> DEFINE t == Append(s, e)
<1>1. /\ t \in Seq(Pooled) /\ Len(t) = Len(s) + 1 /\ Len(s) \in Nat /\ t[Len(s) + 1] = e
      /\ \A i \in 1 .. Len(s) : t[i] = s[i]
  OBVIOUS
<1> HIDE DEF t
<1>2. EntriesOf(t) = EntriesOf(s) \cup {e}
  <2>1. ASSUME NEW x \in EntriesOf(t) PROVE x \in EntriesOf(s) \cup {e}
    <3>1. PICK i \in 1 .. Len(t) : x = t[i]
      BY DEF EntriesOf
    <3>2. i \in 1 .. Len(s) \/ i = Len(s) + 1
      BY <1>1
    <3>3. QED
      BY <1>1, <3>1, <3>2 DEF EntriesOf
  <2>2. ASSUME NEW x \in EntriesOf(s) PROVE x \in EntriesOf(t)
    <3>1. PICK i \in 1 .. Len(s) : x = s[i]
      BY DEF EntriesOf
    <3>2. i \in 1 .. Len(t) /\ x = t[i]
      BY <1>1, <3>1
    <3>3. QED
      BY <3>2 DEF EntriesOf
  <2>3. Len(s) + 1 \in 1 .. Len(t)
    BY <1>1
  <2>4. e \in EntriesOf(t)
    BY <1>1, <2>3 DEF EntriesOf
  <2>5. QED
    BY <2>1, <2>2, <2>4
<1>3. SlotsOf(t) = SlotsOf(s) \cup {e.slot}
  BY <1>2 DEF SlotsOf
<1>4. ASSUME Distinct(s), e.slot \notin SlotsOf(s) PROVE Distinct(t)
  <2> SUFFICES ASSUME NEW i \in 1 .. Len(t), NEW k \in 1 .. Len(t), t[i].slot = t[k].slot
               PROVE  i = k
    BY DEF Distinct
  <2>1. \A n \in 1 .. Len(s) : t[n].slot # e.slot
    BY <1>1, <1>4, EntriesAre
  <2>2. CASE i = Len(s) + 1 \/ k = Len(s) + 1
    <3>1. t[i].slot = e.slot /\ t[k].slot = e.slot
      BY <1>1, <2>2
    <3>2. i \notin 1 .. Len(s) /\ k \notin 1 .. Len(s)
      BY <2>1, <3>1
    <3>3. QED
      BY <1>1, <3>2
  <2>3. CASE i # Len(s) + 1 /\ k # Len(s) + 1
    <3>1. i \in 1 .. Len(s) /\ k \in 1 .. Len(s)
      BY <1>1, <2>3
    <3>2. s[i].slot = s[k].slot
      BY <1>1, <3>1
    <3>3. QED
      BY <1>4, <3>1, <3>2 DEF Distinct
  <2>4. QED
    BY <2>2, <2>3
<1>5. QED
  BY <1>1, <1>2, <1>3, <1>4 DEF t

LEMMA Behead ==
  ASSUME NEW s \in Seq(Pooled), s # <<>>
  PROVE  /\ Head(s) \in Pooled /\ Head(s) \in EntriesOf(s)
         /\ Tail(s) \in Seq(Pooled) /\ Len(s) = Len(Tail(s)) + 1
         /\ EntriesOf(s) = EntriesOf(Tail(s)) \cup {Head(s)}
         /\ SlotsOf(s) = SlotsOf(Tail(s)) \cup {Head(s).slot}
         /\ Distinct(s) => Distinct(Tail(s)) /\ Head(s).slot \notin SlotsOf(Tail(s))
<1> DEFINE t == Tail(s)
           h == Head(s)
<1>1. /\ t \in Seq(Pooled) /\ Len(s) = Len(t) + 1 /\ Len(t) \in Nat
      /\ h = s[1] /\ \A i \in 1 .. Len(t) : t[i] = s[i + 1]
  OBVIOUS
<1> HIDE DEF t, h
<1>2. h \in Pooled /\ 1 \in 1 .. Len(s)
  BY <1>1
<1>3. EntriesOf(s) = EntriesOf(t) \cup {h}
  <2>1. ASSUME NEW x \in EntriesOf(s) PROVE x \in EntriesOf(t) \cup {h}
    <3>1. PICK i \in 1 .. Len(s) : x = s[i]
      BY DEF EntriesOf
    <3>2. CASE i = 1
      BY <1>1, <3>1, <3>2
    <3>3. CASE i # 1
      <4>1. i - 1 \in 1 .. Len(t) /\ (i - 1) + 1 = i
        BY <1>1, <3>3
      <4>2. x = t[i - 1]
        BY <1>1, <3>1, <4>1
      <4>3. QED
        BY <4>1, <4>2 DEF EntriesOf
    <3>4. QED
      BY <3>2, <3>3
  <2>2. ASSUME NEW x \in EntriesOf(t) PROVE x \in EntriesOf(s)
    <3>1. PICK i \in 1 .. Len(t) : x = t[i]
      BY DEF EntriesOf
    <3>2. i + 1 \in 1 .. Len(s) /\ x = s[i + 1]
      BY <1>1, <3>1
    <3>3. QED
      BY <3>2 DEF EntriesOf
  <2>3. h \in EntriesOf(s)
    BY <1>1, <1>2 DEF EntriesOf
  <2>4. QED
    BY <2>1, <2>2, <2>3
<1>4. SlotsOf(s) = SlotsOf(t) \cup {h.slot}
  BY <1>3 DEF SlotsOf
<1>5. ASSUME Distinct(s) PROVE Distinct(t) /\ h.slot \notin SlotsOf(t)
  <2>1. Distinct(t)
    <3> SUFFICES ASSUME NEW i \in 1 .. Len(t), NEW k \in 1 .. Len(t), t[i].slot = t[k].slot
                 PROVE  i = k
      BY DEF Distinct
    <3>1. i + 1 \in 1 .. Len(s) /\ k + 1 \in 1 .. Len(s) /\ s[i + 1].slot = s[k + 1].slot
      BY <1>1
    <3>2. i + 1 = k + 1
      BY <1>5, <3>1 DEF Distinct
    <3>3. QED
      BY <3>2
  <2>2. ASSUME h.slot \in SlotsOf(t) PROVE FALSE
    <3>1. PICK i \in 1 .. Len(t) : t[i].slot = h.slot
      BY <2>2 DEF SlotsOf, EntriesOf
    <3>2. i + 1 \in 1 .. Len(s) /\ s[i + 1].slot = s[1].slot
      BY <1>1, <3>1
    <3>3. i + 1 = 1
      BY <1>2, <1>5, <3>2 DEF Distinct
    <3>4. QED
      BY <3>3
  <2>3. QED
    BY <2>1, <2>2
<1>6. QED
  BY <1>1, <1>2, <1>3, <1>4, <1>5 DEF t, h

LEMMA Joined ==
  ASSUME NEW s \in Seq(Pooled), NEW u \in Seq(Pooled)
  PROVE  /\ s \o u \in Seq(Pooled) /\ Len(s \o u) = Len(s) + Len(u)
         /\ EntriesOf(s \o u) = EntriesOf(s) \cup EntriesOf(u)
         /\ SlotsOf(s \o u) = SlotsOf(s) \cup SlotsOf(u)
         /\ Distinct(s) /\ Distinct(u) /\ SlotsOf(s) \cap SlotsOf(u) = {} => Distinct(s \o u)
<1> DEFINE t == s \o u
<1>1. /\ t \in Seq(Pooled) /\ Len(t) = Len(s) + Len(u) /\ Len(s) \in Nat /\ Len(u) \in Nat
      /\ \A i \in 1 .. Len(t) : t[i] = IF i <= Len(s) THEN s[i] ELSE u[i - Len(s)]
  OBVIOUS
<1> HIDE DEF t
<1>2. \A i \in 1 .. Len(s) : i \in 1 .. Len(t) /\ t[i] = s[i]
  BY <1>1
<1>3. ASSUME NEW i \in 1 .. Len(u) PROVE i + Len(s) \in 1 .. Len(t) /\ t[i + Len(s)] = u[i]
  <2>1. i + Len(s) \in 1 .. Len(t) /\ ~(i + Len(s) <= Len(s)) /\ (i + Len(s)) - Len(s) = i
    BY <1>1
  <2>2. QED
    BY <1>1, <2>1
<1>4. ASSUME NEW i \in 1 .. Len(t), i \notin 1 .. Len(s)
      PROVE  i - Len(s) \in 1 .. Len(u) /\ t[i] = u[i - Len(s)]
  BY <1>1, <1>4
<1>5. EntriesOf(t) = EntriesOf(s) \cup EntriesOf(u)
  <2>1. ASSUME NEW x \in EntriesOf(t) PROVE x \in EntriesOf(s) \cup EntriesOf(u)
    <3>1. PICK i \in 1 .. Len(t) : x = t[i]
      BY DEF EntriesOf
    <3>2. QED
      BY <1>2, <1>4, <3>1 DEF EntriesOf
  <2>2. ASSUME NEW x \in EntriesOf(s) \cup EntriesOf(u) PROVE x \in EntriesOf(t)
    BY <1>2, <1>3 DEF EntriesOf
  <2>3. QED
    BY <2>1, <2>2
<1>6. SlotsOf(t) = SlotsOf(s) \cup SlotsOf(u)
  BY <1>5 DEF SlotsOf
<1>7. ASSUME Distinct(s), Distinct(u), SlotsOf(s) \cap SlotsOf(u) = {} PROVE Distinct(t)
  <2> SUFFICES ASSUME NEW i \in 1 .. Len(t), NEW k \in 1 .. Len(t), t[i].slot = t[k].slot
               PROVE  i = k
    BY DEF Distinct
  <2>1. \A n \in 1 .. Len(t) :
          IF n \in 1 .. Len(s) THEN t[n].slot \in SlotsOf(s) ELSE t[n].slot \in SlotsOf(u)
    BY <1>2, <1>4, EntriesAre
  <2>2. (i \in 1 .. Len(s)) <=> (k \in 1 .. Len(s))
    BY <1>7, <2>1
  <2>3. CASE i \in 1 .. Len(s)
    BY <1>2, <1>7, <2>2, <2>3 DEF Distinct
  <2>4. CASE i \notin 1 .. Len(s)
    <3>1. i - Len(s) \in 1 .. Len(u) /\ k - Len(s) \in 1 .. Len(u)
          /\ u[i - Len(s)].slot = u[k - Len(s)].slot
      BY <1>4, <2>2, <2>4
    <3>2. i - Len(s) = k - Len(s)
      BY <1>7, <3>1 DEF Distinct
    <3>3. QED
      BY <1>1, <3>2
  <2>5. QED
    BY <2>3, <2>4
<1>8. QED
  BY <1>1, <1>5, <1>6, <1>7 DEF t


LEMMA KeepingEntries ==
  ASSUME NEW s \in Seq(Pooled), NEW T
  PROVE  /\ Keeping(s, T) \in Seq(Pooled)
         /\ EntriesOf(Keeping(s, T)) = EntriesOf(s) \cap T
         /\ Distinct(s) => Distinct(Keeping(s, T))
<1> DEFINE n == Len(s)
           Upto(i) == {s[k] : k \in 1 .. i} \cap T
<1>1. n \in Nat /\ \A i \in 1 .. n : s[i] \in Pooled
  OBVIOUS
<1>2. PICK f : /\ Keeping(s, T) = f[n] /\ f[0] = <<>>
               /\ \A i \in 1 .. n :
                    f[i] = IF s[i] \in T THEN Append(f[i - 1], s[i]) ELSE f[i - 1]
  BY <1>1, KeepingSteps
<1> HIDE DEF n
<1> DEFINE S == {i \in 0 .. n : /\ f[i] \in Seq(Pooled)
                                /\ EntriesOf(f[i]) = Upto(i)
                                /\ Distinct(s) => Distinct(f[i])}
<1>3. 0 \in S
  <2>1. Upto(0) = {}
    OBVIOUS
  <2>2. <<>> \in Seq(Pooled) /\ 0 \in 0 .. n
    BY <1>1
  <2> HIDE DEF Upto
  <2>3. QED
    BY <1>2, <2>1, <2>2, NoEntries
<1>4. ASSUME NEW i \in 1 .. n, i - 1 \in S PROVE i \in S
  <2>1. /\ f[i - 1] \in Seq(Pooled) /\ EntriesOf(f[i - 1]) = Upto(i - 1)
        /\ Distinct(s) => Distinct(f[i - 1])
    BY <1>4
  <2>2. i \in 0 .. n /\ i - 1 \in Nat
    BY <1>1
  <2>3. Upto(i) = Upto(i - 1) \cup ({s[i]} \cap T)
    <3>1. \A k : k \in 1 .. i <=> k \in 1 .. (i - 1) \/ k = i
      BY <2>2
    <3>2. QED
      BY <3>1
  <2>4. Distinct(s) => \A e \in Upto(i - 1) : e.slot # s[i].slot
    <3>1. SUFFICES ASSUME Distinct(s), NEW k \in 1 .. (i - 1), s[k].slot = s[i].slot
                   PROVE  FALSE
      OBVIOUS
    <3>2. k \in 1 .. Len(s) /\ i \in 1 .. Len(s) /\ k # i
      BY <2>2 DEF n
    <3>3. QED
      BY <3>1, <3>2 DEF Distinct
  <2> HIDE DEF Upto
  <2>5. CASE s[i] \in T
    <3>1. f[i] = Append(f[i - 1], s[i]) /\ s[i] \in Pooled
      BY <1>1, <1>2, <2>5
    <3>2. EntriesOf(f[i]) = Upto(i) /\ f[i] \in Seq(Pooled)
      BY <2>1, <2>3, <2>5, <3>1, Appended
    <3>3. ASSUME Distinct(s) PROVE Distinct(f[i])
      <4>1. s[i].slot \notin SlotsOf(f[i - 1])
        BY <2>1, <2>4, <3>3 DEF SlotsOf
      <4>2. QED
        BY <2>1, <3>1, <3>3, <4>1, Appended
    <3>4. QED
      BY <2>2, <3>2, <3>3
  <2>6. CASE s[i] \notin T
    <3>1. f[i] = f[i - 1] /\ Upto(i) = Upto(i - 1)
      BY <1>2, <2>3, <2>6
    <3>2. QED
      BY <2>1, <2>2, <3>1
  <2>7. QED
    BY <2>5, <2>6
<1> HIDE DEF S
<1>5. n \in S
  <2>1. \A i \in 0 .. n : i \in S
    BY <1>1, <1>3, <1>4, Induction
  <2>2. QED
    BY <1>1, <2>1
<1>6. f[n] \in Seq(Pooled) /\ EntriesOf(f[n]) = Upto(n) /\ (Distinct(s) => Distinct(f[n]))
  BY <1>5 DEF S
<1>7. Upto(n) = EntriesOf(s) \cap T
  BY DEF EntriesOf, n
<1>8. QED
  BY <1>2, <1>6, <1>7

LEMMA KeepingCount ==
  ASSUME NEW s \in Seq(Pooled), NEW T
  PROVE  Len(Keeping(s, T)) + Len(Keeping(s, Pooled \ T)) = Len(s)
<1> DEFINE n == Len(s)
<1>1. n \in Nat /\ \A i \in 1 .. n : s[i] \in Pooled
  OBVIOUS
<1>2. PICK f : /\ Keeping(s, T) = f[n] /\ f[0] = <<>>
               /\ \A i \in 1 .. n :
                    f[i] = IF s[i] \in T THEN Append(f[i - 1], s[i]) ELSE f[i - 1]
  BY <1>1, KeepingSteps
<1>3. PICK g : /\ Keeping(s, Pooled \ T) = g[n] /\ g[0] = <<>>
               /\ \A i \in 1 .. n :
                    g[i] = IF s[i] \in Pooled \ T THEN Append(g[i - 1], s[i]) ELSE g[i - 1]
  BY <1>1, KeepingSteps
<1> HIDE DEF n
<1> DEFINE S == {i \in 0 .. n : /\ f[i] \in Seq(Pooled) /\ g[i] \in Seq(Pooled)
                                /\ Len(f[i]) + Len(g[i]) = i}
<1>4. 0 \in S
  <2>1. <<>> \in Seq(Pooled) /\ 0 \in 0 .. n /\ Len(<<>>) + Len(<<>>) = 0
    BY <1>1
  <2>2. f[0] = <<>> /\ g[0] = <<>>
    BY <1>2, <1>3
  <2> DEFINE x == f[0]
             y == g[0]
  <2> HIDE DEF x, y
  <2>3. Len(x) + Len(y) = 0 /\ x \in Seq(Pooled) /\ y \in Seq(Pooled)
    <3>1. x = <<>> /\ y = <<>>
      BY <2>2 DEF x, y
    <3>2. QED
      BY <3>1
  <2>4. QED
    BY <2>1, <2>3 DEF x, y
<1>5. ASSUME NEW i \in 1 .. n, i - 1 \in S PROVE i \in S
  <2>1. /\ f[i - 1] \in Seq(Pooled) /\ g[i - 1] \in Seq(Pooled)
        /\ Len(f[i - 1]) + Len(g[i - 1]) = i - 1
    BY <1>5
  <2>2. i \in 0 .. n /\ i \in Nat
    BY <1>1
  <2>3. Len(f[i - 1]) \in Nat /\ Len(g[i - 1]) \in Nat
    BY <2>1
  <2>4. CASE s[i] \in T
    <3>1. f[i] = Append(f[i - 1], s[i]) /\ g[i] = g[i - 1]
      BY <1>2, <1>3, <2>4
    <3>2. f[i] \in Seq(Pooled) /\ Len(f[i]) = Len(f[i - 1]) + 1
      BY <1>1, <2>1, <3>1, Appended
    <3>3. Len(g[i]) = Len(g[i - 1]) /\ g[i] \in Seq(Pooled)
      BY <2>1, <3>1
    <3> HIDE DEF S
    <3>4. Len(f[i]) + Len(g[i]) = i
      <4>1. \A a, b \in Nat : a + b = i - 1 => (a + 1) + b = i /\ a + (b + 1) = i
        BY <2>2
      <4>2. QED
        BY ONLY <2>1, <2>3, <3>2, <3>3, <4>1, ZenonT(30)
    <3>5. QED
      BY <2>2, <3>2, <3>3, <3>4 DEF S
  <2>5. CASE s[i] \notin T
    <3>1. f[i] = f[i - 1] /\ g[i] = Append(g[i - 1], s[i])
      BY <1>1, <1>2, <1>3, <2>5
    <3>2. g[i] \in Seq(Pooled) /\ Len(g[i]) = Len(g[i - 1]) + 1
      BY <1>1, <2>1, <3>1, Appended
    <3>3. Len(f[i]) = Len(f[i - 1]) /\ f[i] \in Seq(Pooled)
      BY <2>1, <3>1
    <3> HIDE DEF S
    <3>4. Len(f[i]) + Len(g[i]) = i
      <4>1. \A a, b \in Nat : a + b = i - 1 => (a + 1) + b = i /\ a + (b + 1) = i
        BY <2>2
      <4>2. QED
        BY ONLY <2>1, <2>3, <3>2, <3>3, <4>1, Zenon
    <3>5. QED
      BY <2>2, <3>2, <3>3, <3>4 DEF S
  <2>6. QED
    BY <2>4, <2>5
<1> HIDE DEF S
<1>6. n \in S
  <2>1. \A i \in 0 .. n : i \in S
    BY <1>1, <1>4, <1>5, Induction
  <2>2. QED
    BY <1>1, <2>1
<1>7. Len(f[n]) + Len(g[n]) = n
  BY <1>6 DEF S
<1>8. QED
  BY <1>2, <1>3, <1>7 DEF n

(* A list is divided by what its entries have: nothing is lost or doubled. *)
LEMMA Divided ==
  ASSUME NEW s \in Seq(Pooled), Distinct(s), NEW T, NEW k, NEW l,
         k = Keeping(s, T), l = Keeping(s, Pooled \ T)
  PROVE  /\ k \in Seq(Pooled) /\ l \in Seq(Pooled) /\ Len(k) + Len(l) = Len(s)
         /\ Distinct(k) /\ Distinct(l) /\ SlotsOf(k) \cap SlotsOf(l) = {}
         /\ SlotsOf(k) \cup SlotsOf(l) = SlotsOf(s)
         /\ EntriesOf(k) \subseteq EntriesOf(s) /\ EntriesOf(l) \subseteq EntriesOf(s)
<1>1. /\ k \in Seq(Pooled) /\ l \in Seq(Pooled) /\ Distinct(k) /\ Distinct(l)
      /\ EntriesOf(k) = EntriesOf(s) \cap T /\ EntriesOf(l) = EntriesOf(s) \cap (Pooled \ T)
  BY KeepingEntries
<1>2. Len(k) + Len(l) = Len(s)
  BY KeepingCount
<1>3. EntriesOf(s) \subseteq Pooled
  BY EntriesAre
<1>4. EntriesOf(s) = EntriesOf(k) \cup EntriesOf(l) /\ EntriesOf(k) \cap EntriesOf(l) = {}
  BY <1>1, <1>3
<1>5. SlotsOf(k) \cup SlotsOf(l) = SlotsOf(s)
  BY <1>4 DEF SlotsOf
<1>6. ASSUME NEW d \in EntriesOf(k), NEW e \in EntriesOf(l), d.slot = e.slot PROVE FALSE
  BY <1>4, <1>6, Distinctly
<1>7. SlotsOf(k) \cap SlotsOf(l) = {}
  BY <1>6 DEF SlotsOf
<1>8. QED
  BY <1>1, <1>2, <1>4, <1>5, <1>7


-----------------------------------------------------------------------------
(* What the git commands do, path by path. *)

Spent == failuresLeft' = failuresLeft \/ (failuresLeft > 0 /\ failuresLeft' = failuresLeft - 1)

LEMMA Spending ==
  /\ Works => Spent
  /\ failuresLeft' = failuresLeft => Spent
  /\ \A step : Fails(step) => Spent
BY DEF Works, Fails, Spent

Contents(ps) == \A q \in ps : dirs'[q] = dirs[q]

(* The directory p is gone, and with it what git knew of it, if it was told. *)
Removed(p) ==
  /\ DOMAIN dirs' = DOMAIN dirs \ {p} /\ Contents(DOMAIN dirs \ {p})
  /\ registered \ {p} \subseteq registered' /\ registered' \subseteq registered

Moved(p, q) ==
  /\ q \notin DOMAIN dirs /\ DOMAIN dirs' = (DOMAIN dirs \ {p}) \cup {q}
  /\ Contents((DOMAIN dirs \ {p}) \ {q}) /\ dirs'[q] = dirs[p]
  /\ registered' \subseteq (registered \ {p}) \cup {q}
  /\ \A r \in registered \cap DOMAIN dirs : r # p => r \in registered'

SameGit == dirs' = dirs /\ registered' = registered /\ branches' = branches

LEMMA WithoutOne ==
  ASSUME NEW p, dirs' = Without({p})
  PROVE  DOMAIN dirs' = DOMAIN dirs \ {p} /\ Contents(DOMAIN dirs \ {p})
BY DEF Without, Restrict, Contents

LEMMA RemoveDirectoryDoes ==
  ASSUME NEW p, RemoveDirectory(p)
  PROVE  Removed(p) /\ Spent
<1>1. dirs' = Without({p}) /\ registered' \in {registered, registered \ {p}}
  BY DEF RemoveDirectory, RemoveWorktree, RemoveAll
<1>2. Spent
  BY Spending DEF RemoveDirectory
<1>3. registered \ {p} \subseteq registered' /\ registered' \subseteq registered
  BY <1>1
<1>4. QED
  BY <1>1, <1>2, <1>3, WithoutOne DEF Removed

LEMMA CleanupFailedDoes ==
  ASSUME NEW s, CleanupFailedWorktree(s)
  PROVE  Removed(s) /\ s \notin registered' /\ branches' = branches \ {s}
<1>1. dirs' = Without({s}) /\ registered' = registered \ {s} /\ branches' = branches \ {s}
  BY DEF CleanupFailedWorktree, RemoveWorktree, RemoveAll, WorktreeExists
<1>2. registered \ {s} \subseteq registered' /\ registered' \subseteq registered /\ s \notin registered'
  BY <1>1
<1>3. QED
  BY <1>1, <1>2, WithoutOne DEF Removed

LEMMA CleanupJobDoes ==
  ASSUME NEW j, NEW b, CleanupJobWorktree(j, b)
  PROVE  /\ Spent
         /\ \/ SameGit
            \/ Removed(j) /\ j \notin registered' /\ branches' = branches \ {b} /\ j \in registered
<1>1. \/ SameGit
      \/ /\ dirs' = Without({j}) /\ registered' = registered \ {j} /\ branches' = branches \ {b}
         /\ j \in registered
  BY DEF CleanupJobWorktree, RemoveWorktree, WorktreeExists, SameGit
<1>2. Spent
  BY Spending DEF CleanupJobWorktree
<1>3. CASE SameGit
  BY <1>2, <1>3
<1>4. CASE /\ dirs' = Without({j}) /\ registered' = registered \ {j} /\ branches' = branches \ {b}
           /\ j \in registered
  <2>1. registered \ {j} \subseteq registered' /\ registered' \subseteq registered
        /\ j \notin registered'
    BY <1>4
  <2>2. QED
    BY <1>2, <1>4, <2>1, WithoutOne DEF Removed
<1>5. QED
  BY <1>1, <1>3, <1>4

LEMMA MoveDoes ==
  ASSUME NEW p, NEW q, p # q, p \in DOMAIN dirs, MoveWorktree(p, q)
  PROVE  \/ Removed(p) /\ p \notin registered' /\ q \in DOMAIN dirs
         \/ Moved(p, q) /\ registered' = (registered \ {p}) \cup {q}
<1>1. CASE q \in DOMAIN dirs
  <2>1. dirs' = Without({p}) /\ registered' = registered \ {p}
    BY <1>1 DEF MoveWorktree
  <2>2. registered \ {p} \subseteq registered' /\ registered' \subseteq registered
        /\ p \notin registered'
    BY <2>1
  <2>3. QED
    BY <1>1, <2>1, <2>2, WithoutOne DEF Removed
<1>2. CASE q \notin DOMAIN dirs
  <2>1. /\ dirs' = [r \in (DOMAIN dirs \ {p}) \cup {q} |-> IF r = q THEN dirs[p] ELSE dirs[r]]
        /\ registered' = (registered \ {p}) \cup {q}
    BY <1>2 DEF MoveWorktree
  <2>2. /\ DOMAIN dirs' = (DOMAIN dirs \ {p}) \cup {q} /\ dirs'[q] = dirs[p]
        /\ Contents((DOMAIN dirs \ {p}) \ {q})
    BY <2>1 DEF Contents
  <2>3. QED
    BY <1>2, <2>1, <2>2 DEF Moved
<1>3. QED
  BY <1>1, <1>2

LEMMA KeepExistingDoes ==
  ASSUME NEW j, NEW b, j # b, b \notin DOMAIN dirs, KeepExistingWorktree(j, b)
  PROVE  /\ Spent
         /\ \/ j \notin DOMAIN dirs /\ dirs' = dirs /\ registered' = registered
            \/ j \in DOMAIN dirs /\ Moved(j, b)
<1>1. Spent
  BY Spending DEF KeepExistingWorktree
<1>2. CASE j \notin DOMAIN dirs /\ UNCHANGED <<dirs, registered, failuresLeft>>
  BY <1>1, <1>2
<1>3. CASE j \in DOMAIN dirs /\ MoveWorktree(j, b)
  BY <1>1, <1>3, MoveDoes
<1>4. CASE /\ j \in DOMAIN dirs
           /\ dirs' = [q \in (DOMAIN dirs \ {j}) \cup {b} |-> IF q = b THEN dirs[j] ELSE dirs[q]]
           /\ registered' = registered \cap DOMAIN dirs'
  <2>1. /\ DOMAIN dirs' = (DOMAIN dirs \ {j}) \cup {b} /\ dirs'[b] = dirs[j]
        /\ Contents((DOMAIN dirs \ {j}) \ {b})
    BY <1>4 DEF Contents
  <2>2. /\ registered' \subseteq (registered \ {j}) \cup {b}
        /\ \A r \in registered \cap DOMAIN dirs : r # j => r \in registered'
    BY <1>4, <2>1
  <2>3. QED
    BY <1>1, <1>4, <2>1, <2>2 DEF Moved
<1>5. QED
  BY <1>2, <1>3, <1>4 DEF KeepExistingWorktree

LEMMA AddDoes ==
  ASSUME NEW p, NEW b, NEW c, AddWorktreeForBranch(p, b, c)
  PROVE  /\ DOMAIN dirs' = DOMAIN dirs \cup {p} /\ Contents(DOMAIN dirs \ {p})
         /\ dirs'[p] = [branch |-> b, base |-> c, work |-> NoBranch]
         /\ registered' = registered \cup {p}
BY DEF AddWorktreeForBranch, With, Contents

LEMMA ResetDoes ==
  ASSUME NEW p, p \in DOMAIN dirs, dirs[p] \in Directories, ResetHardInWorktreeToRef(p)
  PROVE  /\ DOMAIN dirs' = DOMAIN dirs /\ Contents(DOMAIN dirs \ {p})
         /\ dirs'[p].branch = dirs[p].branch /\ dirs'[p].work = dirs[p].work
         /\ dirs'[p].base = fetched
         /\ fetched \in Commits => dirs'[p] \in Directories
<1>1. dirs' = [dirs EXCEPT ![p].base = fetched]
  BY DEF ResetHardInWorktreeToRef
<1>2. DOMAIN dirs' = DOMAIN dirs /\ Contents(DOMAIN dirs \ {p})
  BY <1>1 DEF Contents
<1>3. dirs'[p] = [dirs[p] EXCEPT !.base = fetched]
  BY <1>1
<1>4. QED
  BY <1>2, <1>3 DEF Directories

LEMMA RenameDoes ==
  ASSUME NEW p, NEW s, NEW b, p \in DOMAIN dirs, dirs[p] \in Directories,
         RenameBranchInWorktree(p, s, b)
  PROVE  /\ DOMAIN dirs' = DOMAIN dirs /\ Contents(DOMAIN dirs \ {p})
         /\ dirs'[p].branch = (IF dirs[p].branch = s THEN b ELSE dirs[p].branch)
         /\ dirs'[p].work = dirs[p].work /\ dirs'[p].base = dirs[p].base
         /\ b \in Branches => dirs'[p] \in Directories
         /\ branches' = (branches \ {s}) \cup {b}
<1>1. /\ dirs' = [dirs EXCEPT ![p].branch = IF @ = s THEN b ELSE @]
      /\ branches' = (branches \ {s}) \cup {b}
  BY DEF RenameBranchInWorktree
<1>2. DOMAIN dirs' = DOMAIN dirs /\ Contents(DOMAIN dirs \ {p})
  BY <1>1 DEF Contents
<1>3. dirs'[p] = [dirs[p] EXCEPT !.branch = IF dirs[p].branch = s THEN b ELSE dirs[p].branch]
  BY <1>1
<1>4. QED
  BY <1>1, <1>2, <1>3 DEF Directories


-----------------------------------------------------------------------------
(* Types. *)

GitType ==
  /\ DOMAIN dirs \subseteq Paths /\ \A p \in DOMAIN dirs : dirs[p] \in Directories
  /\ registered \subseteq Paths /\ branches \subseteq Branches

CountType ==
  /\ origin \in Commits /\ fetched \in Commits /\ attempts \in 0 .. MaxAttempts
  /\ failuresLeft \in Nat /\ crashesLeft \in Nat

PoolType ==
  /\ ready \in Seq(Pooled) /\ replenish \in BOOLEAN /\ filled \in BOOLEAN
  /\ replenisher \in Replenishing /\ fillFailed \in BOOLEAN

TurnType == turn \in [Jobs -> Preparing] /\ row \in [Jobs -> Attempts \cup {NoBranch}]

RestType ==
  /\ sweep \in Sweeping /\ hold \in BOOLEAN
  /\ phase \in {"load", "stale", "reclaim", "fill", "up"} /\ lost \subseteq Attempts

LEMMA TypesAre ==
  /\ WorktreesTypeOK =>
       GitType /\ CountType /\ PoolType /\ TurnType /\ RestType /\ Len(ready) <= Target
  /\ GitType /\ CountType /\ PoolType /\ TurnType /\ RestType /\ Len(ready) <= Target =>
       WorktreesTypeOK
BY DEF WorktreesTypeOK, GitType, CountType, PoolType, TurnType, RestType

(* A replenisher is what its fields are. *)
LEMMA ReplenisherIs ==
  ASSUME NEW r, r \in Replenishing
  PROVE  /\ r.pc \in {"off", "refresh", "take", "reset", "fill", "create", "name", "branch", "wait"}
         /\ r.then \in {"fill", "name", "wait"} /\ r.slot \in Slots \cup {NoSlot}
         /\ r.base \in Commits /\ r.stale \in Seq(Pooled) /\ r.recovered \in Seq(Pooled)
BY DEF Replenishing

LEMMA IdleIs ==
  /\ IdleReplenisher \in Replenishing
  /\ IdleReplenisher.stale = <<>> /\ IdleReplenisher.recovered = <<>>
  /\ IdleReplenisher.pc = "off" /\ IdleReplenisher.then = "wait" /\ IdleReplenisher.base = 0
<1>1. <<>> \in Seq(Pooled) /\ 0 \in Commits
  BY WorktreeAssumption DEF Commits
<1>2. QED
  BY <1>1 DEF IdleReplenisher, Replenishing

LEMMA PoolTypeReplenisher ==
  ASSUME PoolType, CountType, ReplenisherStep,
         replenisher.pc = "branch" => replenisher.slot \in Slots
  PROVE  PoolType' /\ CountType'
<1>t. /\ ready \in Seq(Pooled) /\ replenish \in BOOLEAN /\ filled \in BOOLEAN
      /\ replenisher \in Replenishing /\ fillFailed \in BOOLEAN
      /\ origin \in Commits /\ fetched \in Commits /\ attempts \in 0 .. MaxAttempts
      /\ failuresLeft \in Nat /\ crashesLeft \in Nat
  BY DEF PoolType, CountType
<1>f. /\ attempts' = attempts /\ crashesLeft' = crashesLeft /\ origin' = origin
      /\ fetched' \in {fetched, origin}
  BY DEF ReplenisherStep, RefreshFetch, RefreshTake, RefreshReset, RefreshReturn, FillBegin,
       FillLoop, CreateName, CreatePooled, Replenish, RefreshTick, gitVars, FetchOrigin
<1>s. Spent
  BY Spending DEF ReplenisherStep, RefreshFetch, RefreshTake, RefreshReset, RefreshReturn,
       FillBegin, FillLoop, CreateName, CreatePooled, Replenish, RefreshTick
<1>n. failuresLeft' \in Nat
  BY <1>t, <1>s DEF Spent
<1>c. CountType'
  BY <1>t, <1>f, <1>n DEF CountType
<1>r. /\ replenisher.pc \in
           {"off", "refresh", "take", "reset", "fill", "create", "name", "branch", "wait"}
      /\ replenisher.then \in {"fill", "name", "wait"} /\ replenisher.slot \in Slots \cup {NoSlot}
      /\ replenisher.base \in Commits /\ replenisher.stale \in Seq(Pooled)
      /\ replenisher.recovered \in Seq(Pooled)
  BY <1>t, ReplenisherIs
<1>1. CASE RefreshFetch
  BY <1>1, <1>t, <1>r, <1>c DEF RefreshFetch, GoOn, PoolType, Replenishing
<1>2. CASE RefreshTake
  <2>1. /\ Keeping(ready, {e \in Pooled : e.base = replenisher.base}) \in Seq(Pooled)
        /\ Keeping(ready, Pooled \ {e \in Pooled : e.base = replenisher.base}) \in Seq(Pooled)
    BY <1>t, KeepingEntries
  <2>2. QED
    BY <1>2, <1>t, <1>r, <1>c, <2>1 DEF RefreshTake, PoolType, Replenishing
<1>3. CASE RefreshReset
  <2>1. replenisher.stale # <<>>
    BY <1>3 DEF RefreshReset
  <2> DEFINE entry == Head(replenisher.stale)
             rest == Tail(replenisher.stale)
             again == [entry EXCEPT !.base = replenisher.base]
  <2>2. entry \in Pooled /\ rest \in Seq(Pooled)
    BY <1>r, <2>1, Behead
  <2>3. again \in Pooled
    BY <1>r, <2>2 DEF Pooled
  <2>4. Append(replenisher.recovered, again) \in Seq(Pooled)
    BY <1>r, <2>3, Appended
  <2>5. \/ replenisher' = [replenisher EXCEPT !.stale = rest,
                                              !.recovered = Append(replenisher.recovered, again)]
        \/ replenisher' = [replenisher EXCEPT !.stale = rest]
    BY <1>3 DEF RefreshReset
  <2> HIDE DEF rest, again
  <2>6. replenisher' \in Replenishing
    BY <1>t, <1>r, <2>2, <2>4, <2>5 DEF Replenishing
  <2>7. ready' = ready /\ replenish' = replenish /\ filled' = filled /\ fillFailed' \in BOOLEAN
    BY <1>t, <1>3 DEF RefreshReset
  <2>8. QED
    BY <1>t, <1>c, <2>6, <2>7 DEF PoolType
<1>4. CASE RefreshReturn
  <2>1. ready \o replenisher.recovered \in Seq(Pooled) /\ <<>> \in Seq(Pooled)
    BY <1>t, <1>r, Joined
  <2>2. QED
    BY <1>4, <1>t, <1>r, <1>c, <2>1 DEF RefreshReturn, PoolType, Replenishing
<1>5. CASE FillBegin
  BY <1>5, <1>t, <1>r, <1>c, IdleIs DEF FillBegin, GoOn, Rest, GiveUp, PoolType, Replenishing
<1>6. CASE FillLoop
  BY <1>6, <1>t, <1>r, <1>c, IdleIs DEF FillLoop, GoOn, Rest, PoolType, Replenishing
<1>7. CASE CreateName
  BY <1>7, <1>t, <1>r, <1>c DEF CreateName, PoolType, Replenishing
<1>8. CASE CreatePooled
  <2> DEFINE entry == [slot |-> replenisher.slot, base |-> replenisher.base]
  <2>0. replenisher.slot \in Slots
    BY <1>8 DEF CreatePooled
  <2>1. CASE replenisher.slot \in Slots
    <3>1. Append(ready, entry) \in Seq(Pooled)
      BY <1>t, <1>r, <2>1, Appended DEF Pooled
    <3>2. ready' \in {ready, Append(ready, entry)}
      BY <1>8 DEF CreatePooled
    <3>3. replenisher' \in Replenishing /\ replenish' = replenish /\ filled' = TRUE
          /\ fillFailed' \in BOOLEAN
      BY <1>8, <1>t, <1>r, IdleIs DEF CreatePooled, GiveUp, Rest, Replenishing
    <3> HIDE DEF entry
    <3>4. QED
      BY <1>t, <1>c, <3>1, <3>2, <3>3 DEF PoolType
  <2>2. QED
    BY <2>0, <2>1
<1>9. CASE Replenish
  BY <1>9, <1>t, <1>r, <1>c, IdleIs DEF Replenish, PoolType, Replenishing
<1>10. CASE RefreshTick
  BY <1>10, <1>t, <1>r, <1>c, IdleIs DEF RefreshTick, PoolType, Replenishing
<1>11. QED
  BY <1>1, <1>2, <1>3, <1>4, <1>5, <1>6, <1>7, <1>8, <1>9, <1>10 DEF ReplenisherStep


LEMMA Spends == ASSUME CountType, Spent PROVE failuresLeft' \in Nat
BY DEF CountType, Spent

LEMMA TurnTypes ==
  ASSUME TurnType, CountType, PoolType, NEW j \in Jobs, TurnStep(j),
         turn[j].pc = "row" => turn[j].branch \in Attempts
  PROVE  TurnType' /\ CountType' /\ PoolType'
<1>t. /\ turn \in [Jobs -> Preparing] /\ turn[j] \in Preparing
      /\ row \in [Jobs -> Attempts \cup {NoBranch}]
  BY DEF TurnType
<1>r. /\ turn[j].pc \in {"none", "pop", "move", "rename", "create", "row", "work"}
      /\ turn[j].slot \in Slots \cup {NoSlot} /\ turn[j].branch \in Attempts \cup {NoBranch}
  BY <1>t DEF Preparing
<1>c. /\ origin \in Commits /\ fetched \in Commits /\ attempts \in 0 .. MaxAttempts
      /\ crashesLeft' = crashesLeft /\ crashesLeft \in Nat
      /\ ready \in Seq(Pooled) /\ replenish \in BOOLEAN /\ PoolType
  BY DEF CountType, PoolType, TurnStep
<1>n. Spent
  BY CleanupJobDoes, Spending
     DEF TurnStep, BeginConversation, KeepExistingWorktree, Pop, MovePooled, RenameBranch,
         CreateWorktree, UpdateJobData, RunCLI
<1>m. failuresLeft' \in Nat
  BY <1>n, Spends
<1>p. NoTurn \in Preparing
  BY DEF NoTurn, Preparing
<1>f. filled' = filled /\ replenisher' = replenisher /\ fillFailed' = fillFailed
  BY DEF TurnStep
<1>q. \A pc \in {"none", "pop", "move", "rename", "create", "row", "work"}, s \in Slots \cup {NoSlot},
         b \in Attempts \cup {NoBranch} : [pc |-> pc, slot |-> s, branch |-> b] \in Preparing
  BY DEF Preparing
<1>1. CASE BeginConversation(j)
  <2>1. attempts + 1 \in 1 .. MaxAttempts /\ attempts' = attempts + 1
    BY <1>1, <1>c, WorktreeAssumption DEF BeginConversation
  <2>2. <<j, attempts + 1>> \in Attempts
    BY <2>1 DEF Attempts
  <2>3. /\ origin' = origin /\ fetched' = fetched /\ ready' = ready /\ replenish' = replenish
        /\ row' = row
        /\ \/ turn' = turn
           \/ turn' = [turn EXCEPT ![j].pc = "pop", ![j].branch = <<j, attempts + 1>>]
    BY <1>1 DEF BeginConversation
  <2>4. turn' \in [Jobs -> Preparing]
    BY <1>t, <1>r, <2>2, <2>3 DEF Preparing
  <2>5. attempts' \in 0 .. MaxAttempts
    BY <2>1
  <2>6. QED
    BY <1>c, <1>t, <1>m, <1>f, <2>3, <2>4, <2>5 DEF TurnType, CountType, PoolType
<1>2. CASE Pop(j)
  <2>1. /\ origin' = origin /\ fetched' = fetched /\ attempts' = attempts /\ row' = row
        /\ replenish' \in BOOLEAN
        /\ \/ ready' = ready /\ turn' = [turn EXCEPT ![j].pc = "create"]
           \/ /\ ready # <<>> /\ ready' = Tail(ready)
              /\ turn' = [turn EXCEPT ![j].pc = "move", ![j].slot = Head(ready).slot]
    BY <1>2, <1>c DEF Pop, Go, gitVars
  <2>2. ready' \in Seq(Pooled)
    BY <1>c, <2>1, Behead, SMTT(30)
  <2>3. ready # <<>> => Head(ready).slot \in Slots
    BY <1>c, Behead DEF Pooled
  <2>4. turn' \in [Jobs -> Preparing]
    <3> DEFINE x == Head(ready).slot
    <3> HIDE DEF x
    <3>1. \/ turn' = [turn EXCEPT ![j].pc = "create"]
          \/ x \in Slots /\ turn' = [turn EXCEPT ![j].pc = "move", ![j].slot = x]
      BY <2>1, <2>3 DEF x
    <3>2. QED
      BY <1>t, <1>r, <3>1 DEF Preparing
  <2>5. QED
    BY <1>c, <1>t, <1>m, <1>f, <2>1, <2>2, <2>4 DEF TurnType, CountType, PoolType
<1>3. CASE MovePooled(j) \/ RenameBranch(j) \/ CreateWorktree(j) \/ UpdateJobData(j) \/ RunCLI(j)
  <2>1. /\ origin' = origin /\ fetched' \in {fetched, origin} /\ attempts' = attempts
        /\ ready' = ready /\ replenish' = replenish
    BY <1>3 DEF MovePooled, RenameBranch, CreateWorktree, UpdateJobData, RunCLI, FetchOrigin,
         gitVars
  <2>2. \/ turn' = [turn EXCEPT ![j] = NoTurn]
        \/ \E pc \in {"none", "pop", "move", "rename", "create", "row", "work"} :
             turn' = [turn EXCEPT ![j].pc = pc]
        \/ \E pc \in {"none", "pop", "move", "rename", "create", "row", "work"} :
             turn' = [turn EXCEPT ![j].pc = pc, ![j].slot = NoSlot]
    BY <1>3 DEF MovePooled, RenameBranch, CreateWorktree, UpdateJobData, RunCLI, Go, Abort
  <2>3. turn' \in [Jobs -> Preparing]
    BY <1>t, <1>r, <1>p, <2>2 DEF Preparing
  <2>4. row' = row \/ (turn[j].pc = "row" /\ row' = [row EXCEPT ![j] = turn[j].branch])
    BY <1>3 DEF MovePooled, RenameBranch, CreateWorktree, UpdateJobData, RunCLI
  <2>5. row' \in [Jobs -> Attempts \cup {NoBranch}]
    BY <1>t, <2>4
  <2>6. QED
    BY <1>c, <1>m, <1>f, <2>1, <2>3, <2>5 DEF TurnType, CountType, PoolType
<1>4. QED
  BY <1>1, <1>2, <1>3 DEF TurnStep

LEMMA SweepTypes ==
  ASSUME WorktreesTypeOK, SweepStep
  PROVE  TurnType' /\ CountType' /\ PoolType' /\ RestType'
<1>t. TurnType /\ CountType /\ PoolType /\ RestType /\ GitType
  BY TypesAre
<1>s. Spent
  BY RemoveDirectoryDoes, Spending
     DEF SweepStep, ListDirectories, ReadTrackedPaths, RemoveOrphan, ListBranches, DeleteBranches
<1>n. failuresLeft' \in Nat
  BY <1>s, <1>t, Spends
<1>1. CountType' /\ TurnType' /\ PoolType'
  BY <1>t, <1>n DEF SweepStep, CountType, TurnType, PoolType, poolVars
<1>2. /\ sweep \in Sweeping
      /\ sweep.pc \in {"idle", "rows", "remove", "branches"}
      /\ sweep.paths \subseteq Paths /\ sweep.names \subseteq Branches
      /\ sweep.safe \subseteq Attempts
  BY <1>t DEF RestType, Sweeping
<1>3. DOMAIN dirs \subseteq Paths /\ branches \subseteq Branches
  BY <1>t DEF GitType
<1>4. {row[j] : j \in Jobs} \ {NoBranch} \subseteq Attempts
  BY <1>t DEF TurnType
<1>5. sweep' \in Sweeping
  <2>1. CASE ListDirectories \/ ListBranches
    BY <1>3, <1>4, <2>1 DEF ListDirectories, ListBranches, NoSweep, Sweeping
  <2>2. CASE ReadTrackedPaths \/ RemoveOrphan
    BY <1>2, <2>2 DEF ReadTrackedPaths, RemoveOrphan, Sweeping
  <2>3. CASE DeleteBranches
    BY <2>3 DEF DeleteBranches, NoSweep, Sweeping
  <2>4. QED
    BY <2>1, <2>2, <2>3 DEF SweepStep
<1>6. QED
  BY <1>t, <1>1, <1>5 DEF SweepStep, RestType

LEMMA StartTypes ==
  ASSUME WorktreesTypeOK, StartUp
  PROVE  TurnType' /\ CountType' /\ PoolType' /\ RestType'
<1>t. TurnType /\ CountType /\ PoolType /\ RestType /\ GitType
  BY TypesAre
<1>s. Spent
  BY Spending DEF StartUp, LoadState, CleanupStaleJobWorktrees, ReclaimPooled, StartPool,
       RecoverJobs, ClearHold
<1>n. failuresLeft' \in Nat
  BY <1>s, <1>t, Spends
<1>1. CountType'
  BY <1>t, <1>n DEF StartUp, CountType
<1>2. TurnType'
  <2>1. row' = row \/ row' = [j \in Jobs |-> NoBranch]
        \/ \E U : row' = [j \in Jobs |-> IF j \in U THEN NoBranch ELSE row[j]]
    BY DEF StartUp, LoadState, CleanupStaleJobWorktrees, ReclaimPooled, StartPool, RecoverJobs,
         ClearHold
  <2>2. turn' = turn
    BY DEF StartUp
  <2>3. QED
    BY <1>t, <2>1, <2>2 DEF TurnType
<1>3. PoolType'
  <2>1. replenish' = replenish /\ filled' = filled /\ fillFailed' = fillFailed
    BY DEF StartUp
  <2>2. \/ replenisher' = replenisher
        \/ replenisher' = [IdleReplenisher EXCEPT !.pc = "refresh", !.then = "fill"]
    BY DEF StartUp, LoadState, CleanupStaleJobWorktrees, ReclaimPooled, StartPool, RecoverJobs,
         ClearHold
  <2>3. replenisher' \in Replenishing
    BY <1>t, <2>2, IdleIs DEF PoolType, Replenishing
  <2>4. \/ ready' = ready
        \/ \E s \in Slots \cap DOMAIN dirs :
             ready' = Append(ready, [slot |-> s, base |-> dirs[s].base])
    BY DEF StartUp, LoadState, CleanupStaleJobWorktrees, ReclaimPooled, StartPool, RecoverJobs,
         ClearHold, Unclaimed
  <2>5. \A s \in Slots \cap DOMAIN dirs : [slot |-> s, base |-> dirs[s].base] \in Pooled
    BY <1>t DEF GitType, Directories, Pooled
  <2>6. ready' \in Seq(Pooled)
    BY <1>t, <2>4, <2>5, Appended DEF PoolType
  <2>7. QED
    BY <1>t, <2>1, <2>3, <2>6 DEF PoolType
<1>4. RestType'
  <2>1. sweep' = sweep /\ hold' \in BOOLEAN
        /\ phase' \in {"load", "stale", "reclaim", "fill", "up"}
    BY <1>t DEF StartUp, LoadState, CleanupStaleJobWorktrees, ReclaimPooled, StartPool,
         RecoverJobs, ClearHold, RestType
  <2>2. \/ lost' = lost \/ lost' = {dirs[p].work : p \in DOMAIN dirs} \ {NoBranch} \/ lost' = {}
    BY DEF StartUp, LoadState, CleanupStaleJobWorktrees, ReclaimPooled, StartPool,
         RecoverJobs, ClearHold
  <2>3. \A p \in DOMAIN dirs : dirs[p].work \in Attempts \cup {NoBranch}
    BY <1>t DEF GitType, Directories
  <2>4. lost' \subseteq Attempts
    BY <1>t, <2>2, <2>3 DEF RestType
  <2>5. QED
    BY <1>t, <2>1, <2>4 DEF RestType
<1>5. QED
  BY <1>1, <1>2, <1>3, <1>4

(* Everything but the types of git's variables. *)
LEMMA TypesKept ==
  ASSUME WorktreesTypeOK, ShapeInv, WorktreesNext
  PROVE  TurnType' /\ CountType' /\ PoolType' /\ RestType'
<1>t. TurnType /\ CountType /\ PoolType /\ RestType
  BY TypesAre
<1>1. CASE ReplenisherStep
  <2>1. PoolType' /\ CountType'
    BY <1>1, <1>t, PoolTypeReplenisher DEF ShapeInv
  <2>2. QED
    BY <1>1, <1>t, <2>1 DEF ReplenisherStep, TurnType, RestType
<1>2. CASE SweepStep
  BY <1>2, SweepTypes
<1>3. CASE StartUp
  BY <1>3, StartTypes
<1>4. CASE Crash
  <2>1. CountType' /\ PoolType'
    <3>1. <<>> \in Seq(Pooled)
      OBVIOUS
    <3>2. crashesLeft' \in Nat
      BY <1>4, <1>t DEF Crash, CountType
    <3>3. QED
      BY <1>4, <1>t, <3>1, <3>2, IdleIs DEF Crash, CountType, PoolType, gitVars
  <2>2. TurnType'
    BY <1>4, <1>t DEF Crash, TurnType, NoTurn, Preparing
  <2>3. RestType'
    BY <1>4, <1>t DEF Crash, RestType, NoSweep, Sweeping
  <2>4. QED
    BY <2>1, <2>2, <2>3
<1>5. CASE PushToDefault
  <2>1. origin' \in Commits
    BY <1>5, <1>t, WorktreeAssumption DEF PushToDefault, CountType, Commits
  <2>2. QED
    BY <1>5, <1>t, <2>1 DEF PushToDefault, CountType, PoolType, TurnType, RestType, poolVars,
         budgetVars
<1>6. ASSUME NEW j \in Jobs, TurnStep(j) PROVE TurnType' /\ CountType' /\ PoolType' /\ RestType'
  <2>1. TurnType' /\ CountType' /\ PoolType'
    BY <1>6, <1>t, TurnTypes DEF ShapeInv
  <2>2. QED
    BY <1>6, <1>t, <2>1 DEF TurnStep, RestType
<1>7. ASSUME NEW j \in Jobs, Abandon(j) \/ CompleteIdle(j)
      PROVE TurnType' /\ CountType' /\ PoolType' /\ RestType'
  <2>1. Spent
    BY <1>7, CleanupJobDoes, Spending DEF Abandon, CompleteIdle, budgetVars
  <2>2. failuresLeft' \in Nat
    BY <1>t, <2>1, Spends
  <2>3. CountType' /\ PoolType' /\ RestType'
    BY <1>7, <1>t, <2>2 DEF Abandon, CompleteIdle, CountType, PoolType, RestType, poolVars,
         budgetVars, gitVars
  <2>4. TurnType'
    BY <1>7, <1>t DEF Abandon, CompleteIdle, TurnType
  <2>5. QED
    BY <2>3, <2>4
<1>8. QED
  BY <1>1, <1>2, <1>3, <1>4, <1>5, <1>6, <1>7 DEF WorktreesNext


-----------------------------------------------------------------------------
(* Positions. *)

(* ShapeInv by actor. *)
PhaseShape ==
  /\ phase \in {"load", "stale", "reclaim"} => replenisher.pc = "off"
  /\ phase \in {"load", "stale"} => ready = <<>>
  /\ phase # "up" => sweep = NoSweep /\ \A j \in Jobs : turn[j] = NoTurn

PoolShape ==
  /\ replenisher.pc # "reset" => replenisher.stale = <<>> /\ replenisher.recovered = <<>>
  /\ replenisher.pc = "branch" => replenisher.slot \in Slots
  /\ replenisher.pc \in {"off", "branch"} => replenisher.then = "wait"

TurnShape(j) ==
  /\ turn[j].slot # NoSlot <=> turn[j].pc \in {"move", "rename"}
  /\ turn[j].pc # "none" =>
       turn[j].branch \in Attempts /\ turn[j].branch[1] = j /\ turn[j].branch[2] <= attempts

LEMMA ShapeIs == ShapeInv <=> PhaseShape /\ PoolShape /\ \A j \in Jobs : TurnShape(j)
BY DEF ShapeInv, PhaseShape, PoolShape, TurnShape

LEMMA PoolShapeKept ==
  ASSUME PoolType, PoolShape, PhaseShape, [WorktreesNext]_worktreeVars
  PROVE  PoolShape'
<1>t. replenisher \in Replenishing
  BY DEF PoolType
<1>r. /\ replenisher.pc \in
           {"off", "refresh", "take", "reset", "fill", "create", "name", "branch", "wait"}
      /\ replenisher.then \in {"fill", "name", "wait"} /\ replenisher.slot \in Slots \cup {NoSlot}
  BY <1>t, ReplenisherIs
<1>f. /\ DOMAIN replenisher = {"pc", "then", "slot", "base", "stale", "recovered"}
      /\ DOMAIN IdleReplenisher = {"pc", "then", "slot", "base", "stale", "recovered"}
  BY <1>t, IdleIs DEF Replenishing
<1>1. CASE ReplenisherStep
  <2>1. CASE RefreshFetch
    BY <2>1, <1>t, <1>r, <1>f DEF RefreshFetch, GoOn, PoolShape
  <2>2. CASE RefreshTake \/ RefreshReset
    BY <2>2, <1>r, <1>f DEF RefreshTake, RefreshReset, PoolShape
  <2>3. CASE RefreshReturn
    BY <2>3, <1>t, <1>r, <1>f DEF RefreshReturn, PoolShape
  <2>4. CASE FillBegin \/ FillLoop
    BY <2>4, <1>t, <1>r, <1>f, IdleIs DEF FillBegin, FillLoop, Rest, GoOn, GiveUp, PoolShape
  <2>5. CASE CreateName \/ CreatePooled
    BY <2>5, <1>t, <1>r, <1>f, IdleIs DEF CreateName, CreatePooled, Rest, GiveUp, PoolShape
  <2>6. CASE Replenish \/ RefreshTick
    BY <2>6, <1>t, <1>r, <1>f, IdleIs DEF Replenish, RefreshTick, PoolShape
  <2>7. QED
    BY <1>1, <2>1, <2>2, <2>3, <2>4, <2>5, <2>6 DEF ReplenisherStep
<1>2. \/ ReplenisherStep \/ replenisher' = replenisher
      \/ replenisher' = IdleReplenisher
      \/ replenisher' = [IdleReplenisher EXCEPT !.pc = "refresh", !.then = "fill"]
  BY DEF WorktreesNext, TurnStep, Abandon, CompleteIdle, SweepStep, StartUp, Crash, PushToDefault,
     LoadState, CleanupStaleJobWorktrees, ReclaimPooled, StartPool, RecoverJobs, ClearHold,
     worktreeVars, poolVars
<1>3. CASE replenisher' = replenisher
  BY <1>3 DEF PoolShape
<1>4. CASE \/ replenisher' = IdleReplenisher
           \/ replenisher' = [IdleReplenisher EXCEPT !.pc = "refresh", !.then = "fill"]
  BY <1>4, <1>f, IdleIs DEF PoolShape
<1>5. QED
  BY <1>1, <1>2, <1>3, <1>4

LEMMA PhaseShapeKept ==
  ASSUME WorktreesTypeOK, PhaseShape, [WorktreesNext]_worktreeVars
  PROVE  PhaseShape'
<1>t. TurnType /\ RestType /\ PoolType
  BY TypesAre
<1>p. phase \in {"load", "stale", "reclaim", "fill", "up"}
  BY <1>t DEF RestType
<1>1. CASE ReplenisherStep
  <2>1. replenisher.pc # "off" /\ phase' = phase /\ sweep' = sweep /\ turn' = turn
    BY <1>1 DEF ReplenisherStep, RefreshFetch, RefreshTake, RefreshReset, RefreshReturn,
         FillBegin, FillLoop, CreateName, CreatePooled, Replenish, RefreshTick
  <2>2. QED
    BY <2>1 DEF PhaseShape
<1>2. CASE SweepStep
  BY <1>2 DEF SweepStep, PhaseShape, poolVars
<1>3. CASE StartUp
  BY <1>3, <1>p DEF StartUp, LoadState, CleanupStaleJobWorktrees, ReclaimPooled, StartPool,
     RecoverJobs, ClearHold, PhaseShape
<1>4. CASE Crash
  BY <1>4, IdleIs DEF Crash, PhaseShape
<1>5. CASE PushToDefault
  BY <1>5 DEF PushToDefault, PhaseShape, poolVars
<1>6. ASSUME NEW j \in Jobs, TurnStep(j) \/ Abandon(j) \/ CompleteIdle(j) PROVE PhaseShape'
  <2>1. phase = "up" /\ phase' = phase
    <3>1. CASE TurnStep(j)
      <4>1. turn[j] # NoTurn \/ phase = "up"
        BY <3>1 DEF TurnStep, BeginConversation, Pop, MovePooled, RenameBranch, CreateWorktree,
             UpdateJobData, RunCLI, NoTurn
      <4>2. QED
        BY <1>6, <3>1, <4>1 DEF PhaseShape, TurnStep
    <3>2. CASE Abandon(j) \/ CompleteIdle(j)
      BY <3>2 DEF Abandon, CompleteIdle
    <3>3. QED
      BY <1>6, <3>1, <3>2
  <2>2. QED
    BY <2>1 DEF PhaseShape
<1>7. CASE UNCHANGED worktreeVars
  BY <1>7 DEF worktreeVars, poolVars, PhaseShape
<1>8. QED
  BY <1>1, <1>2, <1>3, <1>4, <1>5, <1>6, <1>7 DEF WorktreesNext

(* What a turn does to its record; the records of others stay. *)
LEMMA TurnMoves ==
  ASSUME TurnType, NEW j \in Jobs, TurnStep(j)
  PROVE  /\ \A k \in Jobs : k # j => turn'[k] = turn[k]
         /\ \/ turn'[j] = turn[j] /\ turn[j] = NoTurn
            \/ /\ turn[j] = NoTurn /\ turn'[j].pc = "pop" /\ turn'[j].slot = NoSlot
               /\ turn'[j].branch = <<j, attempts + 1>> /\ attempts' = attempts + 1
            \/ turn[j].pc # "none" /\ turn'[j] = NoTurn
            \/ /\ turn[j].pc = "pop" /\ turn'[j].branch = turn[j].branch
               /\ turn'[j].pc = "create" /\ turn'[j].slot = turn[j].slot
            \/ /\ turn[j].pc = "pop" /\ turn'[j].branch = turn[j].branch
               /\ turn'[j].pc = "move" /\ turn'[j].slot = Head(ready).slot /\ ready # <<>>
            \/ /\ turn[j].pc = "move" /\ turn'[j].branch = turn[j].branch
               /\ turn'[j].pc = "rename" /\ turn'[j].slot = turn[j].slot
            \/ /\ turn[j].pc = "move" /\ turn'[j].branch = turn[j].branch
               /\ turn'[j].pc = "create" /\ turn'[j].slot = NoSlot
            \/ /\ turn[j].pc = "rename" /\ turn'[j].branch = turn[j].branch
               /\ turn'[j].pc = "row" /\ turn'[j].slot = NoSlot
            \/ /\ turn[j].pc = "create" /\ turn'[j].branch = turn[j].branch
               /\ turn'[j].pc = "row" /\ turn'[j].slot = turn[j].slot
            \/ /\ turn[j].pc = "row" /\ turn'[j].branch = turn[j].branch
               /\ turn'[j].pc = "work" /\ turn'[j].slot = turn[j].slot
         /\ turn[j] # NoTurn => attempts' = attempts
         /\ attempts' \in {attempts, attempts + 1}
<1>t. turn \in [Jobs -> Preparing] /\ turn[j] \in Preparing
  BY DEF TurnType
<1>r. DOMAIN turn[j] = {"pc", "slot", "branch"} /\ NoTurn.pc = "none" /\ NoTurn.slot = NoSlot
  BY <1>t DEF Preparing, NoTurn
<1>1. CASE BeginConversation(j)
  BY <1>1, <1>t, <1>r DEF BeginConversation
<1>2. CASE Pop(j)
  BY <1>2, <1>t, <1>r DEF Pop, Go
<1>3. CASE MovePooled(j)
  BY <1>3, <1>t, <1>r DEF MovePooled, Go, Abort
<1>4. CASE RenameBranch(j)
  BY <1>4, <1>t, <1>r DEF RenameBranch, Abort
<1>5. CASE CreateWorktree(j)
  BY <1>5, <1>t, <1>r DEF CreateWorktree, Go, Abort
<1>6. CASE UpdateJobData(j) \/ RunCLI(j)
  BY <1>6, <1>t, <1>r DEF UpdateJobData, RunCLI, Go, Abort
<1>7. QED
  BY <1>1, <1>2, <1>3, <1>4, <1>5, <1>6 DEF TurnStep

LEMMA TurnShapeKept ==
  ASSUME WorktreesTypeOK, \A j \in Jobs : TurnShape(j), [WorktreesNext]_worktreeVars, WorktreesTypeOK'
  PROVE  \A j \in Jobs : TurnShape(j)'
<1>t. TurnType /\ CountType /\ PoolType
  BY TypesAre
<1>a. attempts \in Nat /\ NoSlot \notin Slots /\ NoTurn.pc = "none" /\ NoTurn.slot = NoSlot
  BY <1>t, WorktreeAssumption DEF CountType, NoTurn
<1>1. ASSUME NEW j \in Jobs, TurnStep(j) PROVE \A k \in Jobs : TurnShape(k)'
  <2>m. \A k \in Jobs : turn[k].branch \in Attempts => turn[k].branch[2] \in Nat
    BY DEF Attempts
  <2>1. ASSUME NEW k \in Jobs, k # j PROVE TurnShape(k)'
    <3>1. turn'[k] = turn[k] /\ attempts' \in {attempts, attempts + 1}
      BY <1>t, <1>1, <2>1, TurnMoves
    <3>2. TurnShape(k)
      OBVIOUS
    <3>3. QED
      BY <1>a, <2>m, <3>1, <3>2 DEF TurnShape
  <2>2. TurnShape(j)'
    <3>1. TurnShape(j)
      OBVIOUS
    <3>2. ready # <<>> => Head(ready).slot \in Slots
      BY <1>t, Behead DEF PoolType, Pooled
    <3>3. attempts + 1 <= MaxAttempts \/ turn'[j] = NoTurn \/ attempts' = attempts
      <4>1. turn[j].pc # "none" \/ BeginConversation(j)
        BY <1>1 DEF TurnStep, Pop, MovePooled, RenameBranch, CreateWorktree, UpdateJobData, RunCLI
      <4>2. CASE BeginConversation(j)
        BY <1>t, <4>2, WorktreeAssumption DEF BeginConversation, CountType
      <4>3. CASE turn[j].pc # "none"
        BY <1>1, <1>a, <1>t, <4>3, TurnMoves
      <4>4. QED
        BY <4>1, <4>2, <4>3
    <3>4. <<j, attempts + 1>>[1] = j /\ <<j, attempts + 1>>[2] = attempts + 1
      OBVIOUS
    <3>5. attempts + 1 <= MaxAttempts => <<j, attempts + 1>> \in Attempts
      BY <1>a, WorktreeAssumption DEF Attempts
    <3> DEFINE b == <<j, attempts + 1>>
    <3> HIDE DEF b
    <3>6. b[1] = j /\ b[2] = attempts + 1 /\ (attempts + 1 <= MaxAttempts => b \in Attempts)
      BY <3>4, <3>5 DEF b
    <3>7. \/ turn'[j] = NoTurn
          \/ /\ turn'[j].pc = "pop" /\ turn'[j].slot = NoSlot
             /\ turn'[j].branch = b /\ attempts' = attempts + 1
          \/ /\ turn[j].pc # "none" /\ turn'[j].branch = turn[j].branch /\ attempts' = attempts
             /\ turn'[j].pc \in {"pop", "move", "rename", "create", "row", "work"}
             /\ turn'[j].slot # NoSlot <=> turn'[j].pc \in {"move", "rename"}
      BY <1>t, <1>1, <1>a, <3>1, <3>2, TurnMoves DEF b, TurnShape
    <3>8. QED
      BY <1>a, <3>1, <3>3, <3>6, <3>7 DEF TurnShape
  <2>3. QED
    BY <2>1, <2>2
<1>2. \/ \E j \in Jobs : TurnStep(j)
      \/ turn' = turn /\ attempts' = attempts
      \/ turn' = [j \in Jobs |-> NoTurn]
  BY DEF WorktreesNext, ReplenisherStep, Abandon, CompleteIdle, SweepStep, StartUp, Crash,
     PushToDefault, worktreeVars, budgetVars
<1>3. CASE turn' = turn /\ attempts' = attempts
  BY <1>3 DEF TurnShape
<1>4. CASE turn' = [j \in Jobs |-> NoTurn]
  BY <1>4, <1>a DEF TurnShape
<1>5. QED
  BY <1>1, <1>2, <1>3, <1>4


-----------------------------------------------------------------------------
(* The lists of the pool, action by action. *)

stale == replenisher.stale
recovered == replenisher.recovered

(* The lists stay as they are; a turn may have let go of its slot. *)
ListsSame == ready' = ready /\ stale' = stale /\ recovered' = recovered

SlotsDropped == \A j \in Jobs : turn'[j].slot = turn[j].slot \/ turn'[j].slot = NoSlot

ListsFresh ==
  LET T == {e \in Pooled : e.base = replenisher.base} IN
  /\ ready' = Keeping(ready, T) /\ stale' = Keeping(ready, Pooled \ T)
  /\ recovered = <<>> /\ recovered' = <<>> /\ stale = <<>>

ListsReset ==
  LET e == Head(stale) IN
  /\ stale # <<>> /\ ready' = ready /\ stale' = Tail(stale)
  /\ \/ recovered' = recovered
     \/ recovered' = Append(recovered, [e EXCEPT !.base = replenisher.base])

ListsReturned ==
  /\ ready' = ready \o recovered /\ stale = <<>> /\ stale' = <<>> /\ recovered' = <<>>

ListsGrown(s) ==
  /\ \E b \in Commits : ready' = Append(ready, [slot |-> s, base |-> b])
  /\ stale' = stale /\ recovered' = recovered

ListsPopped(j) ==
  /\ ready # <<>> /\ ready' = Tail(ready) /\ stale' = stale /\ recovered' = recovered
  /\ turn[j].slot = NoSlot /\ turn'[j].slot = Head(ready).slot
  /\ \A k \in Jobs : k # j => turn'[k] = turn[k]

ListsCleared ==
  /\ ready' = <<>> /\ stale' = <<>> /\ recovered' = <<>> /\ \A j \in Jobs : turn'[j] = NoTurn

(* Which actions do what to the lists, and what they want of the count. *)
Wants == replenisher.pc \in {"name", "branch"} \/ replenisher.then = "name"

LEMMA ListSteps ==
  ASSUME WorktreesTypeOK, ShapeInv, [WorktreesNext]_worktreeVars
  PROVE  \/ /\ ListsSame /\ SlotsDropped
            /\ Wants' => Wants \/ (Len(ready) < Target /\ stale = <<>> /\ recovered = <<>>)
         \/ turn' = turn /\ ListsFresh /\ (Wants' => Wants)
         \/ turn' = turn /\ ListsReset /\ (Wants' => Wants)
         \/ turn' = turn /\ ListsReturned /\ (Wants' => Wants)
         \/ /\ turn' = turn /\ ~Wants' /\ ListsGrown(replenisher.slot)
            /\ replenisher.pc = "branch" /\ replenisher.slot \in Slots
            /\ Len(ready') = Len(ready) + 1
         \/ /\ turn' = turn /\ phase = "reclaim" /\ stale = <<>> /\ recovered = <<>>
            /\ ~Wants' /\ Len(ready) < Target
            /\ \E s \in Unclaimed : ListsGrown(s)
         \/ (\E j \in Jobs : ListsPopped(j)) /\ (Wants' => Wants)
         \/ ListsCleared /\ ~Wants'
<1>t. TurnType /\ RestType /\ PoolType /\ CountType /\ GitType
  BY TypesAre
<1>s. PhaseShape /\ PoolShape /\ \A j \in Jobs : TurnShape(j)
  BY ShapeIs
<1>r. /\ replenisher.pc \in
           {"off", "refresh", "take", "reset", "fill", "create", "name", "branch", "wait"}
      /\ replenisher.then \in {"fill", "name", "wait"} /\ replenisher.base \in Commits
      /\ DOMAIN replenisher = {"pc", "then", "slot", "base", "stale", "recovered"}
      /\ DOMAIN IdleReplenisher = {"pc", "then", "slot", "base", "stale", "recovered"}
  BY <1>t, ReplenisherIs, IdleIs DEF PoolType, Replenishing
<1>e. /\ replenisher.pc # "reset" => stale = <<>> /\ recovered = <<>>
      /\ replenisher.pc = "branch" => replenisher.slot \in Slots
      /\ replenisher.pc \in {"off", "branch"} => replenisher.then = "wait"
  BY <1>s DEF PoolShape, stale, recovered
<1>i. /\ IdleReplenisher.stale = <<>> /\ IdleReplenisher.recovered = <<>>
      /\ IdleReplenisher.then = "wait" /\ IdleReplenisher.pc = "off"
  BY IdleIs
<1>1. ASSUME ReplenisherStep
      PROVE  \/ /\ ListsSame /\ SlotsDropped
                /\ Wants' => Wants \/ (Len(ready) < Target /\ stale = <<>> /\ recovered = <<>>)
             \/ turn' = turn /\ ListsFresh /\ (Wants' => Wants)
             \/ turn' = turn /\ ListsReset /\ (Wants' => Wants)
             \/ turn' = turn /\ ListsReturned /\ (Wants' => Wants)
             \/ /\ turn' = turn /\ ~Wants' /\ ListsGrown(replenisher.slot)
                /\ replenisher.pc = "branch" /\ replenisher.slot \in Slots
                /\ Len(ready') = Len(ready) + 1
  <2>t. turn' = turn /\ SlotsDropped
    BY <1>1 DEF ReplenisherStep, SlotsDropped
  <2>1. CASE RefreshFetch
    BY <2>1, <2>t, <1>r DEF RefreshFetch, GoOn, ListsSame, Wants, stale, recovered
  <2>2. CASE RefreshTake
    BY <2>2, <2>t, <1>r, <1>e DEF RefreshTake, ListsFresh, Wants, stale, recovered
  <2>3. CASE RefreshReset
    <3> DEFINE rest == Tail(replenisher.stale)
               more == Append(replenisher.recovered,
                              [Head(replenisher.stale) EXCEPT !.base = replenisher.base])
    <3>1. /\ replenisher.stale # <<>> /\ ready' = ready
          /\ \/ replenisher' = [replenisher EXCEPT !.stale = rest, !.recovered = more]
             \/ replenisher' = [replenisher EXCEPT !.stale = rest]
      BY <2>3 DEF RefreshReset
    <3> HIDE DEF rest, more
    <3>2. /\ replenisher'.stale = rest
          /\ replenisher'.recovered \in {more, replenisher.recovered}
          /\ replenisher'.pc = replenisher.pc /\ replenisher'.then = replenisher.then
      BY <3>1, <1>r
    <3>3. Wants' => Wants
      BY <3>2 DEF Wants
    <3>4. ListsReset
      BY <3>1, <3>2 DEF ListsReset, stale, recovered, rest, more
    <3>5. QED
      BY <2>t, <3>3, <3>4
  <2>4. CASE RefreshReturn
    BY <2>4, <2>t, <1>r, <1>e DEF RefreshReturn, ListsReturned, Wants, stale, recovered
  <2>5. CASE FillBegin
    BY <2>5, <2>t, <1>r, <1>e, <1>i DEF FillBegin, GoOn, Rest, GiveUp, ListsSame, Wants, stale,
       recovered
  <2>6. CASE FillLoop
    BY <2>6, <2>t, <1>r, <1>e, <1>i DEF FillLoop, GoOn, Rest, ListsSame, Wants, stale, recovered
  <2>7. CASE CreateName
    BY <2>7, <2>t, <1>r, <1>e DEF CreateName, ListsSame, Wants, stale, recovered
  <2>8. CASE CreatePooled
    <3> DEFINE entry == [slot |-> replenisher.slot, base |-> replenisher.base]
    <3>1. replenisher.pc = "branch" /\ replenisher.slot \in Slots
      BY <2>8, <1>e DEF CreatePooled
    <3>2. entry \in Pooled
      BY <3>1, <1>r DEF Pooled
    <3>3. CASE ready' = Append(ready, entry)
               /\ replenisher' = [replenisher EXCEPT !.pc = "create", !.slot = NoSlot]
      <4>1. Len(ready') = Len(ready) + 1
        BY <1>t, <3>2, <3>3, Appended DEF PoolType
      <4>2. ListsGrown(replenisher.slot)
        BY <3>3, <1>r DEF ListsGrown, stale, recovered
      <4>3. ~Wants'
        BY <3>1, <3>3, <1>r, <1>e DEF Wants
      <4>4. QED
        BY <2>t, <3>1, <4>1, <4>2, <4>3
    <3>4. CASE GiveUp /\ ready' = ready
      BY <2>t, <3>1, <3>4, <1>r, <1>e, <1>i DEF GiveUp, Rest, ListsSame, Wants, stale, recovered
    <3>5. QED
      BY <2>8, <3>3, <3>4 DEF CreatePooled
  <2>9. CASE Replenish \/ RefreshTick
    BY <2>9, <2>t, <1>r, <1>e, <1>i DEF Replenish, RefreshTick, ListsSame, Wants, stale, recovered
  <2>10. QED
    BY <1>1, <2>1, <2>2, <2>3, <2>4, <2>5, <2>6, <2>7, <2>8, <2>9 DEF ReplenisherStep
<1>2. ASSUME NEW j \in Jobs, TurnStep(j)
      PROVE  \/ ListsSame /\ SlotsDropped /\ (Wants' => Wants)
             \/ ListsPopped(j) /\ (Wants' => Wants)
  <2>1. replenisher' = replenisher
    BY <1>2 DEF TurnStep
  <2>2. stale' = stale /\ recovered' = recovered /\ (Wants' => Wants)
    BY <2>1 DEF stale, recovered, Wants
  <2>3. CASE Pop(j) /\ ready # <<>>
    <3>1. turn[j].pc = "pop" /\ ready' = Tail(ready)
      BY <2>3 DEF Pop
    <3>2. turn[j].slot = NoSlot
      BY <3>1, <1>s DEF TurnShape
    <3>3. turn'[j].slot = Head(ready).slot /\ \A k \in Jobs : k # j => turn'[k] = turn[k]
      <4>1. turn' = [turn EXCEPT ![j].pc = "move", ![j].slot = Head(ready).slot]
        BY <2>3 DEF Pop
      <4>2. turn \in [Jobs -> Preparing] /\ DOMAIN turn[j] = {"pc", "slot", "branch"}
        BY <1>t DEF TurnType, Preparing
      <4>3. QED
        BY <4>1, <4>2
    <3>4. QED
      BY <2>2, <2>3, <3>1, <3>2, <3>3 DEF ListsPopped
  <2>4. CASE ~(Pop(j) /\ ready # <<>>)
    <3>0. ASSUME ~Pop(j) PROVE ready' = ready /\ turn[j].pc # "pop"
      <4>1. turn[j].pc # "pop"
        BY <1>2, <3>0 DEF TurnStep, BeginConversation, MovePooled, RenameBranch, CreateWorktree,
           UpdateJobData, RunCLI, NoTurn
      <4>2. ready' = ready
        BY <1>2, <3>0 DEF TurnStep, BeginConversation, MovePooled, RenameBranch, CreateWorktree,
           UpdateJobData, RunCLI
      <4>3. QED
        BY <4>1, <4>2
    <3>1. ready' = ready /\ (turn[j].pc = "pop" => ready = <<>>)
      BY <2>4, <3>0 DEF Pop
    <3>2. TurnShape(j) /\ NoTurn.slot = NoSlot
      BY <1>s DEF NoTurn
    <3>3. turn'[j].slot = turn[j].slot \/ turn'[j].slot = NoSlot
      BY <1>2, <1>t, <3>1, <3>2, TurnMoves
    <3>4. SlotsDropped
      BY <1>2, <1>t, <3>3, TurnMoves DEF SlotsDropped
    <3>5. QED
      BY <2>2, <3>1, <3>4 DEF ListsSame
  <2>5. QED
    BY <2>3, <2>4
<1>3. CASE Crash
  BY <1>3, <1>i DEF Crash, ListsCleared, Wants, stale, recovered
<1>4. ASSUME StartUp
      PROVE  \/ ListsSame /\ SlotsDropped /\ (Wants' => Wants)
             \/ /\ turn' = turn /\ phase = "reclaim" /\ stale = <<>> /\ recovered = <<>>
                /\ ~Wants' /\ Len(ready) < Target
                /\ \E s \in Unclaimed : ListsGrown(s)
  <2>t. turn' = turn /\ SlotsDropped
    BY <1>4 DEF StartUp, SlotsDropped
  <2>1. CASE LoadState \/ CleanupStaleJobWorktrees \/ RecoverJobs \/ ClearHold
    BY <2>1, <2>t DEF LoadState, CleanupStaleJobWorktrees, RecoverJobs, ClearHold, ListsSame,
       Wants, stale, recovered
  <2>2. CASE ReclaimPooled
    <3>1. replenisher' = replenisher /\ phase = "reclaim"
      BY <2>2 DEF ReclaimPooled
    <3>2. replenisher.pc = "off"
      BY <3>1, <1>s DEF PhaseShape
    <3>3. stale' = stale /\ recovered' = recovered /\ stale = <<>> /\ recovered = <<>>
          /\ Wants' = Wants /\ ~Wants
      BY <3>1, <3>2, <1>e DEF stale, recovered, Wants
    <3>4. CASE ready' = ready
      BY <2>t, <3>3, <3>4 DEF ListsSame
    <3>5. CASE Len(ready) < Target /\ \E s \in Unclaimed :
                 ready' = Append(ready, [slot |-> s, base |-> dirs[s].base])
      <4>1. \A s \in Unclaimed : dirs[s].base \in Commits
        BY <1>t DEF Unclaimed, GitType, Directories
      <4>2. QED
        BY <2>t, <3>1, <3>3, <3>5, <4>1 DEF ListsGrown
    <3>6. QED
      BY <2>2, <3>4, <3>5 DEF ReclaimPooled
  <2>3. CASE StartPool
    <3>1. replenisher' = [IdleReplenisher EXCEPT !.pc = "refresh", !.then = "fill"]
          /\ phase = "reclaim" /\ ready' = ready
      BY <2>3 DEF StartPool
    <3>2. replenisher.pc = "off"
      BY <3>1, <1>s DEF PhaseShape
    <3>3. QED
      BY <2>t, <3>1, <3>2, <1>e, <1>i, <1>r DEF ListsSame, Wants, stale, recovered
  <2>4. QED
    BY <1>4, <2>1, <2>2, <2>3 DEF StartUp
<1>5. ASSUME \/ SweepStep \/ PushToDefault \/ UNCHANGED worktreeVars
             \/ \E j \in Jobs : Abandon(j) \/ CompleteIdle(j)
      PROVE  ListsSame /\ SlotsDropped /\ (Wants' => Wants)
  <2>1. ready' = ready /\ replenisher' = replenisher /\ turn' = turn
    BY <1>5 DEF SweepStep, PushToDefault, Abandon, CompleteIdle, poolVars, worktreeVars
  <2>2. QED
    BY <2>1 DEF ListsSame, SlotsDropped, Wants, stale, recovered
<1>6. QED
  BY <1>1, <1>2, <1>3, <1>4, <1>5 DEF WorktreesNext


LEMMA CountKept ==
  ASSUME WorktreesTypeOK, ShapeInv, CountInv, HolderInv, [WorktreesNext]_worktreeVars
  PROVE  CountInv' /\ (Len(ready) <= Target)'
<1>t. /\ ready \in Seq(Pooled) /\ stale \in Seq(Pooled) /\ recovered \in Seq(Pooled)
      /\ replenisher.base \in Commits
  BY TypesAre, ReplenisherIs DEF PoolType, stale, recovered
<1>a. Target \in Nat \ {0}
  BY WorktreeAssumption
<1> DEFINE r == Len(ready)
           s == Len(stale)
           c == Len(recovered)
<1>n. r \in Nat /\ s \in Nat /\ c \in Nat
  BY <1>t
<1>c. r + s + c <= Target /\ (Wants => r + s + c < Target)
  BY DEF CountInv, Wants, stale, recovered
<1>z. Len(<<>>) = 0
  OBVIOUS
<1>g. ASSUME NEW q \in Nat, NEW u \in Nat, NEW d \in Nat,
             Len(ready') = q, Len(stale') = u, Len(recovered') = d,
             q + u + d <= Target, Wants' => q + u + d < Target
      PROVE  CountInv' /\ (Len(ready) <= Target)'
  <2>1. Len(ready') + Len(stale') + Len(recovered') <= Target
        /\ (Wants' => Len(ready') + Len(stale') + Len(recovered') < Target)
    BY <1>g
  <2>2. Len(ready') <= Target
    BY <1>g, <1>a
  <2>3. QED
    BY <2>1, <2>2 DEF CountInv, Wants, stale, recovered
<1> HIDE DEF r, s, c
<1>1. CASE ListsSame /\ (Wants' => Wants \/ (Len(ready) < Target /\ stale = <<>> /\ recovered = <<>>))
  <2>1. Len(ready') = r /\ Len(stale') = s /\ Len(recovered') = c
    BY <1>1 DEF ListsSame, r, s, c
  <2>2. Wants' => r + s + c < Target
    <3>1. stale = <<>> /\ recovered = <<>> => s = 0 /\ c = 0
      BY <1>z DEF s, c
    <3>2. CASE Len(ready) < Target /\ stale = <<>> /\ recovered = <<>>
      BY <1>n, <3>1, <3>2 DEF r
    <3>3. QED
      BY <1>1, <1>c, <3>2
  <2>3. QED
    BY <1>n, <1>c, <1>g, <2>1, <2>2
<1>2. CASE ListsFresh /\ (Wants' => Wants)
  <2>1. Distinct(ready)
    BY DEF HolderInv
  <2>2. /\ ready' \in Seq(Pooled) /\ stale' \in Seq(Pooled) /\ Len(ready') + Len(stale') = r
        /\ recovered' = <<>> /\ recovered = <<>> /\ stale = <<>>
    BY <1>2, <1>t, <2>1, Divided DEF ListsFresh, r
  <2>3. Len(ready') \in Nat /\ Len(stale') \in Nat /\ Len(recovered') = 0 /\ s = 0 /\ c = 0
    BY <1>z, <2>2 DEF s, c
  <2>4. QED
    BY <1>2, <1>n, <1>c, <1>g, <2>2, <2>3
<1>3. CASE ListsReset /\ (Wants' => Wants)
  <2> DEFINE again == [Head(stale) EXCEPT !.base = replenisher.base]
  <2>1. stale # <<>> /\ ready' = ready /\ stale' = Tail(stale)
        /\ recovered' \in {recovered, Append(recovered, again)}
    BY <1>3 DEF ListsReset
  <2>2. Head(stale) \in Pooled /\ Tail(stale) \in Seq(Pooled) /\ s = Len(Tail(stale)) + 1
    BY <1>t, <2>1, Behead DEF s
  <2>3. again \in Pooled
    BY <1>t, <2>2 DEF Pooled
  <2> HIDE DEF again
  <2>4. Len(ready') = r /\ Len(stale') \in Nat /\ s = Len(stale') + 1
        /\ Len(recovered') \in {c, c + 1}
    BY <1>t, <2>1, <2>2, <2>3, Appended DEF r, c
  <2>5. Len(ready') + Len(stale') + Len(recovered') <= Target
        /\ (Wants' => Len(ready') + Len(stale') + Len(recovered') < Target)
        /\ Len(ready') \in Nat /\ Len(stale') \in Nat /\ Len(recovered') \in Nat
    BY <1>3, <1>a, <1>n, <1>c, <2>4
  <2>6. QED
    BY <1>g, <2>5
<1>4. CASE ListsReturned /\ (Wants' => Wants)
  <2>1. Len(ready') = r + c /\ Len(stale') = 0 /\ Len(recovered') = 0 /\ s = 0
    BY <1>4, <1>t, <1>z, Joined DEF ListsReturned, r, s, c
  <2>2. QED
    BY <1>4, <1>n, <1>c, <1>g, <2>1
<1>5. CASE /\ ~Wants' /\ ListsGrown(replenisher.slot) /\ replenisher.pc = "branch"
           /\ Len(ready') = Len(ready) + 1
  <2>1. Len(ready') = r + 1 /\ Len(stale') = s /\ Len(recovered') = c /\ Wants
    BY <1>5 DEF ListsGrown, Wants, r, s, c
  <2>2. Len(ready') + Len(stale') + Len(recovered') <= Target
        /\ (Wants' => Len(ready') + Len(stale') + Len(recovered') < Target)
        /\ Len(ready') \in Nat /\ Len(stale') \in Nat /\ Len(recovered') \in Nat
    BY <1>5, <1>a, <1>n, <1>c, <2>1
  <2>3. QED
    BY <1>g, <2>2
<1>6. CASE /\ stale = <<>> /\ recovered = <<>> /\ ~Wants' /\ Len(ready) < Target
           /\ \E x \in Unclaimed : ListsGrown(x)
  <2>1. PICK x \in Unclaimed : ListsGrown(x)
    BY <1>6
  <2>2. PICK b \in Commits : ready' = Append(ready, [slot |-> x, base |-> b])
    BY <2>1 DEF ListsGrown
  <2>3. [slot |-> x, base |-> b] \in Pooled
    BY <2>1 DEF Unclaimed, Pooled
  <2>4. Len(ready') = r + 1
    BY <1>t, <2>2, <2>3, Appended DEF r
  <2>5. Len(stale') = 0 /\ Len(recovered') = 0 /\ r < Target
    BY <1>6, <1>z, <2>1 DEF ListsGrown, r
  <2>6. QED
    BY <1>6, <1>a, <1>n, <1>g, <2>4, <2>5
<1>7. CASE (\E j \in Jobs : ListsPopped(j)) /\ (Wants' => Wants)
  <2>1. ready # <<>> /\ ready' = Tail(ready) /\ stale' = stale /\ recovered' = recovered
    BY <1>7 DEF ListsPopped
  <2>2. Tail(ready) \in Seq(Pooled) /\ r = Len(Tail(ready)) + 1
    BY <1>t, <2>1, Behead DEF r
  <2>3. Len(ready') \in Nat /\ r = Len(ready') + 1 /\ Len(stale') = s /\ Len(recovered') = c
    BY <2>1, <2>2 DEF s, c
  <2>4. Len(ready') + Len(stale') + Len(recovered') <= Target
        /\ (Wants' => Len(ready') + Len(stale') + Len(recovered') < Target)
        /\ Len(ready') \in Nat /\ Len(stale') \in Nat /\ Len(recovered') \in Nat
    BY <1>7, <1>a, <1>n, <1>c, <2>3
  <2>5. QED
    BY <1>g, <2>4
<1>8. CASE ListsCleared /\ ~Wants'
  <2>1. Len(ready') = 0 /\ Len(stale') = 0 /\ Len(recovered') = 0
    BY <1>8, <1>z DEF ListsCleared
  <2>2. QED
    BY <1>8, <1>a, <1>g, <2>1
<1>9. QED
  BY <1>1, <1>2, <1>3, <1>4, <1>5, <1>6, <1>7, <1>8, ListSteps

(* Who holds what, of the lists and of the turns apart. *)
ListsApart ==
  /\ Distinct(ready) /\ Distinct(stale) /\ Distinct(recovered)
  /\ SlotsOf(ready) \cap SlotsOf(stale) = {} /\ SlotsOf(ready) \cap SlotsOf(recovered) = {}
  /\ SlotsOf(stale) \cap SlotsOf(recovered) = {}

TurnsApart ==
  \A j \in Jobs : turn[j].slot # NoSlot =>
    turn[j].slot \notin Pooling /\ \A k \in Jobs : turn[k].slot = turn[j].slot => k = j

LEMMA HolderIs ==
  /\ HolderInv <=> ListsApart /\ TurnsApart
  /\ Pooling = SlotsOf(ready) \cup SlotsOf(stale) \cup SlotsOf(recovered)
BY DEF HolderInv, ListsApart, TurnsApart, Pooling, stale, recovered

(* A slot the replenisher makes or the start reclaims is in nobody's hands. *)
LEMMA GrownIsNew ==
  ASSUME WorktreesTypeOK, ShapeInv, HolderInv, PoolInv, NewInv, MovedInv, NEW s \in Slots,
         \/ replenisher.pc = "branch" /\ s = replenisher.slot
         \/ phase = "reclaim" /\ s \in Unclaimed /\ stale = <<>> /\ recovered = <<>>
  PROVE  s \notin Pooling /\ \A j \in Jobs : turn[j].slot # s
<1>p. Pooling = SlotsOf(ready) \cup SlotsOf(stale) \cup SlotsOf(recovered)
  BY HolderIs
<1>n. s # NoSlot
  BY WorktreeAssumption
<1>1. CASE replenisher.pc = "branch" /\ s = replenisher.slot
  <2>1. s \notin DOMAIN dirs /\ s \notin branches
    BY <1>1 DEF NewInv
  <2>2. s \notin Pooling
    BY <2>1 DEF PoolInv, Checked
  <2>3. ASSUME NEW j \in Jobs, turn[j].slot = s PROVE FALSE
    <3>1. turn[j].pc \in {"move", "rename"}
      BY <1>n, <2>3, ShapeIs DEF TurnShape
    <3>2. turn[j].pc = "move" => s \in DOMAIN dirs
      BY <2>3 DEF PoolInv, Checked
    <3>3. turn[j].pc = "rename" => s \in branches
      BY <2>3 DEF MovedInv
    <3>4. QED
      BY <2>1, <3>1, <3>2, <3>3
  <2>4. QED
    BY <2>2, <2>3
<1>2. CASE phase = "reclaim" /\ s \in Unclaimed /\ stale = <<>> /\ recovered = <<>>
  <2>1. \A j \in Jobs : turn[j].slot = NoSlot
    BY <1>2, ShapeIs DEF PhaseShape, NoTurn
  <2>2. ready \in Seq(Pooled)
    BY TypesAre DEF PoolType
  <2>3. s \notin SlotsOf(ready)
    <3>1. \A i \in DOMAIN ready : ready[i].slot # s
      BY <1>2 DEF Unclaimed
    <3>2. DOMAIN ready = 1 .. Len(ready)
      BY <2>2
    <3>3. QED
      BY <3>1, <3>2 DEF SlotsOf, EntriesOf
  <2>4. QED
    BY <1>2, <1>n, <1>p, <2>1, <2>3, NoEntries
<1>3. QED
  BY <1>1, <1>2

(* A step leaves the pool what it has, or one directory more. *)
PoolingSteps ==
  \/ Pooling' \subseteq Pooling
  \/ \E s \in Slots : ListsGrown(s) /\ Pooling' \subseteq Pooling \cup {s}

LEMMA HolderKept ==
  ASSUME WorktreesTypeOK, ShapeInv, HolderInv, PoolInv, NewInv, MovedInv,
         [WorktreesNext]_worktreeVars
  PROVE  HolderInv' /\ PoolingSteps
<1>t. /\ ready \in Seq(Pooled) /\ stale \in Seq(Pooled) /\ recovered \in Seq(Pooled)
      /\ replenisher.base \in Commits
  BY TypesAre, ReplenisherIs DEF PoolType, stale, recovered
<1>h. ListsApart /\ TurnsApart
  BY HolderIs
<1>p. Pooling = SlotsOf(ready) \cup SlotsOf(stale) \cup SlotsOf(recovered)
  BY HolderIs
<1>q. Pooling' = SlotsOf(ready') \cup SlotsOf(stale') \cup SlotsOf(recovered')
  BY DEF Pooling, stale, recovered
<1>l. ListsApart' <=>
        /\ Distinct(ready') /\ Distinct(stale') /\ Distinct(recovered')
        /\ SlotsOf(ready') \cap SlotsOf(stale') = {}
        /\ SlotsOf(ready') \cap SlotsOf(recovered') = {}
        /\ SlotsOf(stale') \cap SlotsOf(recovered') = {}
  BY DEF ListsApart, Distinct, SlotsOf, EntriesOf
<1>g. ASSUME ListsApart', TurnsApart' PROVE HolderInv'
  BY <1>g, HolderIs, PTL
<1>u. ASSUME SlotsDropped, Pooling' \subseteq Pooling
      PROVE  TurnsApart' /\ PoolingSteps
  BY <1>u, <1>h DEF SlotsDropped, TurnsApart, PoolingSteps
<1>v. ASSUME turn' = turn PROVE SlotsDropped
  BY <1>v DEF SlotsDropped
<1>1. CASE ListsSame /\ SlotsDropped
  <2>1. ListsApart' /\ Pooling' = Pooling
    BY <1>1, <1>h, <1>l, <1>p, <1>q DEF ListsSame, ListsApart
  <2>2. QED
    BY <1>1, <1>g, <1>u, <2>1
<1>2. CASE turn' = turn /\ ListsFresh
  <2>1. /\ Distinct(ready') /\ Distinct(stale') /\ SlotsOf(ready') \cap SlotsOf(stale') = {}
        /\ SlotsOf(ready') \cup SlotsOf(stale') = SlotsOf(ready) /\ recovered' = <<>>
    BY <1>2, <1>t, <1>h, Divided DEF ListsFresh, ListsApart
  <2>2. ListsApart' /\ Pooling' \subseteq Pooling
    BY <1>l, <1>p, <1>q, <2>1, NoEntries
  <2>3. QED
    BY <1>2, <1>g, <1>u, <1>v, <2>2
<1>3. CASE turn' = turn /\ ListsReset
  <2> DEFINE e == Head(stale)
             again == [e EXCEPT !.base = replenisher.base]
  <2>1. stale # <<>> /\ ready' = ready /\ stale' = Tail(stale)
        /\ recovered' \in {recovered, Append(recovered, again)}
    BY <1>3 DEF ListsReset
  <2>2. /\ e \in Pooled /\ SlotsOf(stale) = SlotsOf(stale') \cup {e.slot}
        /\ Distinct(stale') /\ e.slot \notin SlotsOf(stale')
    BY <1>t, <1>h, <2>1, Behead DEF ListsApart
  <2>3. again \in Pooled /\ again.slot = e.slot
    BY <1>t, <2>2 DEF Pooled
  <2> HIDE DEF again, e
  <2>4. e.slot \notin SlotsOf(recovered)
    BY <1>h, <2>2 DEF ListsApart
  <2>5. SlotsOf(recovered') \subseteq SlotsOf(recovered) \cup {e.slot} /\ Distinct(recovered')
    BY <1>t, <1>h, <2>1, <2>3, <2>4, Appended, ZenonT(60) DEF ListsApart
  <2>6. ListsApart'
    BY <1>h, <1>l, <2>1, <2>2, <2>4, <2>5 DEF ListsApart
  <2>7. Pooling' \subseteq Pooling
    BY <1>p, <1>q, <2>1, <2>2, <2>5
  <2>8. QED
    BY <1>3, <1>g, <1>u, <1>v, <2>6, <2>7
<1>4. CASE turn' = turn /\ ListsReturned
  <2>1. /\ Distinct(ready') /\ SlotsOf(ready') = SlotsOf(ready) \cup SlotsOf(recovered)
        /\ stale' = <<>> /\ recovered' = <<>>
    BY <1>4, <1>t, <1>h, Joined DEF ListsReturned, ListsApart
  <2>2. ListsApart' /\ Pooling' \subseteq Pooling
    BY <1>l, <1>p, <1>q, <2>1, NoEntries
  <2>3. QED
    BY <1>4, <1>g, <1>u, <1>v, <2>2
<1>5. ASSUME turn' = turn, NEW s \in Slots, ListsGrown(s), s \notin Pooling,
             \A j \in Jobs : turn[j].slot # s
      PROVE  HolderInv' /\ PoolingSteps
  <2>1. PICK b \in Commits : ready' = Append(ready, [slot |-> s, base |-> b])
    BY <1>5 DEF ListsGrown
  <2> DEFINE e == [slot |-> s, base |-> b]
  <2>2. e \in Pooled /\ e.slot = s
    BY <2>1 DEF Pooled
  <2> HIDE DEF e
  <2>3. ready' = Append(ready, e) /\ stale' = stale /\ recovered' = recovered
    BY <1>5, <2>1 DEF ListsGrown, e
  <2>4. SlotsOf(ready') = SlotsOf(ready) \cup {s} /\ Distinct(ready')
    BY <1>t, <1>h, <1>p, <1>5, <2>2, <2>3, Appended DEF ListsApart
  <2>5. ListsApart'
    BY <1>h, <1>l, <1>p, <1>5, <2>3, <2>4 DEF ListsApart
  <2>6. Pooling' = Pooling \cup {s}
    BY <1>p, <1>q, <2>3, <2>4
  <2>7. TurnsApart'
    BY <1>h, <1>5, <2>6 DEF TurnsApart
  <2>8. PoolingSteps
    BY <1>5, <2>6 DEF PoolingSteps
  <2>9. QED
    BY <1>g, <2>5, <2>7, <2>8
<1>6. CASE \/ turn' = turn /\ ListsGrown(replenisher.slot) /\ replenisher.pc = "branch"
              /\ replenisher.slot \in Slots
           \/ /\ turn' = turn /\ phase = "reclaim" /\ stale = <<>> /\ recovered = <<>>
              /\ \E s \in Unclaimed : ListsGrown(s)
  <2>1. Unclaimed \subseteq Slots
    BY DEF Unclaimed
  <2>2. QED
    BY <1>5, <1>6, <2>1, GrownIsNew
<1>7. ASSUME NEW j \in Jobs, ListsPopped(j) PROVE HolderInv' /\ PoolingSteps
  <2> DEFINE x == Head(ready).slot
  <2>1. /\ ready # <<>> /\ ready' = Tail(ready) /\ stale' = stale /\ recovered' = recovered
        /\ turn[j].slot = NoSlot /\ turn'[j].slot = x
        /\ \A k \in Jobs : k # j => turn'[k] = turn[k]
    BY <1>7 DEF ListsPopped
  <2>2. /\ SlotsOf(ready) = SlotsOf(ready') \cup {x} /\ x \notin SlotsOf(ready')
        /\ Distinct(ready')
    BY <1>t, <1>h, <2>1, Behead DEF ListsApart
  <2> HIDE DEF x
  <2>3. ListsApart'
    BY <1>h, <1>l, <2>1, <2>2 DEF ListsApart
  <2>4. Pooling' \subseteq Pooling /\ x \in Pooling /\ x \notin Pooling'
    BY <1>h, <1>p, <1>q, <2>1, <2>2 DEF ListsApart
  <2>5. \A k \in Jobs : k # j => turn[k].slot # x
    <3>1. SUFFICES ASSUME NEW k \in Jobs, turn[k].slot = x PROVE turn[k].slot = NoSlot
      BY <2>1, <2>4, <1>t, WorktreeAssumption, EntriesAre, <1>p, <1>h DEF TurnsApart
    <3>2. QED
      BY <1>h, <2>4, <3>1 DEF TurnsApart
  <2>6. TurnsApart'
    <3> SUFFICES ASSUME NEW k \in Jobs, turn'[k].slot # NoSlot
                 PROVE  /\ turn'[k].slot \notin Pooling'
                        /\ \A i \in Jobs : turn'[i].slot = turn'[k].slot => i = k
      BY DEF TurnsApart
    <3>1. CASE k = j
      BY <2>1, <2>4, <2>5, <3>1
    <3>2. CASE k # j
      <4>1. turn'[k] = turn[k] /\ turn[k].slot # x
        BY <2>1, <2>5, <3>2
      <4>2. turn[k].slot \notin Pooling /\ \A i \in Jobs : turn[i].slot = turn[k].slot => i = k
        BY <1>h, <4>1 DEF TurnsApart
      <4>3. QED
        BY <2>1, <2>4, <4>1, <4>2
    <3>3. QED
      BY <3>1, <3>2
  <2>7. QED
    BY <1>g, <2>3, <2>4, <2>6 DEF PoolingSteps
<1>8. CASE ListsCleared
  <2>1. ready' = <<>> /\ stale' = <<>> /\ recovered' = <<>> /\ \A j \in Jobs : turn'[j] = NoTurn
    BY <1>8 DEF ListsCleared
  <2>2. ListsApart'
    BY <1>l, <2>1, NoEntries
  <2>3. TurnsApart'
    BY <2>1 DEF TurnsApart, NoTurn
  <2>4. Pooling' = {}
    BY <1>q, <2>1, NoEntries
  <2>5. QED
    BY <1>g, <2>2, <2>3, <2>4 DEF PoolingSteps
<1>9. QED
  BY <1>1, <1>2, <1>3, <1>4, <1>6, <1>7, <1>8, ListSteps


-----------------------------------------------------------------------------
(* The directories: what a step leaves alone keeps its part of the          *)
(* invariant, so that only what it touches has to be looked at.            *)

Shrinks(p) ==
  /\ p \in DOMAIN dirs' =>
       p \in DOMAIN dirs /\ dirs'[p].branch = dirs[p].branch /\ dirs'[p].work = dirs[p].work
  /\ p \in registered' => p \in registered

Stays(p) == Shrinks(p) /\ (Checked(p) => p \in DOMAIN dirs' /\ p \in registered')

QuietTurn(k) ==
  /\ turn'[k].pc \in {"pop", "move", "create"} => turn[k].pc \in {"pop", "move", "create"}
  /\ turn'[k].pc = "rename" => turn[k].pc = "rename" /\ turn'[k].slot = turn[k].slot
  /\ turn'[k].pc \in {"row", "work"} =>
       turn[k].pc \in {"row", "work"} /\ turn'[k].branch = turn[k].branch

InUse == Pooling \cup {turn[j].slot : j \in {k \in Jobs : turn[k].pc = "move"}}

PoolAt(s) ==
  /\ s \in InUse => Checked(s)
  /\ s \in DOMAIN dirs => dirs[s].work = NoBranch
  /\ Checked(s) => s \in branches /\ dirs[s].branch = s

MovedAt(j) ==
  /\ turn[j].pc \in {"pop", "move", "create"} => ~Checked(j)
  /\ turn[j].pc = "rename" =>
       /\ turn[j].slot \in branches /\ turn[j].slot \notin DOMAIN dirs
       /\ Checked(j) => dirs[j].branch = turn[j].slot /\ dirs[j].work = NoBranch

StrayAt(j) ==
  Checked(j) /\ dirs[j].branch \in Slots =>
    /\ dirs[j].branch \in branches /\ dirs[j].branch \notin DOMAIN dirs
    /\ \A k \in Jobs : turn[k].pc = "rename" /\ turn[k].slot = dirs[j].branch => k = j
    /\ \A k \in Jobs : Checked(k) /\ dirs[k].branch = dirs[j].branch => k = j

CleanAt(j) ==
  turn[j].pc \in {"row", "work"} /\ j \in DOMAIN dirs =>
    dirs[j].branch = turn[j].branch /\ dirs[j].work = NoBranch

(* The parts that are about git's variables. *)
DirInv == PoolInv /\ MovedInv /\ StrayInv /\ CleanInv

LEMMA PoolingIs ==
  ASSUME WorktreesTypeOK, ShapeInv
  PROVE  Pooling \subseteq Slots /\ InUse \subseteq Slots
<1>1. /\ ready \in Seq(Pooled) /\ replenisher.stale \in Seq(Pooled)
      /\ replenisher.recovered \in Seq(Pooled)
  BY TypesAre, ReplenisherIs DEF PoolType
<1>2. Pooling \subseteq Slots
  BY <1>1, EntriesAre DEF Pooling
<1>3. \A j \in Jobs : turn[j].slot \in Slots \cup {NoSlot}
  BY TypesAre DEF TurnType, Preparing
<1>4. \A j \in Jobs : turn[j].pc = "move" => turn[j].slot # NoSlot
  BY DEF ShapeInv
<1>5. QED
  BY <1>2, <1>3, <1>4 DEF InUse

DirParts ==
  /\ \A s \in Slots : PoolAt(s)
  /\ \A j \in Jobs : MovedAt(j) /\ StrayAt(j) /\ CleanAt(j)

LEMMA DirIs == WorktreesTypeOK /\ ShapeInv => (DirInv <=> DirParts)
<1> SUFFICES ASSUME WorktreesTypeOK, ShapeInv PROVE DirInv <=> DirParts
  OBVIOUS
<1>1. PoolInv <=> \A s \in Slots : PoolAt(s)
  BY PoolingIs DEF PoolInv, PoolAt, InUse
<1>2. QED
  BY <1>1 DEF DirInv, DirParts, MovedInv, MovedAt, StrayInv, StrayAt, CleanInv, CleanAt

SlotsStay(X) == \A s \in Slots \ X : Stays(s) /\ (s \in branches' <=> s \in branches)

JobsQuiet(Y) == \A k \in Jobs \ Y : Shrinks(k) /\ QuietTurn(k)

(* The jobs outside Y have nothing to do with the slots of X. *)
Apart(X, Y) ==
  \A x \in X, k \in Jobs \ Y :
    /\ turn[k].pc = "rename" => turn[k].slot # x
    /\ Checked(k) => dirs[k].branch # x

(* The jobs of Y have to do with slots of X or with those they had. *)
Confined(X, Y) ==
  \A j \in Y :
    /\ turn'[j].pc = "rename" =>
         turn'[j].slot \in X \/ (turn[j].pc = "rename" /\ turn'[j].slot = turn[j].slot)
    /\ j \in DOMAIN dirs' /\ j \in registered' =>
         dirs'[j].branch \notin Slots \ X \/ (Checked(j) /\ dirs'[j].branch = dirs[j].branch)

AtTouched(X, Y) ==
  /\ \A x \in X : PoolAt(x)
  /\ \A j \in Y : MovedAt(j) /\ StrayAt(j) /\ CleanAt(j)

LEMMA DirKept ==
  ASSUME WorktreesTypeOK, ShapeInv, DirInv, (WorktreesTypeOK /\ ShapeInv)',
         NEW X \in SUBSET Slots, NEW Y \in SUBSET Jobs,
         SlotsStay(X), JobsQuiet(Y), InUse' \subseteq InUse \cup X,
         Apart(X, Y), Confined(X, Y), AtTouched(X, Y)'
  PROVE  DirInv'
<1>1. /\ \A s \in Slots : PoolAt(s)
      /\ \A j \in Jobs : MovedAt(j) /\ StrayAt(j) /\ CleanAt(j)
  BY DirIs DEF DirParts
<1>2. ASSUME NEW s \in Slots PROVE PoolAt(s)'
  <2>1. CASE s \in X
    BY <2>1 DEF AtTouched
  <2>2. CASE s \notin X
    <3>1. PoolAt(s) /\ Stays(s) /\ (s \in branches' <=> s \in branches)
      BY <1>1, <2>2 DEF SlotsStay
    <3>2. s \in InUse' => s \in InUse
      BY <2>2
    <3>3. QED
      BY <3>1, <3>2 DEF PoolAt, Stays, Shrinks, Checked
  <2>3. QED
    BY <2>1, <2>2
<1>r. \A j \in Jobs : turn[j].pc = "rename" => turn[j].slot \in Slots
  <2>1. \A j \in Jobs : turn[j].slot \in Slots \cup {NoSlot}
    BY TypesAre DEF TurnType, Preparing
  <2>2. QED
    BY <2>1 DEF ShapeInv
<1>3. ASSUME NEW j \in Jobs PROVE MovedAt(j)' /\ CleanAt(j)'
  <2>1. CASE j \in Y
    BY <2>1 DEF AtTouched
  <2>2. CASE j \notin Y
    <3>1. MovedAt(j) /\ CleanAt(j) /\ Shrinks(j) /\ QuietTurn(j)
      BY <1>1, <2>2 DEF JobsQuiet
    <3>2. CleanAt(j)'
      BY <3>1 DEF CleanAt, Shrinks, QuietTurn
    <3>3. turn[j].pc = "rename" => turn[j].slot \in branches' /\ turn[j].slot \notin DOMAIN dirs'
      <4>1. SUFFICES ASSUME turn[j].pc = "rename"
                     PROVE  turn[j].slot \in branches' /\ turn[j].slot \notin DOMAIN dirs'
        OBVIOUS
      <4>2. turn[j].slot \in Slots \ X
        BY <1>r, <2>2, <4>1 DEF Apart
      <4>3. Stays(turn[j].slot) /\ (turn[j].slot \in branches' <=> turn[j].slot \in branches)
        BY <4>2 DEF SlotsStay
      <4>4. QED
        BY <3>1, <4>1, <4>3 DEF Stays, Shrinks, MovedAt
    <3>4. MovedAt(j)'
      BY <3>1, <3>3 DEF MovedAt, Shrinks, QuietTurn, Checked
    <3>5. QED
      BY <3>2, <3>4
  <2>3. QED
    BY <2>1, <2>2
<1>4. ASSUME NEW j \in Jobs PROVE StrayAt(j)'
  <2>1. CASE j \in Y
    BY <2>1 DEF AtTouched
  <2>2. CASE j \notin Y
    <3>1. SUFFICES ASSUME j \in DOMAIN dirs', j \in registered', dirs'[j].branch \in Slots
                   PROVE
                     /\ dirs'[j].branch \in branches' /\ dirs'[j].branch \notin DOMAIN dirs'
                     /\ \A k \in Jobs :
                          turn'[k].pc = "rename" /\ turn'[k].slot = dirs'[j].branch => k = j
                     /\ \A k \in Jobs : k \in DOMAIN dirs' /\ k \in registered'
                                        /\ dirs'[k].branch = dirs'[j].branch => k = j
      BY DEF StrayAt, Checked
    <3>2. Shrinks(j)
      BY <2>2 DEF JobsQuiet
    <3>3. Checked(j) /\ dirs'[j].branch = dirs[j].branch
      BY <3>1, <3>2 DEF Shrinks, Checked
    <3> DEFINE x == dirs[j].branch
    <3>4. x \in Slots \ X
      BY <2>2, <3>1, <3>3 DEF Apart
    <3>5. Stays(x) /\ (x \in branches' <=> x \in branches)
      BY <3>4 DEF SlotsStay
    <3>6. /\ x \in branches /\ x \notin DOMAIN dirs
          /\ \A k \in Jobs : turn[k].pc = "rename" /\ turn[k].slot = x => k = j
          /\ \A k \in Jobs : Checked(k) /\ dirs[k].branch = x => k = j
      BY <1>1, <3>3, <3>4 DEF StrayAt
    <3>7. dirs'[j].branch = x
      BY <3>3
    <3> HIDE DEF x
    <3>8. ASSUME NEW k \in Jobs, turn'[k].pc = "rename", turn'[k].slot = x PROVE k = j
      <4>1. turn[k].pc = "rename" /\ turn[k].slot = x
        BY <3>4, <3>8 DEF Confined, JobsQuiet, QuietTurn
      <4>2. QED
        BY <3>6, <4>1
    <3>9. ASSUME NEW k \in Jobs, k \in DOMAIN dirs', k \in registered', dirs'[k].branch = x
          PROVE  k = j
      <4>1. Checked(k) /\ dirs[k].branch = x
        BY <3>4, <3>9 DEF Confined, JobsQuiet, Shrinks, Checked
      <4>2. QED
        BY <3>6, <4>1
    <3>10. QED
      BY <3>5, <3>6, <3>7, <3>8, <3>9 DEF Stays, Shrinks
  <2>3. QED
    BY <2>1, <2>2
<1>5. DirParts'
  BY <1>2, <1>3, <1>4 DEF DirParts
<1>6. QED
  BY <1>5, DirIs, PTL


-----------------------------------------------------------------------------
(* The types of git's variables. *)

LEMMA Names ==
  /\ \A j \in Jobs, s \in Slots : j # s
  /\ \A b \in Attempts, j \in Jobs : b # j
  /\ \A b \in Attempts, s \in Slots : b # s
  /\ \A b \in Attempts : b # NoBranch
  /\ \A s \in Slots : s # NoBranch /\ s # NoSlot
BY NamesAssumption, WorktreeAssumption DEF Branches

LEMMA RemovedType ==
  ASSUME GitType, NEW p, Removed(p), branches' \subseteq Branches
  PROVE  GitType'
BY DEF GitType, Removed, Contents

LEMMA MovedType ==
  ASSUME GitType, NEW p \in DOMAIN dirs, NEW q \in Paths, Moved(p, q), branches' \subseteq Branches
  PROVE  GitType'
<1>1. /\ DOMAIN dirs' = (DOMAIN dirs \ {p}) \cup {q} /\ dirs'[q] = dirs[p]
      /\ \A r \in (DOMAIN dirs \ {p}) \ {q} : dirs'[r] = dirs[r]
      /\ registered' \subseteq (registered \ {p}) \cup {q}
  BY DEF Moved, Contents
<1>2. \A r \in DOMAIN dirs' : dirs'[r] \in Directories
  BY <1>1 DEF GitType
<1>3. DOMAIN dirs' \subseteq Paths /\ registered' \subseteq Paths
  BY <1>1 DEF GitType
<1>4. QED
  BY <1>2, <1>3 DEF GitType

LEMMA ChangedType ==
  ASSUME GitType, NEW p \in Paths, DOMAIN dirs' \subseteq DOMAIN dirs \cup {p},
         Contents(DOMAIN dirs \ {p}), dirs'[p] \in Directories,
         registered' \subseteq Paths, branches' \subseteq Branches
  PROVE  GitType'
BY DEF GitType, Contents

LEMMA MovingIs ==
  ASSUME WorktreesTypeOK, ShapeInv, PoolInv, NEW j \in Jobs, turn[j].pc = "move"
  PROVE  turn[j].slot \in Slots /\ Checked(turn[j].slot) /\ turn[j].slot # j
<1>1. turn[j].slot \in Slots \cup {NoSlot}
  BY TypesAre DEF TurnType, Preparing
<1>2. turn[j].slot # NoSlot
  BY DEF ShapeInv
<1>3. QED
  BY <1>1, <1>2, Names DEF PoolInv

LEMMA RenamingIs ==
  ASSUME WorktreesTypeOK, ShapeInv, NEW j \in Jobs, turn[j].pc = "rename"
  PROVE  turn[j].slot \in Slots /\ turn[j].slot # j
<1>1. turn[j].slot \in Slots \cup {NoSlot}
  BY TypesAre DEF TurnType, Preparing
<1>2. turn[j].slot # NoSlot
  BY DEF ShapeInv
<1>3. QED
  BY <1>1, <1>2, Names

LEMMA ResettingIs ==
  ASSUME WorktreesTypeOK, ShapeInv, HolderInv, PoolInv, replenisher.stale # <<>>
  PROVE  /\ Head(replenisher.stale) \in EntriesOf(replenisher.stale)
         /\ Head(replenisher.stale) \in Pooled
         /\ Head(replenisher.stale).slot \in Slots /\ Checked(Head(replenisher.stale).slot)
<1>1. replenisher.stale \in Seq(Pooled)
  BY TypesAre, ReplenisherIs DEF PoolType
<1>2. Head(replenisher.stale) \in EntriesOf(replenisher.stale)
      /\ Head(replenisher.stale) \in Pooled
  BY <1>1, Behead
<1>3. Head(replenisher.stale).slot \in SlotsOf(replenisher.stale)
  BY <1>1, <1>2, EntriesAre
<1>4. QED
  BY <1>2, <1>3 DEF Pooled, PoolInv, Pooling

LEMMA BeginningIs ==
  ASSUME WorktreesTypeOK, FreshInv, NEW j \in Jobs, attempts < MaxAttempts
  PROVE  /\ <<j, attempts + 1>> \in Attempts /\ <<j, attempts + 1>> \notin DOMAIN dirs
         /\ <<j, attempts + 1>> # j
<1>1. attempts \in Nat /\ attempts + 1 \in 1 .. MaxAttempts
  BY TypesAre, WorktreeAssumption DEF CountType
<1>2. <<j, attempts + 1>> \in Attempts /\ <<j, attempts + 1>>[2] = attempts + 1
  BY <1>1 DEF Attempts
<1>3. <<j, attempts + 1>> \notin DOMAIN dirs
  BY <1>1, <1>2 DEF FreshInv
<1>4. QED
  BY <1>2, <1>3, Names

LEMMA GitTypeKept ==
  ASSUME WorktreesTypeOK, ShapeInv, HolderInv, PoolInv, FreshInv, WorktreesNext
  PROVE  GitType'
<1>t. GitType /\ CountType /\ TurnType
  BY TypesAre
<1>g. /\ DOMAIN dirs \subseteq Paths /\ \A p \in DOMAIN dirs : dirs[p] \in Directories
      /\ registered \subseteq Paths /\ branches \subseteq Branches
      /\ origin \in Commits /\ fetched \in Commits
  BY <1>t DEF GitType, CountType
<1>n. /\ Slots \subseteq Paths /\ Jobs \subseteq Paths /\ Attempts \subseteq Paths
      /\ Slots \subseteq Branches /\ Attempts \subseteq Branches
  BY DEF Paths, Branches
<1>u. ASSUME dirs' = dirs, registered' \subseteq registered, branches' \subseteq Branches
      PROVE GitType'
  BY <1>g, <1>u DEF GitType
<1>1. CASE ReplenisherStep
  <2>1. CASE RefreshReset
    <3> DEFINE s == Head(replenisher.stale).slot
    <3>1. s \in Slots /\ Checked(s)
      BY <2>1, ResettingIs DEF RefreshReset
    <3>2. \/ ResetHardInWorktreeToRef(s) /\ UNCHANGED <<registered, branches>>
          \/ CleanupFailedWorktree(s)
      BY <2>1 DEF RefreshReset
    <3> HIDE DEF s
    <3>3. CASE ResetHardInWorktreeToRef(s) /\ UNCHANGED <<registered, branches>>
      <4>1. s \in DOMAIN dirs /\ s \in Paths /\ dirs[s] \in Directories
        BY <1>g, <3>1 DEF Checked
      <4>2. /\ DOMAIN dirs' = DOMAIN dirs /\ Contents(DOMAIN dirs \ {s})
            /\ dirs'[s] \in Directories
        BY <1>g, <3>3, <4>1, ResetDoes
      <4>3. registered' \subseteq Paths /\ branches' \subseteq Branches
        BY <1>g, <3>3
      <4>4. QED
        BY <1>t, <4>1, <4>2, <4>3, ChangedType
    <3>4. CASE CleanupFailedWorktree(s)
      BY <1>g, <1>t, <3>4, CleanupFailedDoes, RemovedType
    <3>5. QED
      BY <3>2, <3>3, <3>4
  <2>2. CASE CreatePooled
    <3> DEFINE s == replenisher.slot
    <3>1. s \in Slots
      BY <2>2 DEF CreatePooled, ShapeInv
    <3>2. \/ AddWorktreeForBranch(s, s, fetched) /\ branches' = branches \cup {s}
          \/ UNCHANGED <<dirs, registered, branches>>
      BY <2>2 DEF CreatePooled
    <3> HIDE DEF s
    <3>3. CASE AddWorktreeForBranch(s, s, fetched) /\ branches' = branches \cup {s}
      <4>1. [branch |-> s, base |-> fetched, work |-> NoBranch] \in Directories
        BY <1>g, <1>n, <3>1 DEF Directories
      <4>2. registered' = registered \cup {s}
        BY <3>3 DEF AddWorktreeForBranch
      <4>3. s \in Paths /\ registered' \subseteq Paths /\ branches' \subseteq Branches
        BY <1>g, <1>n, <3>1, <3>3, <4>2
      <4>4. QED
        BY <1>t, <3>3, <4>1, <4>3, AddDoes, ChangedType
    <3>4. QED
      BY <1>g, <1>u, <3>2, <3>3
  <2>3. CASE \/ RefreshFetch \/ RefreshTake \/ RefreshReturn \/ FillBegin \/ FillLoop
             \/ CreateName \/ Replenish \/ RefreshTick
    <3>1. SameGit
      BY <2>3 DEF RefreshFetch, RefreshTake, RefreshReturn, FillBegin, FillLoop, CreateName,
         Replenish, RefreshTick, SameGit, gitVars
    <3>2. QED
      BY <1>g, <1>u, <3>1 DEF SameGit
  <2>4. QED
    BY <1>1, <2>1, <2>2, <2>3 DEF ReplenisherStep
<1>2. ASSUME NEW j \in Jobs, TurnStep(j) PROVE GitType'
  <2>1. CASE BeginConversation(j)
    <3> DEFINE b == <<j, attempts + 1>>
    <3>1. b \in Attempts /\ b \notin DOMAIN dirs /\ b # j
      BY <2>1, BeginningIs DEF BeginConversation
    <3>2. \/ KeepExistingWorktree(j, b) /\ UNCHANGED branches
          \/ CleanupJobWorktree(j, IF j \in DOMAIN dirs THEN dirs[j].branch ELSE NoBranch)
      BY <2>1 DEF BeginConversation
    <3> HIDE DEF b
    <3>3. CASE KeepExistingWorktree(j, b) /\ UNCHANGED branches
      BY <1>g, <1>n, <1>t, <1>u, <3>1, <3>3, KeepExistingDoes, MovedType
    <3>4. CASE CleanupJobWorktree(j, IF j \in DOMAIN dirs THEN dirs[j].branch ELSE NoBranch)
      BY <1>g, <1>t, <1>u, <3>4, CleanupJobDoes, RemovedType DEF SameGit
    <3>5. QED
      BY <3>2, <3>3, <3>4
  <2>2. CASE Pop(j) \/ UpdateJobData(j)
    <3>1. SameGit
      BY <2>2 DEF Pop, UpdateJobData, SameGit, gitVars
    <3>2. QED
      BY <1>g, <1>u, <3>1 DEF SameGit
  <2>3. CASE MovePooled(j)
    <3> DEFINE s == turn[j].slot
    <3>1. s \in Slots /\ Checked(s) /\ s # j
      BY <2>3, MovingIs DEF MovePooled
    <3>2. (MoveWorktree(s, j) /\ UNCHANGED branches) \/ CleanupFailedWorktree(s)
      BY <2>3 DEF MovePooled
    <3> HIDE DEF s
    <3>3. CASE MoveWorktree(s, j) /\ UNCHANGED branches
      BY <1>g, <1>n, <1>t, <3>1, <3>3, MoveDoes, MovedType, RemovedType DEF Checked
    <3>4. CASE CleanupFailedWorktree(s)
      BY <1>g, <1>t, <3>4, CleanupFailedDoes, RemovedType
    <3>5. QED
      BY <3>2, <3>3, <3>4
  <2>4. CASE RenameBranch(j)
    <3> DEFINE s == turn[j].slot
               b == turn[j].branch
    <3>1. s \in Slots /\ s # j /\ b \in Attempts
      BY <2>4, RenamingIs DEF RenameBranch, ShapeInv
    <3>2. \/ j \in DOMAIN dirs /\ RenameBranchInWorktree(j, s, b) /\ UNCHANGED registered
          \/ j \in DOMAIN dirs /\ MoveWorktree(j, s) /\ UNCHANGED branches
          \/ UNCHANGED <<dirs, registered, branches>>
      BY <2>4 DEF RenameBranch
    <3> HIDE DEF s, b
    <3>3. CASE j \in DOMAIN dirs /\ RenameBranchInWorktree(j, s, b) /\ UNCHANGED registered
      <4>1. dirs[j] \in Directories /\ j \in Paths /\ b \in Branches
        BY <1>g, <1>n, <3>1, <3>3
      <4>2. /\ DOMAIN dirs' = DOMAIN dirs /\ Contents(DOMAIN dirs \ {j})
            /\ dirs'[j] \in Directories /\ branches' = (branches \ {s}) \cup {b}
        BY <3>3, <4>1, RenameDoes
      <4>3. registered' \subseteq Paths /\ branches' \subseteq Branches
        BY <1>g, <3>3, <4>1, <4>2
      <4>4. QED
        BY <1>t, <4>1, <4>2, <4>3, ChangedType
    <3>4. CASE j \in DOMAIN dirs /\ MoveWorktree(j, s) /\ UNCHANGED branches
      BY <1>g, <1>n, <1>t, <3>1, <3>4, MoveDoes, MovedType, RemovedType
    <3>5. QED
      BY <1>g, <1>u, <3>2, <3>3, <3>4
  <2>5. CASE CreateWorktree(j)
    <3> DEFINE b == turn[j].branch
    <3>1. b \in Attempts
      BY <2>5 DEF CreateWorktree, ShapeInv
    <3>2. \/ AddWorktreeForBranch(j, b, origin) /\ branches' = branches \cup {b}
          \/ branches' \in {branches, branches \cup {b}} /\ UNCHANGED <<dirs, registered>>
      BY <2>5 DEF CreateWorktree
    <3> HIDE DEF b
    <3>3. CASE AddWorktreeForBranch(j, b, origin) /\ branches' = branches \cup {b}
      <4>1. [branch |-> b, base |-> origin, work |-> NoBranch] \in Directories
        BY <1>g, <1>n, <3>1 DEF Directories
      <4>2. registered' = registered \cup {j}
        BY <3>3 DEF AddWorktreeForBranch
      <4>3. j \in Paths /\ registered' \subseteq Paths /\ branches' \subseteq Branches
        BY <1>g, <1>n, <3>1, <3>3, <4>2
      <4>4. QED
        BY <1>t, <3>3, <4>1, <4>3, AddDoes, ChangedType
    <3>4. CASE branches' \in {branches, branches \cup {b}} /\ UNCHANGED <<dirs, registered>>
      <4>1. branches' \subseteq Branches /\ dirs' = dirs /\ registered' = registered
        BY <1>g, <1>n, <3>1, <3>4
      <4>2. QED
        BY <1>u, <4>1
    <3>5. QED
      BY <3>2, <3>3, <3>4
  <2>6. CASE RunCLI(j)
    <3> DEFINE b == turn[j].branch
    <3>1. b \in Attempts
      BY <2>6 DEF RunCLI, ShapeInv
    <3>2. \/ /\ dirs' = IF j \in DOMAIN dirs THEN [dirs EXCEPT ![j].work = b] ELSE dirs
             /\ UNCHANGED <<registered, branches>>
          \/ CleanupJobWorktree(j, b)
      BY <2>6 DEF RunCLI
    <3> HIDE DEF b
    <3>3. CASE j \in DOMAIN dirs /\ dirs' = [dirs EXCEPT ![j].work = b]
               /\ UNCHANGED <<registered, branches>>
      <4>1. DOMAIN dirs' = DOMAIN dirs /\ Contents(DOMAIN dirs \ {j})
        BY <3>3 DEF Contents
      <4>2. dirs'[j] = [dirs[j] EXCEPT !.work = b] /\ dirs[j] \in Directories
        BY <1>g, <3>3
      <4>3. dirs'[j] \in Directories
        BY <3>1, <4>2 DEF Directories
      <4>4. QED
        BY <1>g, <1>n, <1>t, <3>3, <4>1, <4>3, ChangedType
    <3>4. CASE dirs' = dirs /\ UNCHANGED <<registered, branches>>
      BY <1>g, <1>u, <3>4
    <3>5. CASE CleanupJobWorktree(j, b)
      BY <1>g, <1>t, <1>u, <3>5, CleanupJobDoes, RemovedType DEF SameGit
    <3>6. QED
      BY <3>2, <3>3, <3>4, <3>5
  <2>7. QED
    BY <1>2, <2>1, <2>2, <2>3, <2>4, <2>5, <2>6 DEF TurnStep
<1>3. ASSUME NEW j \in Jobs, Abandon(j) \/ CompleteIdle(j) PROVE GitType'
  BY <1>g, <1>t, <1>u, <1>3, CleanupJobDoes, RemovedType
     DEF Abandon, CompleteIdle, SameGit, gitVars
<1>4. CASE SweepStep
  <2>1. CASE RemoveOrphan
    BY <1>g, <1>t, <2>1, RemoveDirectoryDoes, RemovedType DEF RemoveOrphan
  <2>2. CASE ~RemoveOrphan
    <3>1. dirs' = dirs /\ registered' \subseteq registered /\ branches' \subseteq branches
      BY <1>4, <2>2 DEF SweepStep, ListDirectories, ReadTrackedPaths, ListBranches, DeleteBranches,
         PruneWorktrees
    <3>2. QED
      BY <1>g, <1>u, <3>1
  <2>3. QED
    BY <2>1, <2>2
<1>5. CASE StartUp
  <2>1. CASE CleanupStaleJobWorktrees
    BY <1>g, <2>1 DEF CleanupStaleJobWorktrees, Without, Restrict, GitType
  <2>2. CASE ReclaimPooled
    <3>1. branches' = branches
      BY <2>2 DEF ReclaimPooled
    <3>2. (\E s : Removed(s)) \/ (dirs' = dirs /\ registered' = registered)
      <4>1. \A s : RemoveAll(s) \/ RemoveWorktree(s) =>
              dirs' = Without({s}) /\ registered' \in {registered, registered \ {s}}
        BY DEF RemoveAll, RemoveWorktree
      <4>2. \A s : RemoveAll(s) \/ RemoveWorktree(s) => Removed(s)
        BY <4>1, WithoutOne DEF Removed
      <4>3. QED
        BY <2>2, <4>2 DEF ReclaimPooled
    <3>3. QED
      BY <1>g, <1>t, <1>u, <3>1, <3>2, RemovedType
  <2>3. CASE LoadState \/ StartPool \/ RecoverJobs \/ ClearHold
    <3>1. dirs' = dirs /\ registered' \subseteq registered /\ branches' \subseteq branches
      BY <2>3 DEF LoadState, StartPool, RecoverJobs, ClearHold
    <3>2. QED
      BY <1>g, <1>u, <3>1
  <2>4. QED
    BY <1>5, <2>1, <2>2, <2>3 DEF StartUp
<1>6. CASE Crash \/ PushToDefault
  BY <1>g, <1>u, <1>6 DEF Crash, PushToDefault, gitVars
<1>7. QED
  BY <1>1, <1>2, <1>3, <1>4, <1>5, <1>6 DEF WorktreesNext

LEMMA TypeKept ==
  ASSUME WorktreesTypeOK, ShapeInv, CountInv, HolderInv, PoolInv, FreshInv,
         [WorktreesNext]_worktreeVars
  PROVE  WorktreesTypeOK'
<1>1. CASE WorktreesNext
  <2>1. TurnType' /\ CountType' /\ PoolType' /\ RestType' /\ GitType'
    BY <1>1, TypesKept, GitTypeKept
  <2>2. (Len(ready) <= Target)'
    BY <1>1, CountKept
  <2>3. QED
    BY <2>1, <2>2, TypesAre, PTL
<1>2. CASE UNCHANGED worktreeVars
  BY <1>2 DEF worktreeVars, gitVars, poolVars, budgetVars, WorktreesTypeOK
<1>3. QED
  BY <1>1, <1>2


-----------------------------------------------------------------------------
(* What the git commands leave alone. *)

LEMMA RemovedStays ==
  ASSUME NEW p, Removed(p)
  PROVE  /\ \A q \in Paths : q # p => Stays(q)
         /\ Shrinks(p) /\ p \notin DOMAIN dirs' /\ DOMAIN dirs' \subseteq DOMAIN dirs
         /\ registered' \subseteq registered
BY DEF Removed, Contents, Stays, Shrinks, Checked

LEMMA MovedStays ==
  ASSUME NEW p, NEW q, p # q, Moved(p, q)
  PROVE  /\ \A r \in Paths : r # p /\ r # q => Stays(r)
         /\ p \notin DOMAIN dirs' /\ q \in DOMAIN dirs' /\ dirs'[q] = dirs[p]
         /\ DOMAIN dirs' \subseteq DOMAIN dirs \cup {q} /\ registered' \subseteq registered \cup {q}
BY DEF Moved, Contents, Stays, Shrinks, Checked

LEMMA SameStays ==
  ASSUME dirs' = dirs, registered' = registered
  PROVE  \A q \in Paths : Stays(q)
BY DEF Stays, Shrinks, Checked

LEMMA AddedStays ==
  ASSUME NEW p, DOMAIN dirs' = DOMAIN dirs \cup {p}, Contents(DOMAIN dirs \ {p}),
         registered' \subseteq registered \cup {p}, registered \subseteq registered'
  PROVE  \A q \in Paths : q # p => Stays(q)
BY DEF Contents, Stays, Shrinks, Checked

LEMMA PathsAre ==
  /\ Slots \subseteq Paths /\ Jobs \subseteq Paths /\ Attempts \subseteq Paths
  /\ Slots \subseteq Branches /\ Attempts \subseteq Branches
BY DEF Paths, Branches

(* What appears, other than the worktree the replenisher makes. *)
Gains ==
  /\ DOMAIN dirs' \subseteq DOMAIN dirs \cup Jobs \cup Attempts \cup branches
  /\ registered' \subseteq registered \cup Jobs \cup Attempts \cup branches
  /\ branches' \subseteq branches \cup Attempts

LEMMA GainsLess ==
  ASSUME DOMAIN dirs' \subseteq DOMAIN dirs, registered' \subseteq registered,
         branches' \subseteq branches \cup Attempts
  PROVE  Gains
BY DEF Gains

-----------------------------------------------------------------------------
(* What is in use before and after a step. *)

Before ==
  /\ WorktreesTypeOK /\ ShapeInv /\ HolderInv /\ DirInv /\ NewInv /\ FreshInv
  /\ (WorktreesTypeOK /\ ShapeInv)'

LEMMA PartsBefore ==
  ASSUME Before
  PROVE  /\ \A s \in Slots : PoolAt(s)
         /\ \A j \in Jobs : MovedAt(j) /\ StrayAt(j) /\ CleanAt(j)
         /\ InUse \subseteq Slots /\ Pooling \subseteq InUse
BY DirIs, PoolingIs DEF Before, DirParts, InUse

(* Only what is there is in use. *)
LEMMA InUseIsThere ==
  ASSUME Before, NEW s \in InUse
  PROVE  s \in Slots /\ Checked(s) /\ s \in branches
BY PartsBefore DEF PoolAt

LEMMA InUseKept ==
  ASSUME Before, [WorktreesNext]_worktreeVars
  PROVE  \/ InUse' \subseteq InUse
         \/ \E s \in Slots : ListsGrown(s) /\ InUse' \subseteq InUse \cup {s}
<1>i. PoolInv /\ MovedInv
  BY DEF Before, DirInv
<1>1. PoolingSteps
  BY <1>i, HolderKept DEF Before
<1>t. TurnType /\ ready \in Seq(Pooled) /\ replenisher \in Replenishing
  BY TypesAre DEF Before, PoolType
<1>2. ASSUME NEW k \in Jobs, turn'[k].pc = "move" PROVE turn'[k].slot \in InUse
  <2>1. CASE turn' = turn
    BY <1>2, <2>1 DEF InUse
  <2>2. CASE turn' = [j \in Jobs |-> NoTurn]
    BY <1>2, <2>2 DEF NoTurn
  <2>3. ASSUME NEW j \in Jobs, TurnStep(j) PROVE turn'[k].slot \in InUse
    <3>1. CASE k # j
      <4>1. turn'[k] = turn[k]
        BY <1>t, <2>3, <3>1, TurnMoves
      <4>2. QED
        BY <1>2, <4>1 DEF InUse
    <3>2. CASE k = j
      <4>1. ready # <<>> /\ turn'[k].slot = Head(ready).slot
        BY <1>2, <1>t, <2>3, <3>2, TurnMoves DEF NoTurn
      <4>2. Head(ready).slot \in SlotsOf(ready)
        BY <1>t, <4>1, Behead, EntriesAre
      <4>3. QED
        BY <4>1, <4>2 DEF InUse, Pooling
    <3>3. QED
      BY <3>1, <3>2
  <2>4. turn' = turn \/ turn' = [j \in Jobs |-> NoTurn] \/ \E j \in Jobs : TurnStep(j)
    BY DEF WorktreesNext, ReplenisherStep, Abandon, CompleteIdle, SweepStep, StartUp, Crash,
       PushToDefault, worktreeVars
  <2>5. QED
    BY <2>1, <2>2, <2>3, <2>4
<1>3. InUse' \subseteq Pooling' \cup InUse
  BY <1>2 DEF InUse
<1>4. Pooling \subseteq InUse
  BY DEF InUse
<1>5. QED
  BY <1>1, <1>3, <1>4 DEF PoolingSteps

(* A step that changes no list is no growth. *)
LEMMA InUseOfTurns ==
  ASSUME Before, [WorktreesNext]_worktreeVars, Len(ready') <= Len(ready)
  PROVE  InUse' \subseteq InUse
<1>1. ASSUME NEW s \in Slots, ListsGrown(s) PROVE FALSE
  <2>1. PICK b \in Commits : ready' = Append(ready, [slot |-> s, base |-> b])
    BY <1>1 DEF ListsGrown
  <2>2. [slot |-> s, base |-> b] \in Pooled /\ ready \in Seq(Pooled)
    BY <2>1, TypesAre DEF Before, Pooled, PoolType
  <2>3. Len(ready') = Len(ready) + 1 /\ Len(ready) \in Nat
    BY <2>1, <2>2, Appended
  <2>4. QED
    BY <2>3
<1>2. QED
  BY <1>1, InUseKept

LEMMA QuietStep ==
  ASSUME Before, SlotsStay({}), JobsQuiet({}), InUse' \subseteq InUse
  PROVE  DirInv'
<1>1. Apart({}, {}) /\ Confined({}, {}) /\ AtTouched({}, {})'
  BY DEF Apart, Confined, AtTouched
<1>2. {} \in SUBSET Slots /\ {} \in SUBSET Jobs /\ InUse' \subseteq InUse \cup {}
  OBVIOUS
<1>3. QED
  BY <1>1, <1>2, DirKept DEF Before

(* A pool directory that is there is no business of the jobs. *)
LEMMA ApartPresent ==
  ASSUME Before, NEW s \in Slots, s \in DOMAIN dirs \/ s \notin branches, NEW Y
  PROVE  Apart({s}, Y)
<1>1. \A k \in Jobs : MovedAt(k) /\ StrayAt(k)
  BY PartsBefore
<1>2. QED
  BY <1>1 DEF Apart, MovedAt, StrayAt


-----------------------------------------------------------------------------
(* The steps of a turn. *)

LEMMA TurnUses ==
  ASSUME Before, NEW j \in Jobs, TurnStep(j)
  PROVE  /\ InUse' \subseteq InUse
         /\ \A k \in Jobs : k # j => turn'[k] = turn[k] /\ QuietTurn(k)
<1>t. TurnType /\ ready \in Seq(Pooled)
  BY TypesAre DEF Before, PoolType
<1>1. ready' = ready \/ (ready # <<>> /\ ready' = Tail(ready))
  BY DEF TurnStep, BeginConversation, Pop, MovePooled, RenameBranch, CreateWorktree, UpdateJobData,
     RunCLI
<1>2. Len(ready') <= Len(ready)
  <2>1. Len(ready) \in Nat
    BY <1>t
  <2>2. CASE ready # <<>> /\ ready' = Tail(ready)
    <3>1. Len(ready) = Len(Tail(ready)) + 1 /\ Tail(ready) \in Seq(Pooled)
      BY <1>t, <2>2, Behead
    <3>2. QED
      BY <2>2, <3>1
  <2>3. QED
    BY <1>1, <2>1, <2>2
<1>3. WorktreesNext
  BY DEF WorktreesNext
<1>4. \A k \in Jobs : k # j => turn'[k] = turn[k]
  BY <1>t, TurnMoves
<1>5. QED
  BY <1>2, <1>3, <1>4, InUseOfTurns DEF QuietTurn

(* The turn of j does something with its own directory and no slot. *)
LEMMA OwnStep ==
  ASSUME Before, NEW j \in Jobs, TurnStep(j), SlotsStay({}), \A k \in Jobs : k # j => Shrinks(k),
         MovedAt(j)', StrayAt(j)', CleanAt(j)', turn'[j].pc # "rename",
         j \in DOMAIN dirs' /\ j \in registered' => dirs'[j].branch \notin Slots
  PROVE  DirInv'
<1>1. JobsQuiet({j}) /\ InUse' \subseteq InUse \cup {}
  BY TurnUses DEF JobsQuiet
<1>2. Apart({}, {j}) /\ Confined({}, {j}) /\ AtTouched({}, {j})'
  BY DEF Apart, Confined, AtTouched
<1>3. {} \in SUBSET Slots /\ {j} \in SUBSET Jobs
  OBVIOUS
<1>4. QED
  BY <1>1, <1>2, <1>3, DirKept DEF Before

(* The turn of j does something with its slot s, which it holds alone. *)
LEMMA SlotStep ==
  ASSUME Before, NEW j \in Jobs, TurnStep(j), NEW s \in Slots,
         SlotsStay({s}), \A k \in Jobs : k # j => Shrinks(k),
         Apart({s}, {j}), PoolAt(s)', MovedAt(j)', StrayAt(j)', CleanAt(j)',
         turn'[j].pc = "rename" => turn'[j].slot = s,
         j \in DOMAIN dirs' /\ j \in registered' =>
           dirs'[j].branch = s \/ dirs'[j].branch \notin Slots
  PROVE  DirInv'
<1>1. JobsQuiet({j}) /\ InUse' \subseteq InUse \cup {s}
  BY TurnUses DEF JobsQuiet
<1>2. Confined({s}, {j}) /\ AtTouched({s}, {j})'
  BY DEF Confined, AtTouched
<1>3. {s} \in SUBSET Slots /\ {j} \in SUBSET Jobs
  OBVIOUS
<1>4. QED
  BY <1>1, <1>2, <1>3, DirKept DEF Before

LEMMA QuietTurnStep ==
  ASSUME Before, NEW j \in Jobs, TurnStep(j), QuietTurn(j), SlotsStay({}),
         \A k \in Jobs : Shrinks(k)
  PROVE  DirInv'
<1>1. JobsQuiet({}) /\ InUse' \subseteq InUse
  BY TurnUses DEF JobsQuiet
<1>2. QED
  BY <1>1, QuietStep

LEMMA AllStay ==
  ASSUME \A q \in Paths : Stays(q)
  PROVE  (\A s \in Slots : Stays(s)) /\ (\A k \in Jobs : Shrinks(k))
BY PathsAre DEF Stays

LEMMA BeginDirs ==
  ASSUME Before, NEW j \in Jobs, TurnStep(j), BeginConversation(j)
  PROVE  DirInv' /\ Gains
<1> DEFINE b == <<j, attempts + 1>>
           d == IF j \in DOMAIN dirs THEN dirs[j].branch ELSE NoBranch
<1>1. b \in Attempts /\ b \notin DOMAIN dirs /\ b # j
  BY BeginningIs DEF BeginConversation, Before
<1>p. (\A s \in Slots : PoolAt(s)) /\ MovedAt(j) /\ StrayAt(j) /\ CleanAt(j)
  BY PartsBefore
<1>t. turn \in [Jobs -> Preparing] /\ DOMAIN turn[j] = {"pc", "slot", "branch"} /\ TurnType
  BY TypesAre DEF Before, TurnType, Preparing
<1>2. turn[j] = NoTurn /\ turn[j].pc = "none"
  BY DEF BeginConversation, NoTurn
<1>3. turn'[j] = turn[j] \/ turn'[j].pc = "pop"
  BY <1>2, <1>t, TurnMoves DEF NoTurn
<1>4. \/ KeepExistingWorktree(j, b) /\ branches' = branches
      \/ /\ CleanupJobWorktree(j, d)
         /\ turn' = IF j \in registered' THEN turn
                    ELSE [turn EXCEPT ![j].pc = "pop", ![j].branch = b]
  BY DEF BeginConversation
<1>n. \A s \in Slots : s # j /\ s # b
  BY <1>1, Names
<1>j. \A k \in Jobs : k # b
  BY <1>1, Names
<1> HIDE DEF b
<1>g. ASSUME j \notin DOMAIN dirs' \/ j \notin registered'
      PROVE  /\ MovedAt(j)' /\ StrayAt(j)' /\ CleanAt(j)' /\ turn'[j].pc # "rename"
  <2>1. turn'[j].pc \in {"none", "pop"}
    BY <1>2, <1>3
  <2>2. QED
    BY <1>g, <2>1 DEF MovedAt, StrayAt, CleanAt, Checked
<1>5. CASE j \notin DOMAIN dirs /\ dirs' = dirs /\ registered' = registered /\ branches' = branches
  <2>1. SlotsStay({}) /\ \A k \in Jobs : Shrinks(k)
    BY <1>5, SameStays, AllStay DEF SlotsStay
  <2>2. DirInv'
    BY <1>5, <1>g, <2>1, OwnStep
  <2>3. QED
    BY <1>5, <2>2 DEF Gains
<1>6. CASE j \in DOMAIN dirs /\ Moved(j, b) /\ branches' = branches
  <2>1. /\ \A r \in Paths : r # j /\ r # b => Stays(r)
        /\ j \notin DOMAIN dirs' /\ DOMAIN dirs' \subseteq DOMAIN dirs \cup {b}
        /\ registered' \subseteq registered \cup {b}
    BY <1>1, <1>6, MovedStays
  <2>2. SlotsStay({}) /\ \A k \in Jobs : k # j => Shrinks(k)
    BY <1>6, <1>n, <1>j, <2>1, PathsAre DEF SlotsStay, Stays
  <2>3. DirInv'
    BY <1>g, <2>1, <2>2, OwnStep
  <2>4. QED
    BY <1>1, <1>6, <2>1, <2>3 DEF Gains
<1>7. CASE SameGit /\ turn' = IF j \in registered' THEN turn
                              ELSE [turn EXCEPT ![j].pc = "pop", ![j].branch = b]
  <2>1. SlotsStay({}) /\ \A k \in Jobs : Shrinks(k)
    BY <1>7, SameStays, AllStay DEF SlotsStay, SameGit
  <2>2. CASE j \in registered'
    <3>1. QuietTurn(j)
      BY <1>7, <2>2 DEF QuietTurn
    <3>2. QED
      BY <1>7, <2>1, <3>1, QuietTurnStep DEF Gains, SameGit
  <2>3. CASE j \notin registered'
    <3>1. j \in DOMAIN dirs' /\ j \in registered' => dirs'[j].branch \notin Slots
      BY <2>3
    <3>2. QED
      BY <1>7, <1>g, <2>1, <2>3, <3>1, OwnStep DEF Gains, SameGit
  <2>4. QED
    BY <2>2, <2>3
<1>8. CASE /\ Removed(j) /\ j \notin registered' /\ branches' = branches \ {d} /\ j \in registered
  <2>1. /\ \A q \in Paths : q # j => Stays(q)
        /\ j \notin DOMAIN dirs' /\ DOMAIN dirs' \subseteq DOMAIN dirs
        /\ registered' \subseteq registered
    BY <1>8, RemovedStays
  <2>2. Gains
    BY <1>8, <2>1, GainsLess
  <2>3. \A k \in Jobs : k # j => Shrinks(k)
    BY <2>1, PathsAre DEF Stays
  <2>4. \A s \in Slots : Stays(s)
    BY <1>n, <2>1, PathsAre
  <2>5. /\ MovedAt(j)' /\ StrayAt(j)' /\ CleanAt(j)' /\ turn'[j].pc # "rename"
    BY <1>g, <2>1
  <2>6. ASSUME NEW x \in Slots, x = d PROVE DirInv' /\ Gains
    <3>1. j \in DOMAIN dirs /\ x = dirs[j].branch
      BY <2>6, Names
    <3>2. Checked(j)
      BY <1>8, <3>1 DEF Checked
    <3>3. /\ x \in branches /\ x \notin DOMAIN dirs
          /\ \A k \in Jobs : turn[k].pc = "rename" /\ turn[k].slot = x => k = j
          /\ \A k \in Jobs : Checked(k) /\ dirs[k].branch = x => k = j
      BY <1>p, <2>6, <3>1, <3>2 DEF StrayAt
    <3>4. Apart({x}, {j})
      BY <3>3 DEF Apart
    <3>5. SlotsStay({x})
      BY <1>8, <2>4, <2>6 DEF SlotsStay
    <3>6. x \notin InUse
      BY <3>3, InUseIsThere DEF Checked
    <3>7. PoolAt(x)'
      <4>1. x \notin DOMAIN dirs' /\ x \notin InUse'
        BY <2>1, <3>3, <3>6, TurnUses
      <4>2. QED
        BY <4>1 DEF PoolAt, Checked
    <3>8. QED
      BY <2>1, <2>2, <2>3, <2>5, <3>4, <3>5, <3>7, SlotStep
  <2>7. CASE d \notin Slots
    <3>1. SlotsStay({})
      BY <1>8, <2>4, <2>7 DEF SlotsStay
    <3>2. QED
      BY <2>1, <2>2, <2>3, <2>5, <3>1, OwnStep
  <2>8. QED
    BY <2>6, <2>7
<1> HIDE DEF d
<1>9. CASE KeepExistingWorktree(j, b) /\ branches' = branches
  BY <1>1, <1>5, <1>6, <1>9, KeepExistingDoes
<1>10. QED
  BY <1>4, <1>7, <1>8, <1>9, CleanupJobDoes

LEMMA PopDirs ==
  ASSUME Before, NEW j \in Jobs, TurnStep(j), Pop(j) \/ UpdateJobData(j)
  PROVE  DirInv' /\ Gains
<1>1. SameGit
  BY DEF Pop, UpdateJobData, SameGit, gitVars
<1>2. SlotsStay({}) /\ \A k \in Jobs : Shrinks(k)
  BY <1>1, SameStays, AllStay DEF SlotsStay, SameGit
<1>3. QuietTurn(j)
  <2>1. turn \in [Jobs -> Preparing] /\ DOMAIN turn[j] = {"pc", "slot", "branch"}
    BY TypesAre DEF Before, TurnType, Preparing
  <2>2. QED
    BY <2>1 DEF Pop, UpdateJobData, Go, QuietTurn
<1>4. QED
  BY <1>1, <1>2, <1>3, QuietTurnStep DEF Gains, SameGit


LEMMA MoveDirs ==
  ASSUME Before, NEW j \in Jobs, TurnStep(j), MovePooled(j)
  PROVE  DirInv' /\ Gains
<1>t. turn \in [Jobs -> Preparing] /\ DOMAIN turn[j] = {"pc", "slot", "branch"}
  BY TypesAre DEF Before, TurnType, Preparing
<1>m. turn[j].pc = "move" /\ PoolInv
  BY DEF MovePooled, Before, DirInv
<1>1. PICK s \in Slots : s = turn[j].slot /\ Checked(s) /\ s # j
  BY <1>m, MovingIs DEF Before
<1>p. PoolAt(s) /\ MovedAt(j) /\ StrayAt(j) /\ \A k \in Jobs : StrayAt(k)
  BY PartsBefore
<1>2. s \in DOMAIN dirs /\ s \in branches /\ dirs[s].branch = s /\ dirs[s].work = NoBranch
  BY <1>1, <1>p DEF PoolAt, Checked
<1>3. ~Checked(j)
  BY <1>m, <1>p DEF MovedAt
<1>4. Apart({s}, {j})
  BY <1>2, ApartPresent
<1>5. s \notin Pooling /\ \A k \in Jobs : turn[k].slot = s => k = j
  BY <1>1, Names DEF Before, HolderInv
<1>6. turn'[j].pc # "move" => s \notin InUse'
  <2>1. replenisher' = replenisher /\ ready' = ready
    BY DEF TurnStep, MovePooled
  <2>2. Pooling' = Pooling
    BY <2>1 DEF Pooling
  <2>3. \A k \in Jobs : k # j => turn'[k] = turn[k]
    BY TurnUses
  <2>4. QED
    BY <1>5, <2>2, <2>3 DEF InUse
<1>7. \/ /\ MoveWorktree(s, j) /\ branches' = branches
         /\ turn'[j].pc = "rename" /\ turn'[j].slot = s
      \/ /\ CleanupFailedWorktree(s)
         /\ turn'[j].pc \in {"create", "none"}
  BY <1>1, <1>t DEF MovePooled, Go, Abort, NoTurn
<1>8. CASE /\ CleanupFailedWorktree(s) /\ turn'[j].pc \in {"create", "none"}
  <2>1. Removed(s) /\ s \notin registered' /\ branches' = branches \ {s}
    BY <1>8, CleanupFailedDoes
  <2>2. /\ \A q \in Paths : q # s => Stays(q)
        /\ s \notin DOMAIN dirs' /\ DOMAIN dirs' \subseteq DOMAIN dirs
        /\ registered' \subseteq registered
    BY <2>1, RemovedStays
  <2>3. SlotsStay({s})
    BY <2>1, <2>2, PathsAre DEF SlotsStay
  <2>4. \A k \in Jobs : Shrinks(k)
    BY <2>2, PathsAre, Names DEF Stays
  <2>5. ~(j \in DOMAIN dirs' /\ j \in registered')
    BY <1>3, <2>4 DEF Shrinks, Checked
  <2>6. MovedAt(j)' /\ StrayAt(j)' /\ CleanAt(j)'
    BY <1>8, <2>5 DEF MovedAt, StrayAt, CleanAt, Checked
  <2>7. PoolAt(s)'
    BY <1>6, <1>8, <2>2 DEF PoolAt, Checked
  <2>8. DirInv'
    BY <1>4, <1>8, <2>3, <2>4, <2>5, <2>6, <2>7, SlotStep
  <2>9. QED
    BY <2>1, <2>2, <2>8, GainsLess
<1>9. CASE /\ MoveWorktree(s, j) /\ branches' = branches
           /\ turn'[j].pc = "rename" /\ turn'[j].slot = s
  <2>1. CASE Removed(s) /\ s \notin registered'
    <3>2. /\ \A q \in Paths : q # s => Stays(q)
          /\ s \notin DOMAIN dirs' /\ DOMAIN dirs' \subseteq DOMAIN dirs
          /\ registered' \subseteq registered
      BY <2>1, RemovedStays
    <3>3. SlotsStay({s})
      BY <1>9, <3>2, PathsAre DEF SlotsStay
    <3>4. \A k \in Jobs : Shrinks(k)
      BY <3>2, PathsAre, Names DEF Stays
    <3>5. ~(j \in DOMAIN dirs' /\ j \in registered')
      BY <1>3, <3>4 DEF Shrinks, Checked
    <3>6. MovedAt(j)' /\ StrayAt(j)' /\ CleanAt(j)'
      BY <1>2, <1>9, <3>2, <3>5 DEF MovedAt, StrayAt, CleanAt, Checked
    <3>7. PoolAt(s)'
      BY <1>6, <1>9, <3>2 DEF PoolAt, Checked
    <3>8. DirInv'
      BY <1>4, <1>9, <3>3, <3>4, <3>5, <3>6, <3>7, SlotStep
    <3>9. QED
      BY <1>9, <3>2, <3>8, GainsLess
  <2>2. CASE Moved(s, j)
    <3>2. /\ \A q \in Paths : q # s /\ q # j => Stays(q)
          /\ s \notin DOMAIN dirs' /\ dirs'[j] = dirs[s]
          /\ DOMAIN dirs' \subseteq DOMAIN dirs \cup {j} /\ registered' \subseteq registered \cup {j}
      BY <1>1, <2>2, MovedStays
    <3>3. SlotsStay({s})
      BY <1>9, <3>2, PathsAre, Names DEF SlotsStay
    <3>4. \A k \in Jobs : k # j => Stays(k)
      BY <3>2, PathsAre, Names
    <3>5. dirs'[j].branch = s /\ dirs'[j].work = NoBranch
      BY <1>2, <3>2
    <3>6. StrayAt(j)'
      <4>1. \A k \in Jobs : turn'[k].pc = "rename" /\ turn'[k].slot = s => k = j
        BY <1>5, TurnUses
      <4>2. ASSUME NEW k \in Jobs, k \in DOMAIN dirs', k \in registered', dirs'[k].branch = s, k # j
            PROVE  FALSE
        <5>1. Checked(k) /\ dirs[k].branch = s
          BY <3>4, <4>2 DEF Stays, Shrinks, Checked
        <5>2. QED
          BY <1>2, <1>p, <5>1 DEF StrayAt
      <4>3. QED
        BY <1>2, <1>9, <3>2, <3>5, <4>1, <4>2 DEF StrayAt, Checked
    <3>7. MovedAt(j)' /\ CleanAt(j)'
      BY <1>2, <1>9, <3>2, <3>5 DEF MovedAt, CleanAt, Checked
    <3>8. PoolAt(s)'
      BY <1>6, <1>9, <3>2 DEF PoolAt, Checked
    <3>9. DirInv'
      BY <1>4, <1>9, <3>3, <3>4, <3>5, <3>6, <3>7, <3>8, SlotStep DEF Stays
    <3>10. QED
      BY <1>9, <3>2, <3>9 DEF Gains
  <2>3. QED
    BY <1>1, <1>2, <1>9, <2>1, <2>2, MoveDoes
<1>10. QED
  BY <1>7, <1>8, <1>9

LEMMA RenameDirs ==
  ASSUME Before, NEW j \in Jobs, TurnStep(j), RenameBranch(j)
  PROVE  DirInv' /\ Gains
<1>t. turn \in [Jobs -> Preparing] /\ DOMAIN turn[j] = {"pc", "slot", "branch"}
  BY TypesAre DEF Before, TurnType, Preparing
<1>m. turn[j].pc = "rename" /\ turn[j].branch \in Attempts
  BY DEF RenameBranch, Before, ShapeInv
<1>1. PICK s \in Slots : s = turn[j].slot /\ s # j
  BY <1>m, RenamingIs DEF Before
<1>b. PICK b \in Attempts : b = turn[j].branch
  BY <1>m
<1>p. PoolAt(s) /\ MovedAt(j) /\ \A k \in Jobs : StrayAt(k)
  BY PartsBefore
<1>2. s \in branches /\ s \notin DOMAIN dirs
      /\ (Checked(j) => dirs[j].branch = s /\ dirs[j].work = NoBranch)
  BY <1>m, <1>1, <1>p DEF MovedAt
<1>3. s \notin InUse'
  BY <1>2, InUseIsThere, TurnUses DEF Checked
<1>5. s \notin Pooling /\ \A k \in Jobs : turn[k].slot = s => k = j
  BY <1>1, Names DEF Before, HolderInv
<1>4. Apart({s}, {j})
  <2>1. ASSUME NEW k \in Jobs, Checked(k), dirs[k].branch = s PROVE k = j
    BY <1>1, <1>m, <1>p, <2>1 DEF StrayAt
  <2>2. QED
    BY <1>5, <2>1 DEF Apart
<1>7. \/ /\ Checked(j) /\ RenameBranchInWorktree(j, s, b) /\ registered' = registered
         /\ turn'[j].pc = "row" /\ turn'[j].branch = b
      \/ /\ Checked(j) /\ MoveWorktree(j, s) /\ branches' = branches /\ turn'[j] = NoTurn
      \/ SameGit /\ turn'[j] = NoTurn
  BY <1>1, <1>b, <1>t DEF RenameBranch, Abort, Checked, WorktreeExists, SameGit
<1>8. CASE /\ Checked(j) /\ RenameBranchInWorktree(j, s, b) /\ registered' = registered
           /\ turn'[j].pc = "row" /\ turn'[j].branch = b
  <2>0. j \in DOMAIN dirs /\ dirs[j] \in Directories
    BY <1>8, TypesAre DEF Before, GitType, Checked
  <2>1. /\ DOMAIN dirs' = DOMAIN dirs /\ Contents(DOMAIN dirs \ {j})
        /\ dirs'[j].branch = b /\ dirs'[j].work = NoBranch
        /\ branches' = (branches \ {s}) \cup {b}
    BY <1>2, <1>8, <2>0, RenameDoes
  <2>2. \A q \in Paths : q # j => Stays(q)
    BY <1>8, <2>1 DEF Contents, Stays, Shrinks, Checked
  <2>3. SlotsStay({s})
    BY <2>1, <2>2, PathsAre, Names DEF SlotsStay
  <2>4. \A k \in Jobs : k # j => Shrinks(k)
    BY <2>2, PathsAre DEF Stays
  <2>5. b \notin Slots
    BY Names
  <2>6. MovedAt(j)' /\ StrayAt(j)' /\ CleanAt(j)'
    BY <1>8, <2>1, <2>5 DEF MovedAt, StrayAt, CleanAt, Checked
  <2>7. PoolAt(s)'
    BY <1>2, <1>3, <2>1 DEF PoolAt, Checked
  <2>8. DirInv'
    BY <1>4, <1>8, <2>1, <2>3, <2>4, <2>5, <2>6, <2>7, SlotStep
  <2>9. QED
    BY <1>8, <2>1, <2>8 DEF Gains
<1>9. CASE /\ Checked(j) /\ MoveWorktree(j, s) /\ branches' = branches /\ turn'[j] = NoTurn
  <2>1. Moved(j, s) /\ j \in DOMAIN dirs
    BY <1>1, <1>2, <1>9, MoveDoes DEF Checked
  <2>2. /\ \A q \in Paths : q # j /\ q # s => Stays(q)
        /\ j \notin DOMAIN dirs' /\ dirs'[s] = dirs[j]
        /\ DOMAIN dirs' \subseteq DOMAIN dirs \cup {s} /\ registered' \subseteq registered \cup {s}
    BY <1>1, <2>1, MovedStays
  <2>3. SlotsStay({s})
    BY <1>9, <2>2, PathsAre, Names DEF SlotsStay
  <2>4. \A k \in Jobs : k # j => Shrinks(k)
    BY <2>2, PathsAre, Names DEF Stays
  <2>5. MovedAt(j)' /\ StrayAt(j)' /\ CleanAt(j)'
    BY <1>9, <2>2 DEF MovedAt, StrayAt, CleanAt, Checked, NoTurn
  <2>6. PoolAt(s)'
    BY <1>2, <1>3, <1>9, <2>2 DEF PoolAt, Checked
  <2>7. turn'[j].pc # "rename"
    BY <1>9 DEF NoTurn
  <2>8. DirInv'
    BY <1>4, <2>2, <2>3, <2>4, <2>5, <2>6, <2>7, SlotStep
  <2>9. QED
    BY <1>2, <1>9, <2>2, <2>8 DEF Gains
<1>10. CASE SameGit /\ turn'[j] = NoTurn
  <2>1. SlotsStay({}) /\ \A k \in Jobs : Shrinks(k)
    BY <1>10, SameStays, AllStay DEF SlotsStay, SameGit
  <2>2. QuietTurn(j)
    BY <1>10 DEF QuietTurn, NoTurn
  <2>3. QED
    BY <1>10, <2>1, <2>2, QuietTurnStep DEF Gains, SameGit
<1>11. QED
  BY <1>7, <1>8, <1>9, <1>10

LEMMA CreateDirs ==
  ASSUME Before, NEW j \in Jobs, TurnStep(j), CreateWorktree(j)
  PROVE  DirInv' /\ Gains
<1>t. turn \in [Jobs -> Preparing] /\ DOMAIN turn[j] = {"pc", "slot", "branch"}
  BY TypesAre DEF Before, TurnType, Preparing
<1>m. turn[j].pc = "create" /\ turn[j].branch \in Attempts
  BY DEF CreateWorktree, Before, ShapeInv
<1>b. PICK b \in Attempts : b = turn[j].branch
  BY <1>m
<1>1. b \notin Slots
  BY Names
<1>2. \/ /\ j \notin DOMAIN dirs /\ AddWorktreeForBranch(j, b, origin)
         /\ branches' = branches \cup {b} /\ turn'[j].pc = "row" /\ turn'[j].branch = b
      \/ /\ branches' \in {branches, branches \cup {b}} /\ dirs' = dirs
         /\ registered' = registered /\ turn'[j] = NoTurn
  BY <1>b, <1>t DEF CreateWorktree, Go, Abort
<1>3. CASE /\ j \notin DOMAIN dirs /\ AddWorktreeForBranch(j, b, origin)
           /\ branches' = branches \cup {b} /\ turn'[j].pc = "row" /\ turn'[j].branch = b
  <2>1. /\ DOMAIN dirs' = DOMAIN dirs \cup {j} /\ Contents(DOMAIN dirs \ {j})
        /\ dirs'[j] = [branch |-> b, base |-> origin, work |-> NoBranch]
    BY <1>3 DEF AddWorktreeForBranch, With, Contents
  <2>r. registered' = registered \cup {j}
    BY <1>3 DEF AddWorktreeForBranch
  <2>2. \A q \in Paths : q # j => Stays(q)
    <3>1. registered' \subseteq registered \cup {j} /\ registered \subseteq registered'
      BY <2>r
    <3>2. QED
      BY <2>1, <3>1, AddedStays
  <2>3. SlotsStay({})
    BY <1>1, <1>3, <2>2, PathsAre, Names DEF SlotsStay
  <2>4. \A k \in Jobs : k # j => Shrinks(k)
    BY <2>2, PathsAre DEF Stays
  <2>5. dirs'[j].branch = b /\ dirs'[j].work = NoBranch
    BY <2>1
  <2>6. MovedAt(j)' /\ StrayAt(j)' /\ CleanAt(j)'
    BY <1>1, <1>3, <2>5 DEF MovedAt, StrayAt, CleanAt, Checked
  <2>7. DirInv'
    BY <1>1, <1>3, <2>3, <2>4, <2>5, <2>6, OwnStep
  <2>8. QED
    BY <1>3, <2>1, <2>r, <2>7 DEF Gains
<1>4. CASE /\ branches' \in {branches, branches \cup {b}} /\ dirs' = dirs
           /\ registered' = registered /\ turn'[j] = NoTurn
  <2>1. SlotsStay({}) /\ \A k \in Jobs : Shrinks(k)
    BY <1>1, <1>4, SameStays, AllStay DEF SlotsStay
  <2>2. QuietTurn(j)
    BY <1>4 DEF QuietTurn, NoTurn
  <2>3. branches' \subseteq branches \cup Attempts
    BY <1>4
  <2>4. Gains
    BY <1>4, <2>3 DEF Gains
  <2>5. QED
    BY <2>1, <2>2, <2>4, QuietTurnStep
<1>5. QED
  BY <1>2, <1>3, <1>4

(* A removal of a job's directory with a branch that is not the pool's. *)
LEMMA CleanupStays ==
  ASSUME NEW j \in Jobs, NEW b \in Attempts, CleanupJobWorktree(j, b)
  PROVE  SlotsStay({}) /\ (\A k \in Jobs : Shrinks(k)) /\ Gains
<1>1. b \notin Slots
  BY Names
<1>2. CASE SameGit
  <2>1. SlotsStay({}) /\ \A k \in Jobs : Shrinks(k)
    BY <1>2, SameStays, AllStay DEF SlotsStay, SameGit
  <2>2. QED
    BY <1>2, <2>1 DEF Gains, SameGit
<1>3. CASE Removed(j) /\ branches' = branches \ {b}
  <2>1. /\ \A q \in Paths : q # j => Stays(q)
        /\ Shrinks(j) /\ DOMAIN dirs' \subseteq DOMAIN dirs /\ registered' \subseteq registered
    BY <1>3, RemovedStays
  <2>2. SlotsStay({})
    BY <1>1, <1>3, <2>1, PathsAre, Names DEF SlotsStay
  <2>3. \A k \in Jobs : Shrinks(k)
    BY <2>1, PathsAre DEF Stays
  <2>4. QED
    BY <1>3, <2>1, <2>2, <2>3, GainsLess
<1>4. QED
  BY <1>2, <1>3, CleanupJobDoes

LEMMA RunDirs ==
  ASSUME Before, NEW j \in Jobs, TurnStep(j), RunCLI(j)
  PROVE  DirInv' /\ Gains
<1>t. turn \in [Jobs -> Preparing] /\ DOMAIN turn[j] = {"pc", "slot", "branch"}
  BY TypesAre DEF Before, TurnType, Preparing
<1>m. turn[j].pc = "work" /\ turn[j].branch \in Attempts
  BY DEF RunCLI, Before, ShapeInv
<1>b. PICK b \in Attempts : b = turn[j].branch
  BY <1>m
<1>1. b \notin Slots
  BY Names
<1>2. turn'[j] = NoTurn
  BY <1>t DEF RunCLI, Abort
<1>3. \/ j \in DOMAIN dirs /\ dirs' = [dirs EXCEPT ![j].work = b]
         /\ registered' = registered /\ branches' = branches
      \/ SameGit
      \/ CleanupJobWorktree(j, b)
  BY <1>b DEF RunCLI, SameGit
<1>q. QuietTurn(j)
  BY <1>2 DEF QuietTurn, NoTurn
<1>4. CASE j \in DOMAIN dirs /\ dirs' = [dirs EXCEPT ![j].work = b]
           /\ registered' = registered /\ branches' = branches
  <2>1. /\ DOMAIN dirs' = DOMAIN dirs /\ dirs'[j] = [dirs[j] EXCEPT !.work = b]
        /\ \A q \in DOMAIN dirs : q # j => dirs'[q] = dirs[q]
    BY <1>4
  <2>2. dirs[j] \in Directories
    BY <1>4, TypesAre DEF Before, GitType
  <2>3. dirs'[j].branch = dirs[j].branch
    BY <2>1, <2>2 DEF Directories
  <2>4. \A q \in Paths : q # j => Stays(q)
    BY <1>4, <2>1 DEF Stays, Shrinks, Checked
  <2>5. SlotsStay({})
    BY <1>4, <2>4, PathsAre, Names DEF SlotsStay
  <2>6. \A k \in Jobs : k # j => Shrinks(k)
    BY <2>4, PathsAre DEF Stays
  <2>7. dirs[j].branch = b
    BY <1>b, <1>m, <1>4, PartsBefore DEF CleanAt
  <2>8. MovedAt(j)' /\ StrayAt(j)' /\ CleanAt(j)' /\ turn'[j].pc # "rename"
    BY <1>1, <1>2, <2>3, <2>7 DEF MovedAt, StrayAt, CleanAt, Checked, NoTurn
  <2>9. DirInv'
    BY <1>1, <2>3, <2>5, <2>6, <2>7, <2>8, OwnStep
  <2>10. QED
    BY <1>4, <2>1, <2>9 DEF Gains
<1>5. CASE SameGit
  <2>1. SlotsStay({}) /\ \A k \in Jobs : Shrinks(k)
    BY <1>5, SameStays, AllStay DEF SlotsStay, SameGit
  <2>2. QED
    BY <1>5, <1>q, <2>1, QuietTurnStep DEF Gains, SameGit
<1>6. CASE CleanupJobWorktree(j, b)
  BY <1>6, <1>q, CleanupStays, QuietTurnStep
<1>7. QED
  BY <1>3, <1>4, <1>5, <1>6

LEMMA TurnDirs ==
  ASSUME Before, NEW j \in Jobs, TurnStep(j)
  PROVE  DirInv' /\ Gains
BY BeginDirs, PopDirs, MoveDirs, RenameDirs, CreateDirs, RunDirs DEF TurnStep


-----------------------------------------------------------------------------
(* The steps of the others. *)

LEMMA QuietTurns ==
  ASSUME turn' = turn \/ \A k \in Jobs : turn'[k] = NoTurn
  PROVE  \A k \in Jobs : QuietTurn(k)
BY DEF QuietTurn, NoTurn

LEMMA SameGitStep ==
  ASSUME Before, [WorktreesNext]_worktreeVars, Len(ready') <= Len(ready), SlotsStay({}),
         \A k \in Jobs : Shrinks(k), turn' = turn \/ \A k \in Jobs : turn'[k] = NoTurn
  PROVE  DirInv'
<1>1. JobsQuiet({})
  BY QuietTurns DEF JobsQuiet
<1>2. QED
  BY <1>1, InUseOfTurns, QuietStep

(* Something happens to one pool directory, of which no turn knows. *)
LEMMA PoolStep ==
  ASSUME Before, turn' = turn, NEW s \in Slots, SlotsStay({s}), \A k \in Jobs : Shrinks(k),
         s \in DOMAIN dirs \/ s \notin branches, InUse' \subseteq InUse \cup {s}, PoolAt(s)'
  PROVE  DirInv'
<1>1. JobsQuiet({})
  BY QuietTurns DEF JobsQuiet
<1>2. Apart({s}, {})
  BY ApartPresent
<1>3. Confined({s}, {}) /\ AtTouched({s}, {})'
  BY DEF Confined, AtTouched
<1>4. {s} \in SUBSET Slots /\ {} \in SUBSET Jobs
  OBVIOUS
<1>5. QED
  BY <1>1, <1>2, <1>3, <1>4, DirKept DEF Before

LEMMA ResetDirs ==
  ASSUME Before, ReplenisherStep, RefreshReset
  PROVE  DirInv' /\ Gains
<1>t. /\ ready \in Seq(Pooled) /\ replenisher.stale \in Seq(Pooled)
      /\ replenisher.recovered \in Seq(Pooled)
      /\ DOMAIN replenisher = {"pc", "then", "slot", "base", "stale", "recovered"}
  BY TypesAre, ReplenisherIs DEF Before, PoolType, Replenishing
<1>m. replenisher.stale # <<>> /\ PoolInv /\ HolderInv
  BY DEF RefreshReset, Before, DirInv
<1>1. PICK s \in Slots : s = Head(replenisher.stale).slot /\ Checked(s)
  BY <1>m, ResettingIs DEF Before
<1>2. turn' = turn /\ ready' = ready
  BY DEF ReplenisherStep, RefreshReset
<1>n. Len(ready') <= Len(ready) /\ WorktreesNext
  BY <1>t, <1>2 DEF WorktreesNext
<1>d. s \in DOMAIN dirs /\ dirs[s] \in Directories
  BY <1>1, TypesAre DEF Before, GitType, Checked
<1>3. \/ ResetHardInWorktreeToRef(s) /\ registered' = registered /\ branches' = branches
      \/ CleanupFailedWorktree(s)
         /\ replenisher' = [replenisher EXCEPT !.stale = Tail(replenisher.stale)]
  BY <1>1 DEF RefreshReset
<1>4. CASE ResetHardInWorktreeToRef(s) /\ registered' = registered /\ branches' = branches
  <2>1. /\ DOMAIN dirs' = DOMAIN dirs /\ Contents(DOMAIN dirs \ {s})
        /\ dirs'[s].branch = dirs[s].branch /\ dirs'[s].work = dirs[s].work
    BY <1>4, <1>d, ResetDoes
  <2>2. \A q \in Paths : Stays(q)
    BY <1>4, <2>1 DEF Contents, Stays, Shrinks, Checked
  <2>3. SlotsStay({}) /\ \A k \in Jobs : Shrinks(k)
    BY <1>4, <2>2, AllStay DEF SlotsStay
  <2>4. QED
    BY <1>2, <1>4, <1>n, <2>1, <2>3, SameGitStep DEF Gains
<1>5. CASE CleanupFailedWorktree(s)
           /\ replenisher' = [replenisher EXCEPT !.stale = Tail(replenisher.stale)]
  <2>1. Removed(s) /\ s \notin registered' /\ branches' = branches \ {s}
    BY <1>5, CleanupFailedDoes
  <2>2. /\ \A q \in Paths : q # s => Stays(q)
        /\ s \notin DOMAIN dirs' /\ DOMAIN dirs' \subseteq DOMAIN dirs
        /\ registered' \subseteq registered
    BY <2>1, RemovedStays
  <2>3. SlotsStay({s}) /\ \A k \in Jobs : Shrinks(k)
    BY <2>1, <2>2, PathsAre, Names DEF SlotsStay, Stays
  <2>4. s \notin InUse'
    <3>1. replenisher'.stale = Tail(replenisher.stale)
          /\ replenisher'.recovered = replenisher.recovered
      BY <1>5, <1>t
    <3>2. s \in SlotsOf(replenisher.stale) /\ s \notin SlotsOf(Tail(replenisher.stale))
      BY <1>1, <1>m, <1>t, Behead DEF HolderInv
    <3>3. s \notin SlotsOf(ready) /\ s \notin SlotsOf(replenisher.recovered)
      BY <1>m, <3>2 DEF HolderInv
    <3>4. s \notin Pooling'
      BY <1>2, <3>1, <3>2, <3>3 DEF Pooling
    <3>5. \A k \in Jobs : turn[k].slot # s
      BY <1>m, <3>2, Names DEF HolderInv, Pooling
    <3>6. QED
      BY <1>2, <3>4, <3>5 DEF InUse
  <2>5. PoolAt(s)'
    BY <2>2, <2>4 DEF PoolAt, Checked
  <2>6. InUse' \subseteq InUse \cup {s}
    BY <1>n, InUseOfTurns
  <2>7. QED
    BY <1>2, <1>d, <2>1, <2>2, <2>3, <2>5, <2>6, PoolStep, GainsLess
<1>6. QED
  BY <1>3, <1>4, <1>5

LEMMA CreatePooledDirs ==
  ASSUME Before, ReplenisherStep, CreatePooled
  PROVE  DirInv'
<1>m. replenisher.pc = "branch"
  BY DEF CreatePooled
<1>1. PICK s \in Slots : s = replenisher.slot
  BY <1>m DEF Before, ShapeInv
<1>2. s \notin DOMAIN dirs /\ s \notin registered /\ s \notin branches
  BY <1>m, <1>1 DEF Before, NewInv
<1>t. turn' = turn /\ WorktreesNext /\ ready \in Seq(Pooled)
  BY TypesAre DEF ReplenisherStep, WorktreesNext, Before, PoolType
<1>3. \/ AddWorktreeForBranch(s, s, fetched) /\ branches' = branches \cup {s}
         /\ ready' = Append(ready, [slot |-> s, base |-> replenisher.base])
      \/ SameGit /\ ready' = ready
  BY <1>1 DEF CreatePooled, SameGit
<1>4. CASE AddWorktreeForBranch(s, s, fetched) /\ branches' = branches \cup {s}
           /\ ready' = Append(ready, [slot |-> s, base |-> replenisher.base])
  <2>1. /\ DOMAIN dirs' = DOMAIN dirs \cup {s} /\ Contents(DOMAIN dirs \ {s})
        /\ dirs'[s] = [branch |-> s, base |-> fetched, work |-> NoBranch]
    BY <1>4 DEF AddWorktreeForBranch, With, Contents
  <2>2. registered' = registered \cup {s}
    BY <1>4 DEF AddWorktreeForBranch
  <2>3. registered' \subseteq registered \cup {s} /\ registered \subseteq registered'
    BY <2>2
  <2>4. \A q \in Paths : q # s => Stays(q)
    BY <2>1, <2>3, AddedStays
  <2>5. SlotsStay({s}) /\ \A k \in Jobs : Shrinks(k)
    BY <1>4, <2>4, PathsAre, Names DEF SlotsStay, Stays
  <2>6. dirs'[s].branch = s /\ dirs'[s].work = NoBranch /\ s \in DOMAIN dirs' /\ s \in registered'
        /\ s \in branches'
    BY <1>4, <2>1, <2>2
  <2>7. PoolAt(s)'
    BY <2>6 DEF PoolAt, Checked
  <2>8. InUse' \subseteq InUse \cup {s}
    <3>1. ASSUME NEW x \in Slots, ListsGrown(x) PROVE x = s
      <4>1. PICK c \in Commits : ready' = Append(ready, [slot |-> x, base |-> c])
        BY <3>1 DEF ListsGrown
      <4>2. ready'[Len(ready) + 1] = [slot |-> x, base |-> c]
        BY <1>t, <4>1
      <4>3. ready'[Len(ready) + 1] = [slot |-> s, base |-> replenisher.base]
        BY <1>t, <1>4
      <4>4. QED
        BY <4>2, <4>3
    <3>2. QED
      BY <1>t, <3>1, InUseKept
  <2>9. QED
    BY <1>2, <1>t, <2>5, <2>7, <2>8, PoolStep
<1>5. CASE SameGit /\ ready' = ready
  <2>1. SlotsStay({}) /\ \A k \in Jobs : Shrinks(k)
    BY <1>5, SameStays, AllStay DEF SlotsStay, SameGit
  <2>2. Len(ready') <= Len(ready)
    BY <1>5, <1>t
  <2>3. QED
    BY <1>t, <2>1, <2>2, SameGitStep
<1>6. QED
  BY <1>3, <1>4, <1>5

LEMMA ReplenisherDirs ==
  ASSUME Before, ReplenisherStep
  PROVE  DirInv' /\ (~CreatePooled => Gains)
<1>1. CASE RefreshReset
  BY <1>1, ResetDirs
<1>2. CASE CreatePooled
  BY <1>2, CreatePooledDirs
<1>3. CASE ~RefreshReset /\ ~CreatePooled
  <2>1. SameGit /\ turn' = turn /\ WorktreesNext
    BY <1>3 DEF ReplenisherStep, RefreshFetch, RefreshTake, RefreshReturn, FillBegin, FillLoop,
       CreateName, Replenish, RefreshTick, SameGit, gitVars, WorktreesNext
  <2>2. SlotsStay({}) /\ \A k \in Jobs : Shrinks(k)
    BY <2>1, SameStays, AllStay DEF SlotsStay, SameGit
  <2>3. InUse' \subseteq InUse
    <3>1. CASE RefreshReturn
      <4>1. /\ ready \in Seq(Pooled) /\ replenisher.recovered \in Seq(Pooled)
            /\ DOMAIN replenisher = {"pc", "then", "slot", "base", "stale", "recovered"}
        BY TypesAre, ReplenisherIs DEF Before, PoolType, Replenishing
      <4>2. SlotsOf(ready') = SlotsOf(ready) \cup SlotsOf(replenisher.recovered)
            /\ replenisher'.stale = replenisher.stale /\ replenisher'.recovered = <<>>
        BY <3>1, <4>1, Joined DEF RefreshReturn
      <4>3. Pooling' \subseteq Pooling
        BY <4>2, NoEntries DEF Pooling
      <4>4. QED
        BY <2>1, <4>3 DEF InUse
    <3>2. CASE ~RefreshReturn
      <4>1. ready \in Seq(Pooled)
        BY TypesAre DEF Before, PoolType
      <4>2. ready' = ready \/ RefreshTake
        BY <1>3, <3>2 DEF ReplenisherStep, RefreshFetch, FillBegin, FillLoop, CreateName,
           Replenish, RefreshTick
      <4>3. Len(ready') <= Len(ready)
        <5>1. CASE ready' = ready
          BY <4>1, <5>1
        <5>2. CASE RefreshTake
          <6> DEFINE T == {e \in Pooled : e.base = replenisher.base}
          <6>1. ready' = Keeping(ready, T)
            BY <5>2 DEF RefreshTake
          <6>2. Len(Keeping(ready, T)) + Len(Keeping(ready, Pooled \ T)) = Len(ready)
                /\ Keeping(ready, T) \in Seq(Pooled) /\ Keeping(ready, Pooled \ T) \in Seq(Pooled)
            BY <4>1, KeepingCount, KeepingEntries
          <6> HIDE DEF T
          <6>3. Len(Keeping(ready, T)) \in Nat /\ Len(Keeping(ready, Pooled \ T)) \in Nat
            BY <6>2
          <6>4. QED
            BY <6>1, <6>2, <6>3
        <5>3. QED
          BY <4>2, <5>1, <5>2
      <4>4. QED
        BY <2>1, <4>3, InUseOfTurns
    <3>3. QED
      BY <3>1, <3>2
  <2>4. JobsQuiet({})
    BY <2>1, <2>2, QuietTurns DEF JobsQuiet
  <2>5. QED
    BY <2>1, <2>2, <2>3, <2>4, QuietStep DEF Gains, SameGit
<1>4. QED
  BY <1>1, <1>2, <1>3

LEMMA SweepDirs ==
  ASSUME Before, SweepStep, SweepInv
  PROVE  DirInv' /\ Gains
<1>1. turn' = turn /\ ready' = ready /\ WorktreesNext
  BY DEF SweepStep, poolVars, WorktreesNext
<1>t. ready \in Seq(Pooled) /\ DOMAIN dirs \subseteq Paths
  BY TypesAre DEF Before, PoolType, GitType
<1>2. Len(ready') <= Len(ready)
  BY <1>1, <1>t
<1>g. ASSUME SlotsStay({}), \A k \in Jobs : Shrinks(k) PROVE DirInv'
  BY <1>1, <1>2, <1>g, SameGitStep
<1>3. CASE ListDirectories
  <2>1. dirs' = dirs /\ branches' = branches /\ registered' = registered \cap DOMAIN dirs
    BY <1>3 DEF ListDirectories, PruneWorktrees
  <2>2. \A q \in Paths : Stays(q)
    BY <2>1 DEF Stays, Shrinks, Checked
  <2>3. SlotsStay({}) /\ \A k \in Jobs : Shrinks(k)
    BY <2>1, <2>2, AllStay DEF SlotsStay
  <2>4. QED
    BY <1>g, <2>1, <2>3, GainsLess
<1>4. CASE RemoveOrphan
  <2>1. PICK p \in sweep.paths : RemoveDirectory(p)
    BY <1>4 DEF RemoveOrphan
  <2>2. branches' = branches /\ Removed(p)
    BY <1>4, <2>1, RemoveDirectoryDoes DEF RemoveOrphan
  <2>3. p \notin Slots
    BY DEF SweepInv
  <2>4. /\ \A q \in Paths : q # p => Stays(q)
        /\ Shrinks(p) /\ DOMAIN dirs' \subseteq DOMAIN dirs /\ registered' \subseteq registered
    BY <2>2, RemovedStays
  <2>5. SlotsStay({}) /\ \A k \in Jobs : Shrinks(k)
    BY <2>2, <2>3, <2>4, PathsAre DEF SlotsStay, Stays
  <2>6. QED
    BY <1>g, <2>2, <2>4, <2>5, GainsLess
<1>5. CASE ReadTrackedPaths \/ ListBranches \/ DeleteBranches
  <2>1. dirs' = dirs /\ registered' = registered
        /\ \E N : branches' = branches \ N /\ N \cap Slots = {}
    <3>1. CASE ReadTrackedPaths \/ ListBranches
      <4>1. dirs' = dirs /\ registered' = registered /\ branches' = branches \ {}
            /\ {} \cap Slots = {}
        BY <3>1 DEF ReadTrackedPaths, ListBranches
      <4>2. QED
        BY <4>1
    <3>2. CASE DeleteBranches
      <4> DEFINE N == DeletableOf(sweep.names \ {row[j] : j \in Jobs})
      <4>1. N \cap Slots = {}
        BY DEF SweepInv, DeletableOf
      <4>2. dirs' = dirs /\ registered' = registered /\ branches' = branches \ N
        BY <3>2 DEF DeleteBranches
      <4> HIDE DEF N
      <4>3. QED
        BY <4>1, <4>2
    <3>3. QED
      BY <1>5, <3>1, <3>2
  <2>2. SlotsStay({}) /\ \A k \in Jobs : Shrinks(k)
    BY <2>1, SameStays, AllStay DEF SlotsStay
  <2>3. branches' \subseteq branches
    BY <2>1
  <2>4. QED
    BY <1>g, <2>1, <2>2, <2>3, GainsLess
<1>6. QED
  BY <1>3, <1>4, <1>5 DEF SweepStep


LEMMA RemoveIs ==
  ASSUME NEW s, RemoveAll(s) \/ RemoveWorktree(s)
  PROVE  Removed(s) /\ (RemoveWorktree(s) => s \notin registered')
<1>1. dirs' = Without({s}) /\ registered' \in {registered, registered \ {s}}
  BY DEF RemoveAll, RemoveWorktree
<1>2. QED
  BY <1>1, WithoutOne DEF Removed, RemoveWorktree

LEMMA ReclaimDirs ==
  ASSUME Before, StartUp, ReclaimPooled
  PROVE  DirInv'
<1>1. PICK s \in Unclaimed :
        \/ (RemoveAll(s) \/ RemoveWorktree(s)) /\ ready' = ready
        \/ /\ WorktreeExists(s) /\ ready' = Append(ready, [slot |-> s, base |-> dirs[s].base])
           /\ dirs' = dirs /\ registered' = registered
  BY DEF ReclaimPooled
<1>t. turn' = turn /\ WorktreesNext /\ ready \in Seq(Pooled) /\ branches' = branches
      /\ phase = "reclaim"
  BY TypesAre DEF StartUp, WorktreesNext, Before, PoolType, ReclaimPooled
<1>2. s \in Slots /\ s \in DOMAIN dirs
  BY DEF Unclaimed
<1>e. stale = <<>> /\ recovered = <<>>
  BY <1>t DEF Before, ShapeInv, stale, recovered
<1>3. s \notin Pooling /\ \A j \in Jobs : turn[j].slot # s
  BY <1>2, <1>t, <1>e, GrownIsNew DEF Before, DirInv
<1>4. s \notin InUse
  BY <1>3 DEF InUse
<1>5. CASE (RemoveAll(s) \/ RemoveWorktree(s)) /\ ready' = ready
  <2>1. /\ \A q \in Paths : q # s => Stays(q)
        /\ s \notin DOMAIN dirs'
    BY <1>5, RemoveIs, RemovedStays
  <2>2. SlotsStay({s}) /\ \A k \in Jobs : Shrinks(k)
    BY <1>2, <1>t, <2>1, PathsAre, Names DEF SlotsStay, Stays
  <2>3. Len(ready') <= Len(ready)
    BY <1>5, <1>t
  <2>4. InUse' \subseteq InUse
    BY <1>t, <2>3, InUseOfTurns
  <2>5. PoolAt(s)'
    BY <1>4, <2>1, <2>4 DEF PoolAt, Checked
  <2>6. InUse' \subseteq InUse \cup {s}
    BY <2>4
  <2>7. QED
    BY <1>2, <1>t, <2>2, <2>5, <2>6, PoolStep
<1>6. CASE /\ WorktreeExists(s) /\ ready' = Append(ready, [slot |-> s, base |-> dirs[s].base])
           /\ dirs' = dirs /\ registered' = registered
  <2>1. SlotsStay({s}) /\ \A k \in Jobs : Shrinks(k)
    BY <1>6, <1>t, SameStays, AllStay DEF SlotsStay
  <2>2. InUse' \subseteq InUse \cup {s}
    <3>1. ASSUME NEW x \in Slots, ListsGrown(x) PROVE x = s
      <4>1. PICK c \in Commits : ready' = Append(ready, [slot |-> x, base |-> c])
        BY <3>1 DEF ListsGrown
      <4>2. ready'[Len(ready) + 1] = [slot |-> x, base |-> c]
        BY <1>t, <4>1
      <4>3. ready'[Len(ready) + 1] = [slot |-> s, base |-> dirs[s].base]
        BY <1>t, <1>6
      <4>4. QED
        BY <4>2, <4>3
    <3>2. QED
      BY <1>t, <3>1, InUseKept
  <2>3. Checked(s) /\ PoolAt(s)
    BY <1>2, <1>6, PartsBefore DEF Checked, WorktreeExists
  <2>4. PoolAt(s)'
    BY <1>6, <1>t, <2>3 DEF PoolAt, Checked
  <2>5. QED
    BY <1>2, <1>t, <2>1, <2>2, <2>4, PoolStep
<1>7. QED
  BY <1>1, <1>5, <1>6

(* A new repository beside an old volume: git knows nothing, and nothing is *)
(* in use.                                                                 *)
LEMMA VolumeDirs ==
  ASSUME Before, StartUp, phase = "load", dirs' = dirs, registered' = {}, branches' = {},
         ready' = ready
  PROVE  DirInv'
<1>1. ready = <<>> /\ replenisher.stale = <<>> /\ replenisher.recovered = <<>>
      /\ \A j \in Jobs : turn[j] = NoTurn
  BY DEF Before, ShapeInv
<1>2. turn' = turn /\ WorktreesNext
  BY DEF StartUp, WorktreesNext
<1>3. Len(ready') <= Len(ready)
  BY TypesAre DEF Before, PoolType
<1>4. InUse = {}
  BY <1>1, NoEntries DEF InUse, Pooling, NoTurn
<1>5. InUse' = {}
  BY <1>2, <1>3, <1>4, InUseOfTurns
<1>6. \A q \in Paths : Shrinks(q)
  BY DEF Shrinks
<1>7. SlotsStay(Slots) /\ JobsQuiet(Jobs) /\ Apart(Slots, Jobs)
  BY DEF SlotsStay, JobsQuiet, Apart
<1>8. Confined(Slots, Jobs)
  <2>1. \A j \in Jobs : j \notin registered'
    OBVIOUS
  <2>2. \A k \in Jobs : ~Checked(k)'
    BY <2>1 DEF Checked
  <2>3. \A k \in Jobs : turn'[k].pc = "none"
    BY <1>1, <1>2 DEF NoTurn
  <2>4. QED
    BY <2>2, <2>3 DEF Confined
<1>9. ASSUME NEW s \in Slots PROVE PoolAt(s)'
  <2>1. PoolAt(s)
    BY PartsBefore
  <2>2. QED
    BY <1>5, <2>1 DEF PoolAt, Checked
<1>10. ASSUME NEW j \in Jobs PROVE MovedAt(j)' /\ StrayAt(j)' /\ CleanAt(j)'
  <2>1. turn'[j].pc = "none"
    BY <1>1, <1>2 DEF NoTurn
  <2>2. QED
    BY <2>1 DEF MovedAt, StrayAt, CleanAt, Checked
<1>11. AtTouched(Slots, Jobs)'
  BY <1>9, <1>10 DEF AtTouched
<1>12. Slots \in SUBSET Slots /\ Jobs \in SUBSET Jobs /\ InUse' \subseteq InUse \cup Slots
  BY <1>5
<1>13. QED
  BY <1>7, <1>8, <1>11, <1>12, DirKept DEF Before

LEMMA StartDirs ==
  ASSUME Before, StartUp
  PROVE  DirInv'
<1>1. turn' = turn /\ WorktreesNext
  BY DEF StartUp, WorktreesNext
<1>t. ready \in Seq(Pooled) /\ DOMAIN dirs \subseteq Paths
  BY TypesAre DEF Before, PoolType, GitType
<1>2. CASE ReclaimPooled
  BY <1>2, ReclaimDirs
<1>3. CASE CleanupStaleJobWorktrees
  <2>1. registered' = registered /\ branches' = branches /\ ready' = ready
        /\ dirs' = IF hold THEN dirs ELSE Without((Jobs \cup Attempts) \ registered)
    BY <1>3 DEF CleanupStaleJobWorktrees
  <2>2. /\ DOMAIN dirs' \subseteq DOMAIN dirs /\ \A q \in DOMAIN dirs' : dirs'[q] = dirs[q]
        /\ \A q \in DOMAIN dirs : q \in registered => q \in DOMAIN dirs'
    BY <2>1 DEF Without, Restrict
  <2>3. \A q \in Paths : Stays(q)
    BY <2>1, <2>2 DEF Stays, Shrinks, Checked
  <2>4. SlotsStay({}) /\ \A k \in Jobs : Shrinks(k)
    BY <2>1, <2>3, AllStay DEF SlotsStay
  <2>5. Len(ready') <= Len(ready)
    BY <1>t, <2>1
  <2>6. QED
    BY <1>1, <2>4, <2>5, SameGitStep
<1>4. CASE SameGit /\ ready' = ready
  <2>1. SlotsStay({}) /\ \A k \in Jobs : Shrinks(k)
    BY <1>4, SameStays, AllStay DEF SlotsStay, SameGit
  <2>2. Len(ready') <= Len(ready)
    BY <1>4, <1>t
  <2>3. QED
    BY <1>1, <2>1, <2>2, SameGitStep
<1>5. CASE LoadState
  <2>1. ready' = ready /\ dirs' = dirs /\ phase = "load"
        /\ (SameGit \/ (registered' = {} /\ branches' = {}))
    BY <1>5 DEF LoadState, SameGit
  <2>2. QED
    BY <1>4, <2>1, VolumeDirs
<1>6. CASE StartPool \/ RecoverJobs \/ ClearHold
  BY <1>4, <1>6 DEF StartPool, RecoverJobs, ClearHold, SameGit
<1>7. QED
  BY <1>2, <1>3, <1>5, <1>6 DEF StartUp

LEMMA RestDirs ==
  ASSUME Before, \/ Crash \/ PushToDefault \/ UNCHANGED worktreeVars
                 \/ \E j \in Jobs : Abandon(j) \/ CompleteIdle(j)
  PROVE  DirInv' /\ Gains
<1>t. ready \in Seq(Pooled) /\ Len(<<>>) = 0
  BY TypesAre DEF Before, PoolType
<1>1. [WorktreesNext]_worktreeVars
  BY DEF WorktreesNext
<1>2. /\ turn' = turn \/ \A k \in Jobs : turn'[k] = NoTurn
      /\ ready' = ready \/ ready' = <<>>
  BY DEF Crash, PushToDefault, Abandon, CompleteIdle, worktreeVars, poolVars
<1>3. Len(ready') <= Len(ready)
  BY <1>t, <1>2
<1>4. CASE SameGit
  <2>1. SlotsStay({}) /\ \A k \in Jobs : Shrinks(k)
    BY <1>4, SameStays, AllStay DEF SlotsStay, SameGit
  <2>2. QED
    BY <1>1, <1>2, <1>3, <1>4, <2>1, SameGitStep DEF Gains, SameGit
<1>5. ASSUME NEW j \in Jobs, Abandon(j) PROVE DirInv' /\ Gains
  <2>1. PICK b \in Attempts : b = row[j]
    BY <1>5, TypesAre DEF Abandon, Before, TurnType
  <2>2. CleanupJobWorktree(j, b)
    BY <1>5, <2>1 DEF Abandon
  <2>3. SlotsStay({}) /\ (\A k \in Jobs : Shrinks(k)) /\ Gains
    BY <2>2, CleanupStays
  <2>4. QED
    BY <1>1, <1>2, <1>3, <2>3, SameGitStep
<1>6. CASE \/ Crash \/ PushToDefault \/ UNCHANGED worktreeVars \/ \E j \in Jobs : CompleteIdle(j)
  BY <1>4, <1>6 DEF Crash, PushToDefault, CompleteIdle, gitVars, worktreeVars, SameGit
<1>7. QED
  BY <1>5, <1>6

LEMMA DirsKept ==
  ASSUME Before, SweepInv, [WorktreesNext]_worktreeVars
  PROVE  DirInv'
BY ReplenisherDirs, TurnDirs, SweepDirs, StartDirs, RestDirs DEF WorktreesNext

(* A slot that is new to the replenisher stays new. *)
LEMMA NewKept ==
  ASSUME Before, SweepInv, [WorktreesNext]_worktreeVars
  PROVE  NewInv'
<1>r. /\ DOMAIN replenisher = {"pc", "then", "slot", "base", "stale", "recovered"}
      /\ DOMAIN IdleReplenisher = {"pc", "then", "slot", "base", "stale", "recovered"}
      /\ replenisher.then \in {"fill", "name", "wait"}
  BY TypesAre, ReplenisherIs, IdleIs DEF Before, PoolType, Replenishing
<1>i. IdleReplenisher.pc = "off"
  BY IdleIs
<1>1. CASE CreateName
  <2>1. PICK s \in Slots \ (branches \cup DOMAIN dirs \cup registered) :
          replenisher' = [replenisher EXCEPT !.pc = "branch", !.then = "wait", !.slot = s,
                                             !.base = fetched]
    BY <1>1 DEF CreateName
  <2>2. replenisher'.slot = s
    BY <1>r, <2>1
  <2>3. SameGit
    BY <1>1 DEF CreateName, SameGit, gitVars
  <2>4. QED
    BY <2>2, <2>3 DEF NewInv, SameGit
<1>2. CASE ReplenisherStep /\ ~CreateName
  <2>1. replenisher'.pc # "branch"
    <3>1. CASE RefreshFetch
      BY <3>1, <1>r DEF RefreshFetch, GoOn
    <3>2. CASE RefreshTake \/ RefreshReset
      BY <3>2, <1>r DEF RefreshTake, RefreshReset
    <3>3. CASE RefreshReturn
      BY <3>3, <1>r DEF RefreshReturn
    <3>4. CASE FillBegin \/ FillLoop \/ CreatePooled \/ Replenish \/ RefreshTick
      BY <3>4, <1>r, <1>i DEF FillBegin, FillLoop, CreatePooled, Replenish, RefreshTick, GoOn, Rest,
         GiveUp
    <3>5. QED
      BY <1>2, <3>1, <3>2, <3>3, <3>4 DEF ReplenisherStep
  <2>2. QED
    BY <2>1 DEF NewInv
<1>3. CASE ~ReplenisherStep
  <2>1. CASE StartUp \/ Crash
    <3>1. replenisher'.pc = "branch" => replenisher' = replenisher /\ StartUp
      BY <2>1, <1>r, <1>i DEF StartUp, Crash, LoadState, CleanupStaleJobWorktrees, ReclaimPooled,
         StartPool, RecoverJobs, ClearHold
    <3>2. CASE StartUp /\ replenisher' = replenisher /\ replenisher.pc = "branch"
      <4>1. phase \notin {"load", "stale", "reclaim"}
        BY <3>2 DEF Before, ShapeInv
      <4>2. SameGit
        BY <3>2, <4>1 DEF StartUp, LoadState, CleanupStaleJobWorktrees, ReclaimPooled, StartPool,
           RecoverJobs, ClearHold, SameGit
      <4>3. QED
        BY <3>2, <4>2 DEF Before, NewInv, SameGit
    <3>3. QED
      BY <2>1, <3>1, <3>2 DEF NewInv
  <2>2. CASE \/ SweepStep \/ PushToDefault \/ UNCHANGED worktreeVars
             \/ \E j \in Jobs : TurnStep(j) \/ Abandon(j) \/ CompleteIdle(j)
    <3>1. Gains
      BY <2>2, SweepDirs, RestDirs, TurnDirs
    <3>2. replenisher' = replenisher
      BY <2>2 DEF SweepStep, PushToDefault, worktreeVars, TurnStep, Abandon, CompleteIdle, poolVars
    <3>3. SUFFICES ASSUME replenisher.pc = "branch"
                   PROVE  /\ replenisher.slot \notin DOMAIN dirs'
                          /\ replenisher.slot \notin registered' /\ replenisher.slot \notin branches'
      BY <3>2 DEF NewInv
    <3>4. /\ replenisher.slot \notin DOMAIN dirs /\ replenisher.slot \notin registered
          /\ replenisher.slot \notin branches /\ replenisher.slot \in Slots
      BY <3>3 DEF Before, NewInv, ShapeInv
    <3>5. replenisher.slot \notin Jobs /\ replenisher.slot \notin Attempts
      BY <3>4, Names
    <3>6. QED
      BY <3>1, <3>4, <3>5 DEF Gains
  <2>3. QED
    BY <1>3, <2>1, <2>2 DEF WorktreesNext
<1>4. QED
  BY <1>1, <1>2, <1>3


-----------------------------------------------------------------------------
(* Whose work is where, and what pool directories were made from. *)

Worked == {dirs[p].work : p \in DOMAIN dirs}

(* No work appears and none that is held disappears; a directory of a job   *)
(* keeps what it holds or is without work; none is put aside but under A.   *)
Passing(A) ==
  /\ Worked' \subseteq Worked \cup {NoBranch}
  /\ lost \cap Worked \subseteq Worked'
  /\ \A k \in Jobs : k \in DOMAIN dirs' =>
       (k \in DOMAIN dirs /\ dirs'[k].work = dirs[k].work) \/ dirs'[k].work = NoBranch
  /\ \A p \in Attempts : p \in DOMAIN dirs' => p \in DOMAIN dirs \/ p \in A

BasesStay ==
  \A s \in Slots : s \in DOMAIN dirs /\ s \in DOMAIN dirs' => dirs'[s].base = dirs[s].base

(* The CLI of job j left its work in the directory. *)
WorkDone(j) ==
  /\ turn[j].pc = "work" /\ j \in DOMAIN dirs /\ dirs'[j].work = turn[j].branch
  /\ DOMAIN dirs' = DOMAIN dirs /\ Contents(DOMAIN dirs \ {j})
  /\ lost \cap Worked \subseteq Worked'

LEMMA PassingMore ==
  ASSUME Passing({}), NEW A
  PROVE  Passing(A)
BY DEF Passing

LEMMA SamePasses ==
  ASSUME dirs' = dirs
  PROVE  Passing({}) /\ BasesStay
BY DEF Passing, Worked, BasesStay

LEMMA RemovedPasses ==
  ASSUME NEW p, Removed(p), p \in DOMAIN dirs => dirs[p].work \notin lost
  PROVE  Passing({}) /\ BasesStay
<1>1. DOMAIN dirs' = DOMAIN dirs \ {p} /\ \A q \in DOMAIN dirs' : dirs'[q] = dirs[q]
  BY DEF Removed, Contents
<1>2. Worked' \subseteq Worked
  BY <1>1 DEF Worked
<1>3. lost \cap Worked \subseteq Worked'
  <2>1. SUFFICES ASSUME NEW q \in DOMAIN dirs, dirs[q].work \in lost PROVE dirs[q].work \in Worked'
    BY DEF Worked
  <2>2. q \in DOMAIN dirs' /\ dirs'[q].work = dirs[q].work
    BY <1>1, <2>1
  <2>3. QED
    BY <2>2 DEF Worked
<1>4. QED
  BY <1>1, <1>2, <1>3 DEF Passing, BasesStay

LEMMA MovedPasses ==
  ASSUME NEW p, NEW q, p # q, p \in DOMAIN dirs, Moved(p, q), q \in Jobs => dirs[p].work = NoBranch
  PROVE  Passing({q}) /\ BasesStay /\ (q \notin Attempts => Passing({}))
<1>1. /\ q \notin DOMAIN dirs /\ DOMAIN dirs' = (DOMAIN dirs \ {p}) \cup {q} /\ dirs'[q] = dirs[p]
      /\ \A r \in DOMAIN dirs' : r # q => r \in DOMAIN dirs /\ dirs'[r] = dirs[r]
  BY DEF Moved, Contents
<1>2. Worked' \subseteq Worked
  BY <1>1 DEF Worked
<1>3. lost \cap Worked \subseteq Worked'
  <2>1. SUFFICES ASSUME NEW r \in DOMAIN dirs PROVE dirs[r].work \in Worked'
    BY DEF Worked
  <2>2. CASE r = p
    BY <1>1, <2>2 DEF Worked
  <2>3. CASE r # p
    <3>1. r \in DOMAIN dirs' /\ dirs'[r] = dirs[r]
      BY <1>1, <2>3
    <3>2. QED
      BY <3>1 DEF Worked
  <2>4. QED
    BY <2>2, <2>3
<1>4. QED
  BY <1>1, <1>2, <1>3 DEF Passing, BasesStay

LEMMA ChangedPasses ==
  ASSUME NEW p \in DOMAIN dirs, DOMAIN dirs' = DOMAIN dirs, Contents(DOMAIN dirs \ {p}),
         dirs'[p].work = dirs[p].work
  PROVE  Passing({}) /\ (p \notin Slots => BasesStay)
<1>1. \A r \in DOMAIN dirs : dirs'[r].work = dirs[r].work /\ (r # p => dirs'[r] = dirs[r])
  BY DEF Contents
<1>2. Worked' = Worked
  BY <1>1 DEF Worked
<1>3. QED
  BY <1>1, <1>2 DEF Passing, BasesStay

LEMMA AddedPasses ==
  ASSUME NEW p, p \notin DOMAIN dirs, p \notin Attempts, DOMAIN dirs' = DOMAIN dirs \cup {p},
         Contents(DOMAIN dirs \ {p}), dirs'[p].work = NoBranch
  PROVE  Passing({}) /\ BasesStay
<1>1. \A r \in DOMAIN dirs : r \in DOMAIN dirs' /\ dirs'[r] = dirs[r]
  BY DEF Contents
<1>2. Worked' \subseteq Worked \cup {NoBranch} /\ Worked \subseteq Worked'
  BY <1>1 DEF Worked
<1>3. QED
  BY <1>1, <1>2 DEF Passing, BasesStay

LEMMA NotHeld ==
  ASSUME WorktreesTypeOK
  PROVE  NoBranch \notin lost
BY TypesAre, Names DEF RestType

LEMMA ReplenisherPasses ==
  ASSUME Before, ReplenisherStep
  PROVE  Passing({}) /\ (~RefreshReset => BasesStay)
<1>1. CASE RefreshReset
  <2>1. PICK s \in Slots : s = Head(replenisher.stale).slot /\ Checked(s)
    BY <1>1, ResettingIs DEF RefreshReset, Before, DirInv
  <2>2. s \in DOMAIN dirs /\ dirs[s] \in Directories
    BY <2>1, TypesAre DEF Before, GitType, Checked
  <2>3. dirs[s].work = NoBranch
    BY <2>2 DEF Before, DirInv, PoolInv
  <2>4. CASE ResetHardInWorktreeToRef(s)
    BY <1>1, <2>2, <2>4, ResetDoes, ChangedPasses
  <2>5. CASE CleanupFailedWorktree(s)
    BY <1>1, <2>3, <2>5, CleanupFailedDoes, RemovedPasses, NotHeld DEF Before
  <2>6. QED
    BY <1>1, <2>1, <2>4, <2>5 DEF RefreshReset
<1>2. CASE CreatePooled
  <2>1. PICK s \in Slots : s = replenisher.slot
    BY <1>2 DEF CreatePooled, Before, ShapeInv
  <2>2. s \notin DOMAIN dirs /\ s \notin Attempts
    BY <1>2, <2>1, Names DEF CreatePooled, Before, NewInv
  <2>3. CASE AddWorktreeForBranch(s, s, fetched)
    <3>1. /\ DOMAIN dirs' = DOMAIN dirs \cup {s} /\ Contents(DOMAIN dirs \ {s})
          /\ dirs'[s] = [branch |-> s, base |-> fetched, work |-> NoBranch]
      BY <2>3 DEF AddWorktreeForBranch, With, Contents
    <3>2. QED
      BY <2>2, <3>1, AddedPasses
  <2>4. CASE dirs' = dirs
    BY <2>4, SamePasses
  <2>5. QED
    BY <1>2, <2>1, <2>3, <2>4 DEF CreatePooled
<1>3. CASE ~RefreshReset /\ ~CreatePooled
  <2>1. dirs' = dirs
    BY <1>3 DEF ReplenisherStep, RefreshFetch, RefreshTake, RefreshReturn, FillBegin, FillLoop,
       CreateName, Replenish, RefreshTick, gitVars
  <2>2. QED
    BY <2>1, SamePasses
<1>4. QED
  BY <1>1, <1>2, <1>3

LEMMA BeginPasses ==
  ASSUME Before, HoldInv, NEW j \in Jobs, BeginConversation(j)
  PROVE  Passing({<<j, attempts + 1>>}) /\ BasesStay
<1>1. PICK b \in Attempts : b = <<j, attempts + 1>> /\ b \notin DOMAIN dirs /\ b # j
  BY BeginningIs DEF BeginConversation, Before
<1>2. CASE KeepExistingWorktree(j, b)
  <2>1. dirs' = dirs \/ (j \in DOMAIN dirs /\ Moved(j, b))
    BY <1>1, <1>2, KeepExistingDoes
  <2>2. b \notin Jobs
    BY Names
  <2>3. CASE dirs' = dirs
    BY <2>3, SamePasses, PassingMore
  <2>4. CASE j \in DOMAIN dirs /\ Moved(j, b)
    BY <1>1, <2>2, <2>4, MovedPasses
  <2>5. QED
    BY <2>1, <2>3, <2>4
<1>3. CASE ~hold /\ \E d : CleanupJobWorktree(j, d)
  <2>1. dirs' = dirs \/ Removed(j)
    BY <1>3, CleanupJobDoes DEF SameGit
  <2>2. lost = {}
    BY <1>3 DEF HoldInv
  <2>3. Passing({}) /\ BasesStay
    BY <2>1, <2>2, SamePasses, RemovedPasses
  <2>4. QED
    BY <2>3, PassingMore
<1>4. QED
  BY <1>1, <1>2, <1>3 DEF BeginConversation

LEMMA MovePasses ==
  ASSUME Before, NEW j \in Jobs, MovePooled(j)
  PROVE  Passing({}) /\ BasesStay
<1>1. PICK s \in Slots : s = turn[j].slot /\ Checked(s) /\ s # j
  BY MovingIs DEF Before, DirInv, MovePooled
<1>2. s \in DOMAIN dirs /\ dirs[s].work = NoBranch
  BY <1>1 DEF Before, DirInv, PoolInv, Checked
<1>3. NoBranch \notin lost /\ j \notin Attempts
  BY NotHeld, Names DEF Before
<1>4. Removed(s) \/ Moved(s, j)
  BY <1>1, <1>2, MoveDoes, CleanupFailedDoes DEF MovePooled
<1>5. CASE Removed(s)
  BY <1>2, <1>3, <1>5, RemovedPasses
<1>6. CASE Moved(s, j)
  BY <1>1, <1>2, <1>3, <1>6, MovedPasses
<1>7. QED
  BY <1>4, <1>5, <1>6

LEMMA RenamePasses ==
  ASSUME Before, NEW j \in Jobs, RenameBranch(j)
  PROVE  Passing({}) /\ BasesStay
<1>m. turn[j].pc = "rename" /\ turn[j].branch \in Attempts
  BY DEF RenameBranch, Before, ShapeInv
<1>1. PICK s \in Slots : s = turn[j].slot /\ s # j
  BY <1>m, RenamingIs DEF Before
<1>b. PICK b \in Attempts : b = turn[j].branch
  BY <1>m
<1>2. s \notin DOMAIN dirs /\ s \notin Jobs /\ s \notin Attempts /\ j \notin Slots
  BY <1>m, <1>1, Names DEF Before, DirInv, MovedInv
<1>3. \/ j \in DOMAIN dirs /\ RenameBranchInWorktree(j, s, b)
      \/ j \in DOMAIN dirs /\ MoveWorktree(j, s)
      \/ dirs' = dirs
  BY <1>1, <1>b DEF RenameBranch
<1>4. CASE j \in DOMAIN dirs /\ RenameBranchInWorktree(j, s, b)
  <2>1. dirs[j] \in Directories
    BY <1>4, TypesAre DEF Before, GitType
  <2>2. QED
    BY <1>2, <1>4, <2>1, RenameDoes, ChangedPasses
<1>5. CASE j \in DOMAIN dirs /\ MoveWorktree(j, s)
  <2>1. Moved(j, s)
    BY <1>1, <1>2, <1>5, MoveDoes
  <2>2. QED
    BY <1>1, <1>2, <1>5, <2>1, MovedPasses
<1>6. QED
  BY <1>3, <1>4, <1>5, SamePasses

LEMMA CreatePasses ==
  ASSUME Before, NEW j \in Jobs, CreateWorktree(j)
  PROVE  Passing({}) /\ BasesStay
<1>1. j \notin Attempts
  BY Names
<1>2. CASE j \notin DOMAIN dirs /\ AddWorktreeForBranch(j, turn[j].branch, origin)
  <2>1. /\ DOMAIN dirs' = DOMAIN dirs \cup {j} /\ Contents(DOMAIN dirs \ {j})
        /\ dirs'[j] = [branch |-> turn[j].branch, base |-> origin, work |-> NoBranch]
    BY <1>2 DEF AddWorktreeForBranch, With, Contents
  <2>2. QED
    BY <1>1, <1>2, <2>1, AddedPasses
<1>3. CASE dirs' = dirs
  BY <1>3, SamePasses
<1>4. QED
  BY <1>2, <1>3 DEF CreateWorktree

LEMMA RunPasses ==
  ASSUME Before, NEW j \in Jobs, RunCLI(j)
  PROVE  (Passing({}) \/ WorkDone(j)) /\ BasesStay
<1>1. turn[j].pc = "work" /\ turn[j].branch \in Attempts
  BY DEF RunCLI, Before, ShapeInv
<1>2. j \in DOMAIN dirs => dirs[j].work = NoBranch
  BY <1>1 DEF Before, DirInv, CleanInv
<1>3. NoBranch \notin lost /\ j \notin Slots
  BY NotHeld, Names DEF Before
<1>4. CASE dirs' = dirs
  BY <1>4, SamePasses
<1>5. CASE j \in DOMAIN dirs /\ dirs' = [dirs EXCEPT ![j].work = turn[j].branch]
  <2>1. /\ DOMAIN dirs' = DOMAIN dirs /\ \A q \in DOMAIN dirs : q # j => dirs'[q] = dirs[q]
        /\ dirs'[j] = [dirs[j] EXCEPT !.work = turn[j].branch]
    BY <1>5
  <2>2. dirs[j] \in Directories
    BY <1>5, TypesAre DEF Before, GitType
  <2>3. dirs'[j].work = turn[j].branch
    BY <2>1, <2>2 DEF Directories
  <2>4. lost \cap Worked \subseteq Worked'
    <3>1. SUFFICES ASSUME NEW q \in DOMAIN dirs, dirs[q].work \in lost
                   PROVE  dirs[q].work \in Worked'
      BY DEF Worked
    <3>2. q # j
      BY <1>2, <1>3, <3>1
    <3>3. q \in DOMAIN dirs' /\ dirs'[q].work = dirs[q].work
      BY <2>1, <3>2
    <3>4. QED
      BY <3>3 DEF Worked
  <2>5. WorkDone(j)
    BY <1>1, <1>5, <2>1, <2>3, <2>4 DEF WorkDone, Contents
  <2>6. QED
    BY <1>3, <2>1, <2>5 DEF BasesStay
<1>6. CASE CleanupJobWorktree(j, turn[j].branch)
  <2>1. dirs' = dirs \/ Removed(j)
    BY <1>6, CleanupJobDoes DEF SameGit
  <2>2. QED
    BY <1>2, <1>3, <2>1, SamePasses, RemovedPasses
<1>7. QED
  BY <1>4, <1>5, <1>6 DEF RunCLI

LEMMA TurnPasses ==
  ASSUME Before, HoldInv, NEW j \in Jobs, TurnStep(j)
  PROVE  /\ BasesStay
         /\ \/ Passing({}) \/ WorkDone(j)
            \/ Passing({<<j, attempts + 1>>}) /\ attempts' = attempts + 1
<1>1. CASE BeginConversation(j)
  BY <1>1, BeginPasses DEF BeginConversation
<1>2. CASE Pop(j) \/ UpdateJobData(j)
  BY <1>2, SamePasses DEF Pop, UpdateJobData, gitVars
<1>3. QED
  BY <1>1, <1>2, MovePasses, RenamePasses, CreatePasses, RunPasses DEF TurnStep

LEMMA StartPasses ==
  ASSUME Before, HoldInv, StartUp
  PROVE  Passing({}) /\ BasesStay
<1>1. CASE ReclaimPooled
  <2>1. PICK s \in Unclaimed : dirs' = dirs \/ RemoveAll(s) \/ RemoveWorktree(s)
    BY <1>1 DEF ReclaimPooled
  <2>2. s \in Slots /\ s \in DOMAIN dirs
    BY DEF Unclaimed
  <2>3. dirs[s].work = NoBranch
    BY <2>2 DEF Before, DirInv, PoolInv
  <2>4. dirs' = dirs \/ Removed(s)
    BY <2>1, RemoveIs
  <2>5. QED
    BY <2>3, <2>4, SamePasses, RemovedPasses, NotHeld DEF Before
<1>2. CASE CleanupStaleJobWorktrees
  <2>1. CASE hold
    BY <1>2, <2>1, SamePasses DEF CleanupStaleJobWorktrees
  <2>2. CASE ~hold
    <3>1. lost = {}
      BY <2>2 DEF HoldInv
    <3>2. DOMAIN dirs' \subseteq DOMAIN dirs /\ \A q \in DOMAIN dirs' : dirs'[q] = dirs[q]
      BY <1>2, <2>2 DEF CleanupStaleJobWorktrees, Without, Restrict
    <3>3. Worked' \subseteq Worked
      BY <3>2 DEF Worked
    <3>4. QED
      BY <3>1, <3>2, <3>3 DEF Passing, BasesStay
  <2>3. QED
    BY <2>1, <2>2
<1>3. CASE LoadState \/ StartPool \/ RecoverJobs \/ ClearHold
  BY <1>3, SamePasses DEF LoadState, StartPool, RecoverJobs, ClearHold
<1>4. QED
  BY <1>1, <1>2, <1>3 DEF StartUp

LEMMA OtherPasses ==
  ASSUME Before, HoldInv,
         \/ SweepStep \/ Crash \/ PushToDefault \/ UNCHANGED worktreeVars
         \/ \E j \in Jobs : Abandon(j) \/ CompleteIdle(j)
  PROVE  Passing({}) /\ BasesStay
<1>1. CASE SweepStep
  <2>1. CASE RemoveOrphan
    <3>1. PICK p \in sweep.paths : RemoveDirectory(p)
      BY <2>1 DEF RemoveOrphan
    <3>2. lost = {}
      BY <2>1 DEF HoldInv, RemoveOrphan
    <3>3. QED
      BY <3>1, <3>2, RemoveDirectoryDoes, RemovedPasses
  <2>2. CASE ListDirectories \/ ReadTrackedPaths \/ ListBranches \/ DeleteBranches
    BY <2>2, SamePasses DEF ListDirectories, ReadTrackedPaths, ListBranches, DeleteBranches
  <2>3. QED
    BY <1>1, <2>1, <2>2 DEF SweepStep
<1>2. ASSUME NEW j \in Jobs, Abandon(j) PROVE Passing({}) /\ BasesStay
  <2>1. dirs' = dirs \/ Removed(j)
    BY <1>2, CleanupJobDoes DEF SameGit, Abandon
  <2>2. j \in DOMAIN dirs => dirs[j].work \notin lost
    BY <1>2 DEF Abandon, HoldInv
  <2>3. QED
    BY <2>1, <2>2, SamePasses, RemovedPasses
<1>3. CASE \/ Crash \/ PushToDefault \/ UNCHANGED worktreeVars
           \/ \E j \in Jobs : CompleteIdle(j)
  BY <1>3, SamePasses DEF Crash, PushToDefault, worktreeVars, CompleteIdle, gitVars
<1>4. QED
  BY <1>1, <1>2, <1>3


-----------------------------------------------------------------------------
(* A worktree of the pool is not older than the pool says. *)

Counted == EntriesOf(ready) \cup EntriesOf(replenisher.recovered)

LEMMA CountedIs ==
  ASSUME Before
  PROVE  /\ \A e \in Counted : e.slot \in Slots /\ e.slot \in Pooling /\ e.base \in Commits
         /\ \A e \in Counted : e.slot \in DOMAIN dirs /\ dirs[e.slot].base \in Commits
<1>t. ready \in Seq(Pooled) /\ replenisher.recovered \in Seq(Pooled)
  BY TypesAre, ReplenisherIs DEF Before, PoolType
<1>1. \A e \in Counted : e.slot \in Slots /\ e.slot \in Pooling /\ e.base \in Commits
  <2>1. \A e \in Counted : e \in Pooled
    BY <1>t, EntriesAre DEF Counted
  <2>2. \A e \in Counted : e.slot \in Pooling
    BY <1>t, EntriesAre DEF Counted, Pooling
  <2>3. QED
    BY <2>1, <2>2 DEF Pooled
<1>2. \A e \in Counted : e.slot \in DOMAIN dirs
  BY <1>1 DEF Before, DirInv, PoolInv, Checked
<1>3. \A q \in DOMAIN dirs : dirs[q].base \in Commits
  BY TypesAre DEF Before, GitType, Directories
<1>4. QED
  BY <1>1, <1>2, <1>3

(* What is in the lists was there before, or is what the action says it is. *)
LEMMA CountedSteps ==
  ASSUME Before, [WorktreesNext]_worktreeVars
  PROVE  \/ Counted' \subseteq Counted
         \/ RefreshReset /\ ReplenisherStep
         \/ CreatePooled /\ ReplenisherStep
         \/ ReclaimPooled /\ StartUp
<1>t. /\ ready \in Seq(Pooled) /\ replenisher.recovered \in Seq(Pooled)
      /\ DOMAIN replenisher = {"pc", "then", "slot", "base", "stale", "recovered"}
      /\ DOMAIN IdleReplenisher = {"pc", "then", "slot", "base", "stale", "recovered"}
      /\ IdleReplenisher.recovered = <<>>
  BY TypesAre, ReplenisherIs, IdleIs DEF Before, PoolType, Replenishing
<1>g. ASSUME ready' \in {ready, <<>>}, replenisher'.recovered \in {replenisher.recovered, <<>>}
      PROVE  Counted' \subseteq Counted
  BY <1>g, NoEntries DEF Counted
<1>1. CASE RefreshTake
  <2> DEFINE T == {e \in Pooled : e.base = replenisher.base}
  <2>1. ready' = Keeping(ready, T)
    BY <1>1 DEF RefreshTake
  <2>2. EntriesOf(Keeping(ready, T)) = EntriesOf(ready) \cap T
    BY <1>t, KeepingEntries
  <2>3. replenisher'.recovered = replenisher.recovered
    BY <1>1, <1>t DEF RefreshTake
  <2> HIDE DEF T
  <2>4. QED
    BY <2>1, <2>2, <2>3 DEF Counted
<1>2. CASE RefreshReturn
  <2>1. ready' = ready \o replenisher.recovered /\ replenisher'.recovered = <<>>
    BY <1>2, <1>t DEF RefreshReturn
  <2>2. EntriesOf(ready') = EntriesOf(ready) \cup EntriesOf(replenisher.recovered)
    BY <1>t, <2>1, Joined
  <2>3. QED
    BY <2>1, <2>2, NoEntries DEF Counted
<1>3. CASE \/ RefreshFetch \/ FillBegin \/ FillLoop \/ CreateName \/ Replenish \/ RefreshTick
  <2>1. ready' = ready
    BY <1>3 DEF RefreshFetch, FillBegin, FillLoop, CreateName, Replenish, RefreshTick
  <2>2. replenisher'.recovered \in {replenisher.recovered, <<>>}
    <3>1. CASE RefreshFetch
      BY <1>t, <3>1 DEF RefreshFetch, GoOn
    <3>2. CASE FillBegin \/ FillLoop \/ Replenish \/ RefreshTick
      BY <1>t, <3>2 DEF FillBegin, FillLoop, Replenish, RefreshTick, GoOn, Rest, GiveUp
    <3>3. CASE CreateName
      BY <1>t, <3>3 DEF CreateName
    <3>4. QED
      BY <1>3, <3>1, <3>2, <3>3
  <2>3. QED
    BY <1>g, <2>1, <2>2
<1>4. ASSUME NEW j \in Jobs, TurnStep(j) PROVE Counted' \subseteq Counted
  <2>1. replenisher' = replenisher
    BY <1>4 DEF TurnStep
  <2>2. CASE Pop(j)
    <3>1. CASE ready' = ready
      BY <1>g, <2>1, <3>1
    <3>2. CASE ready # <<>> /\ ready' = Tail(ready)
      BY <1>t, <2>1, <3>2, Behead DEF Counted
    <3>3. QED
      BY <2>2, <3>1, <3>2 DEF Pop
  <2>3. CASE \/ BeginConversation(j) \/ MovePooled(j) \/ RenameBranch(j) \/ CreateWorktree(j)
             \/ UpdateJobData(j) \/ RunCLI(j)
    <3>1. ready' = ready
      BY <2>3 DEF BeginConversation, MovePooled, RenameBranch, CreateWorktree, UpdateJobData, RunCLI
    <3>2. QED
      BY <1>g, <2>1, <3>1
  <2>4. QED
    BY <1>4, <2>2, <2>3 DEF TurnStep
<1>5. CASE StartUp /\ ~ReclaimPooled
  <2>1. ready' = ready
    BY <1>5 DEF StartUp, LoadState, CleanupStaleJobWorktrees, StartPool, RecoverJobs, ClearHold
  <2>2. replenisher'.recovered \in {replenisher.recovered, <<>>}
    BY <1>5, <1>t DEF StartUp, LoadState, CleanupStaleJobWorktrees, StartPool, RecoverJobs, ClearHold
  <2>3. QED
    BY <1>g, <2>1, <2>2
<1>6. CASE \/ SweepStep \/ Crash \/ PushToDefault \/ UNCHANGED worktreeVars
           \/ \E j \in Jobs : Abandon(j) \/ CompleteIdle(j)
  <2>1. /\ ready' \in {ready, <<>>}
        /\ replenisher' \in {replenisher, IdleReplenisher}
    BY <1>6 DEF SweepStep, Crash, PushToDefault, worktreeVars, poolVars, Abandon, CompleteIdle
  <2>2. QED
    BY <1>g, <1>t, <2>1
<1>7. QED
  BY <1>1, <1>2, <1>3, <1>4, <1>5, <1>6 DEF WorktreesNext, ReplenisherStep

LEMMA FetchedKept ==
  ASSUME WorktreesTypeOK, WorktreesTypeOK', BaseInv, [WorktreesNext]_worktreeVars
  PROVE  (fetched <= origin /\ replenisher.base <= fetched)'
<1>t. /\ origin \in Nat /\ fetched \in Nat /\ replenisher.base \in Nat
      /\ origin' \in Nat /\ fetched' \in Nat
      /\ DOMAIN replenisher = {"pc", "then", "slot", "base", "stale", "recovered"}
      /\ DOMAIN IdleReplenisher = {"pc", "then", "slot", "base", "stale", "recovered"}
  <2>1. origin \in Commits /\ fetched \in Commits /\ replenisher \in Replenishing
        /\ replenisher.base \in Commits
    BY TypesAre, ReplenisherIs DEF PoolType, CountType
  <2>2. origin' \in Commits /\ fetched' \in Commits
    BY DEF WorktreesTypeOK
  <2>3. Commits \subseteq Nat
    BY WorktreeAssumption DEF Commits
  <2>4. QED
    BY <2>1, <2>2, <2>3, IdleIs DEF Replenishing
<1>b. fetched <= origin /\ replenisher.base <= fetched
  BY DEF BaseInv
<1>i. IdleReplenisher.base = 0
  BY DEF IdleReplenisher
<1>1. fetched' = fetched \/ fetched' = origin
  BY DEF WorktreesNext, ReplenisherStep, RefreshFetch, RefreshTake, RefreshReset, RefreshReturn,
     FillBegin, FillLoop, CreateName, CreatePooled, Replenish, RefreshTick, gitVars, worktreeVars,
     FetchOrigin, SweepStep, StartUp, Crash, PushToDefault, TurnStep, BeginConversation, Pop,
     MovePooled, RenameBranch, CreateWorktree, UpdateJobData, RunCLI, Abandon, CompleteIdle
<1>2. origin' = origin \/ origin' = origin + 1
  BY DEF WorktreesNext, ReplenisherStep, RefreshFetch, RefreshTake, RefreshReset, RefreshReturn,
     FillBegin, FillLoop, CreateName, CreatePooled, Replenish, RefreshTick, gitVars, worktreeVars,
     SweepStep, StartUp, Crash, PushToDefault, TurnStep, BeginConversation, Pop,
     MovePooled, RenameBranch, CreateWorktree, UpdateJobData, RunCLI, Abandon, CompleteIdle
<1>3. replenisher'.base \in {replenisher.base, 0, fetched} \/ replenisher'.base = fetched'
  <2>1. CASE RefreshFetch
    BY <1>t, <2>1 DEF RefreshFetch, GoOn, FetchOrigin
  <2>2. CASE RefreshTake \/ RefreshReturn
    BY <1>t, <2>2 DEF RefreshTake, RefreshReturn
  <2>3. CASE RefreshReset
    BY <1>t, <2>3 DEF RefreshReset
  <2>4. CASE FillBegin \/ FillLoop \/ CreatePooled \/ Replenish \/ RefreshTick
    BY <1>t, <1>i, <2>4 DEF FillBegin, FillLoop, CreatePooled, Replenish, RefreshTick, GoOn, Rest,
       GiveUp
  <2>5. CASE CreateName
    BY <1>t, <2>5 DEF CreateName
  <2>6. CASE StartUp \/ Crash
    BY <1>t, <1>i, <2>6 DEF StartUp, Crash, LoadState, CleanupStaleJobWorktrees, ReclaimPooled,
       StartPool, RecoverJobs, ClearHold
  <2>7. CASE \/ SweepStep \/ PushToDefault \/ UNCHANGED worktreeVars
             \/ \E j \in Jobs : TurnStep(j) \/ Abandon(j) \/ CompleteIdle(j)
    BY <2>7 DEF SweepStep, PushToDefault, worktreeVars, TurnStep, Abandon, CompleteIdle, poolVars
  <2>8. QED
    BY <2>1, <2>2, <2>3, <2>4, <2>5, <2>6, <2>7 DEF WorktreesNext, ReplenisherStep
<1>4. fetched <= fetched' /\ fetched' <= origin'
  BY <1>t, <1>b, <1>1, <1>2
<1>5. QED
  BY <1>t, <1>b, <1>3, <1>4

LEMMA BaseKept ==
  ASSUME Before, DirInv', HoldInv, BaseInv, [WorktreesNext]_worktreeVars
  PROVE  BaseInv'
<1>f. (fetched <= origin /\ replenisher.base <= fetched)'
  BY FetchedKept DEF Before
<1>b. /\ \A e \in Counted : e.base <= dirs[e.slot].base
      /\ replenisher.base <= fetched /\ fetched <= origin
  BY DEF BaseInv, Counted
<1>t. /\ ready \in Seq(Pooled) /\ replenisher.recovered \in Seq(Pooled)
      /\ replenisher.stale \in Seq(Pooled) /\ replenisher.base \in Commits /\ fetched \in Commits
      /\ DOMAIN replenisher = {"pc", "then", "slot", "base", "stale", "recovered"}
      /\ DOMAIN IdleReplenisher = {"pc", "then", "slot", "base", "stale", "recovered"}
      /\ IdleReplenisher.recovered = <<>>
  BY TypesAre, ReplenisherIs, IdleIs DEF Before, PoolType, Replenishing, CountType
<1>n. \A c \in Commits : c \in Nat
  BY WorktreeAssumption DEF Commits
<1>d. /\ ready' \in Seq(Pooled) /\ replenisher'.recovered \in Seq(Pooled)
      /\ \A e \in Counted' : e.slot \in Slots /\ e.slot \in DOMAIN dirs'
  <2>1. PoolType'
    BY TypesAre, PTL DEF Before
  <2>2. ready' \in Seq(Pooled) /\ replenisher' \in Replenishing
    BY <2>1 DEF PoolType
  <2>3. replenisher'.recovered \in Seq(Pooled)
    BY <2>2, ReplenisherIs
  <2>4. \A e \in Counted' : e \in Pooled
    BY <2>2, <2>3, EntriesAre DEF Counted
  <2>5. \A e \in Counted' : e.slot \in SlotsOf(ready') \cup SlotsOf(replenisher'.recovered)
    BY <2>2, <2>3, EntriesAre DEF Counted
  <2>6. \A s \in Slots : s \in SlotsOf(ready') \cup SlotsOf(replenisher'.recovered) =>
          s \in DOMAIN dirs'
    BY DEF DirInv, PoolInv, Pooling, Checked
  <2>7. QED
    BY <2>2, <2>3, <2>4, <2>5, <2>6 DEF Pooled
<1>g. SUFFICES \A e \in Counted' : e.base <= dirs'[e.slot].base
  BY <1>f DEF BaseInv, Counted
<1>1. CASE Counted' \subseteq Counted /\ BasesStay
  <2>1. \A e \in Counted' : dirs'[e.slot].base = dirs[e.slot].base
    BY <1>1, <1>d, CountedIs DEF BasesStay
  <2>2. QED
    BY <1>1, <1>b, <2>1
<1>2. CASE RefreshReset /\ ReplenisherStep
  <2> DEFINE h == Head(replenisher.stale)
             e1 == [h EXCEPT !.base = replenisher.base]
  <2>1. /\ h \in EntriesOf(replenisher.stale) /\ h \in Pooled
        /\ h.slot \in Slots /\ Checked(h.slot)
    BY <1>2, ResettingIs DEF RefreshReset, Before, DirInv
  <2>2. h.slot \in DOMAIN dirs /\ dirs[h.slot] \in Directories
    BY <2>1, TypesAre DEF Before, GitType, Checked
  <2>3. e1 \in Pooled /\ e1.slot = h.slot /\ e1.base = replenisher.base
    BY <1>t, <2>1 DEF Pooled
  <2>4. h.slot \in SlotsOf(replenisher.stale)
    BY <1>t, <2>1, EntriesAre
  <2>5. \A e \in Counted : e.slot # h.slot
    <3>1. h.slot \notin SlotsOf(ready) /\ h.slot \notin SlotsOf(replenisher.recovered)
      BY <2>4 DEF Before, HolderInv
    <3>2. QED
      BY <1>t, <3>1, EntriesAre DEF Counted
  <2>6. ready' = ready
    BY <1>2 DEF RefreshReset
  <2> HIDE DEF h, e1
  <2>7. CASE /\ ResetHardInWorktreeToRef(h.slot)
             /\ replenisher'.recovered = Append(replenisher.recovered, e1)
    <3>1. Counted' = Counted \cup {e1}
      BY <1>t, <2>3, <2>6, <2>7, Appended DEF Counted
    <3>2. dirs'[h.slot].base = fetched /\ Contents(DOMAIN dirs \ {h.slot})
      BY <2>2, <2>7, ResetDoes
    <3>3. e1.base <= dirs'[e1.slot].base
      BY <1>b, <2>3, <3>2
    <3>4. \A e \in Counted : dirs'[e.slot] = dirs[e.slot]
      BY <2>5, <3>2, CountedIs DEF Contents
    <3>5. QED
      BY <1>b, <3>1, <3>3, <3>4
  <2>8. CASE /\ CleanupFailedWorktree(h.slot)
             /\ replenisher'.recovered = replenisher.recovered
    <3>1. Counted' = Counted
      BY <2>6, <2>8 DEF Counted
    <3>2. Contents(DOMAIN dirs \ {h.slot})
      BY <2>8, CleanupFailedDoes DEF Removed
    <3>3. \A e \in Counted : dirs'[e.slot] = dirs[e.slot]
      BY <2>5, <3>2, CountedIs DEF Contents
    <3>4. QED
      BY <1>b, <3>1, <3>3
  <2>9. QED
    BY <1>2, <1>t, <2>7, <2>8 DEF RefreshReset, h, e1
<1>3. CASE CreatePooled /\ ReplenisherStep
  <2>1. PICK s \in Slots : s = replenisher.slot /\ s \notin DOMAIN dirs
    BY <1>3 DEF CreatePooled, Before, ShapeInv, NewInv
  <2>2. CASE /\ AddWorktreeForBranch(s, s, fetched)
             /\ ready' = Append(ready, [slot |-> s, base |-> replenisher.base])
             /\ replenisher'.recovered = replenisher.recovered
    <3>1. PICK e1 \in Pooled : e1 = [slot |-> s, base |-> replenisher.base]
      BY <1>t DEF Pooled
    <3>2. Counted' = Counted \cup {e1}
      BY <1>t, <2>2, <3>1, Appended DEF Counted
    <3>3. dirs'[s].base = fetched /\ Contents(DOMAIN dirs \ {s})
      BY <2>2 DEF AddWorktreeForBranch, With, Contents
    <3>4. e1.base <= dirs'[e1.slot].base
      BY <1>b, <3>1, <3>3
    <3>5. \A e \in Counted : dirs'[e.slot] = dirs[e.slot]
      BY <2>1, <3>3, CountedIs DEF Contents
    <3>6. QED
      BY <1>b, <3>2, <3>4, <3>5
  <2>3. CASE dirs' = dirs /\ ready' = ready /\ replenisher'.recovered = <<>>
    <3>1. Counted' \subseteq Counted
      BY <2>3, NoEntries DEF Counted
    <3>2. QED
      BY <1>b, <2>3, <3>1
  <2>4. QED
    BY <1>3, <1>t, <2>1, <2>2, <2>3 DEF CreatePooled, GiveUp, Rest
<1>4. CASE ReclaimPooled /\ StartUp
  <2>1. BasesStay
    BY <1>4, StartPasses
  <2>2. replenisher' = replenisher
    BY <1>4 DEF ReclaimPooled
  <2>3. CASE ready' = ready
    <3>1. Counted' \subseteq Counted
      BY <2>2, <2>3 DEF Counted
    <3>2. QED
      BY <1>1, <2>1, <3>1
  <2>4. CASE /\ dirs' = dirs
             /\ \E s \in Unclaimed : ready' = Append(ready, [slot |-> s, base |-> dirs[s].base])
    <3>1. PICK s \in Unclaimed : ready' = Append(ready, [slot |-> s, base |-> dirs[s].base])
      BY <2>4
    <3>2. s \in Slots /\ dirs[s].base \in Commits
      BY TypesAre DEF Unclaimed, Before, GitType, Directories
    <3>3. PICK e1 \in Pooled : e1 = [slot |-> s, base |-> dirs[s].base]
      BY <3>2 DEF Pooled
    <3>4. Counted' = Counted \cup {e1}
      BY <1>t, <2>2, <3>1, <3>3, Appended DEF Counted
    <3>5. e1.base <= dirs'[e1.slot].base
      BY <1>n, <2>4, <3>2, <3>3
    <3>6. QED
      BY <1>b, <2>4, <3>4, <3>5
  <2>5. QED
    BY <1>4, <2>3, <2>4 DEF ReclaimPooled
<1>5. CASE Counted' \subseteq Counted /\ ~(RefreshReset /\ ReplenisherStep)
  <2>1. BasesStay
    BY <1>5, ReplenisherPasses, TurnPasses, StartPasses, OtherPasses DEF WorktreesNext
  <2>2. QED
    BY <1>1, <1>5, <2>1
<1>6. QED
  BY <1>2, <1>3, <1>4, <1>5, CountedSteps


-----------------------------------------------------------------------------
(* Which conversations rows, turns, the clean-up and what was lost know. *)

Rows == {row[j] : j \in Jobs} \ {NoBranch}

LEMMA RowSteps ==
  ASSUME WorktreesTypeOK, [WorktreesNext]_worktreeVars, NEW j \in Jobs
  PROVE  \/ row'[j] = row[j] \/ row'[j] = NoBranch
         \/ turn[j].pc = "row" /\ row'[j] = turn[j].branch /\ turn'[j].pc = "work"
            /\ UpdateJobData(j)
<1>t. TurnType /\ turn \in [Jobs -> Preparing] /\ turn[j] \in Preparing
      /\ row \in [Jobs -> Attempts \cup {NoBranch}]
  BY TypesAre DEF TurnType
<1>1. ASSUME NEW k \in Jobs, UpdateJobData(k)
      PROVE  \/ row'[j] = row[j]
             \/ turn[j].pc = "row" /\ row'[j] = turn[j].branch /\ turn'[j].pc = "work" /\ k = j
  BY <1>t, <1>1 DEF UpdateJobData, Go, Preparing
<1>2. ASSUME NEW k \in Jobs, Abandon(k) \/ CompleteIdle(k)
      PROVE  row'[j] = row[j] \/ row'[j] = NoBranch
  BY <1>t, <1>2 DEF Abandon, CompleteIdle
<1>3. ASSUME NEW k \in Jobs, TurnStep(k), ~UpdateJobData(k)
      PROVE  row' = row
  BY <1>3 DEF TurnStep, BeginConversation, Pop, MovePooled, RenameBranch, CreateWorktree, RunCLI
<1>4. CASE StartUp
  BY <1>4 DEF StartUp, LoadState, CleanupStaleJobWorktrees, ReclaimPooled, StartPool, RecoverJobs,
     ClearHold
<1>5. CASE ReplenisherStep \/ SweepStep \/ Crash \/ PushToDefault \/ UNCHANGED worktreeVars
  BY <1>5 DEF ReplenisherStep, SweepStep, Crash, PushToDefault, worktreeVars
<1>6. QED
  BY <1>1, <1>2, <1>3, <1>4, <1>5 DEF WorktreesNext

LEMMA HoldSteps ==
  ASSUME [WorktreesNext]_worktreeVars
  PROVE  \/ hold' = hold /\ lost' = lost
         \/ hold' = FALSE /\ lost' = {} /\ sweep' = sweep
         \/ /\ hold' = TRUE /\ phase = "load" /\ lost' = Worked \ {NoBranch} /\ dirs' = dirs
            /\ \A j \in Jobs : row'[j] = NoBranch
            /\ sweep' = sweep /\ turn' = turn
<1>1. CASE LoadState /\ StartUp
  BY <1>1 DEF LoadState, StartUp, Worked
<1>2. CASE ClearHold /\ StartUp
  BY <1>2 DEF ClearHold, StartUp
<1>3. CASE StartUp /\ ~LoadState /\ ~ClearHold
  BY <1>3 DEF StartUp, CleanupStaleJobWorktrees, ReclaimPooled, StartPool, RecoverJobs
<1>4. CASE \/ ReplenisherStep \/ SweepStep \/ Crash \/ PushToDefault \/ UNCHANGED worktreeVars
           \/ \E j \in Jobs : TurnStep(j) \/ Abandon(j) \/ CompleteIdle(j)
  BY <1>4 DEF ReplenisherStep, SweepStep, Crash, PushToDefault, worktreeVars, TurnStep, Abandon,
     CompleteIdle
<1>5. QED
  BY <1>1, <1>2, <1>3, <1>4 DEF WorktreesNext

LEMMA SweepIs ==
  ASSUME WorktreesTypeOK
  PROVE  /\ DOMAIN sweep = {"pc", "paths", "names", "safe"} /\ sweep.safe \subseteq Attempts
         /\ DOMAIN NoSweep = {"pc", "paths", "names", "safe"}
         /\ NoSweep.safe = {} /\ NoSweep.pc = "idle" /\ NoSweep.paths = {} /\ NoSweep.names = {}
BY TypesAre DEF RestType, Sweeping, NoSweep

(* What the clean-up has seen is older than this step, or what rows track now. *)
LEMMA SafeSteps ==
  ASSUME WorktreesTypeOK, [WorktreesNext]_worktreeVars
  PROVE  \/ sweep' = sweep
         \/ sweep'.safe \in {sweep.safe, {}, Rows} /\ turn' = turn /\ row' = row /\ SweepStep
         \/ sweep' = NoSweep /\ Crash
<1>1. CASE SweepStep
  <2>1. sweep'.safe \in {sweep.safe, {}, Rows}
    <3>1. CASE ListDirectories \/ ListBranches
      BY <3>1, SweepIs DEF ListDirectories, ListBranches, Rows
    <3>2. CASE ReadTrackedPaths \/ RemoveOrphan \/ DeleteBranches
      BY <3>2, SweepIs DEF ReadTrackedPaths, RemoveOrphan, DeleteBranches
    <3>3. QED
      BY <1>1, <3>1, <3>2 DEF SweepStep
  <2>2. QED
    BY <1>1, <2>1 DEF SweepStep
<1>2. CASE Crash
  BY <1>2 DEF Crash
<1>3. CASE \/ ReplenisherStep \/ StartUp \/ PushToDefault \/ UNCHANGED worktreeVars
           \/ \E j \in Jobs : TurnStep(j) \/ Abandon(j) \/ CompleteIdle(j)
  BY <1>3 DEF ReplenisherStep, StartUp, PushToDefault, worktreeVars, TurnStep, Abandon,
     CompleteIdle
<1>4. QED
  BY <1>1, <1>2, <1>3 DEF WorktreesNext

(* A turn that has a branch had it before, or starts a new conversation. *)
LEMMA BranchSteps ==
  ASSUME WorktreesTypeOK, ShapeInv, [WorktreesNext]_worktreeVars, NEW j \in Jobs,
         turn'[j].pc # "none"
  PROVE  \/ /\ turn[j].pc # "none" /\ turn'[j].branch = turn[j].branch
            /\ turn'[j].pc # "work" => turn[j].pc # "work"
         \/ /\ turn'[j].branch = <<j, attempts + 1>> /\ attempts' = attempts + 1
            /\ row' = row /\ sweep' = sweep /\ lost' = lost
<1>t. TurnType /\ turn \in [Jobs -> Preparing]
  BY TypesAre DEF TurnType
<1>n. NoTurn.pc = "none"
  BY DEF NoTurn
<1>1. ASSUME NEW k \in Jobs, TurnStep(k)
      PROVE  \/ turn'[j] = turn[j]
             \/ turn[j].pc # "none" /\ turn'[j].branch = turn[j].branch
                /\ (turn'[j].pc # "work" => turn[j].pc # "work")
             \/ turn[j] = NoTurn /\ turn'[j].branch = <<j, attempts + 1>>
                /\ attempts' = attempts + 1 /\ k = j
  <2>1. CASE k # j
    BY <1>t, <1>1, <2>1, TurnMoves
  <2>2. CASE k = j
    <3>1. /\ \/ turn'[j] = turn[j]
             \/ turn[j] = NoTurn /\ turn'[j].branch = <<j, attempts + 1>>
                /\ attempts' = attempts + 1
             \/ turn'[j] = NoTurn
             \/ turn[j].pc \in {"pop", "move", "rename", "create", "row"}
                /\ turn'[j].branch = turn[j].branch
      BY <1>t, <1>1, <2>2, TurnMoves
    <3>2. QED
      BY <1>n, <2>2, <3>1
  <2>3. QED
    BY <2>1, <2>2
<1>2. ASSUME NEW k \in Jobs, TurnStep(k), turn[k] = NoTurn
      PROVE  row' = row /\ sweep' = sweep /\ lost' = lost
  BY <1>2, <1>n DEF TurnStep, BeginConversation, Pop, MovePooled, RenameBranch, CreateWorktree,
     UpdateJobData, RunCLI
<1>3. ASSUME turn' = turn PROVE turn[j].pc # "none" /\ turn'[j].branch = turn[j].branch
                                /\ (turn'[j].pc # "work" => turn[j].pc # "work")
  BY <1>3
<1>4. CASE Crash
  BY <1>4, <1>n DEF Crash
<1>5. CASE \/ ReplenisherStep \/ StartUp \/ PushToDefault \/ UNCHANGED worktreeVars \/ SweepStep
           \/ \E k \in Jobs : Abandon(k) \/ CompleteIdle(k)
  <2>1. turn' = turn
    BY <1>5 DEF ReplenisherStep, StartUp, PushToDefault, worktreeVars, SweepStep, Abandon,
       CompleteIdle
  <2>2. QED
    BY <1>3, <2>1
<1>6. QED
  BY <1>1, <1>2, <1>4, <1>5 DEF WorktreesNext

LEMMA AttemptsGrow ==
  ASSUME WorktreesTypeOK, [WorktreesNext]_worktreeVars
  PROVE  /\ attempts \in Nat /\ attempts' \in {attempts, attempts + 1}
         /\ \A b \in Attempts : b[2] \in Nat /\ b[1] \in Jobs
         /\ \A n \in Nat : n <= attempts => n <= attempts'
<1>1. attempts \in Nat /\ TurnType
  BY TypesAre, WorktreeAssumption DEF CountType
<1>2. \A b \in Attempts : b[2] \in Nat /\ b[1] \in Jobs
  BY WorktreeAssumption DEF Attempts
<1>3. attempts' \in {attempts, attempts + 1}
  <2>1. ASSUME NEW j \in Jobs, TurnStep(j) PROVE attempts' \in {attempts, attempts + 1}
    BY <1>1, <2>1, TurnMoves
  <2>2. CASE \/ ReplenisherStep \/ StartUp \/ PushToDefault \/ UNCHANGED worktreeVars \/ SweepStep
             \/ Crash \/ \E k \in Jobs : Abandon(k) \/ CompleteIdle(k)
    BY <2>2 DEF ReplenisherStep, StartUp, PushToDefault, worktreeVars, SweepStep, Abandon,
       CompleteIdle, Crash, budgetVars
  <2>3. QED
    BY <2>1, <2>2 DEF WorktreesNext
<1>4. QED
  BY <1>1, <1>2, <1>3

LEMMA WorkSteps ==
  ASSUME Before, HoldInv, [WorktreesNext]_worktreeVars
  PROVE  \/ Passing({})
         \/ \E j \in Jobs : WorkDone(j) /\ TurnStep(j)
         \/ \E j \in Jobs : Passing({<<j, attempts + 1>>}) /\ attempts' = attempts + 1
BY ReplenisherPasses, TurnPasses, StartPasses, OtherPasses DEF WorktreesNext

LEMMA FreshKept ==
  ASSUME Before, HoldInv, [WorktreesNext]_worktreeVars
  PROVE  FreshInv'
<1>a. /\ attempts \in Nat /\ attempts' \in {attempts, attempts + 1}
      /\ \A b \in Attempts : b[2] \in Nat /\ b[1] \in Jobs
      /\ \A n \in Nat : n <= attempts => n <= attempts'
  BY AttemptsGrow DEF Before
<1>t. TurnType /\ row \in [Jobs -> Attempts \cup {NoBranch}] /\ sweep.safe \subseteq Attempts
      /\ lost \subseteq Attempts /\ \A j \in Jobs : turn[j] \in Preparing
  BY TypesAre, SweepIs DEF Before, TurnType, RestType
<1>w. \A p \in DOMAIN dirs : dirs[p].work \in Attempts \cup {NoBranch}
  BY TypesAre DEF Before, GitType, Directories
<1>b. \A j \in Jobs : turn[j].pc # "none" =>
        turn[j].branch \in Attempts /\ turn[j].branch[1] = j /\ turn[j].branch[2] <= attempts
  BY DEF Before, ShapeInv
<1>f. FreshInv
  BY DEF Before
<1>1. ASSUME NEW p \in Attempts, p \in DOMAIN dirs' PROVE p[2] <= attempts'
  <2>1. p \in DOMAIN dirs \/ (p[2] = attempts + 1 /\ attempts' = attempts + 1)
    <3>1. CASE Passing({})
      BY <1>1, <3>1 DEF Passing
    <3>2. ASSUME NEW j \in Jobs, WorkDone(j) PROVE p \in DOMAIN dirs
      BY <1>1, <3>2 DEF WorkDone
    <3>3. ASSUME NEW j \in Jobs, Passing({<<j, attempts + 1>>}) /\ attempts' = attempts + 1
          PROVE  p \in DOMAIN dirs \/ (p[2] = attempts + 1 /\ attempts' = attempts + 1)
      BY <1>1, <3>3 DEF Passing
    <3>4. QED
      BY <3>1, <3>2, <3>3, WorkSteps
  <2>2. QED
    BY <1>a, <1>f, <2>1 DEF FreshInv
<1>2. ASSUME NEW p \in DOMAIN dirs', dirs'[p].work # NoBranch PROVE dirs'[p].work[2] <= attempts'
  <2>1. CASE Worked' \subseteq Worked \cup {NoBranch}
    <3>1. PICK q \in DOMAIN dirs : dirs'[p].work = dirs[q].work
      BY <1>2, <2>1 DEF Worked
    <3>2. dirs[q].work[2] \in Nat /\ dirs[q].work[2] <= attempts
      BY <1>2, <1>a, <1>f, <1>w, <3>1 DEF FreshInv
    <3>3. QED
      BY <1>a, <3>1, <3>2
  <2>2. ASSUME NEW j \in Jobs, WorkDone(j) PROVE dirs'[p].work[2] <= attempts'
    <3>1. CASE p = j
      BY <1>a, <1>b, <2>2, <3>1 DEF WorkDone
    <3>2. CASE p # j
      <4>1. p \in DOMAIN dirs /\ dirs'[p] = dirs[p]
        BY <2>2, <3>2 DEF WorkDone, Contents
      <4>2. dirs[p].work[2] \in Nat /\ dirs[p].work[2] <= attempts
        BY <1>2, <1>a, <1>f, <1>w, <4>1 DEF FreshInv
      <4>3. QED
        BY <1>a, <4>1, <4>2
    <3>3. QED
      BY <3>1, <3>2
  <2>3. QED
    BY <2>1, <2>2, WorkSteps DEF Passing
<1>3. ASSUME NEW j \in Jobs, row'[j] # NoBranch
      PROVE  row'[j][1] = j /\ row'[j][2] <= attempts' /\ row'[j] \in Attempts
  <2>1. row'[j] = row[j] \/ (turn[j].pc = "row" /\ row'[j] = turn[j].branch)
    BY <1>3, RowSteps DEF Before
  <2>2. CASE row'[j] = row[j]
    BY <1>3, <1>a, <1>t, <1>f, <2>2 DEF FreshInv
  <2>3. CASE turn[j].pc = "row" /\ row'[j] = turn[j].branch
    BY <1>a, <1>b, <2>3
  <2>4. QED
    BY <2>1, <2>2, <2>3
<1>4. \A b \in lost' \cup sweep'.safe : b[2] <= attempts'
  <2>1. ASSUME NEW b \in lost' PROVE b[2] <= attempts'
    <3>1. b \in lost \/ b \in Worked \ {NoBranch}
      BY <2>1, HoldSteps
    <3>2. b \in Attempts /\ b[2] <= attempts
      BY <1>t, <1>f, <1>w, <3>1 DEF FreshInv, Worked
    <3>3. QED
      BY <1>a, <3>2
  <2>2. ASSUME NEW b \in sweep'.safe PROVE b[2] <= attempts'
    <3>1. b \in sweep.safe \/ b \in Rows
      BY <2>2, SafeSteps, SweepIs DEF Before
    <3>2. b \in Attempts /\ b[2] <= attempts
      BY <1>t, <1>f, <3>1 DEF FreshInv, Rows
    <3>3. QED
      BY <1>a, <3>2
  <2>3. QED
    BY <2>1, <2>2
<1>5. ASSUME NEW j \in Jobs, turn'[j].pc \notin {"none", "work"}
      PROVE  row'[j] # turn'[j].branch /\ turn'[j].branch \notin sweep'.safe
  <2>1. CASE /\ turn[j].pc \notin {"none", "work"} /\ turn'[j].branch = turn[j].branch
    <3>1. /\ row[j] # turn[j].branch /\ turn[j].branch \notin sweep.safe
          /\ turn[j].branch \in Attempts /\ turn[j].branch[1] = j
      BY <1>b, <1>f, <2>1 DEF FreshInv
    <3>2. row'[j] # turn'[j].branch
      BY <1>5, <2>1, <3>1, RowSteps, Names DEF Before
    <3>3. turn[j].branch \notin Rows
      <4>1. SUFFICES ASSUME NEW k \in Jobs, row[k] = turn[j].branch PROVE FALSE
        BY DEF Rows
      <4>2. row[k][1] = k
        BY <3>1, <4>1, <1>f, Names DEF FreshInv
      <4>3. QED
        BY <3>1, <4>1, <4>2
    <3>4. turn'[j].branch \notin sweep'.safe
      BY <2>1, <3>1, <3>3, SafeSteps, SweepIs DEF Before
    <3>5. QED
      BY <3>2, <3>4
  <2>2. CASE /\ turn'[j].branch = <<j, attempts + 1>> /\ row' = row /\ sweep' = sweep
    <3>1. turn'[j].branch[2] = attempts + 1 /\ ~(attempts + 1 <= attempts)
      BY <1>a, <2>2
    <3>2. turn'[j].branch \notin sweep.safe
      BY <1>f, <3>1 DEF FreshInv
    <3>3. row[j] # turn'[j].branch
      <4>1. CASE row[j] = NoBranch
        <5>1. <<j, attempts + 1>> # NoBranch
          <6>1. (turn[j].branch \in Attempts)' /\ Attempts' = Attempts
            BY <1>5 DEF Before, ShapeInv, Attempts
          <6>2. QED
            BY <2>2, <6>1, Names
        <5>2. QED
          BY <2>2, <4>1, <5>1
      <4>2. CASE row[j] # NoBranch
        BY <1>f, <3>1, <4>2 DEF FreshInv
      <4>3. QED
        BY <4>1, <4>2
    <3>4. QED
      BY <2>2, <3>2, <3>3
  <2>3. QED
    BY <1>5, <2>1, <2>2, BranchSteps DEF Before
<1>6. ASSUME NEW j \in Jobs, turn'[j].pc # "none" PROVE turn'[j].branch \notin lost'
  <2>1. CASE turn[j].pc # "none" /\ turn'[j].branch = turn[j].branch
    <3>1. turn[j].branch \notin lost
      BY <1>f, <2>1 DEF FreshInv
    <3>2. phase # "load"
      BY <2>1 DEF Before, ShapeInv, NoTurn
    <3>3. lost' = lost \/ lost' = {}
      BY <3>2, HoldSteps
    <3>4. QED
      BY <2>1, <3>1, <3>3
  <2>2. CASE turn'[j].branch = <<j, attempts + 1>> /\ lost' = lost
    <3>1. turn'[j].branch[2] = attempts + 1 /\ ~(attempts + 1 <= attempts)
      BY <1>a, <2>2
    <3>2. QED
      BY <1>f, <2>2, <3>1 DEF FreshInv
  <2>3. QED
    BY <1>6, <2>1, <2>2, BranchSteps DEF Before
<1>7. QED
  BY <1>1, <1>2, <1>3, <1>4, <1>5, <1>6 DEF FreshInv


-----------------------------------------------------------------------------
(* What is held, and what the clean-up is about to remove. *)

LEMMA HoldKept ==
  ASSUME Before, HoldInv, [WorktreesNext]_worktreeVars
  PROVE  HoldInv'
<1>n. NoBranch \notin lost
  BY NotHeld DEF Before
<1>h. /\ ~hold => lost = {}
      /\ hold => sweep.pc \notin {"rows", "remove"}
      /\ \A j \in Jobs : row[j] # NoBranch /\ j \in DOMAIN dirs => dirs[j].work \notin lost
      /\ lost \subseteq Worked
  BY DEF HoldInv, HeldWorkSurvives, Worked
<1>f. \A j \in Jobs : turn[j].pc # "none" => turn[j].branch \notin lost
  BY DEF Before, FreshInv
<1>1. (~hold => lost = {})'
  BY <1>h, HoldSteps
<1>2. (hold => sweep.pc \notin {"rows", "remove"})'
  <2>1. sweep'.pc \in {"rows", "remove"} => sweep.pc \in {"rows", "remove"} \/ ~hold
    <3>1. CASE SweepStep
      <4>1. CASE ListDirectories
        BY <4>1 DEF ListDirectories
      <4>2. CASE ReadTrackedPaths \/ RemoveOrphan
        BY <4>2 DEF ReadTrackedPaths, RemoveOrphan
      <4>3. CASE ListBranches \/ DeleteBranches
        BY <4>3, SweepIs DEF ListBranches, DeleteBranches, Before
      <4>4. QED
        BY <3>1, <4>1, <4>2, <4>3 DEF SweepStep
    <3>2. CASE sweep' \in {sweep, NoSweep}
      BY <3>2, SweepIs DEF Before
    <3>3. QED
      BY <3>1, <3>2, SafeSteps DEF Before, Crash
  <2>2. CASE hold' = hold /\ lost' = lost
    BY <1>h, <2>1, <2>2
  <2>3. CASE hold' = TRUE /\ phase = "load" /\ sweep' = sweep
    <3>1. sweep'.pc = "idle"
      BY <2>3, SweepIs DEF Before, ShapeInv
    <3>2. QED
      BY <3>1
  <2>4. CASE hold' = FALSE
    BY <2>4
  <2>5. QED
    BY <2>2, <2>3, <2>4, HoldSteps
<1>3. ASSUME lost' \subseteq lost
      PROVE  /\ \A j \in Jobs : row'[j] # NoBranch /\ j \in DOMAIN dirs' => dirs'[j].work \notin lost'
             /\ lost' \subseteq Worked'
  <2>1. lost' \subseteq Worked'
    BY <1>3, <1>h, WorkSteps DEF Passing, WorkDone
  <2>2. ASSUME NEW j \in Jobs, row'[j] # NoBranch, j \in DOMAIN dirs' PROVE dirs'[j].work \notin lost'
    <3>1. j \in DOMAIN dirs => dirs[j].work \notin lost
      <4>1. CASE row[j] # NoBranch
        BY <1>h, <4>1
      <4>2. CASE turn[j].pc = "row"
        BY <1>n, <4>2 DEF Before, DirInv, CleanInv
      <4>3. QED
        BY <2>2, <4>1, <4>2, RowSteps DEF Before
    <3>2. ASSUME NEW A, Passing(A) PROVE dirs'[j].work \notin lost'
      BY <1>3, <1>n, <2>2, <3>1, <3>2 DEF Passing
    <3>3. ASSUME NEW k \in Jobs, WorkDone(k) PROVE dirs'[j].work \notin lost'
      <4>1. CASE k = j
        BY <1>3, <1>f, <3>3, <4>1 DEF WorkDone
      <4>2. CASE k # j
        <5>1. j \in DOMAIN dirs /\ dirs'[j] = dirs[j]
          BY <2>2, <3>3, <4>2 DEF WorkDone, Contents
        <5>2. QED
          BY <1>3, <3>1, <5>1
      <4>3. QED
        BY <4>1, <4>2
    <3>4. QED
      BY <3>2, <3>3, WorkSteps
  <2>3. QED
    BY <2>1, <2>2
<1>4. CASE lost' \subseteq lost
  <2>1. (HeldWorkSurvives)'
    BY <1>3, <1>4 DEF HeldWorkSurvives, Worked
  <2>2. QED
    BY <1>1, <1>2, <1>3, <1>4, <2>1 DEF HoldInv
<1>5. CASE /\ lost' = Worked \ {NoBranch} /\ dirs' = dirs /\ \A j \in Jobs : row'[j] = NoBranch
  <2>1. (HeldWorkSurvives)'
    BY <1>5 DEF HeldWorkSurvives, Worked
  <2>2. QED
    BY <1>1, <1>2, <1>5, <2>1 DEF HoldInv
<1>6. QED
  BY <1>4, <1>5, HoldSteps

LEMMA SweepKept ==
  ASSUME Before, SweepInv, [WorktreesNext]_worktreeVars
  PROVE  SweepInv'
<1>s. /\ DOMAIN sweep = {"pc", "paths", "names", "safe"} /\ sweep.safe \subseteq Attempts
      /\ DOMAIN NoSweep = {"pc", "paths", "names", "safe"}
      /\ NoSweep.safe = {} /\ NoSweep.pc = "idle" /\ NoSweep.paths = {} /\ NoSweep.names = {}
  BY SweepIs DEF Before
<1>i. /\ sweep.paths \cap Slots = {} /\ sweep.names \cap Slots = {}
      /\ sweep.pc = "remove" => \A j \in Jobs : row[j] \in sweep.safe => j \notin sweep.paths
  BY DEF SweepInv
<1>t. row \in [Jobs -> Attempts \cup {NoBranch}]
  BY TypesAre DEF Before, TurnType
<1>1. CASE SweepStep
  <2>1. row' = row
    BY <1>1 DEF SweepStep
  <2>2. CASE ListDirectories
    BY <1>s, <2>2 DEF ListDirectories, SweepInv
  <2>3. CASE ReadTrackedPaths
    <3>1. /\ sweep'.paths = sweep.paths \ {j \in Jobs : row[j] # NoBranch}
          /\ sweep'.names = sweep.names /\ sweep'.safe = sweep.safe
      BY <1>s, <2>3 DEF ReadTrackedPaths
    <3>2. ASSUME NEW j \in Jobs, row[j] \in sweep.safe PROVE j \notin sweep'.paths
      <4>1. row[j] # NoBranch
        BY <1>s, <3>2, Names
      <4>2. QED
        BY <3>1, <4>1
    <3>3. QED
      BY <1>i, <2>1, <3>1, <3>2 DEF SweepInv
  <2>4. CASE RemoveOrphan
    <3>1. /\ sweep'.paths \subseteq sweep.paths /\ sweep'.pc = sweep.pc
          /\ sweep'.names = sweep.names /\ sweep'.safe = sweep.safe
      BY <1>s, <2>4 DEF RemoveOrphan
    <3>2. QED
      BY <1>i, <2>1, <3>1 DEF SweepInv
  <2>5. CASE ListBranches
    BY <1>s, <2>5 DEF ListBranches, SweepInv
  <2>6. CASE DeleteBranches
    BY <1>s, <2>6 DEF DeleteBranches, SweepInv
  <2>7. QED
    BY <1>1, <2>2, <2>3, <2>4, <2>5, <2>6 DEF SweepStep
<1>2. CASE sweep' = NoSweep
  BY <1>s, <1>2 DEF SweepInv
<1>3. CASE sweep' = sweep
  <2>1. ASSUME NEW j \in Jobs, row'[j] \in sweep.safe PROVE row[j] \in sweep.safe
    <3>1. row'[j] # NoBranch
      BY <1>s, <2>1, Names
    <3>2. ~(turn[j].pc = "row" /\ row'[j] = turn[j].branch)
      BY <2>1 DEF Before, FreshInv
    <3>3. QED
      BY <2>1, <3>1, <3>2, RowSteps DEF Before
  <2>2. QED
    BY <1>3, <1>i, <2>1 DEF SweepInv
<1>4. QED
  BY <1>1, <1>2, <1>3, SafeSteps DEF Before

LEMMA ShapeKept ==
  ASSUME WorktreesTypeOK, ShapeInv, [WorktreesNext]_worktreeVars, WorktreesTypeOK'
  PROVE  ShapeInv'
<1>1. PhaseShape /\ PoolShape /\ \A j \in Jobs : TurnShape(j)
  BY ShapeIs
<1>2. PhaseShape'
  BY <1>1, PhaseShapeKept
<1>3. PoolShape'
  BY <1>1, PoolShapeKept, TypesAre
<1>4. \A j \in Jobs : TurnShape(j)'
  BY <1>1, TurnShapeKept
<1>5. (PhaseShape /\ PoolShape /\ \A j \in Jobs : TurnShape(j))'
  BY <1>2, <1>3, <1>4
<1>6. QED
  BY <1>5, ShapeIs, PTL

LEMMA StepKept ==
  ASSUME IInv, [WorktreesNext]_worktreeVars
  PROVE  IInv'
<1>i. /\ WorktreesTypeOK /\ ShapeInv /\ CountInv /\ HolderInv /\ NewInv /\ BaseInv /\ FreshInv
      /\ HoldInv /\ SweepInv /\ PoolInv /\ MovedInv /\ StrayInv /\ CleanInv
  BY DEF IInv
<1>1. WorktreesTypeOK'
  BY <1>i, TypeKept
<1>2. ShapeInv'
  BY <1>i, <1>1, ShapeKept
<1>3. Before
  BY <1>i, <1>1, <1>2 DEF Before, DirInv
<1>4. CountInv' /\ HolderInv'
  BY <1>i, CountKept, HolderKept
<1>5. DirInv' /\ NewInv'
  BY <1>i, <1>3, DirsKept, NewKept
<1>6. BaseInv'
  BY <1>i, <1>3, <1>5, BaseKept
<1>7. FreshInv' /\ HoldInv' /\ SweepInv'
  BY <1>i, <1>3, FreshKept, HoldKept, SweepKept
<1>8. PoolInv' /\ MovedInv' /\ StrayInv' /\ CleanInv'
  BY <1>5 DEF DirInv
<1>9. QED
  BY <1>1, <1>2, <1>4, <1>5, <1>6, <1>7, <1>8 DEF IInv


LEMMA Initially ==
  ASSUME WorktreesInit
  PROVE  IInv
<1>a. Target \in Nat \ {0} /\ MaxAttempts \in Nat /\ MaxPushes \in Nat /\ MaxFailures \in Nat
      /\ MaxCrashes \in Nat /\ NoSlot \notin Slots
  BY WorktreeAssumption
<1>e. dirs = <<>> /\ DOMAIN dirs = {} /\ \A q \in DOMAIN dirs : FALSE
  BY DEF WorktreesInit
<1>r. /\ replenisher = IdleReplenisher /\ replenisher.stale = <<>> /\ replenisher.recovered = <<>>
      /\ replenisher.base = 0 /\ replenisher.pc = "off" /\ replenisher.then = "wait"
      /\ ready = <<>> /\ replenisher.slot = NoSlot
  BY IdleIs DEF WorktreesInit, IdleReplenisher
<1>u. \A j \in Jobs : turn[j] = NoTurn /\ row[j] = NoBranch
  BY DEF WorktreesInit
<1>v. NoTurn.pc = "none" /\ NoTurn.slot = NoSlot
  BY DEF NoTurn
<1>s. sweep = NoSweep /\ NoSweep.pc = "idle" /\ NoSweep.paths = {} /\ NoSweep.names = {}
      /\ NoSweep.safe = {}
  BY DEF WorktreesInit, NoSweep
<1>p. Pooling = {} /\ EntriesOf(ready) = {} /\ EntriesOf(replenisher.recovered) = {}
  BY <1>r, NoEntries DEF Pooling
<1>c. Len(<<>>) = 0
  OBVIOUS
<1>1. WorktreesTypeOK
  <2>1. GitType
    BY <1>e DEF WorktreesInit, GitType
  <2>2. CountType
    BY <1>a DEF WorktreesInit, CountType, Commits
  <2>3. PoolType
    <3>1. <<>> \in Seq(Pooled)
      OBVIOUS
    <3>2. QED
      BY <3>1, IdleIs DEF WorktreesInit, PoolType
  <2>4. TurnType
    BY DEF WorktreesInit, TurnType, Preparing, NoTurn
  <2>5. RestType
    BY DEF WorktreesInit, RestType, Sweeping, NoSweep
  <2>6. Len(ready) <= Target
    BY <1>a, <1>c, <1>r
  <2>7. QED
    BY <2>1, <2>2, <2>3, <2>4, <2>5, <2>6, TypesAre
<1>2. ShapeInv
  BY <1>r, <1>u, <1>v, <1>s DEF ShapeInv
<1>3. CountInv
  <2>1. Len(ready) + Len(replenisher.stale) + Len(replenisher.recovered) = 0
    BY <1>c, <1>r
  <2>2. QED
    BY <1>a, <1>r, <2>1 DEF CountInv
<1>4. HolderInv
  BY <1>r, <1>u, <1>v, NoEntries DEF HolderInv
<1>5. PoolInv /\ NewInv /\ MovedInv /\ StrayInv /\ CleanInv
  BY <1>e, <1>p, <1>r, <1>u, <1>v DEF PoolInv, NewInv, MovedInv, StrayInv, CleanInv, Checked
<1>6. BaseInv
  BY <1>p, <1>r DEF BaseInv, WorktreesInit
<1>7. FreshInv
  BY <1>e, <1>s, <1>u, <1>v DEF FreshInv, WorktreesInit
<1>8. HoldInv /\ SweepInv
  BY <1>e, <1>s, <1>u DEF HoldInv, SweepInv, HeldWorkSurvives, WorktreesInit
<1>9. QED
  BY <1>1, <1>2, <1>3, <1>4, <1>5, <1>6, <1>7, <1>8 DEF IInv

(* Who holds what, what a pooled worktree is like, and what a turn starts in *)
(* are part of the inductive invariant.                                      *)
LEMMA HoldersAre ==
  ASSUME IInv
  PROVE  OneHolder
<1>t. ready \in Seq(Pooled) /\ replenisher.stale \in Seq(Pooled)
      /\ replenisher.recovered \in Seq(Pooled)
  BY TypesAre, ReplenisherIs DEF IInv, PoolType
<1>d. /\ DOMAIN ready = 1 .. Len(ready)
      /\ DOMAIN replenisher.stale = 1 .. Len(replenisher.stale)
      /\ DOMAIN replenisher.recovered = 1 .. Len(replenisher.recovered)
  BY <1>t
<1>s. \A s : {s[i].slot : i \in 1 .. Len(s)} = SlotsOf(s)
  BY DEF SlotsOf, EntriesOf
<1>h. /\ Distinct(ready) /\ SlotsOf(ready) \cap SlotsOf(replenisher.stale) = {}
      /\ SlotsOf(ready) \cap SlotsOf(replenisher.recovered) = {}
      /\ \A j \in Jobs : turn[j].slot # NoSlot =>
           turn[j].slot \notin Pooling /\ \A k \in Jobs : turn[k].slot = turn[j].slot => k = j
  BY DEF IInv, HolderInv
<1>1. PoolHolders.ready = SlotsOf(ready)
      /\ PoolHolders.refreshed = SlotsOf(replenisher.stale) \cup SlotsOf(replenisher.recovered)
  BY <1>d, <1>s DEF PoolHolders
<1>2. \A i, k \in DOMAIN ready : ready[i].slot = ready[k].slot => i = k
  BY <1>d, <1>h DEF Distinct
<1>3. PoolHolders.ready \cap PoolHolders.refreshed = {}
  BY <1>1, <1>h
<1>4. PoolHolders.ready \cup PoolHolders.refreshed = Pooling
  BY <1>1 DEF Pooling
<1>5. QED
  BY <1>h, <1>2, <1>3, <1>4 DEF OneHolder

LEMMA ReadyAre ==
  ASSUME IInv
  PROVE  ReadyIsUsable
<1>t. ready \in Seq(Pooled)
  BY TypesAre DEF IInv, PoolType
<1>1. SUFFICES ASSUME NEW i \in DOMAIN ready
               PROVE  LET s == ready[i].slot IN
                      /\ s \in DOMAIN dirs /\ s \in registered /\ s \in branches
                      /\ dirs[s].branch = s /\ dirs[s].work = NoBranch
                      /\ ready[i].base <= dirs[s].base
  BY DEF ReadyIsUsable
<1>2. PICK e \in Pooled : e = ready[i] /\ e \in EntriesOf(ready) /\ e.slot \in SlotsOf(ready)
  BY <1>t, EntriesAre
<1>3. e.slot \in Slots /\ e.slot \in Pooling
  BY <1>2 DEF Pooled, Pooling
<1>4. Checked(e.slot)
  BY <1>3 DEF IInv, PoolInv
<1>5. /\ e.slot \in DOMAIN dirs /\ e.slot \in registered /\ e.slot \in branches
      /\ dirs[e.slot].branch = e.slot /\ dirs[e.slot].work = NoBranch
  BY <1>3, <1>4 DEF IInv, PoolInv, Checked
<1>6. e.base <= dirs[e.slot].base
  BY <1>2 DEF IInv, BaseInv
<1>7. QED
  BY <1>2, <1>5, <1>6

LEMMA StartsAre ==
  ASSUME IInv
  PROVE  StartsClean /\ HeldWorkSurvives /\ WorktreesTypeOK
BY DEF IInv, CleanInv, StartsClean, HoldInv

(* A step of the clean-up spares what was tracked when it looked. *)
LEMMA SweepSpares ==
  ASSUME IInv, SweepStep, NEW j \in Jobs, row[j] \in sweep.safe
  PROVE  /\ j \in DOMAIN dirs => j \in DOMAIN dirs'
         /\ row[j] \in branches => row[j] \in branches'
<1>1. CASE RemoveOrphan
  <2>1. PICK p \in sweep.paths : RemoveDirectory(p)
    BY <1>1 DEF RemoveOrphan
  <2>2. Removed(p) /\ branches' = branches
    BY <1>1, <2>1, RemoveDirectoryDoes DEF RemoveOrphan
  <2>3. p # j
    BY <1>1, <2>1 DEF RemoveOrphan, IInv, SweepInv
  <2>4. QED
    BY <2>2, <2>3 DEF Removed
<1>2. CASE DeleteBranches
  BY <1>2 DEF DeleteBranches, DeletableOf
<1>3. CASE ListDirectories \/ ReadTrackedPaths \/ ListBranches
  BY <1>3 DEF ListDirectories, ReadTrackedPaths, ListBranches
<1>4. QED
  BY <1>1, <1>2, <1>3 DEF SweepStep

-----------------------------------------------------------------------------
(* The theorems. *)

LEMMA Inductive == WorktreesSpec => []IInv
<1>1. WorktreesInit => IInv
  BY Initially
<1>2. IInv /\ [WorktreesNext]_worktreeVars => IInv'
  BY StepKept
<1>3. QED
  BY <1>1, <1>2, PTL DEF WorktreesSpec

(* Directories, entries, branches, lists and turns are what they are meant  *)
(* to be, and the ready list never exceeds targetSize (worktree_pool.go:    *)
(* 47-97, 330-372), whatever is taken, refreshed and reclaimed meanwhile.   *)
THEOREM TypeCorrect == WorktreesSpec => []WorktreesTypeOK
<1>1. IInv => WorktreesTypeOK
  BY StartsAre
<1>2. QED
  BY <1>1, Inductive, PTL

(* Acquire takes the head of the list under the mutex and the refresh takes *)
(* the stale ones out of it (worktree_pool.go:118-183, 388-483): no two of   *)
(* them ever have the same worktree.                                         *)
THEOREM OneHolderEver == WorktreesSpec => []OneHolder
<1>1. IInv => OneHolder
  BY HoldersAre
<1>2. QED
  BY <1>1, Inductive, PTL

(* What Acquire can be handed is there, known to git, on its own branch,    *)
(* without anyone's work and not older than recorded (worktree_pool.go:118- *)
(* 183), whatever sweeps, failed resets and crashes have done to the rest.  *)
THEOREM ReadyUsableEver == WorktreesSpec => []ReadyIsUsable
<1>1. IInv => ReadyIsUsable
  BY ReadyAre
<1>2. QED
  BY <1>1, Inductive, PTL

(* A new conversation's CLI starts on the conversation's own branch, without *)
(* the work of an earlier one (PrepareForNewConversationWithWorktree).       *)
THEOREM StartsCleanEver == WorktreesSpec => []StartsClean
<1>1. IInv => StartsClean
  BY StartsAre
<1>2. QED
  BY <1>1, Inductive, PTL

(* While the hold is on, no start, turn, refresh or clean-up destroys the    *)
(* last copy of work whose rows were lost with the state file.               *)
THEOREM HeldWorkStays == WorktreesSpec => []HeldWorkSurvives
<1>1. IInv => HeldWorkSurvives
  BY StartsAre
<1>2. QED
  BY <1>1, Inductive, PTL

(* CleanupOrphanedWorktrees and CleanupStaleBranches never take the worktree *)
(* or the branch of a job that was tracked when they listed them and still   *)
(* is, whatever turns and abandoned branches do between listing and removal. *)
THEOREM SweepSparesTracked == WorktreesSpec => CleanupSparesTracked
<1> DEFINE Spares == \A j \in Jobs : row[j] \in sweep.safe =>
                       /\ j \in DOMAIN dirs => j \in DOMAIN dirs'
                       /\ row[j] \in branches => row[j] \in branches'
<1>1. IInv /\ [WorktreesNext]_worktreeVars => [SweepStep => Spares]_worktreeVars
  BY SweepSpares
<1>2. QED
  BY <1>1, Inductive, PTL DEF WorktreesSpec, CleanupSparesTracked

=============================================================================
