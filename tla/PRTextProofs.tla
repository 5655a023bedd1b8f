----------------------------- MODULE PRTextProofs -----------------------------
(***************************************************************************)
(* Proofs about PRText: types, that the footer stands once a turn has put  *)
(* it there, and that putting it back leaves one footer and all the words. *)
(*                                                                         *)
(* What the restoration makes of a description is computed line by line;   *)
(* the lemmas follow it through the three passes (lines are taken out,     *)
(* blank ones at the end cut off, the footer added) with an invariant each.*)
(***************************************************************************)
EXTENDS PRText, SequenceTheorems, WellFoundedInduction, TLAPS

-----------------------------------------------------------------------------
(* Induction on the naturals, as the least element of a set. *)

LEMMA Minimum ==
  ASSUME NEW R, IsWellFoundedOn(R, Nat), \A x, y \in Nat : x < y => <<x, y>> \in R,
         NEW S, S \subseteq Nat, S # {}
  PROVE  \E n \in S : \A m \in S : n <= m
<1>1. PICK n \in S : \A m \in S : ~(<<m, n>> \in R)
  BY WFMin, ZenonT(60)
<1>2. \A m \in S : ~(m < n)
  BY <1>1
<1>3. QED
  BY <1>2

LEMMA LeastElement ==
  ASSUME NEW S, S \subseteq Nat, S # {}
  PROVE  \E n \in S : \A m \in S : n <= m
<1>1. IsWellFoundedOn(OpToRel(<, Nat), Nat)
  BY NatLessThanWellFounded
<1>2. \A x, y \in Nat : x < y => <<x, y>> \in OpToRel(<, Nat)
  BY DEF OpToRel
<1>3. QED
  BY <1>1, <1>2, Minimum

(* A set with zero, and with every number one of whose predecessors it has, *)
(* has all numbers up to n.                                                *)
LEMMA Induction ==
  ASSUME NEW n \in Nat, NEW S, 0 \in S, \A i \in 1 .. n : i - 1 \in S => i \in S
  PROVE  \A i \in 0 .. n : i \in S
<1> SUFFICES ASSUME ~ \A i \in 0 .. n : i \in S PROVE FALSE
  OBVIOUS
<1> DEFINE B == {i \in 0 .. n : i \notin S}
<1>1. B \subseteq Nat /\ B # {}
  OBVIOUS
<1>2. PICK m \in B : \A i \in B : m <= i
  BY <1>1, LeastElement
<1>3. m \in 1 .. n /\ m \notin S
  BY <1>2
<1>4. m - 1 \in 0 .. n /\ m - 1 \notin B
  BY <1>2, <1>3
<1>5. QED
  BY <1>3, <1>4

-----------------------------------------------------------------------------
(* Functions defined from the value before.                                *)

Recursion(f, n, S, a, G) ==
  /\ f \in [0 .. n -> S]
  /\ f[0] = a
  /\ \A k \in 1 .. n : f[k] = G[<<k, f[k - 1]>>]

LEMMA RecursionExists ==
  ASSUME NEW n \in Nat, NEW S, NEW a \in S, NEW G,
         \A k \in 1 .. n : \A x \in S : G[<<k, x>>] \in S
  PROVE  \E f : Recursion(f, n, S, a, G)
<1> DEFINE I == {i \in Nat : \E f : Recursion(f, i, S, a, G)}
<1>1. 0 \in I
  <2>1. Recursion([i \in 0 .. 0 |-> a], 0, S, a, G)
    BY DEF Recursion
  <2>2. QED
    BY <2>1
<1>2. ASSUME NEW i \in 1 .. n, i - 1 \in I PROVE i \in I
  <2>1. PICK f : Recursion(f, i - 1, S, a, G)
    BY <1>2
  <2>2. PICK x \in S : x = G[<<i, f[i - 1]>>]
    <3>1. f[i - 1] \in S
      BY <2>1 DEF Recursion
    <3>2. QED
      BY <3>1
  <2> DEFINE g == [k \in 0 .. i |-> IF k = i THEN x ELSE f[k]]
  <2>3. g[i] = x /\ \A k \in 0 .. i - 1 : g[k] = f[k]
    OBVIOUS
  <2>4. g \in [0 .. i -> S]
    <3>1. \A k \in 0 .. i : k # i => k \in 0 .. i - 1
      OBVIOUS
    <3>2. \A k \in 0 .. i : (IF k = i THEN x ELSE f[k]) \in S
      BY <2>1, <3>1 DEF Recursion
    <3>3. QED
      BY <3>2
  <2> HIDE DEF g
  <2>5. g[0] = a
    BY <2>1, <2>3 DEF Recursion
  <2>6. ASSUME NEW k \in 1 .. i PROVE g[k] = G[<<k, g[k - 1]>>]
    <3>1. k - 1 \in 0 .. i - 1
      OBVIOUS
    <3>2. g[k - 1] = f[k - 1]
      BY <2>3, <3>1
    <3>3. CASE k = i
      BY <2>2, <2>3, <3>2, <3>3
    <3>4. CASE k # i
      <4>1. k \in 1 .. i - 1 /\ k \in 0 .. i - 1
        BY <3>4
      <4>2. f[k] = G[<<k, f[k - 1]>>]
        BY <2>1, <4>1 DEF Recursion
      <4>3. QED
        BY <2>3, <3>2, <4>1, <4>2
    <3>5. QED
      BY <3>3, <3>4
  <2>7. Recursion(g, i, S, a, G)
    BY <2>4, <2>5, <2>6 DEF Recursion
  <2>8. QED
    BY <2>7
<1> HIDE DEF I
<1>3. n \in I
  BY <1>1, <1>2, Induction
<1>4. QED
  BY <1>3 DEF I

-----------------------------------------------------------------------------
(* Taking lines out.                                                       *)

Plain == Words \cup {"blank", "rule"}

Accs == [kept : Seq(Plain), inFooterSection : BOOLEAN]

Start == [kept |-> <<>>, inFooterSection |-> FALSE]

\* One line is kept as it is, or goes with nothing but what marks a footer.
LEMMA CleanLineKeeps ==
  ASSUME NEW d, NEW acc \in Accs, NEW line \in Lines
  PROVE  /\ CleanLine(d, acc, line) \in Accs
         /\ \/ line \in Plain /\ CleanLine(d, acc, line).kept = Append(acc.kept, line)
            \/ line \notin Words /\ CleanLine(d, acc, line).kept = acc.kept
<1>1. acc.kept \in Seq(Plain) /\ acc.inFooterSection \in BOOLEAN
  BY DEF Accs
<1>2. CASE line \in Generated \cup {"claudeFooter"}
  <2>1. CleanLine(d, acc, line) = [acc EXCEPT !.inFooterSection = TRUE]
    BY <1>2, Zenon DEF CleanLine
  <2>2. line \notin Words
    BY <1>2 DEF Generated, Words
  <2>3. QED
    BY <1>1, <2>1, <2>2 DEF Accs
<1>3. CASE /\ line \notin Generated \cup {"claudeFooter"}
           /\ \/ line = "rule" /\ (acc.inFooterSection \/ IsFooterSeparator(d, Len(acc.kept)))
              \/ line = "blank" /\ acc.inFooterSection
  <2>1. CleanLine(d, acc, line) = acc
    BY <1>3, Zenon DEF CleanLine
  <2>2. line \notin Words
    BY <1>3 DEF Words
  <2>3. QED
    BY <2>1, <2>2
<1>4. CASE /\ line \notin Generated \cup {"claudeFooter"}
           /\ ~ \/ line = "rule" /\ (acc.inFooterSection \/ IsFooterSeparator(d, Len(acc.kept)))
                \/ line = "blank" /\ acc.inFooterSection
  <2>1. CleanLine(d, acc, line) = [acc EXCEPT !.kept = Append(@, line)]
    BY <1>4, Zenon DEF CleanLine
  <2>2. line \in Plain
    BY <1>4 DEF Lines, Plain
  <2>3. Append(acc.kept, line) \in Seq(Plain)
    BY <1>1, <2>2, AppendProperties
  <2>4. QED
    BY <1>1, <2>1, <2>2, <2>3 DEF Accs
<1>5. QED
  BY <1>2, <1>3, <1>4

Cleaning(d, f) ==
  f = [n \in 0 .. Len(d) |-> IF n = 0 THEN Start ELSE CleanLine(d, f[n - 1], d[n])]

LEMMA CleaningExists ==
  ASSUME NEW d \in Seq(Lines)
  PROVE  \E f : Cleaning(d, f)
<1>1. Len(d) \in Nat /\ \A k \in 1 .. Len(d) : d[k] \in Lines
  OBVIOUS
<1>2. Start \in Accs
  BY DEF Start, Accs
<1> DEFINE G == [p \in (1 .. Len(d)) \X Accs |-> CleanLine(d, p[2], d[p[1]])]
<1>3. \A k \in 1 .. Len(d) : \A x \in Accs : G[<<k, x>>] = CleanLine(d, x, d[k])
  OBVIOUS
<1> HIDE DEF G
<1>4. ASSUME NEW k \in 1 .. Len(d), NEW x \in Accs PROVE G[<<k, x>>] \in Accs
  <2>1. d[k] \in Lines
    BY <1>1
  <2>2. CleanLine(d, x, d[k]) \in Accs
    BY <2>1, CleanLineKeeps
  <2>3. QED
    BY <1>3, <2>2
<1>5. PICK f : Recursion(f, Len(d), Accs, Start, G)
  BY <1>1, <1>2, <1>4, RecursionExists
<1>6. \A n \in 0 .. Len(d) : f[n] = IF n = 0 THEN Start ELSE CleanLine(d, f[n - 1], d[n])
  <2> SUFFICES ASSUME NEW n \in 0 .. Len(d)
               PROVE  f[n] = IF n = 0 THEN Start ELSE CleanLine(d, f[n - 1], d[n])
    OBVIOUS
  <2>1. CASE n = 0
    BY <1>5, <2>1 DEF Recursion
  <2>2. CASE n # 0
    <3>1. n \in 1 .. Len(d) /\ n - 1 \in 0 .. Len(d)
      BY <1>1, <2>2
    <3>2. f[n] = G[<<n, f[n - 1]>>] /\ f[n - 1] \in Accs
      BY <1>5, <3>1 DEF Recursion
    <3>3. QED
      BY <1>3, <2>2, <3>1, <3>2
  <2>3. QED
    BY <2>1, <2>2
<1>7. f = [n \in 0 .. Len(d) |-> f[n]]
  BY <1>5 DEF Recursion
<1>8. Cleaning(d, f)
  BY <1>6, <1>7 DEF Cleaning
<1>9. QED
  BY <1>8

LEMMA CleanedSteps ==
  ASSUME NEW d \in Seq(Lines)
  PROVE  \E f : /\ Cleaned(d) = f[Len(d)].kept /\ f[0] = Start
                /\ \A n \in 1 .. Len(d) : f[n] = CleanLine(d, f[n - 1], d[n])
<1> DEFINE f == CHOOSE f : Cleaning(d, f)
<1>1. Cleaning(d, f)
  BY CleaningExists, Zenon
<1>2. Cleaned(d) = f[Len(d)].kept
  BY DEF Cleaned, Cleaning, Start
<1> HIDE DEF f
<1>3. Len(d) \in Nat
  OBVIOUS
<1>4. \A n \in 0 .. Len(d) : f[n] = IF n = 0 THEN Start ELSE CleanLine(d, f[n - 1], d[n])
  BY <1>1 DEF Cleaning
<1>5. f[0] = Start
  <2>1. 0 \in 0 .. Len(d)
    BY <1>3
  <2>2. QED
    BY <1>4, <2>1
<1>6. ASSUME NEW n \in 1 .. Len(d) PROVE f[n] = CleanLine(d, f[n - 1], d[n])
  <2>1. n \in 0 .. Len(d) /\ n # 0
    BY <1>3
  <2>2. QED
    BY <1>4, <2>1
<1>7. QED
  BY <1>2, <1>5, <1>6

-----------------------------------------------------------------------------
(* The words of a description.                                             *)

WordStep(words, line) == IF line \in Words THEN Append(words, line) ELSE words

Wording(d, f) ==
  f = [n \in 0 .. Len(d) |-> IF n = 0 THEN <<>> ELSE WordStep(f[n - 1], d[n])]

WordsUpTo(d, f) == f[0] = <<>> /\ \A n \in 1 .. Len(d) : f[n] = WordStep(f[n - 1], d[n])

LEMMA WordingExists ==
  ASSUME NEW d \in Seq(Lines)
  PROVE  \E f : Wording(d, f)
<1>1. Len(d) \in Nat /\ \A k \in 1 .. Len(d) : d[k] \in Lines
  OBVIOUS
<1> DEFINE S == Seq(Words)
<1>2. <<>> \in S
  OBVIOUS
<1>3. ASSUME NEW k \in 1 .. Len(d), NEW x \in S PROVE WordStep(x, d[k]) \in S
  BY AppendProperties DEF WordStep
<1> DEFINE G == [p \in (1 .. Len(d)) \X S |-> WordStep(p[2], d[p[1]])]
<1>4. \A k \in 1 .. Len(d) : \A x \in S : G[<<k, x>>] = WordStep(x, d[k])
  OBVIOUS
<1> HIDE DEF G, S
<1>5. \A k \in 1 .. Len(d) : \A x \in S : G[<<k, x>>] \in S
  BY <1>3, <1>4
<1>6. PICK f : Recursion(f, Len(d), S, <<>>, G)
  BY <1>1, <1>2, <1>5, RecursionExists
<1>7. \A n \in 0 .. Len(d) : f[n] = IF n = 0 THEN <<>> ELSE WordStep(f[n - 1], d[n])
  <2> SUFFICES ASSUME NEW n \in 0 .. Len(d)
               PROVE  f[n] = IF n = 0 THEN <<>> ELSE WordStep(f[n - 1], d[n])
    OBVIOUS
  <2>1. CASE n = 0
    BY <1>6, <2>1 DEF Recursion
  <2>2. CASE n # 0
    <3>1. n \in 1 .. Len(d) /\ n - 1 \in 0 .. Len(d)
      BY <1>1, <2>2
    <3>2. f[n] = G[<<n, f[n - 1]>>] /\ f[n - 1] \in S
      BY <1>6, <3>1 DEF Recursion
    <3>3. QED
      BY <1>4, <2>2, <3>1, <3>2
  <2>3. QED
    BY <2>1, <2>2
<1>8. f = [n \in 0 .. Len(d) |-> f[n]]
  BY <1>6 DEF Recursion
<1>9. Wording(d, f)
  BY <1>7, <1>8 DEF Wording
<1>10. QED
  BY <1>9

LEMMA WordsSteps ==
  ASSUME NEW d \in Seq(Lines)
  PROVE  \E f : WordsOf(d) = f[Len(d)] /\ WordsUpTo(d, f)
<1> DEFINE f == CHOOSE f : Wording(d, f)
<1>1. Wording(d, f)
  BY WordingExists, Zenon
<1>2. WordsOf(d) = f[Len(d)]
  BY DEF WordsOf, Wording, WordStep
<1> HIDE DEF f
<1>3. Len(d) \in Nat
  OBVIOUS
<1>4. \A n \in 0 .. Len(d) : f[n] = IF n = 0 THEN <<>> ELSE WordStep(f[n - 1], d[n])
  BY <1>1 DEF Wording
<1>5. f[0] = <<>>
  <2>1. 0 \in 0 .. Len(d)
    BY <1>3
  <2>2. QED
    BY <1>4, <2>1
<1>6. ASSUME NEW n \in 1 .. Len(d) PROVE f[n] = WordStep(f[n - 1], d[n])
  <2>1. n \in 0 .. Len(d) /\ n # 0
    BY <1>3
  <2>2. QED
    BY <1>4, <2>1
<1>7. QED
  BY <1>2, <1>5, <1>6 DEF WordsUpTo

(* Descriptions that begin alike have the same words so far. *)
LEMMA WordsAgree ==
  ASSUME NEW d \in Seq(Lines), NEW e \in Seq(Lines), NEW f, NEW g,
         WordsUpTo(d, f), WordsUpTo(e, g),
         NEW n \in Nat, n <= Len(d), n <= Len(e), \A i \in 1 .. n : d[i] = e[i]
  PROVE  f[n] = g[n]
<1> DEFINE I == {i \in Nat : f[i] = g[i]}
<1>1. 0 \in I
  BY DEF WordsUpTo
<1>2. ASSUME NEW i \in 1 .. n, i - 1 \in I PROVE i \in I
  <2>1. i \in 1 .. Len(d) /\ i \in 1 .. Len(e) /\ d[i] = e[i]
    OBVIOUS
  <2>2. f[i] = WordStep(f[i - 1], d[i]) /\ g[i] = WordStep(g[i - 1], e[i])
    BY <2>1 DEF WordsUpTo
  <2>3. QED
    BY <1>2, <2>1, <2>2
<1> HIDE DEF I
<1>3. \A i \in 0 .. n : i \in I
  BY <1>1, <1>2, Induction
<1>4. n \in I
  BY <1>3
<1>5. QED
  BY <1>4 DEF I

LEMMA WordsOfNone == WordsOf(<<>>) = <<>>
<1>1. <<>> \in Seq(Lines) /\ Len(<<>>) = 0
  OBVIOUS
<1>2. PICK f : WordsOf(<<>>) = f[Len(<<>>)] /\ WordsUpTo(<<>>, f)
  BY <1>1, WordsSteps
<1>3. QED
  BY <1>1, <1>2 DEF WordsUpTo

LEMMA WordsOfAppend ==
  ASSUME NEW d \in Seq(Lines), NEW line \in Lines
  PROVE  WordsOf(Append(d, line)) = WordStep(WordsOf(d), line)
<1> DEFINE e == Append(d, line)
<1>1. /\ e \in Seq(Lines) /\ Len(e) = Len(d) + 1 /\ Len(d) \in Nat
      /\ e[Len(d) + 1] = line /\ \A i \in 1 .. Len(d) : d[i] = e[i]
  BY AppendProperties
<1> HIDE DEF e
<1>2. PICK f : WordsOf(d) = f[Len(d)] /\ WordsUpTo(d, f)
  BY WordsSteps
<1>3. PICK g : WordsOf(e) = g[Len(e)] /\ WordsUpTo(e, g)
  BY <1>1, WordsSteps
<1>4. f[Len(d)] = g[Len(d)]
  BY <1>1, <1>2, <1>3, WordsAgree
<1>5. g[Len(d) + 1] = WordStep(g[Len(d) + 1 - 1], line)
  <2>1. Len(d) + 1 \in 1 .. Len(e)
    BY <1>1
  <2>2. QED
    BY <1>1, <1>3, <2>1 DEF WordsUpTo
<1>6. Len(d) + 1 - 1 = Len(d)
  BY <1>1
<1>7. WordsOf(e) = WordStep(WordsOf(d), line)
  BY <1>1, <1>2, <1>3, <1>4, <1>5, <1>6
<1>8. QED
  BY <1>7 DEF e

(* Lines at the end that are no words can go. *)
LEMMA WordsOfFront ==
  ASSUME NEW d \in Seq(Lines), NEW n \in 0 .. Len(d),
         \A i \in n + 1 .. Len(d) : d[i] \notin Words
  PROVE  WordsOf(SubSeq(d, 1, n)) = WordsOf(d)
<1> DEFINE e == SubSeq(d, 1, n)
<1>1. e \in Seq(Lines) /\ Len(e) = n /\ Len(d) \in Nat /\ \A i \in 1 .. n : d[i] = e[i]
  OBVIOUS
<1> HIDE DEF e
<1>2. PICK f : WordsOf(d) = f[Len(d)] /\ WordsUpTo(d, f)
  BY WordsSteps
<1>3. PICK g : WordsOf(e) = g[Len(e)] /\ WordsUpTo(e, g)
  BY <1>1, WordsSteps
<1>4. f[n] = g[n]
  BY <1>1, <1>2, <1>3, WordsAgree
<1> DEFINE I == {i \in Nat : i >= n => f[i] = f[n]}
<1>5. 0 \in I
  <2>1. 0 >= n => 0 = n
    OBVIOUS
  <2>2. QED
    BY <2>1
<1>6. ASSUME NEW i \in 1 .. Len(d), i - 1 \in I PROVE i \in I
  <2>1. CASE i <= n
    <3>1. i >= n => i = n
      BY <2>1
    <3>2. QED
      BY <3>1
  <2>2. CASE i > n
    <3>1. f[i] = WordStep(f[i - 1], d[i])
      BY <1>2 DEF WordsUpTo
    <3>2. d[i] \notin Words /\ i - 1 >= n
      BY <2>2
    <3>3. QED
      BY <1>6, <3>1, <3>2 DEF WordStep
  <2>3. QED
    BY <2>1, <2>2
<1> HIDE DEF I
<1>7. \A i \in 0 .. Len(d) : i \in I
  BY <1>1, <1>5, <1>6, Induction
<1>8. f[Len(d)] = f[n]
  <2>1. Len(d) \in I /\ Len(d) >= n
    BY <1>1, <1>7
  <2>2. QED
    BY <2>1 DEF I
<1>9. WordsOf(e) = WordsOf(d)
  BY <1>1, <1>2, <1>3, <1>4, <1>8
<1>10. QED
  BY <1>9 DEF e

-----------------------------------------------------------------------------
(* The three passes.                                                       *)

LEMMA PlainLines == Plain \subseteq Lines /\ Seq(Plain) \subseteq Seq(Lines)
  BY DEF Plain, Lines

LEMMA CleanedKeepsWords ==
  ASSUME NEW d \in Seq(Lines)
  PROVE  Cleaned(d) \in Seq(Plain) /\ WordsOf(Cleaned(d)) = WordsOf(d)
<1>1. Len(d) \in Nat /\ \A k \in 1 .. Len(d) : d[k] \in Lines
  OBVIOUS
<1>2. PICK f : /\ Cleaned(d) = f[Len(d)].kept /\ f[0] = Start
               /\ \A n \in 1 .. Len(d) : f[n] = CleanLine(d, f[n - 1], d[n])
  BY CleanedSteps
<1>3. PICK g : WordsOf(d) = g[Len(d)] /\ WordsUpTo(d, g)
  BY WordsSteps
<1> DEFINE I == {i \in Nat : f[i] \in Accs /\ WordsOf(f[i].kept) = g[i]}
<1>4. 0 \in I
  <2>1. Start \in Accs /\ Start.kept = <<>>
    BY DEF Start, Accs
  <2>2. QED
    BY <1>2, <1>3, <2>1, WordsOfNone DEF WordsUpTo
<1>5. ASSUME NEW i \in 1 .. Len(d), i - 1 \in I PROVE i \in I
  <2>1. PICK acc \in Accs : acc = f[i - 1] /\ WordsOf(acc.kept) = g[i - 1]
    BY <1>5
  <2>2. PICK line \in Lines : line = d[i]
    BY <1>1
  <2>3. f[i] = CleanLine(d, acc, line) /\ g[i] = WordStep(WordsOf(acc.kept), line)
    BY <1>2, <1>3, <2>1, <2>2 DEF WordsUpTo
  <2>4. acc.kept \in Seq(Lines)
    BY PlainLines DEF Accs
  <2>5. /\ CleanLine(d, acc, line) \in Accs
        /\ \/ CleanLine(d, acc, line).kept = Append(acc.kept, line)
           \/ line \notin Words /\ CleanLine(d, acc, line).kept = acc.kept
    BY CleanLineKeeps
  <2>6. WordsOf(CleanLine(d, acc, line).kept) = WordStep(WordsOf(acc.kept), line)
    <3>1. CASE CleanLine(d, acc, line).kept = Append(acc.kept, line)
      BY <2>4, <3>1, WordsOfAppend
    <3>2. CASE line \notin Words /\ CleanLine(d, acc, line).kept = acc.kept
      BY <3>2 DEF WordStep
    <3>3. QED
      BY <2>5, <3>1, <3>2
  <2>7. QED
    BY <2>3, <2>5, <2>6
<1> HIDE DEF I
<1>6. Len(d) \in I
  <2>1. \A i \in 0 .. Len(d) : i \in I
    BY <1>1, <1>4, <1>5, Induction
  <2>2. QED
    BY <1>1, <2>1
<1>7. f[Len(d)] \in Accs /\ WordsOf(f[Len(d)].kept) = g[Len(d)]
  BY <1>6 DEF I
<1>8. QED
  BY <1>2, <1>3, <1>7 DEF Accs

LEMMA TrimmedKeepsWords ==
  ASSUME NEW d \in Seq(Plain)
  PROVE  WithoutTrailingBlanks(d) \in Seq(Plain) /\ WordsOf(WithoutTrailingBlanks(d)) = WordsOf(d)
<1>1. Len(d) \in Nat
  OBVIOUS
<1> DEFINE B == {n \in 0 .. Len(d) : \A i \in n + 1 .. Len(d) : d[i] = "blank"}
           Fits(n) == (n > 0 => d[n] # "blank") /\ (\A i \in n + 1 .. Len(d) : d[i] = "blank")
<1>2. Len(d) \in B
  BY <1>1
<1>3. PICK m \in B : \A n \in B : m <= n
  <2>1. B \subseteq Nat /\ B # {}
    BY <1>2
  <2> HIDE DEF B
  <2>2. QED
    BY <2>1, LeastElement
<1>4. m > 0 => d[m] # "blank"
  <2> SUFFICES ASSUME m > 0, d[m] = "blank" PROVE FALSE
    OBVIOUS
  <2>1. m - 1 \in 0 .. Len(d) /\ ~(m <= m - 1)
    BY <1>1
  <2>2. \A i \in (m - 1) + 1 .. Len(d) : d[i] = "blank"
    <3>1. \A i \in (m - 1) + 1 .. Len(d) : i = m \/ i \in m + 1 .. Len(d)
      BY <1>1
    <3>2. QED
      BY <3>1
  <2>3. m - 1 \in B
    BY <2>1, <2>2
  <2>4. QED
    BY <1>3, <2>1, <2>3
<1>5. \E n \in 0 .. Len(d) : Fits(n)
  BY <1>4
<1> DEFINE c == CHOOSE n \in 0 .. Len(d) : Fits(n)
<1>6. c \in 0 .. Len(d) /\ Fits(c)
  BY <1>5, Zenon
<1>7. WithoutTrailingBlanks(d) = SubSeq(d, 1, c)
  BY DEF WithoutTrailingBlanks
<1> HIDE DEF c
<1>8. \A i \in c + 1 .. Len(d) : d[i] \notin Words
  BY <1>6 DEF Words
<1>9. SubSeq(d, 1, c) \in Seq(Plain)
  BY <1>6
<1>10. WordsOf(SubSeq(d, 1, c)) = WordsOf(d)
  BY <1>6, <1>8, PlainLines, WordsOfFront
<1>11. QED
  BY <1>7, <1>9, <1>10

(* The footer comes after a rule, which comes after the words. *)
LEMMA FooterAdded ==
  ASSUME NEW d \in Seq(Plain)
  PROVE  \E e \in Seq(Plain) :
           /\ WithFooter(d) = Append(e, "footer")
           /\ Len(e) > 0 /\ e[Len(e)] = "rule"
           /\ WordsOf(e) = WordsOf(d)
<1>1. Len(d) \in Nat /\ "rule" \in Plain /\ "blank" \in Plain /\ d \in Seq(Lines)
  BY PlainLines DEF Plain
<1>2. "rule" \notin Words /\ "blank" \notin Words /\ "rule" \in Lines /\ "blank" \in Lines
  BY DEF Words, Lines
<1>3. CASE d = <<>>
  <2> DEFINE e == Append(d, "rule")
  <2>1. e \in Seq(Plain) /\ Len(e) > 0 /\ e[Len(e)] = "rule"
    BY <1>1
  <2>2. WithFooter(d) = Append(e, "footer")
    BY <1>3 DEF WithFooter
  <2>3. WordsOf(e) = WordsOf(d)
    BY <1>1, <1>2, WordsOfAppend DEF WordStep
  <2>4. QED
    BY <2>1, <2>2, <2>3
<1>4. CASE d # <<>> /\ Last(d) = "rule"
  <2>1. Len(d) > 0 /\ d[Len(d)] = "rule"
    BY <1>1, <1>4 DEF Last
  <2>2. WithFooter(d) = d \o <<"footer">>
    BY <1>4 DEF WithFooter
  <2>3. d \o <<"footer">> = Append(d, "footer")
    BY <1>1
  <2>4. QED
    BY <2>1, <2>2, <2>3
<1>5. CASE d # <<>> /\ Last(d) # "rule"
  <2> DEFINE b == Append(d, "blank")
             e == Append(b, "rule")
  <2>1. WithFooter(d) = d \o <<"blank", "rule", "footer">>
    BY <1>5 DEF WithFooter
  <2>2. b \in Seq(Plain) /\ b \in Seq(Lines)
    BY <1>1, PlainLines
  <2>3. e \in Seq(Plain) /\ Len(e) > 0 /\ e[Len(e)] = "rule"
    BY <1>1, <2>2
  <2>4. d \o <<"blank", "rule", "footer">> = Append(e, "footer")
    BY <1>1
  <2>5. WordsOf(b) = WordsOf(d)
    BY <1>1, <1>2, WordsOfAppend DEF WordStep
  <2> HIDE DEF b
  <2>6. WordsOf(e) = WordsOf(b)
    BY <1>2, <2>2, WordsOfAppend DEF WordStep
  <2>7. QED
    BY <2>1, <2>3, <2>4, <2>5, <2>6
<1>6. QED
  BY <1>3, <1>4, <1>5

(* What restoring a footer comes to. *)
LEMMA Restored ==
  ASSUME NEW d \in Seq(Lines), ~HasFooter(d)
  PROVE  \E e \in Seq(Plain) :
           /\ ValidateAndRestorePRDescriptionFooter(d) = Append(e, "footer")
           /\ Len(e) > 0 /\ e[Len(e)] = "rule"
           /\ WordsOf(e) = WordsOf(d)
<1>1. Cleaned(d) \in Seq(Plain) /\ WordsOf(Cleaned(d)) = WordsOf(d)
  BY CleanedKeepsWords
<1>2. PICK c \in Seq(Plain) : c = Cleaned(d)
  BY <1>1
<1>3. WithoutTrailingBlanks(c) \in Seq(Plain) /\ WordsOf(WithoutTrailingBlanks(c)) = WordsOf(c)
  BY TrimmedKeepsWords
<1>4. PICK b \in Seq(Plain) : b = WithoutTrailingBlanks(c)
  BY <1>3
<1>5. PICK e \in Seq(Plain) :
        /\ WithFooter(b) = Append(e, "footer")
        /\ Len(e) > 0 /\ e[Len(e)] = "rule"
        /\ WordsOf(e) = WordsOf(b)
  BY FooterAdded
<1>6. ValidateAndRestorePRDescriptionFooter(d) = WithFooter(b)
  BY <1>2, <1>4 DEF ValidateAndRestorePRDescriptionFooter
<1>7. QED
  BY <1>1, <1>2, <1>3, <1>4, <1>5, <1>6

LEMMA RestoredHasFooter ==
  ASSUME NEW d \in Seq(Lines)
  PROVE  /\ ValidateAndRestorePRDescriptionFooter(d) \in Seq(Lines)
         /\ HasFooter(ValidateAndRestorePRDescriptionFooter(d))
<1>1. CASE HasFooter(d)
  BY <1>1 DEF ValidateAndRestorePRDescriptionFooter
<1>2. CASE ~HasFooter(d)
  <2>1. PICK e \in Seq(Plain) :
          /\ ValidateAndRestorePRDescriptionFooter(d) = Append(e, "footer")
          /\ Len(e) > 0 /\ e[Len(e)] = "rule"
    BY <1>2, Restored
  <2>2. e \in Seq(Lines) /\ "footer" \in Lines /\ Len(e) \in Nat
    BY PlainLines DEF Lines, Generated
  <2> DEFINE r == Append(e, "footer")
  <2>3. /\ r \in Seq(Lines) /\ DOMAIN r = 1 .. Len(e) + 1
        /\ r[Len(e)] = "rule" /\ r[Len(e) + 1] = "footer"
    BY <2>1, <2>2
  <2> HIDE DEF r
  <2>4. HasFooter(r)
    <3>1. /\ Len(e) \in DOMAIN r /\ Len(e) + 1 \in DOMAIN r /\ Len(e) < Len(e) + 1
          /\ \A b \in Len(e) + 1 .. (Len(e) + 1) - 1 : r[b] = "blank"
      BY <2>1, <2>2, <2>3
    <3>2. QED
      BY <2>3, <3>1 DEF HasFooter
  <2>5. QED
    BY <2>1, <2>3, <2>4 DEF r
<1>3. QED
  BY <1>1, <1>2

-----------------------------------------------------------------------------
(* The invariant: types, and that a turn at work has not settled anything. *)

Upkeeps ==
  [pc : {"idle", "generate", "readAgain", "overflow", "title", "body", "footerRead",
         "footerWrite"},
   current : Seq(Lines), read : Seq(Lines), title : Titles \cup {"long"}, body : Seq(Lines)]

TypeInv ==
  /\ title \in Titles /\ body \in Seq(Lines) /\ upkeep \in Upkeeps
  /\ updatesLeft \in 0 .. MaxUpdates /\ editsLeft \in 0 .. MaxEdits /\ settled \in BOOLEAN

IInv ==
  /\ TypeInv
  /\ upkeep.pc # "idle" => ~settled
  /\ FooterStands

LEMMA TypeCorrectness == TypeInv => PRTextTypeOK
  BY DEF TypeInv, PRTextTypeOK, Upkeeps

LEMMA IdleIs == Idle \in Upkeeps /\ Idle.pc = "idle"
  BY DEF Idle, Upkeeps, Titles

LEMMA InitInv == PRTextInit => IInv
<1> SUFFICES ASSUME PRTextInit PROVE IInv
  OBVIOUS
<1>1. body \in Seq(Lines)
  <2>1. PICK n \in 0 .. MaxLines : body \in [1 .. n -> Lines \ {"overflow"}]
    BY DEF PRTextInit
  <2>2. n \in Nat /\ body \in [1 .. n -> Lines]
    BY <2>1, PRTextAssumption
  <2>3. QED
    BY <2>2
<1>2. TypeInv
  <2>1. title \in Titles /\ settled \in BOOLEAN
    BY DEF PRTextInit, Titles
  <2>2. upkeep \in Upkeeps
    BY IdleIs DEF PRTextInit
  <2>3. updatesLeft \in 0 .. MaxUpdates /\ editsLeft \in 0 .. MaxEdits
    BY PRTextAssumption DEF PRTextInit
  <2>4. QED
    BY <1>1, <2>1, <2>2, <2>3 DEF TypeInv
<1>3. ~settled
  BY DEF PRTextInit
<1>4. QED
  BY <1>2, <1>3 DEF IInv, FooterStands

(* The steps of a turn before its last leave nothing settled. *)

LEMMA LineKinds ==
  {"words", "overflow", "footer", "oldFooter", "claudeFooter", "blank", "rule"} = Lines
  BY DEF Lines, Words, Generated

LEMMA StartsInv ==
  ASSUME IInv, StartUpdate \/ StartValidation
  PROVE  IInv'
<1>1. settled' = FALSE /\ title' = title /\ body' = body /\ editsLeft' = editsLeft
  BY DEF StartUpdate, StartValidation
<1>2. updatesLeft' \in 0 .. MaxUpdates
  BY PRTextAssumption DEF IInv, TypeInv, StartUpdate, StartValidation
<1>3. upkeep' \in Upkeeps
  BY DEF IInv, TypeInv, Upkeeps, StartUpdate, StartValidation, Goto
<1>4. QED
  BY <1>1, <1>2, <1>3 DEF IInv, TypeInv, FooterStands

LEMMA GenerateInv ==
  ASSUME IInv, GenerateTexts
  PROVE  IInv'
<1>1. /\ ~settled /\ settled' = settled /\ title' = title /\ body' = body
      /\ editsLeft' = editsLeft /\ updatesLeft' = updatesLeft
  BY DEF IInv, GenerateTexts, UpkeepAt
<1>2. upkeep' \in Upkeeps
  <2>1. PICK t \in {"short", "other", "long"}, text \in {<<"words">>, <<"words", "rule", "words">>} :
          upkeep' = [upkeep EXCEPT !.title = t, !.body = text \o <<"blank", "rule", "footer">>,
                                   !.pc = IF t # title THEN "readAgain" ELSE "body"]
    BY DEF GenerateTexts
  <2>2. text \in Seq(Lines) /\ <<"blank", "rule", "footer">> \in Seq(Lines)
    <3>1. /\ "words" \in Lines /\ "rule" \in Lines /\ "blank" \in Lines /\ "footer" \in Lines
      BY LineKinds
    <3>2. /\ <<"words">> \in Seq(Lines) /\ <<"words", "rule", "words">> \in Seq(Lines)
          /\ <<"blank", "rule", "footer">> \in Seq(Lines)
      BY <3>1
    <3>3. QED
      BY <3>2
  <2>3. PICK b \in Seq(Lines) : b = text \o <<"blank", "rule", "footer">>
    BY <2>2, ConcatProperties
  <2>4. t \in Titles \cup {"long"}
    BY DEF Titles
  <2>5. QED
    BY <2>1, <2>3, <2>4 DEF IInv, TypeInv, Upkeeps
<1>3. QED
  BY <1>1, <1>2 DEF IInv, TypeInv, FooterStands

LEMMA OverflowInv ==
  ASSUME IInv, ReadForOverflow \/ PrependOverflow
  PROVE  IInv'
<1>1. /\ ~settled /\ settled' = settled /\ title' = title
      /\ editsLeft' = editsLeft /\ updatesLeft' = updatesLeft
  BY DEF IInv, ReadForOverflow, PrependOverflow, UpkeepAt
<1>2. upkeep' \in Upkeeps
  <2>1. CASE ReadForOverflow
    <3>1. PICK read \in {body, <<>>} :
            upkeep' = [upkeep EXCEPT !.pc = IF upkeep.title = "long" THEN "overflow" ELSE "title",
                                     !.read = IF upkeep.title = "long" THEN read ELSE @]
      BY <2>1 DEF ReadForOverflow
    <3>2. read \in Seq(Lines)
      <4>1. body \in Seq(Lines) /\ <<>> \in Seq(Lines)
        BY DEF IInv, TypeInv
      <4>2. QED
        BY <4>1
    <3>3. QED
      BY <3>1, <3>2 DEF IInv, TypeInv, Upkeeps
  <2>2. CASE PrependOverflow
    BY <2>2, IdleIs DEF IInv, TypeInv, Upkeeps, PrependOverflow, Goto, GiveUp
  <2>3. QED
    BY <2>1, <2>2
<1>3. body' \in Seq(Lines)
  <2>1. DescriptionPrefix \in Seq(Lines)
    BY LineKinds DEF DescriptionPrefix
  <2>2. upkeep.read \in Seq(Lines) /\ body \in Seq(Lines)
    BY DEF IInv, TypeInv, Upkeeps
  <2>3. DescriptionPrefix \o upkeep.read \in Seq(Lines)
    BY <2>1, <2>2, ConcatProperties
  <2>4. QED
    BY <2>2, <2>3 DEF ReadForOverflow, PrependOverflow
<1>4. QED
  BY <1>1, <1>2, <1>3 DEF IInv, TypeInv, FooterStands

LEMMA UpdatesInv ==
  ASSUME IInv, UpdateTitle \/ UpdatePRDescription \/ ReadForFooter
  PROVE  IInv'
<1>1. ~settled /\ settled' = settled /\ editsLeft' = editsLeft /\ updatesLeft' = updatesLeft
  BY DEF IInv, UpdateTitle, UpdatePRDescription, ReadForFooter, UpkeepAt
<1>2. upkeep' \in Upkeeps
  BY IdleIs DEF IInv, TypeInv, Upkeeps, UpdateTitle, UpdatePRDescription, ReadForFooter, Goto, GiveUp
<1>3. title' \in Titles
  BY DEF IInv, TypeInv, Upkeeps, Titles, UpdateTitle, UpdatePRDescription, ReadForFooter
<1>4. body' \in Seq(Lines)
  BY DEF IInv, TypeInv, Upkeeps, UpdateTitle, UpdatePRDescription, ReadForFooter
<1>5. QED
  BY <1>1, <1>2, <1>3, <1>4 DEF IInv, TypeInv, FooterStands

LEMMA RestoreInv ==
  ASSUME IInv, RestoreFooter
  PROVE  IInv'
<1>1. /\ ~settled /\ title' = title /\ editsLeft' = editsLeft /\ updatesLeft' = updatesLeft
      /\ upkeep' = Idle /\ upkeep.read \in Seq(Lines) /\ body \in Seq(Lines)
  BY DEF IInv, TypeInv, Upkeeps, RestoreFooter, GiveUp, UpkeepAt
<1>2. PICK d : d = ValidateAndRestorePRDescriptionFooter(upkeep.read)
  OBVIOUS
<1>3. d \in Seq(Lines) /\ HasFooter(d)
  BY <1>1, <1>2, RestoredHasFooter
<1>4. \/ body' = d /\ settled' = TRUE
      \/ body' = body /\ settled' = (body = d)
      \/ body' = body /\ settled' = settled
  BY <1>2 DEF RestoreFooter
<1>5. body' \in Seq(Lines) /\ settled' \in BOOLEAN /\ (settled' => body' = d)
  <2>1. CASE body' = d /\ settled' = TRUE
    BY <1>3, <2>1
  <2>2. CASE body' = body /\ settled' = (body = d)
    BY <1>1, <2>2
  <2>3. CASE body' = body /\ settled' = settled
    <3>1. settled \in BOOLEAN
      BY DEF IInv, TypeInv
    <3>2. QED
      BY <1>1, <2>3, <3>1
  <2>4. QED
    BY <1>4, <2>1, <2>2, <2>3
<1>6. FooterStands'
  BY <1>3, <1>5 DEF FooterStands, HasFooter
<1>7. QED
  BY <1>1, <1>5, <1>6, IdleIs DEF IInv, TypeInv

LEMMA EditInv ==
  ASSUME IInv, EditDescription
  PROVE  IInv'
<1>1. settled' = FALSE /\ title' = title /\ upkeep' = upkeep /\ updatesLeft' = updatesLeft
  BY DEF EditDescription
<1>2. editsLeft' \in 0 .. MaxEdits
  BY PRTextAssumption DEF IInv, TypeInv, EditDescription
<1>3. body' \in Seq(Lines)
  <2>1. body \in Seq(Lines) /\ "words" \in Lines
    BY LineKinds DEF IInv, TypeInv
  <2>2. Append(body, "words") \in Seq(Lines)
    BY <2>1, AppendProperties
  <2>3. ASSUME NEW i \in DOMAIN body PROVE RemoveAt(body, i) \in Seq(Lines)
    <3>1. i \in 1 .. Len(body) /\ Len(body) \in Nat
      BY <2>1
    <3>2. SubSeq(body, 1, i - 1) \in Seq(Lines) /\ SubSeq(body, i + 1, Len(body)) \in Seq(Lines)
      BY <2>1, <3>1
    <3>3. QED
      BY <3>2, ConcatProperties DEF RemoveAt
  <2>4. QED
    BY <2>2, <2>3 DEF EditDescription
<1>4. QED
  BY <1>1, <1>2, <1>3 DEF IInv, TypeInv, FooterStands

LEMMA NextInv ==
  ASSUME IInv, [PRTextNext]_textVars
  PROVE  IInv'
<1>1. CASE StartUpdate \/ StartValidation
  BY <1>1, StartsInv
<1>2. CASE GenerateTexts
  BY <1>2, GenerateInv
<1>3. CASE ReadForOverflow \/ PrependOverflow
  BY <1>3, OverflowInv
<1>4. CASE UpdateTitle \/ UpdatePRDescription \/ ReadForFooter
  BY <1>4, UpdatesInv
<1>5. CASE RestoreFooter
  BY <1>5, RestoreInv
<1>6. CASE EditDescription
  BY <1>6, EditInv
<1>7. CASE UNCHANGED textVars
  BY <1>7 DEF IInv, TypeInv, FooterStands, HasFooter, textVars
<1>8. QED
  BY <1>1, <1>2, <1>3, <1>4, <1>5, <1>6, <1>7 DEF PRTextNext

LEMMA Invariance == PRTextSpec => []IInv
<1>1. IInv /\ [PRTextNext]_textVars => IInv'
  BY NextInv
<1>2. QED
  BY InitInv, <1>1, PTL DEF PRTextSpec

-----------------------------------------------------------------------------
(* The theorems.                                                           *)

\* Title, description and what a turn has read and generated keep their types:
\* whatever is generated, edited or fails, the title sent is a short one and the
\* description a list of known lines.
THEOREM TypeCorrect == PRTextSpec => []PRTextTypeOK
<1>1. IInv => PRTextTypeOK
  BY TypeCorrectness DEF IInv
<1>2. QED
  BY Invariance, <1>1, PTL

\* A description is left with a footer the next turn accepts, whatever was in it
\* when the turn read it: the turns do not keep rewriting it.
THEOREM FooterAccepted == PRTextSpec => []FooterStands
<1>1. IInv => FooterStands
  BY DEF IInv
<1>2. QED
  BY Invariance, <1>1, PTL

LEMMA RestoreStep ==
  ASSUME IInv, RestoreFooter, body' # body
  PROVE  /\ Last(body') = "footer"
         /\ \A i \in 1 .. Len(body') - 1 : body'[i] \notin Generated \cup {"claudeFooter"}
         /\ WordsOf(body') = WordsOf(upkeep.read)
<1>1. PICK d \in Seq(Lines) : d = upkeep.read
  BY DEF IInv, TypeInv, Upkeeps
<1>2. body' = ValidateAndRestorePRDescriptionFooter(d) /\ body' # d
  BY <1>1 DEF RestoreFooter
<1>3. ~HasFooter(d)
  BY <1>2 DEF ValidateAndRestorePRDescriptionFooter
<1>4. PICK e \in Seq(Plain) :
        /\ ValidateAndRestorePRDescriptionFooter(d) = Append(e, "footer")
        /\ WordsOf(e) = WordsOf(d)
  BY <1>3, Restored
<1>5. PICK b : b = body'
  OBVIOUS
<1>6. b = Append(e, "footer") /\ e \in Seq(Lines) /\ "footer" \in Lines /\ "footer" \notin Words
  BY <1>2, <1>4, <1>5, PlainLines, LineKinds DEF Words
<1>7. /\ Len(b) = Len(e) + 1 /\ Len(e) \in Nat /\ b[Len(e) + 1] = "footer"
      /\ \A i \in 1 .. Len(e) : b[i] = e[i] /\ e[i] \in Plain
  BY <1>6
<1>8. Last(b) = "footer"
  BY <1>7 DEF Last
<1>9. \A i \in 1 .. Len(b) - 1 : b[i] \notin Generated \cup {"claudeFooter"}
  <2>1. \A line \in Plain : line \notin Generated \cup {"claudeFooter"}
    BY DEF Plain, Words, Generated
  <2>2. QED
    BY <1>7, <2>1
<1>10. WordsOf(b) = WordsOf(d)
  BY <1>4, <1>6, WordsOfAppend DEF WordStep
<1>11. QED
  BY <1>1, <1>5, <1>8, <1>9, <1>10

\* A footer that is put back is the only one and the last line, and all the words
\* stay in their order, for every description (usecases/git.go:702).
THEOREM OneFooter == PRTextSpec => OneFooterRestored
<1>1. IInv /\ [PRTextNext]_textVars =>
        [RestoreFooter /\ body' # body =>
           /\ Last(body') = "footer"
           /\ \A i \in 1 .. Len(body') - 1 : body'[i] \notin Generated \cup {"claudeFooter"}
           /\ WordsOf(body') = WordsOf(upkeep.read)]_textVars
  BY RestoreStep
<1>2. QED
  BY Invariance, <1>1, PTL DEF PRTextSpec, OneFooterRestored
=============================================================================
