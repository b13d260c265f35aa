------------------------------- MODULE ToolProofs -------------------------------
(***************************************************************************)
(* Proofs about the tools of Tools, each for any inputs, faults and number  *)
(* of steps: autoplan-lean loses no record and no output and hands off what *)
(* is current, pregate-deps writes the closure of the imports, and          *)
(* layout-scaffold loses no document and does what was confirmed.           *)
(***************************************************************************)
EXTENDS Tools, FiniteSetTheorems, SequenceTheorems, WellFoundedInduction, NaturalsInduction, TLAPS

(***************************************************************************)
(* autoplan-lean: texts as sequences of lines, and the code fences that are     *)
(* open after each line of one. NextFence reads one line; Fences folds it,      *)
(* so what two texts share line by line they share fence by fence.              *)
(***************************************************************************)
LessThan == OpToRel(<, Nat)

LEMMA LeastExists ==
    ASSUME NEW S \in SUBSET Nat, S # {}
    PROVE  \E x \in S : \A y \in S : x <= y
<1>1. IsWellFoundedOn(LessThan, Nat)
  BY NatLessThanWellFounded DEF LessThan
<1>2. PICK x \in S : \A y \in S : ~(<<y, x>> \in LessThan)
  BY <1>1, WFMin, Zenon
<1>3. \A m, n \in Nat : <<m, n>> \in LessThan <=> m < n
  BY DEF LessThan, OpToRel
<1>4. ASSUME NEW y \in S
      PROVE  x <= y
  <2>1. x \in Nat /\ y \in Nat
    OBVIOUS
  <2>2. ~(y < x)
    BY <1>2, <1>3, <2>1
  <2> QED
    BY <2>1, <2>2
<1> QED
  BY <1>4

LEMMA NoneIsBad ==
    ASSUME NEW bad \in SUBSET Nat,
           \A n \in bad : n # 0 /\ n - 1 \in bad
    PROVE  bad = {}
<1> SUFFICES ASSUME bad # {}
             PROVE  FALSE
  OBVIOUS
<1>1. PICK n \in bad : \A m \in bad : n <= m
  BY LeastExists
<1>2. n \in Nat /\ n - 1 \in bad
  BY <1>1
<1>3. n <= n - 1
  BY <1>1, <1>2
<1> QED
  BY <1>2, <1>3

FencesTo(f, text, n) == f = [i \in 0..n |-> IF i = 0 THEN Null ELSE A!NextFence(text[i], f[i - 1])]

LEMMA FencesExist ==
    ASSUME NEW text, NEW m \in Nat
    PROVE  \E f : FencesTo(f, text, m)
<1> DEFINE bad == {n \in Nat : ~\E f : FencesTo(f, text, n)}
<1>1. \E f : FencesTo(f, text, 0)
  <2> DEFINE f == [i \in 0..0 |-> Null]
  <2>1. f = [i \in 0..0 |-> IF i = 0 THEN Null ELSE A!NextFence(text[i], f[i - 1])]
    OBVIOUS
  <2> QED
    BY <2>1 DEF FencesTo
<1>2. ASSUME NEW n \in Nat, n # 0, NEW g, FencesTo(g, text, n - 1)
      PROVE  \E f : FencesTo(f, text, n)
  <2> DEFINE newest == A!NextFence(text[n], g[n - 1])
             f == [i \in 0..n |-> IF i = n THEN newest ELSE g[i]]
  <2>1. ASSUME NEW i \in 0..n
        PROVE  f[i] = IF i = 0 THEN Null ELSE A!NextFence(text[i], f[i - 1])
    <3>1. CASE i = n
      <4>1. f[i - 1] = g[n - 1] /\ f[i] = newest /\ i # 0
        BY <1>2, <3>1
      <4> QED
        BY <3>1, <4>1
    <3>2. CASE i # n
      <4>1. i \in 0..(n - 1) /\ f[i] = g[i] /\ (i # 0 => f[i - 1] = g[i - 1])
        BY <3>2
      <4> HIDE DEF f
      <4>2. g[i] = IF i = 0 THEN Null ELSE A!NextFence(text[i], g[i - 1])
        BY <1>2, <4>1 DEF FencesTo
      <4> QED
        BY <4>1, <4>2
    <3> QED
      BY <3>1, <3>2
  <2>2. f = [i \in 0..n |-> f[i]]
    OBVIOUS
  <2> HIDE DEF f
  <2>3. FencesTo(f, text, n)
    BY <2>1, <2>2 DEF FencesTo
  <2> QED
    BY <2>3
<1>3. \A n \in bad : n # 0 /\ n - 1 \in bad
  <2> SUFFICES ASSUME NEW n \in bad
               PROVE  n # 0 /\ n - 1 \in bad
    OBVIOUS
  <2>1. n \in Nat /\ n # 0
    BY <1>1
  <2>2. ~\E f : FencesTo(f, text, n - 1)
    BY <1>2, <2>1
  <2> QED
    BY <2>1, <2>2
<1>4. bad = {}
  <2> HIDE DEF bad
  <2> QED
    BY <1>3, NoneIsBad DEF bad
<1> QED
  BY <1>4

LEMMA FencesDef ==
    ASSUME NEW text, Len(text) \in Nat
    PROVE  /\ A!Fences(text)[0] = Null
           /\ \A i \in 1..Len(text) : A!Fences(text)[i] = A!NextFence(text[i], A!Fences(text)[i - 1])
<1> DEFINE f == A!Fences(text)
<1>1. FencesTo(f, text, Len(text))
  <2>1. f = CHOOSE g : FencesTo(g, text, Len(text))
    BY DEF A!Fences, FencesTo
  <2> QED
    BY <2>1, FencesExist
<1>2. f = [i \in 0..Len(text) |-> IF i = 0 THEN Null ELSE A!NextFence(text[i], f[i - 1])]
  BY <1>1 DEF FencesTo
<1> HIDE DEF f
<1>3. \A i \in 0..Len(text) : f[i] = IF i = 0 THEN Null ELSE A!NextFence(text[i], f[i - 1])
  BY <1>2
<1>4. f[0] = Null /\ \A i \in 1..Len(text) : f[i] = A!NextFence(text[i], f[i - 1])
  BY <1>3
<1> QED
  BY <1>4 DEF f
(* Texts: sequences of lines, of whatever kind.                                 *)
IsText(t) == Len(t) \in Nat /\ t = [i \in 1..Len(t) |-> t[i]]
LinesOf(t) == {t[i] : i \in 1..Len(t)}

LEMMA TextIsSeq ==
    ASSUME NEW t, IsText(t), NEW S, \A i \in 1..Len(t) : t[i] \in S
    PROVE  t \in Seq(S) /\ DOMAIN t = 1..Len(t)
<1> DEFINE n == Len(t)
           s == [i \in 1..n |-> t[i]]
<1>1. n \in Nat /\ t = s
  BY DEF IsText
<1>2. s \in Seq(S)
  <2> HIDE DEF n
  <2> QED
    BY <1>1 DEF n
<1> QED
  BY <1>1, <1>2

LEMMA SeqIsText ==
    ASSUME NEW S, NEW s \in Seq(S)
    PROVE  IsText(s) /\ DOMAIN s = 1..Len(s)
BY LenProperties DEF IsText

LEMMA TextEqual ==
    ASSUME NEW s, IsText(s), NEW t, IsText(t),
           Len(s) = Len(t), \A i \in 1..Len(s) : s[i] = t[i]
    PROVE  s = t
BY DEF IsText

LEMMA SubText ==
    ASSUME NEW t, IsText(t), NEW m \in Nat \ {0}, NEW n \in Nat, n <= Len(t)
    PROVE  /\ IsText(SubSeq(t, m, n))
           /\ Len(SubSeq(t, m, n)) = IF m <= n THEN n - m + 1 ELSE 0
           /\ \A i \in 1..(n - m + 1) : SubSeq(t, m, n)[i] = t[m + i - 1]
<1>1. \A i \in m..n : t[i] \in LinesOf(t)
  BY DEF LinesOf, IsText
<1>2. SubSeq(t, m, n) \in Seq(LinesOf(t))
  BY <1>1, SubSeqProperties
<1>3. /\ Len(SubSeq(t, m, n)) = IF m <= n THEN n - m + 1 ELSE 0
      /\ \A i \in 1..(n - m + 1) : SubSeq(t, m, n)[i] = t[m + i - 1]
  BY <1>1, SubSeqProperties
<1> QED
  BY <1>2, <1>3, SeqIsText

Part(s, t, c, k) == IsText(s) /\ Len(s) = k /\ \A i \in 1..k : s[i] = t[c + i]

LEMMA PartText ==
    ASSUME NEW t, IsText(t), NEW c \in Nat, NEW k \in Nat, c + k <= Len(t)
    PROVE  Part(SubSeq(t, c + 1, c + k), t, c, k)
<1> DEFINE m == c + 1
           n == c + k
<1>1. m \in Nat \ {0} /\ n \in Nat /\ n <= Len(t) /\ n - m + 1 = k
  OBVIOUS
<1> HIDE DEF m, n
<1>2. /\ IsText(SubSeq(t, m, n))
      /\ Len(SubSeq(t, m, n)) = IF m <= n THEN n - m + 1 ELSE 0
      /\ \A i \in 1..(n - m + 1) : SubSeq(t, m, n)[i] = t[m + i - 1]
  BY <1>1, SubText
<1>3. Len(SubSeq(t, m, n)) = k
  BY <1>1, <1>2
<1>4. ASSUME NEW i \in 1..k PROVE SubSeq(t, m, n)[i] = t[c + i]
  <2>1. m + i - 1 = c + i /\ i \in 1..(n - m + 1)
    BY <1>1 DEF m, n
  <2> QED
    BY <1>2, <2>1
<1> QED
  BY <1>2, <1>3, <1>4 DEF Part, m, n

Joined(n, s, t) ==
    /\ IsText(n) /\ Len(n) = Len(s) + Len(t)
    /\ \A i \in 1..Len(s) : n[i] = s[i]
    /\ \A i \in 1..Len(t) : n[Len(s) + i] = t[i]

LEMMA CatText ==
    ASSUME NEW s, IsText(s), NEW t, IsText(t)
    PROVE  Joined(s \o t, s, t)
<1> DEFINE S == LinesOf(s) \cup LinesOf(t)
<1>1. s \in Seq(S) /\ t \in Seq(S)
  BY TextIsSeq DEF LinesOf
<1> HIDE DEF S
<1>2. /\ s \o t \in Seq(S)
      /\ Len(s \o t) = Len(s) + Len(t)
      /\ \A i \in 1 .. Len(s) + Len(t) : (s \o t)[i] = IF i <= Len(s) THEN s[i] ELSE t[i - Len(s)]
  BY <1>1, ConcatProperties
<1>3. Len(s) \in Nat /\ Len(t) \in Nat
  BY DEF IsText
<1>4. \A i \in 1..Len(s) : (s \o t)[i] = s[i]
  BY <1>2, <1>3
<1>5. ASSUME NEW i \in 1..Len(t) PROVE (s \o t)[Len(s) + i] = t[i]
  <2>1. Len(s) + i \in 1 .. Len(s) + Len(t) /\ ~(Len(s) + i <= Len(s)) /\ Len(s) + i - Len(s) = i
    BY <1>3
  <2> QED
    BY <1>2, <2>1
<1> QED
  BY <1>2, <1>4, <1>5, SeqIsText DEF Joined

(* Where two texts hold the same lines, after m and after n, and the same fence *)
(* is open before them, the same fences are open in them.                       *)
Same(a, m, b, n, k) ==
    /\ IsText(a) /\ IsText(b)
    /\ m \in Nat /\ n \in Nat /\ k \in Nat /\ m + k <= Len(a) /\ n + k <= Len(b)
    /\ A!Fences(a)[m] = A!Fences(b)[n]
    /\ \A i \in 1..k : a[m + i] = b[n + i]

LEMMA FencesAgree ==
    ASSUME NEW a, NEW b, NEW m, NEW n, NEW k, Same(a, m, b, n, k)
    PROVE  \A i \in 0..k : A!Fences(a)[m + i] = A!Fences(b)[n + i]
<1> DEFINE bad == {i \in 0..k : A!Fences(a)[m + i] # A!Fences(b)[n + i]}
<1>0. /\ m \in Nat /\ n \in Nat /\ k \in Nat /\ m + k <= Len(a) /\ n + k <= Len(b)
      /\ Len(a) \in Nat /\ Len(b) \in Nat
      /\ A!Fences(a)[m] = A!Fences(b)[n]
      /\ \A i \in 1..k : a[m + i] = b[n + i]
  BY DEF Same, IsText
<1>1. ASSUME NEW i \in bad
      PROVE  i # 0 /\ i - 1 \in bad
  <2>1. i \in 0..k /\ i # 0 /\ m + i - 1 = m + (i - 1) /\ n + i - 1 = n + (i - 1)
    BY <1>0
  <2>2. m + i \in 1..Len(a) /\ n + i \in 1..Len(b)
    BY <1>0, <2>1
  <2>3. /\ A!Fences(a)[m + i] = A!NextFence(a[m + i], A!Fences(a)[m + i - 1])
        /\ A!Fences(b)[n + i] = A!NextFence(b[n + i], A!Fences(b)[n + i - 1])
    BY <1>0, <2>2, FencesDef
  <2>4. a[m + i] = b[n + i]
    BY <1>0, <2>1
  <2>5. A!Fences(a)[m + i - 1] # A!Fences(b)[n + i - 1]
    BY <2>3, <2>4
  <2> QED
    BY <1>0, <2>1, <2>5
<1>2. bad \in SUBSET Nat
  BY <1>0
<1> HIDE DEF bad
<1>3. bad = {}
  BY <1>1, <1>2, NoneIsBad
<1> QED
  BY <1>0, <1>3 DEF bad

(* The first of some positions.                                                 *)
LEMMA FirstOfIs ==
    ASSUME NEW S \in SUBSET Nat, NEW d
    PROVE  /\ S = {} => A!FirstOf(S, d) = d
           /\ S # {} => A!FirstOf(S, d) \in S /\ \A i \in S : A!FirstOf(S, d) <= i
<1>1. ASSUME S # {} PROVE A!Min(S) \in S /\ \A i \in S : A!Min(S) <= i
  BY <1>1, LeastExists DEF A!Min
<1> QED
  BY <1>1 DEF A!FirstOf

LEMMA FirstIs ==
    ASSUME NEW S \in SUBSET Nat, NEW d, NEW m \in S, \A i \in S : m <= i
    PROVE  A!FirstOf(S, d) = m
<1>1. A!FirstOf(S, d) \in S /\ \A i \in S : A!FirstOf(S, d) <= i
  BY FirstOfIs
<1>2. A!FirstOf(S, d) <= m /\ m <= A!FirstOf(S, d) /\ A!FirstOf(S, d) \in Nat /\ m \in Nat
  BY <1>1
<1> QED
  BY <1>2

UnfencedIs(t, i, kinds) == t[i].is \in kinds /\ ~A!Opens(t[i]) /\ A!Fences(t)[i - 1] = Null

LEMMA UnfencedDef ==
    ASSUME NEW t, IsText(t), NEW kinds
    PROVE  /\ A!Unfenced(t, kinds) \in SUBSET (1..Len(t))
           /\ \A i \in 1..Len(t) : i \in A!Unfenced(t, kinds) <=> UnfencedIs(t, i, kinds)
<1>1. DOMAIN t = 1..Len(t)
  BY DEF IsText
<1> QED
  BY <1>1 DEF UnfencedIs, A!Unfenced, A!Fenced, A!Within

LEMMA UnfencedAgree ==
    ASSUME NEW a, NEW b, NEW kinds, NEW m, NEW n, NEW k, Same(a, m, b, n, k)
    PROVE  \A i \in 1..k : m + i \in A!Unfenced(a, kinds) <=> n + i \in A!Unfenced(b, kinds)
<1>0. /\ m \in Nat /\ n \in Nat /\ k \in Nat /\ m + k <= Len(a) /\ n + k <= Len(b)
      /\ Len(a) \in Nat /\ Len(b) \in Nat /\ IsText(a) /\ IsText(b)
      /\ \A i \in 1..k : a[m + i] = b[n + i]
  BY DEF Same, IsText
<1> SUFFICES ASSUME NEW i \in 1..k
             PROVE  m + i \in A!Unfenced(a, kinds) <=> n + i \in A!Unfenced(b, kinds)
  OBVIOUS
<1>1. A!Fences(a)[m + (i - 1)] = A!Fences(b)[n + (i - 1)]
  <2>1. i - 1 \in 0..k
    BY <1>0
  <2>2. \A j \in 0..k : A!Fences(a)[m + j] = A!Fences(b)[n + j]
    BY FencesAgree
  <2> QED
    BY <2>1, <2>2, Zenon
<1>2. m + i \in 1..Len(a) /\ n + i \in 1..Len(b) /\ m + i - 1 = m + (i - 1) /\ n + i - 1 = n + (i - 1)
  BY <1>0
<1>3. a[m + i] = b[n + i]
  BY <1>0
<1>4. UnfencedIs(a, m + i, kinds) <=> UnfencedIs(b, n + i, kinds)
  <2>1. A!Fences(a)[m + i - 1] = A!Fences(b)[n + i - 1]
    BY <1>0, <1>1, <1>2
  <2> QED
    BY <1>0, <1>3, <2>1 DEF UnfencedIs
<1>5. /\ m + i \in A!Unfenced(a, kinds) <=> UnfencedIs(a, m + i, kinds)
      /\ n + i \in A!Unfenced(b, kinds) <=> UnfencedIs(b, n + i, kinds)
  BY <1>0, <1>2, UnfencedDef
<1> QED
  BY <1>4, <1>5

ProperEnd(t) == A!FirstOf(A!Unfenced(t, {"record", "report"}), Len(t) + 1) - 1

LEMMA ProperIs ==
    ASSUME NEW t, IsText(t)
    PROVE  /\ ProperEnd(t) \in 0..Len(t)
           /\ A!Proper(t) = SubSeq(t, 1, ProperEnd(t))
           /\ IsText(A!Proper(t)) /\ Len(A!Proper(t)) = ProperEnd(t)
           /\ \A i \in 1..ProperEnd(t) : A!Proper(t)[i] = t[i] /\ i \notin A!Unfenced(t, {"record", "report"})
           /\ ProperEnd(t) = Len(t) \/ ProperEnd(t) + 1 \in A!Unfenced(t, {"record", "report"})
<1> DEFINE S == A!Unfenced(t, {"record", "report"})
           e == ProperEnd(t)
<1>1. S \in SUBSET (1..Len(t)) /\ Len(t) \in Nat
  BY UnfencedDef DEF IsText
<1>2. /\ S = {} => e = Len(t)
      /\ S # {} => e + 1 \in S /\ \A i \in S : e + 1 <= i
      /\ e \in 0..Len(t)
  <2> HIDE DEF S
  <2>1. S \in SUBSET Nat
    BY <1>1
  <2>2. /\ S = {} => A!FirstOf(S, Len(t) + 1) = Len(t) + 1
        /\ S # {} => A!FirstOf(S, Len(t) + 1) \in S /\ \A i \in S : A!FirstOf(S, Len(t) + 1) <= i
    BY <2>1, FirstOfIs
  <2> DEFINE first == A!FirstOf(S, Len(t) + 1)
  <2>3. e = first - 1
    BY DEF ProperEnd, S
  <2> HIDE DEF first, e
  <2>4. CASE S = {}
    BY <1>1, <2>2, <2>3, <2>4 DEF first
  <2>5. CASE S # {}
    <3>1. first \in S /\ first \in 1..Len(t) /\ \A i \in S : first <= i
      BY <1>1, <2>2, <2>5 DEF first
    <3> QED
      BY <1>1, <2>3, <2>5, <3>1
  <2> QED
    BY <2>4, <2>5
<1>3. A!Proper(t) = SubSeq(t, 1, e)
  BY DEF A!Proper, ProperEnd
<1> HIDE DEF S, e
<1>4. /\ IsText(SubSeq(t, 1, e)) /\ Len(SubSeq(t, 1, e)) = e
      /\ \A i \in 1..e : SubSeq(t, 1, e)[i] = t[i]
  <2>1. e \in Nat /\ e <= Len(t)
    BY <1>1, <1>2
  <2>2. /\ IsText(SubSeq(t, 1, e))
        /\ Len(SubSeq(t, 1, e)) = IF 1 <= e THEN e - 1 + 1 ELSE 0
        /\ \A i \in 1..(e - 1 + 1) : SubSeq(t, 1, e)[i] = t[1 + i - 1]
    BY <2>1, SubText
  <2> QED
    BY <2>1, <2>2
<1>5. \A i \in 1..e : i \notin S
  BY <1>1, <1>2
<1> QED
  BY <1>1, <1>2, <1>3, <1>4, <1>5 DEF S, e

Tidy(t) == A!Fences(t)[ProperEnd(t)] = Null

LEMMA TidyIs ==
    ASSUME NEW t, IsText(t)
    PROVE  Tidy(t) <=> A!Fences(A!Proper(t))[Len(A!Proper(t))] = Null
<1> DEFINE p == A!Proper(t)
           e == ProperEnd(t)
<1>1. /\ e \in 0..Len(t) /\ IsText(p) /\ Len(p) = e /\ Len(t) \in Nat
      /\ \A i \in 1..e : p[i] = t[i]
  BY ProperIs DEF IsText
<1> HIDE DEF p, e
<1>2. A!Fences(p)[0] = Null /\ A!Fences(t)[0] = Null
  BY <1>1, FencesDef
<1>3. A!Fences(p)[e] = A!Fences(t)[e]
  <2>1. Same(p, 0, t, 0, e)
    BY <1>1, <1>2 DEF Same
  <2>2. \A i \in 0..e : A!Fences(p)[0 + i] = A!Fences(t)[0 + i]
    BY <2>1, FencesAgree
  <2>3. e \in 0..e /\ 0 + e = e
    BY <1>1
  <2>4. A!Fences(p)[0 + e] = A!Fences(t)[0 + e]
    BY <2>2, <2>3, Zenon
  <2> QED
    BY <2>3, <2>4
<1>4. A!Fences(p)[Len(p)] = A!Fences(t)[e]
  BY <1>1, <1>3
<1> QED
  BY <1>4 DEF Tidy, p, e

(***************************************************************************)
(* Replacing the plan proper keeps what the record section says; writing a      *)
(* record keeps the plan proper and everything outside the record.              *)
(***************************************************************************)
(* What follows a plan proper keeps its fences when another one, closed at its  *)
(* end, is put before it.                                                       *)
ClosedProper(p) ==
    /\ IsText(p) /\ A!Fences(p)[Len(p)] = Null
    /\ A!Unfenced(p, {"record", "report"}) = {}

Replaced(t, p) == p \o SubSeq(t, ProperEnd(t) + 1, Len(t))

LEMMA ReplacedLines ==
    ASSUME NEW t, IsText(t), Tidy(t), NEW p, ClosedProper(p)
    PROVE  LET n == Replaced(t, p)
               k == Len(t) - ProperEnd(t) IN
           /\ k \in Nat /\ Len(p) \in Nat /\ IsText(n) /\ Len(n) = Len(p) + k
           /\ Same(n, 0, p, 0, Len(p)) /\ Same(n, Len(p), t, ProperEnd(t), k)
<1> DEFINE e == ProperEnd(t)
           rest == SubSeq(t, e + 1, Len(t))
           n == Replaced(t, p)
           k == Len(t) - e
<1>1. e \in 0..Len(t) /\ Len(t) \in Nat /\ Len(p) \in Nat /\ IsText(p)
  BY ProperIs DEF ClosedProper, IsText
<1>2. A!Fences(p)[Len(p)] = Null /\ A!Fences(t)[e] = Null
  BY DEF ClosedProper, Tidy
<1>3. n = p \o rest
  BY DEF Replaced
<1> HIDE DEF e, n
<1>4. /\ IsText(rest) /\ Len(rest) = k
      /\ \A i \in 1..k : rest[i] = t[e + i]
  <2>1. k \in Nat /\ e \in Nat /\ e + k <= Len(t) /\ Len(t) = e + k
    BY <1>1
  <2>2. Part(SubSeq(t, e + 1, e + k), t, e, k)
    <3> HIDE DEF k
    <3> QED
      BY <2>1, PartText
  <2> QED
    BY <2>1, <2>2 DEF Part
<1> HIDE DEF rest
<1>5. /\ IsText(n) /\ Len(n) = Len(p) + k /\ k \in Nat
      /\ \A i \in 1..Len(p) : n[i] = p[i]
      /\ \A i \in 1..k : n[Len(p) + i] = t[e + i]
  <2>1. k \in Nat
    BY <1>1
  <2>2. Joined(p \o rest, p, rest)
    BY <1>1, <1>4, CatText
  <2> HIDE DEF k
  <2> QED
    BY <1>3, <1>4, <2>1, <2>2 DEF Joined
<1>6. A!Fences(n)[0] = Null /\ A!Fences(p)[0] = Null
  BY <1>1, <1>5, FencesDef
<1>7. Same(n, 0, p, 0, Len(p))
  BY <1>1, <1>5, <1>6 DEF Same
<1>8. A!Fences(n)[Len(p)] = Null
  <2>1. \A i \in 0..Len(p) : A!Fences(n)[0 + i] = A!Fences(p)[0 + i]
    BY <1>7, FencesAgree
  <2>2. Len(p) \in 0..Len(p) /\ 0 + Len(p) = Len(p)
    BY <1>1
  <2>3. A!Fences(n)[0 + Len(p)] = A!Fences(p)[0 + Len(p)]
    BY <2>1, <2>2, Zenon
  <2> QED
    BY <1>2, <2>2, <2>3
<1>9. Same(n, Len(p), t, e, k)
  BY <1>1, <1>2, <1>5, <1>8 DEF Same
<1> QED
  BY <1>1, <1>5, <1>7, <1>9 DEF e, n

(* Where nothing that begins a record is unfenced before two places after which *)
(* two texts agree, their records are the same.                                 *)
LEMMA RecordsAgree ==
    ASSUME NEW a, NEW b, NEW m, NEW n, NEW k, Same(a, m, b, n, k),
           Len(a) = m + k, Len(b) = n + k,
           \A i \in A!Unfenced(a, {"record"}) : i > m,
           \A i \in A!Unfenced(b, {"record"}) : i > n
    PROVE  A!RecordOf(a) = A!RecordOf(b)
<1> DEFINE Ra == A!Unfenced(a, {"record"})
           Rb == A!Unfenced(b, {"record"})
           sa == A!FirstOf(Ra, 0)
           sb == A!FirstOf(Rb, 0)
<1>0. /\ m \in Nat /\ n \in Nat /\ k \in Nat /\ Len(a) \in Nat /\ Len(b) \in Nat
      /\ IsText(a) /\ IsText(b) /\ \A i \in 1..k : a[m + i] = b[n + i]
  BY DEF Same, IsText
<1>1. \A K : /\ A!Unfenced(a, K) \in SUBSET (1..Len(a)) /\ A!Unfenced(b, K) \in SUBSET (1..Len(b))
             /\ \A i \in 1..k : m + i \in A!Unfenced(a, K) <=> n + i \in A!Unfenced(b, K)
  BY <1>0, UnfencedDef, UnfencedAgree
<1>2. Ra \in SUBSET Nat /\ Rb \in SUBSET Nat /\ Ra \in SUBSET (1..Len(a)) /\ Rb \in SUBSET (1..Len(b))
  BY <1>0, <1>1
<1>3. \A i \in 1..k : m + i \in Ra <=> n + i \in Rb
  BY <1>1
<1> HIDE DEF Ra, Rb
<1>4. \A i \in Ra : i - m \in 1..k /\ m + (i - m) = i /\ n + (i - m) \in Rb
  <2> SUFFICES ASSUME NEW i \in Ra PROVE i - m \in 1..k /\ m + (i - m) = i /\ n + (i - m) \in Rb
    OBVIOUS
  <2>1. i - m \in 1..k /\ m + (i - m) = i
    BY <1>0, <1>2 DEF Ra
  <2> QED
    BY <1>3, <2>1
<1>5. \A i \in Rb : i - n \in 1..k /\ n + (i - n) = i /\ m + (i - n) \in Ra
  <2> SUFFICES ASSUME NEW i \in Rb PROVE i - n \in 1..k /\ n + (i - n) = i /\ m + (i - n) \in Ra
    OBVIOUS
  <2>1. i - n \in 1..k /\ n + (i - n) = i
    BY <1>0, <1>2 DEF Rb
  <2> QED
    BY <1>3, <2>1
<1>6. CASE Ra = {}
  <2>1. Rb = {}
    BY <1>5, <1>6
  <2>2. sa = 0 /\ sb = 0
    BY <1>2, <1>6, <2>1, FirstOfIs
  <2> QED
    BY <2>2 DEF A!RecordOf, Ra, Rb
<1>7. CASE Ra # {}
  <2>1. sa \in Ra /\ \A i \in Ra : sa <= i
    BY <1>2, <1>7, FirstOfIs
  <2> DEFINE s == sa - m
  <2>2. s \in 1..k /\ sa = m + s /\ n + s \in Rb
    BY <1>4, <2>1
  <2>3. \A i \in Rb : n + s <= i
    BY <1>0, <1>2, <1>5, <2>1, <2>2
  <2>4. sb = n + s
    BY <1>2, <2>2, <2>3, FirstIs
  <2> HIDE DEF sa, sb, s
  <2> DEFINE Ea == {i \in A!Unfenced(a, A!H2) : i > sa}
             Eb == {i \in A!Unfenced(b, A!H2) : i > sb}
             ea == A!FirstOf(Ea, Len(a) + 1)
             eb == A!FirstOf(Eb, Len(b) + 1)
  <2>5. /\ Ea \in SUBSET Nat /\ Eb \in SUBSET Nat
        /\ \A i \in Ea : i > sa /\ i \in 1..Len(a) /\ i - m \in 1..k /\ m + (i - m) = i
        /\ \A i \in Eb : i > sb /\ i \in 1..Len(b) /\ i - n \in 1..k /\ n + (i - n) = i
    BY <1>0, <1>1, <2>2, <2>4
  <2>6. \A i \in 1..k : m + i \in Ea <=> n + i \in Eb
    BY <1>0, <1>1, <2>2, <2>4
  <2> HIDE DEF Ea, Eb
  <2>7. /\ \A i \in Ea : n + (i - m) \in Eb
        /\ \A i \in Eb : m + (i - n) \in Ea
    BY <2>5, <2>6
  <2>8. \E e \in 1..(k + 1) : ea = m + e /\ eb = n + e /\ e > s
    <3>1. CASE Ea = {}
      <4>1. Eb = {}
        BY <2>7, <3>1
      <4>2. ea = Len(a) + 1 /\ eb = Len(b) + 1
        BY <2>5, <3>1, <4>1, FirstOfIs
      <4>3. ea = m + (k + 1) /\ eb = n + (k + 1) /\ k + 1 > s /\ k + 1 \in 1..(k + 1)
        BY <1>0, <2>2, <4>2
      <4> QED
        BY <4>3
    <3>2. CASE Ea # {}
      <4>1. ea \in Ea /\ \A i \in Ea : ea <= i
        BY <2>5, <3>2, FirstOfIs
      <4> DEFINE e == ea - m
      <4>2. e \in 1..k /\ ea = m + e /\ n + e \in Eb
        BY <2>5, <2>7, <4>1
      <4> HIDE DEF e
      <4>3. \A i \in Eb : n + e <= i
        BY <1>0, <2>5, <2>7, <4>1, <4>2 DEF e
      <4>4. eb = n + e
        BY <2>5, <4>2, <4>3, FirstIs
      <4>5. e > s
        BY <1>0, <2>2, <2>5, <4>1, <4>2
      <4> QED
        BY <1>0, <4>2, <4>4, <4>5
    <3> QED
      BY <3>1, <3>2
  <2>9. ea = A!SectionEnd(a, sa) /\ eb = A!SectionEnd(b, sb)
    BY DEF A!SectionEnd, Ea, Eb
  <2> HIDE DEF ea, eb
  <2>10. PICK e \in 1..(k + 1) : ea = m + e /\ eb = n + e /\ e > s
    BY <2>8
  <2>11. SubSeq(a, sa, ea - 1) = SubSeq(b, sb, eb - 1)
    <3> DEFINE c == m + s - 1
               d == n + s - 1
               w == e - s
    <3>1. /\ c \in Nat /\ d \in Nat /\ w \in Nat /\ c + w <= Len(a) /\ d + w <= Len(b)
          /\ sa = c + 1 /\ ea - 1 = c + w /\ sb = d + 1 /\ eb - 1 = d + w
      BY <1>0, <2>2, <2>4, <2>10
    <3>2. \A i \in 1..w : a[c + i] = b[d + i]
      <4> TAKE i \in 1..w
      <4>1. c + i = m + (s + i - 1) /\ d + i = n + (s + i - 1) /\ s + i - 1 \in 1..k
        BY <1>0, <2>2, <2>4, <2>10
      <4> QED
        BY <1>0, <4>1
    <3> HIDE DEF c, d, w
    <3>3. Part(SubSeq(a, c + 1, c + w), a, c, w) /\ Part(SubSeq(b, d + 1, d + w), b, d, w)
      BY <1>0, <3>1, PartText
    <3>4. Part(SubSeq(a, sa, ea - 1), a, c, w) /\ Part(SubSeq(b, sb, eb - 1), b, d, w)
      BY <3>1, <3>3
    <3> DEFINE x == SubSeq(a, sa, ea - 1)
               y == SubSeq(b, sb, eb - 1)
    <3>5. IsText(x) /\ IsText(y) /\ Len(x) = Len(y) /\ \A i \in 1..Len(x) : x[i] = y[i]
      BY <3>2, <3>4 DEF Part
    <3> HIDE DEF x, y
    <3>6. x = y
      BY <3>5, TextEqual
    <3> QED
      BY <3>6 DEF x, y
  <2>12. sa # 0 /\ sb # 0
    BY <1>0, <2>2, <2>4
  <2>13. A!RecordOf(a) = SubSeq(a, sa, ea - 1) /\ A!RecordOf(b) = SubSeq(b, sb, eb - 1)
    BY <2>9, <2>12 DEF A!RecordOf, sa, sb, Ra, Rb
  <2> QED
    BY <2>11, <2>13
<1> QED
  BY <1>6, <1>7

LEMMA ReplacedText ==
    ASSUME NEW t, IsText(t), Tidy(t), NEW p, ClosedProper(p)
    PROVE  /\ IsText(Replaced(t, p)) /\ Tidy(Replaced(t, p))
           /\ A!RecordOf(Replaced(t, p)) = A!RecordOf(t)
<1> DEFINE e == ProperEnd(t)
           n == Replaced(t, p)
           k == Len(t) - e
           rr == {"record", "report"}
<1>1. /\ k \in Nat /\ Len(p) \in Nat /\ IsText(n) /\ Len(n) = Len(p) + k
      /\ Same(n, 0, p, 0, Len(p)) /\ Same(n, Len(p), t, e, k)
  BY ReplacedLines
<1>2. /\ e \in 0..Len(t) /\ Len(t) \in Nat /\ Len(t) = e + k /\ IsText(p)
      /\ \A i \in 1..e : i \notin A!Unfenced(t, rr)
      /\ e = Len(t) \/ e + 1 \in A!Unfenced(t, rr)
  BY ProperIs DEF ClosedProper, IsText
<1>3. A!Fences(n)[Len(p)] = Null /\ A!Unfenced(p, rr) = {}
  BY <1>1 DEF Same, ClosedProper, Tidy
<1> HIDE DEF e, n, k
<1>4. \A K : /\ \A i \in 1..Len(p) : 0 + i \in A!Unfenced(n, K) <=> 0 + i \in A!Unfenced(p, K)
             /\ \A i \in 1..k : Len(p) + i \in A!Unfenced(n, K) <=> e + i \in A!Unfenced(t, K)
             /\ A!Unfenced(n, K) \in SUBSET (1..Len(n)) /\ A!Unfenced(t, K) \in SUBSET (1..Len(t))
  BY <1>1, UnfencedAgree, UnfencedDef
<1>5. \A i \in 1..Len(p) : i \notin A!Unfenced(n, rr)
  <2> TAKE i \in 1..Len(p)
  <2>1. 0 + i = i
    BY <1>1
  <2> QED
    BY <1>3, <1>4, <2>1
<1>6. ProperEnd(n) = Len(p)
  <2> DEFINE S == A!Unfenced(n, rr)
  <2>1. S \in SUBSET Nat /\ S \in SUBSET (1..Len(n))
    BY <1>1, <1>4
  <2>2. CASE e = Len(t)
    <3>1. S = {}
      BY <1>1, <1>2, <1>5, <2>1, <2>2
    <3>2. A!FirstOf(S, Len(n) + 1) = Len(n) + 1
      BY <2>1, <3>1, FirstOfIs
    <3> QED
      BY <1>1, <1>2, <2>2, <3>2 DEF ProperEnd
  <2>3. CASE e + 1 \in A!Unfenced(t, rr) /\ e # Len(t)
    <3>1. 1 \in 1..k
      BY <1>1, <1>2, <2>3
    <3>2. Len(p) + 1 \in S
      BY <1>4, <2>3, <3>1
    <3>3. \A i \in S : Len(p) + 1 <= i
      BY <1>1, <1>5, <2>1
    <3> HIDE DEF S
    <3>4. A!FirstOf(S, Len(n) + 1) = Len(p) + 1
      BY <1>1, <2>1, <3>2, <3>3, FirstIs
    <3> QED
      BY <1>1, <3>4 DEF ProperEnd, S
  <2> QED
    BY <1>2, <2>2, <2>3
<1>7. Tidy(n)
  BY <1>3, <1>6 DEF Tidy
<1>8. A!RecordOf(n) = A!RecordOf(t)
  <2>1. \A i : /\ i \in A!Unfenced(n, {"record"}) => i \in A!Unfenced(n, rr)
               /\ i \in A!Unfenced(t, {"record"}) => i \in A!Unfenced(t, rr)
    BY DEF A!Unfenced
  <2>2. /\ \A i \in A!Unfenced(n, {"record"}) : i > Len(p)
        /\ \A i \in A!Unfenced(t, {"record"}) : i > e
    BY <1>1, <1>2, <1>4, <1>5, <2>1
  <2> QED
    BY <1>1, <1>2, <2>2, RecordsAgree
<1> QED
  BY <1>1, <1>7, <1>8 DEF n

--------------------------------------------------------------------------------
(* Where withRecord puts a record: what it keeps before it, and what after.     *)
RecordPlace(t, c, e) ==
    /\ c \in Nat /\ e \in Nat /\ c < e /\ e <= Len(t) + 1
    /\ A!Fences(t)[c] = Null /\ ProperEnd(t) <= c
    /\ \A i \in A!Unfenced(t, {"record"}) : c < i
    /\ e = Len(t) + 1 \/ e \in A!Unfenced(t, A!H2)
    /\ \A s : A!WithRecord(t, s) = IF c = Len(t) THEN t \o s ELSE SubSeq(t, 1, c) \o s \o SubSeq(t, e, Len(t))
    /\ \/ e = c + 1 /\ A!Outside(t) = t
       \/ A!Outside(t) = SubSeq(t, 1, c) \o SubSeq(t, e, Len(t))

LEMMA KindsUnfenced ==
    ASSUME NEW t, IsText(t), NEW i, NEW kind, i \in A!Unfenced(t, {kind})
    PROVE  /\ i \in 1..Len(t) /\ Len(t) \in Nat
           /\ A!Fences(t)[i - 1] = Null
           /\ \A K : kind \in K => i \in A!Unfenced(t, K)
<1>1. i \in 1..Len(t) /\ UnfencedIs(t, i, {kind})
  BY UnfencedDef
<1>2. \A K : kind \in K => UnfencedIs(t, i, K)
  BY <1>1 DEF UnfencedIs
<1> QED
  BY <1>1, <1>2, UnfencedDef DEF UnfencedIs, IsText

LEMMA PlaceExists ==
    ASSUME NEW t, IsText(t), Tidy(t)
    PROVE  \E c, e : RecordPlace(t, c, e)
<1> DEFINE R == A!Unfenced(t, {"record"})
           Q == A!Unfenced(t, {"report"})
           start == A!FirstOf(R, 0)
           report == A!FirstOf(Q, 0)
           rr == {"record", "report"}
<1>0. Len(t) \in Nat /\ R \in SUBSET (1..Len(t)) /\ Q \in SUBSET (1..Len(t)) /\ R \in SUBSET Nat /\ Q \in SUBSET Nat
  BY UnfencedDef DEF IsText
<1>1. /\ ProperEnd(t) \in 0..Len(t)
      /\ \A i \in 1..ProperEnd(t) : i \notin A!Unfenced(t, rr)
      /\ ProperEnd(t) = Len(t) \/ ProperEnd(t) + 1 \in A!Unfenced(t, rr)
  BY ProperIs
<1>2. A!Unfenced(t, rr) = R \cup Q
  BY DEF A!Unfenced
<1>3. /\ R = {} => start = 0
      /\ R # {} => start \in R /\ \A i \in R : start <= i
      /\ Q = {} => report = 0
      /\ Q # {} => report \in Q /\ \A i \in Q : report <= i
  BY <1>0, FirstOfIs
<1>w. \A s : A!WithRecord(t, s) =
          IF start # 0 THEN SubSeq(t, 1, start - 1) \o s \o SubSeq(t, A!SectionEnd(t, start), Len(t))
          ELSE IF report # 0 THEN SubSeq(t, 1, report - 1) \o s \o SubSeq(t, report, Len(t)) ELSE t \o s
  BY DEF A!WithRecord
<1>o. A!Outside(t) = IF start = 0 THEN t ELSE SubSeq(t, 1, start - 1) \o SubSeq(t, A!SectionEnd(t, start), Len(t))
  BY DEF A!Outside
<1> HIDE DEF start, report
<1>4. CASE R # {}
  <2> DEFINE after == {i \in A!Unfenced(t, A!H2) : i > start}
             e == A!FirstOf(after, Len(t) + 1)
  <2>1. start \in 1..Len(t) /\ start \in R /\ \A i \in R : start <= i
    BY <1>0, <1>3, <1>4
  <2>2. A!Fences(t)[start - 1] = Null /\ start \in A!Unfenced(t, rr)
    BY <2>1, KindsUnfenced
  <2>3. ProperEnd(t) <= start - 1
    BY <1>0, <1>1, <2>1, <2>2
  <2>4. /\ after \in SUBSET Nat
        /\ \A i \in after : i > start /\ i \in 1..Len(t) /\ i \in A!Unfenced(t, A!H2)
    BY <2>1, UnfencedDef
  <2>5. /\ e \in Nat /\ start < e /\ e <= Len(t) + 1
        /\ e = Len(t) + 1 \/ e \in A!Unfenced(t, A!H2)
    <3> HIDE DEF after
    <3>1. CASE after = {}
      <4>1. e = Len(t) + 1
        BY <2>4, <3>1, FirstOfIs
      <4> HIDE DEF e
      <4> QED
        BY <1>0, <2>1, <4>1
    <3>2. CASE after # {}
      <4>1. e \in after
        BY <2>4, <3>2, FirstOfIs
      <4> HIDE DEF e
      <4>2. e > start /\ e \in 1..Len(t) /\ e \in A!Unfenced(t, A!H2)
        BY <2>4, <4>1
      <4> QED
        BY <1>0, <2>1, <4>2
    <3> QED
      BY <3>1, <3>2
  <2>6. e = A!SectionEnd(t, start)
    BY DEF A!SectionEnd
  <2> HIDE DEF e
  <2>61. start # 0
    BY <2>1
  <2>7. \A s : A!WithRecord(t, s) = SubSeq(t, 1, start - 1) \o s \o SubSeq(t, e, Len(t))
    BY <1>w, <2>6, <2>61
  <2>8. A!Outside(t) = SubSeq(t, 1, start - 1) \o SubSeq(t, e, Len(t))
    BY <1>o, <2>6, <2>61
  <2>9. start - 1 # Len(t) /\ start - 1 \in Nat /\ start - 1 < e
    BY <1>0, <2>1, <2>5
  <2>10. \A i \in R : start - 1 < i
    BY <1>0, <2>1
  <2> HIDE DEF start, R, Q
  <2>11. RecordPlace(t, start - 1, e)
    BY <2>2, <2>3, <2>5, <2>7, <2>8, <2>9, <2>10 DEF RecordPlace, R
  <2> QED
    BY <2>11
<1>5. CASE R = {} /\ Q # {}
  <2>1. report \in 1..Len(t) /\ report \in Q /\ start = 0
    BY <1>0, <1>3, <1>5
  <2>2. A!Fences(t)[report - 1] = Null /\ report \in A!Unfenced(t, rr) /\ report \in A!Unfenced(t, A!H2)
    BY <2>1, KindsUnfenced DEF A!H2
  <2>3. ProperEnd(t) <= report - 1
    BY <1>0, <1>1, <2>1, <2>2
  <2>4. A!Outside(t) = t
    BY <1>o, <2>1
  <2>11. report # 0
    BY <2>1
  <2>5. \A s : A!WithRecord(t, s) = SubSeq(t, 1, report - 1) \o s \o SubSeq(t, report, Len(t))
    BY <1>w, <2>1, <2>11
  <2>6. report - 1 # Len(t) /\ report - 1 \in Nat /\ report - 1 < report /\ report = report - 1 + 1 /\ report <= Len(t) + 1 /\ report \in Nat
    BY <1>0, <2>1
  <2>7. \A i \in R : report - 1 < i
    BY <1>5
  <2> HIDE DEF start, report, R, Q
  <2>8. RecordPlace(t, report - 1, report)
    BY <2>2, <2>3, <2>4, <2>5, <2>6, <2>7 DEF RecordPlace, R
  <2> QED
    BY <2>8
<1>6. CASE R = {} /\ Q = {}
  <2>1. start = 0 /\ report = 0
    BY <1>0, <1>3, <1>6
  <2>2. ProperEnd(t) = Len(t)
    BY <1>1, <1>2, <1>6
  <2>3. A!Outside(t) = t /\ \A s : A!WithRecord(t, s) = t \o s
    BY <1>w, <1>o, <2>1
  <2>4. A!Fences(t)[Len(t)] = Null
    BY <2>2 DEF Tidy
  <2>5. \A i \in R : Len(t) < i
    BY <1>6
  <2>6. Len(t) + 1 \in Nat /\ Len(t) < Len(t) + 1 /\ ProperEnd(t) <= Len(t)
    BY <1>0, <2>2
  <2> HIDE DEF R, Q
  <2>7. RecordPlace(t, Len(t), Len(t) + 1)
    BY <1>0, <2>3, <2>4, <2>5, <2>6 DEF RecordPlace, R
  <2> QED
    BY <2>7
<1> QED
  BY <1>4, <1>5, <1>6

Sealed(t, h) == A!WithRecord(t, A!RecordSection(h))

LEMMA SectionLines ==
    ASSUME NEW h
    PROVE  LET s == A!RecordSection(h) IN
           /\ IsText(s) /\ Len(s) = 2
           /\ s[1].is = "record" /\ s[2].is = "seal" /\ s[2].of = h
           /\ ~A!Opens(s[1]) /\ ~A!Opens(s[2])
<1> DEFINE s == A!RecordSection(h)
<1>1. s = <<A!Heading("record"), A!Line("seal", h)>>
  BY DEF A!RecordSection
<1>2. s \in Seq({A!Heading("record"), A!Line("seal", h)}) /\ Len(s) = 2 /\ s[1] = A!Heading("record") /\ s[2] = A!Line("seal", h)
  BY <1>1
<1>3. IsText(s)
  BY <1>2, SeqIsText
<1> QED
  BY <1>2, <1>3 DEF A!Heading, A!Line, A!Opens

SealedAt(n, t, h, c, e) ==
    LET w == Len(t) + 1 - e IN
    /\ IsText(n) /\ Len(n) = c + 2 + w /\ w \in Nat
    /\ \A i \in 1..c : n[i] = t[i]
    /\ n[c + 1] = A!RecordSection(h)[1] /\ n[c + 2] = A!RecordSection(h)[2]
    /\ \A i \in 1..w : n[c + 2 + i] = t[e - 1 + i]

LEMMA SealedLines ==
    ASSUME NEW t, IsText(t), NEW h, NEW c, NEW e, RecordPlace(t, c, e)
    PROVE  SealedAt(Sealed(t, h), t, h, c, e)
<1> DEFINE s == A!RecordSection(h)
           n == Sealed(t, h)
           w == Len(t) + 1 - e
           x == SubSeq(t, 1, c)
           y == SubSeq(t, e, Len(t))
<1>1. c \in Nat /\ e \in Nat /\ c < e /\ e <= Len(t) + 1 /\ Len(t) \in Nat
  BY DEF RecordPlace, IsText
<1>n. n = IF c = Len(t) THEN t \o s ELSE x \o s \o y
  BY DEF RecordPlace, Sealed
<1>2. IsText(s) /\ Len(s) = 2
  BY SectionLines
<1> HIDE DEF s, n
<1>3. w \in Nat
  BY <1>1
<1>4. CASE c = Len(t)
  <2>1. Joined(t \o s, t, s) /\ n = t \o s
    BY <1>n, <1>2, <1>4, CatText
  <2>2. Joined(n, t, s)
    BY <2>1
  <2>3. w = 0 /\ Len(t) + Len(s) = c + 2 + w
    BY <1>1, <1>2, <1>4
  <2> HIDE DEF w
  <2>4. /\ IsText(n) /\ Len(n) = c + 2 + w
        /\ \A i \in 1..c : n[i] = t[i]
        /\ n[c + 1] = s[1] /\ n[c + 2] = s[2]
    BY <1>1, <1>2, <1>4, <2>2, <2>3 DEF Joined
  <2>5. \A i \in 1..w : n[c + 2 + i] = t[e - 1 + i]
    BY <2>3
  <2> QED
    BY <1>3, <2>4, <2>5 DEF SealedAt, s, n, w
<1>5. CASE c # Len(t)
  <2>0. n = x \o s \o y
    BY <1>n, <1>5, Zenon
  <2>1. c <= Len(t)
    BY <1>1
  <2>2. Part(x, t, 0, c)
    <3>1. 0 + c <= Len(t) /\ 0 \in Nat
      BY <1>1, <2>1
    <3>2. Part(SubSeq(t, 0 + 1, 0 + c), t, 0, c)
      BY <1>1, <3>1, PartText
    <3>3. 0 + 1 = 1 /\ 0 + c = c
      BY <1>1
    <3> QED
      BY <3>2, <3>3
  <2>3. Part(y, t, e - 1, w)
    <3> DEFINE d == e - 1
    <3>1. d \in Nat /\ d + w <= Len(t) /\ d + 1 = e /\ d + w = Len(t)
      BY <1>1
    <3> HIDE DEF d, w
    <3>2. Part(SubSeq(t, d + 1, d + w), t, d, w)
      BY <1>3, <3>1, PartText
    <3>3. Part(y, t, d, w)
      BY <3>1, <3>2
    <3> QED
      BY <3>3 DEF d
  <2> HIDE DEF x, y
  <2>4. /\ IsText(x) /\ Len(x) = c /\ \A i \in 1..c : x[i] = t[0 + i]
        /\ IsText(y) /\ Len(y) = w /\ \A i \in 1..w : y[i] = t[e - 1 + i]
    BY <2>2, <2>3 DEF Part
  <2>5. Joined(x \o s, x, s)
    BY <1>2, <2>4, CatText
  <2> DEFINE z == x \o s
  <2>6. /\ IsText(z) /\ Len(z) = c + 2 /\ \A i \in 1..c : z[i] = x[i]
        /\ z[c + 1] = s[1] /\ z[c + 2] = s[2]
    BY <1>1, <1>2, <2>4, <2>5 DEF Joined
  <2>7. n = z \o y
    BY <2>0
  <2> HIDE DEF z
  <2>8. Joined(n, z, y)
    BY <2>4, <2>6, <2>7, CatText
  <2> HIDE DEF w
  <2>9. IsText(n) /\ Len(n) = c + 2 + w
    BY <2>4, <2>6, <2>8 DEF Joined
  <2>10. ASSUME NEW i \in 1..c PROVE n[i] = t[i]
    <3>1. i \in 1..Len(z) /\ 0 + i = i
      BY <1>1, <2>6
    <3> QED
      BY <2>4, <2>6, <2>8, <3>1 DEF Joined
  <2>11. n[c + 1] = s[1] /\ n[c + 2] = s[2]
    <3>1. c + 1 \in 1..Len(z) /\ c + 2 \in 1..Len(z)
      BY <1>1, <2>6
    <3> QED
      BY <2>6, <2>8, <3>1 DEF Joined
  <2>12. \A i \in 1..w : n[c + 2 + i] = t[e - 1 + i]
    BY <2>4, <2>6, <2>8 DEF Joined
  <2> QED
    BY <1>3, <2>9, <2>10, <2>11, <2>12 DEF SealedAt, s, n, w
<1> QED
  BY <1>4, <1>5

LEMMA SealedFences ==
    ASSUME NEW t, IsText(t), NEW n, NEW h, NEW c, NEW e, RecordPlace(t, c, e), SealedAt(n, t, h, c, e)
    PROVE  /\ Same(n, 0, t, 0, c)
           /\ A!Fences(n)[c] = Null /\ A!Fences(n)[c + 1] = Null /\ A!Fences(n)[c + 2] = Null
           /\ e # Len(t) + 1 => Same(n, c + 2, t, e - 1, Len(t) + 1 - e)
<1> DEFINE w == Len(t) + 1 - e
           s == A!RecordSection(h)
<1>1. /\ c \in Nat /\ e \in Nat /\ c < e /\ e <= Len(t) + 1 /\ Len(t) \in Nat
      /\ A!Fences(t)[c] = Null /\ (e = Len(t) + 1 \/ e \in A!Unfenced(t, A!H2))
  BY DEF RecordPlace, IsText
<1>2. /\ IsText(n) /\ Len(n) = c + 2 + w /\ w \in Nat
      /\ \A i \in 1..c : n[i] = t[i]
      /\ n[c + 1] = s[1] /\ n[c + 2] = s[2]
      /\ \A i \in 1..w : n[c + 2 + i] = t[e - 1 + i]
  BY DEF SealedAt
<1>3. ~A!Opens(s[1]) /\ ~A!Opens(s[2])
  BY SectionLines
<1> HIDE DEF s
<1>4. Len(n) \in Nat /\ c <= Len(n) /\ c <= Len(t)
  BY <1>1, <1>2
<1>5. /\ A!Fences(n)[0] = Null /\ A!Fences(t)[0] = Null
      /\ \A i \in 1..Len(n) : A!Fences(n)[i] = A!NextFence(n[i], A!Fences(n)[i - 1])
  BY <1>1, <1>4, FencesDef
<1>6. Same(n, 0, t, 0, c)
  BY <1>1, <1>2, <1>4, <1>5 DEF Same
<1>7. A!Fences(n)[c] = Null
  <2>1. \A i \in 0..c : A!Fences(n)[0 + i] = A!Fences(t)[0 + i]
    BY <1>6, FencesAgree
  <2>2. c \in 0..c /\ 0 + c = c
    BY <1>1
  <2>3. A!Fences(n)[0 + c] = A!Fences(t)[0 + c]
    BY <2>1, <2>2, Zenon
  <2> QED
    BY <1>1, <2>2, <2>3
<1>8. A!Fences(n)[c + 1] = Null
  <2>1. c + 1 \in 1..Len(n) /\ c + 1 - 1 = c
    BY <1>1, <1>2
  <2>2. A!Fences(n)[c + 1] = A!NextFence(n[c + 1], A!Fences(n)[c])
    BY <1>1, <1>5, <2>1
  <2> QED
    BY <1>2, <1>3, <1>7, <2>2 DEF A!NextFence
<1>9. A!Fences(n)[c + 2] = Null
  <2>1. c + 2 \in 1..Len(n) /\ c + 2 - 1 = c + 1
    BY <1>1, <1>2
  <2>2. A!Fences(n)[c + 2] = A!NextFence(n[c + 2], A!Fences(n)[c + 1])
    BY <1>1, <1>5, <2>1
  <2> QED
    BY <1>2, <1>3, <1>8, <2>2 DEF A!NextFence
<1>10. ASSUME e # Len(t) + 1
       PROVE  Same(n, c + 2, t, e - 1, w)
  <2>1. e \in 1..Len(t) /\ UnfencedIs(t, e, A!H2)
    BY <1>1, <1>10, UnfencedDef
  <2>2. A!Fences(t)[e - 1] = Null
    BY <2>1 DEF UnfencedIs
  <2>3. e - 1 \in Nat /\ c + 2 \in Nat /\ c + 2 + w <= Len(n) /\ e - 1 + w <= Len(t)
    BY <1>1, <1>2, <2>1
  <2> HIDE DEF w
  <2> QED
    BY <1>2, <1>9, <2>2, <2>3 DEF Same
<1> QED
  BY <1>6, <1>7, <1>8, <1>9, <1>10

(* Where the lines behind a record stand, before and after it is written.       *)
LEMMA TailPlaces ==
    ASSUME NEW c \in Nat, NEW e \in Nat, NEW m \in Nat, NEW k, c < e, e <= m + 1, k = c + 2 + (m + 1 - e)
    PROVE  /\ e - 1 \in Nat /\ e - 1 + (m + 1 - e) <= m /\ (e - 1) + 1 = e /\ e - 1 + (m + 1 - e) = m
           /\ c + 2 \in Nat /\ c + 2 + (m + 1 - e) <= k /\ (c + 2) + 1 = c + 3 /\ c + 2 + (m + 1 - e) = k
OBVIOUS

LEMMA SealedText ==
    ASSUME NEW t, IsText(t), Tidy(t), NEW h
    PROVE  /\ IsText(Sealed(t, h)) /\ Tidy(Sealed(t, h))
           /\ A!Proper(Sealed(t, h)) = A!Proper(t)
           /\ A!ReadSeal(A!RecordOf(Sealed(t, h))) = h
           /\ A!Outside(Sealed(t, h)) = A!Outside(t)
<1> DEFINE n == Sealed(t, h)
           rr == {"record", "report"}
           p == ProperEnd(t)
<1>p. PICK c, e : RecordPlace(t, c, e)
  BY PlaceExists
<1> DEFINE w == Len(t) + 1 - e
           s == A!RecordSection(h)
<1>a. SealedAt(n, t, h, c, e)
  BY <1>p, SealedLines
<1> HIDE DEF n
<1>f. /\ Same(n, 0, t, 0, c)
      /\ A!Fences(n)[c] = Null /\ A!Fences(n)[c + 1] = Null /\ A!Fences(n)[c + 2] = Null
      /\ e # Len(t) + 1 => Same(n, c + 2, t, e - 1, w)
  BY <1>p, <1>a, SealedFences
<1>1. /\ c \in Nat /\ e \in Nat /\ c < e /\ e <= Len(t) + 1 /\ Len(t) \in Nat /\ w \in Nat
      /\ p <= c /\ p \in Nat
      /\ e = Len(t) + 1 \/ e \in A!Unfenced(t, A!H2)
      /\ \A i \in A!Unfenced(t, {"record"}) : c < i
  BY <1>p, ProperIs DEF RecordPlace, IsText
<1>2. /\ IsText(n) /\ Len(n) = c + 2 + w /\ Len(n) \in Nat
      /\ \A i \in 1..c : n[i] = t[i]
      /\ n[c + 1] = s[1] /\ n[c + 2] = s[2]
      /\ \A i \in 1..w : n[c + 2 + i] = t[e - 1 + i]
  BY <1>1, <1>a DEF SealedAt, IsText
<1>3. /\ s[1].is = "record" /\ s[2].is = "seal" /\ s[2].of = h
      /\ ~A!Opens(s[1]) /\ ~A!Opens(s[2])
  BY SectionLines
<1> HIDE DEF s
<1>4. \A K : /\ A!Unfenced(n, K) \in SUBSET (1..Len(n)) /\ A!Unfenced(t, K) \in SUBSET (1..Len(t))
             /\ \A i \in 1..c : i \in A!Unfenced(n, K) <=> i \in A!Unfenced(t, K)
  <2> TAKE K
  <2>1. A!Unfenced(n, K) \in SUBSET (1..Len(n)) /\ A!Unfenced(t, K) \in SUBSET (1..Len(t))
    BY <1>2, UnfencedDef
  <2>2. \A i \in 1..c : 0 + i \in A!Unfenced(n, K) <=> 0 + i \in A!Unfenced(t, K)
    BY <1>f, UnfencedAgree
  <2>3. ASSUME NEW i \in 1..c PROVE i \in A!Unfenced(n, K) <=> i \in A!Unfenced(t, K)
    <3>1. 0 + i = i
      BY <1>1
    <3> QED
      BY <2>2, <3>1
  <2> QED
    BY <2>1, <2>3
<1>5. \A K : "record" \in K => c + 1 \in A!Unfenced(n, K)
  <2> TAKE K
  <2>1. c + 1 \in 1..Len(n) /\ c + 1 - 1 = c
    BY <1>1, <1>2
  <2>2. "record" \in K => UnfencedIs(n, c + 1, K)
    BY <1>1, <1>2, <1>3, <1>f, <2>1 DEF UnfencedIs
  <2> QED
    BY <1>2, <2>1, <2>2, UnfencedDef
<1>6. ProperEnd(n) = p
  <2> DEFINE S == A!Unfenced(n, rr)
  <2>1. S \in SUBSET Nat /\ S \in SUBSET (1..Len(n))
    BY <1>2, <1>4
  <2>2. \A i \in S : p + 1 <= i
    <3>1. \A i \in 1..p : i \notin A!Unfenced(t, rr)
      BY ProperIs
    <3>2. \A i \in 1..p : i \in 1..c
      BY <1>1
    <3>3. \A i \in 1..p : i \notin S
      BY <1>4, <3>1, <3>2
    <3> HIDE DEF S
    <3> QED
      BY <1>1, <2>1, <3>3
  <2>3. p + 1 \in S
    <3>1. CASE p = c
      BY <1>5, <3>1
    <3>2. CASE p # c
      <4>1. p + 1 \in 1..c /\ p # Len(t)
        BY <1>1, <3>2
      <4>2. p + 1 \in A!Unfenced(t, rr)
        BY <4>1, ProperIs
      <4> QED
        BY <1>4, <4>1, <4>2
    <3> QED
      BY <3>1, <3>2
  <2> HIDE DEF S
  <2>4. A!FirstOf(S, Len(n) + 1) = p + 1
    BY <1>2, <2>1, <2>2, <2>3, FirstIs
  <2> QED
    BY <1>1, <2>4 DEF ProperEnd, S
<1>7. A!Proper(n) = A!Proper(t)
  <2>1. /\ IsText(A!Proper(n)) /\ Len(A!Proper(n)) = p /\ \A i \in 1..p : A!Proper(n)[i] = n[i]
        /\ IsText(A!Proper(t)) /\ Len(A!Proper(t)) = p /\ \A i \in 1..p : A!Proper(t)[i] = t[i]
    BY <1>2, <1>6, ProperIs
  <2>2. \A i \in 1..p : n[i] = t[i]
    BY <1>1, <1>2
  <2> QED
    BY <2>1, <2>2, TextEqual
<1>8. Tidy(n)
  <2>1. \A i \in 0..c : A!Fences(n)[0 + i] = A!Fences(t)[0 + i]
    BY <1>f, FencesAgree
  <2>2. p \in 0..c /\ 0 + p = p
    BY <1>1
  <2>3. A!Fences(n)[0 + p] = A!Fences(t)[0 + p]
    BY <2>1, <2>2, Zenon
  <2> QED
    BY <1>6, <2>2, <2>3 DEF Tidy
<1>9. A!FirstOf(A!Unfenced(n, {"record"}), 0) = c + 1
  <2> DEFINE S == A!Unfenced(n, {"record"})
  <2>1. S \in SUBSET Nat /\ S \in SUBSET (1..Len(n))
    BY <1>2, <1>4
  <2>2. c + 1 \in S
    BY <1>5
  <2>3. \A i \in S : c + 1 <= i
    <3>1. \A i \in 1..c : i \notin S
      BY <1>1, <1>4
    <3> HIDE DEF S
    <3> QED
      BY <1>1, <2>1, <3>1
  <2> HIDE DEF S
  <2>4. A!FirstOf(S, 0) = c + 1
    BY <2>1, <2>2, <2>3, FirstIs
  <2> QED
    BY <2>4 DEF S
<1>10. A!SectionEnd(n, c + 1) = c + 3
  <2> DEFINE S == {i \in A!Unfenced(n, A!H2) : i > c + 1}
  <2>1. S \in SUBSET Nat /\ \A i \in S : i \in 1..Len(n) /\ i > c + 1 /\ i \in A!Unfenced(n, A!H2)
    BY <1>2, <1>4
  <2>2. c + 2 \notin S
    <3>1. "seal" \notin A!H2
      BY DEF A!H2
    <3>2. c + 2 \in 1..Len(n)
      BY <1>1, <1>2
    <3>3. ~UnfencedIs(n, c + 2, A!H2)
      BY <1>2, <1>3, <3>1 DEF UnfencedIs
    <3> QED
      BY <1>2, <2>1, <3>2, <3>3, UnfencedDef
  <2>3. \A i \in S : c + 3 <= i
    <3> HIDE DEF S
    <3>1. \A i \in S : i # c + 2 /\ i \in Nat /\ i > c + 1
      BY <2>1, <2>2
    <3> QED
      BY <1>1, <3>1
  <2>4. A!FirstOf(S, Len(n) + 1) = c + 3
    <3>1. CASE e = Len(t) + 1
      <4>1. Len(n) + 1 = c + 3
        BY <1>1, <1>2, <3>1
      <4>2. S = {}
        BY <1>1, <1>2, <2>1, <2>3, <4>1
      <4> HIDE DEF S
      <4>3. A!FirstOf(S, Len(n) + 1) = Len(n) + 1
        BY <2>1, <4>2, FirstOfIs
      <4> QED
        BY <4>1, <4>3
    <3>2. CASE e # Len(t) + 1
      <4>1. 1 \in 1..w /\ e - 1 + 1 = e /\ c + 2 + 1 = c + 3 /\ c + 3 > c + 1 /\ c + 3 \in Nat
        BY <1>1, <3>2
      <4>2. \A i \in 1..w : c + 2 + i \in A!Unfenced(n, A!H2) <=> e - 1 + i \in A!Unfenced(t, A!H2)
        BY <1>f, <3>2, UnfencedAgree
      <4>3. c + 2 + 1 \in A!Unfenced(n, A!H2) <=> e - 1 + 1 \in A!Unfenced(t, A!H2)
        BY <4>1, <4>2, Zenon
      <4>4. c + 3 \in S
        BY <1>1, <3>2, <4>1, <4>3
      <4> HIDE DEF S
      <4> QED
        BY <2>1, <2>3, <4>4, FirstIs
    <3> QED
      BY <3>1, <3>2
  <2> QED
    BY <2>4 DEF A!SectionEnd
<1>11. A!ReadSeal(A!RecordOf(n)) = h
  <2> DEFINE r == A!RecordOf(n)
  <2>1. r = SubSeq(n, c + 1, c + 2)
    <3>1. c + 1 # 0 /\ c + 3 - 1 = c + 2
      BY <1>1
    <3> DEFINE start == A!FirstOf(A!Unfenced(n, {"record"}), 0)
               end == A!SectionEnd(n, start)
    <3>2. r = IF start = 0 THEN <<>> ELSE SubSeq(n, start, end - 1)
      BY DEF A!RecordOf
    <3>3. start = c + 1 /\ end = c + 3
      BY <1>9, <1>10
    <3> HIDE DEF start, end, r
    <3> QED
      BY <1>1, <3>1, <3>2, <3>3
  <2> HIDE DEF r
  <2>2. Part(r, n, c, 2)
    <3>1. c + 2 <= Len(n)
      BY <1>1, <1>2
    <3> QED
      BY <1>1, <1>2, <2>1, <3>1, PartText
  <2>3. IsText(r) /\ Len(r) = 2 /\ r[1] = s[1] /\ r[2] = s[2]
    BY <1>2, <2>2 DEF Part
  <2>4. DOMAIN r = 1..2
    BY <2>3 DEF IsText
  <2>5. {i \in DOMAIN r : r[i].is = "seal"} = {2}
    BY <1>3, <2>3, <2>4
  <2>6. A!Min({2}) = 2
    BY DEF A!Min
  <2> QED
    BY <1>3, <2>3, <2>5, <2>6 DEF A!ReadSeal, r
<1>12. A!Outside(n) = A!Outside(t)
  <2> DEFINE x == SubSeq(t, 1, c)
             y == SubSeq(t, e, Len(t))
             xn == SubSeq(n, 1, c)
             yn == SubSeq(n, c + 3, Len(n))
  <2>1. A!Outside(n) = xn \o yn
    <3>1. c + 1 # 0 /\ c + 1 - 1 = c
      BY <1>1
    <3> DEFINE start == A!FirstOf(A!Unfenced(n, {"record"}), 0)
               end == A!SectionEnd(n, start)
    <3>2. A!Outside(n) = IF start = 0 THEN n ELSE SubSeq(n, 1, start - 1) \o SubSeq(n, end, Len(n))
      BY DEF A!Outside
    <3>3. start = c + 1 /\ end = c + 3
      BY <1>9, <1>10
    <3> HIDE DEF start, end
    <3>4. A!Outside(n) = SubSeq(n, 1, start - 1) \o SubSeq(n, end, Len(n))
      <4>1. start # 0
        BY <3>1, <3>3
      <4> QED
        BY <3>2, <4>1, Zenon
    <3>5. start - 1 = c
      BY <1>1, <3>3
    <3> QED
      BY <3>3, <3>4, <3>5, Zenon
  <2>2. Part(x, t, 0, c) /\ Part(xn, n, 0, c)
    <3>1. 0 + c <= Len(t) /\ 0 + c <= Len(n) /\ 0 \in Nat /\ 0 + 1 = 1 /\ 0 + c = c
      BY <1>1, <1>2
    <3>2. Part(SubSeq(t, 0 + 1, 0 + c), t, 0, c) /\ Part(SubSeq(n, 0 + 1, 0 + c), n, 0, c)
      BY <1>1, <1>2, <3>1, PartText
    <3> QED
      BY <3>1, <3>2
  <2>3. Part(y, t, e - 1, w) /\ Part(yn, n, c + 2, w)
    <3> DEFINE d == e - 1
               f == c + 2
    <3>1. /\ d \in Nat /\ d + w <= Len(t) /\ d + 1 = e /\ d + w = Len(t)
          /\ f \in Nat /\ f + w <= Len(n) /\ f + 1 = c + 3 /\ f + w = Len(n)
      <4>1. c \in Nat /\ e \in Nat /\ c < e /\ e <= Len(t) + 1 /\ Len(t) \in Nat
        BY <1>1
      <4>2. Len(n) = c + 2 + w
        BY <1>2
      <4> QED
        BY <4>1, <4>2, TailPlaces
    <3> HIDE DEF d, f, w
    <3>2. Part(SubSeq(t, d + 1, d + w), t, d, w) /\ Part(SubSeq(n, f + 1, f + w), n, f, w)
      BY <1>1, <1>2, <3>1, PartText
    <3>3. Part(y, t, d, w) /\ Part(yn, n, f, w)
      BY <3>1, <3>2
    <3> QED
      BY <3>3 DEF d, f
  <2> HIDE DEF x, y, xn, yn
  <2>4. x = xn
    <3>1. IsText(x) /\ IsText(xn) /\ Len(x) = c /\ Len(xn) = c /\ \A i \in 1..c : x[i] = t[0 + i] /\ xn[i] = n[0 + i]
      BY <2>2 DEF Part
    <3>2. \A i \in 1..c : t[0 + i] = n[0 + i]
      BY <1>1, <1>2
    <3> QED
      BY <3>1, <3>2, TextEqual
  <2>5. y = yn
    <3>1. IsText(y) /\ IsText(yn) /\ Len(y) = w /\ Len(yn) = w /\ \A i \in 1..w : y[i] = t[e - 1 + i] /\ yn[i] = n[c + 2 + i]
      BY <2>3 DEF Part
    <3> HIDE DEF w
    <3> QED
      BY <1>2, <3>1, TextEqual
  <2>6. A!Outside(n) = x \o y
    BY <2>1, <2>4, <2>5
  <2>7. CASE A!Outside(t) = x \o y
    BY <2>6, <2>7
  <2>8. CASE e = c + 1 /\ A!Outside(t) = t
    <3>1. Joined(x \o y, x, y)
      BY <2>2, <2>3, CatText DEF Part
    <3> DEFINE z == x \o y
    <3> HIDE DEF z
    <3>2. Joined(z, x, y)
      BY <3>1 DEF z
    <3>3. IsText(z) /\ Len(z) = c + w /\ \A i \in 1..c : z[i] = t[0 + i]
      BY <2>2, <2>3, <3>2 DEF Part, Joined
    <3>4. \A i \in 1..w : z[c + i] = t[e - 1 + i]
      BY <2>2, <2>3, <3>2 DEF Part, Joined
    <3>5. Len(z) = Len(t) /\ e - 1 = c
      BY <1>1, <2>8, <3>3
    <3>6. ASSUME NEW i \in 1..Len(z) PROVE z[i] = t[i]
      <4>1. CASE i <= c
        <5>1. i \in 1..c /\ 0 + i = i
          BY <1>1, <3>5, <4>1
        <5> QED
          BY <3>3, <5>1
      <4>2. CASE ~(i <= c)
        <5>1. i - c \in 1..w /\ c + (i - c) = i /\ e - 1 + (i - c) = i
          BY <1>1, <3>5, <4>2
        <5>2. z[c + (i - c)] = t[e - 1 + (i - c)]
          BY <3>4, <5>1
        <5> QED
          BY <5>1, <5>2
      <4> QED
        BY <4>1, <4>2
    <3>7. z = t
      BY <3>3, <3>5, <3>6, TextEqual
    <3> QED
      BY <2>6, <2>8, <3>7 DEF z
  <2> QED
    BY <1>p, <2>7, <2>8 DEF RecordPlace, x, y
<1> QED
  BY <1>2, <1>7, <1>8, <1>11, <1>12 DEF n

(***************************************************************************)
(* The plan tool at work: the plan file and the seal in flight, then where      *)
(* each record that the plan ever named is.                                     *)
(***************************************************************************)
Stages == {"archive", "sidecar", "plan", "restore"}
SealJob(j) == j = [at |-> j.at, before |-> j.before, existing |-> j.existing, record |-> j.record, next |-> j.next]
ClearJob(j) == j = [at |-> "clear", phase |-> j.phase, left |-> j.left]
(* A record is no Null. The untyped logic does not tell a record from a constant. *)
RecordsAreNotNull ==
    \A p, o, s, h, u : [previous |-> p, over |-> o, sizes |-> s, history |-> h, outputs |-> u] # Null

(* The plan file, and what a seal in flight holds.                              *)
PlanInv == plan = A!Parsed(plan.text) /\ IsText(plan.text) /\ (opened \/ Tidy(plan.text))
SealInv ==
    /\ job.at = "clear" => ClearJob(job)
    /\ job.at \in Stages =>
        /\ SealJob(job) /\ job.record # Null /\ job.before = plan
        /\ job.next = A!Parsed(Sealed(plan.text, job.record))
        /\ job.at \in {"archive", "sidecar"} => job.existing = sidecar
        /\ job.at \in {"plan", "restore"} => job.record = sidecar

LEMMA ParsedIs ==
    ASSUME NEW t
    PROVE  /\ A!Parsed(t).text = t /\ A!Parsed(t).proper = A!Proper(t)
           /\ A!Parsed(t).seal = A!ReadSeal(A!RecordOf(t)) /\ A!Parsed(t).binding = A!BindingFor(t)
BY DEF A!Parsed

LEMMA InputTexts ==
    /\ \A t \in Plans : IsText(t)
    /\ \A p \in Propers : IsText(p) /\ (A!NoFenceOpen(p) => ClosedProper(p))
<1>1. A!InputsAssumption
  BY InputsAssumption
<1>2. \A t \in Plans \cup Propers : IsText(t)
  BY <1>1, SeqIsText DEF A!InputsAssumption
<1> QED
  BY <1>1, <1>2 DEF A!InputsAssumption, A!NoFenceOpen, ClosedProper

(* A text put before the end of another.                                        *)
LEMMA EditedText ==
    ASSUME NEW t, IsText(t), NEW p, IsText(p)
    PROVE  IsText(Replaced(t, p))
<1> DEFINE e == ProperEnd(t)
           k == Len(t) - e
<1>1. e \in 0..Len(t) /\ Len(t) \in Nat
  BY ProperIs DEF IsText
<1>2. k \in Nat /\ e \in Nat /\ e + k <= Len(t) /\ Len(t) = e + k
  BY <1>1
<1> HIDE DEF e, k
<1>3. IsText(SubSeq(t, e + 1, Len(t)))
  BY <1>2, PartText DEF Part
<1>4. Joined(p \o SubSeq(t, e + 1, Len(t)), p, SubSeq(t, e + 1, Len(t)))
  BY <1>3, CatText
<1> QED
  BY <1>4 DEF Joined, Replaced, e

LEMMA EditedPlan ==
    ASSUME PlanInv, A!EditPlan
    PROVE  PlanInv' /\ (opened \/ opened' \/ plan'.seal = plan.seal) /\ (opened => opened')
<1>1. PICK p \in Propers : /\ plan' = A!Parsed(p \o SubSeq(plan.text, Len(plan.proper) + 1, Len(plan.text)))
                           /\ opened' = (opened \/ ~A!NoFenceOpen(p))
  BY DEF A!EditPlan
<1>2. Len(plan.proper) = ProperEnd(plan.text)
  BY ProperIs, ParsedIs DEF PlanInv
<1>3. plan' = A!Parsed(Replaced(plan.text, p))
  BY <1>1, <1>2 DEF Replaced
<1>4. plan'.text = Replaced(plan.text, p)
  BY <1>3, ParsedIs
<1>5. IsText(Replaced(plan.text, p))
  BY InputTexts, EditedText DEF PlanInv
<1>6. CASE opened'
  BY <1>1, <1>3, <1>4, <1>5, <1>6 DEF PlanInv
<1>7. CASE ~opened'
  <2>1. ~opened /\ A!NoFenceOpen(p)
    BY <1>1, <1>7
  <2>2. ClosedProper(p) /\ Tidy(plan.text)
    BY <2>1, InputTexts DEF PlanInv
  <2>3. Tidy(Replaced(plan.text, p)) /\ A!RecordOf(Replaced(plan.text, p)) = A!RecordOf(plan.text)
    BY <2>2, ReplacedText DEF PlanInv
  <2>4. plan'.seal = A!ReadSeal(A!RecordOf(Replaced(plan.text, p))) /\ plan.seal = A!ReadSeal(A!RecordOf(plan.text))
    BY <1>3, ParsedIs DEF PlanInv
  <2> QED
    BY <1>3, <1>4, <1>5, <2>1, <2>3, <2>4 DEF PlanInv
<1> QED
  BY <1>6, <1>7

(* What follows an open fence is not read as a record.                          *)
LEMMA OpenText ==
    ASSUME NEW t, IsText(t), ~Tidy(t), NEW h
    PROVE  /\ Sealed(t, h) = t \o A!RecordSection(h) /\ IsText(Sealed(t, h))
           /\ A!ReadSeal(A!RecordOf(Sealed(t, h))) = Null
<1> DEFINE rr == {"record", "report"}
           s == A!RecordSection(h)
           n == t \o s
           k == Len(t)
<1>1. k \in Nat /\ A!Unfenced(t, rr) \in SUBSET (1..k) /\ A!Fences(t)[0] = Null
  BY UnfencedDef, FencesDef DEF IsText
<1>2. ProperEnd(t) = k /\ A!Fences(t)[k] # Null
  <2>1. ProperEnd(t) \in 0..k /\ (ProperEnd(t) = k \/ ProperEnd(t) + 1 \in A!Unfenced(t, rr))
    BY ProperIs
  <2>2. ASSUME ProperEnd(t) + 1 \in A!Unfenced(t, rr) PROVE FALSE
    <3>1. PICK i \in 1..k : i \in A!Unfenced(t, rr) /\ i - 1 = ProperEnd(t)
      BY <1>1, <2>1, <2>2
    <3>2. UnfencedIs(t, i, rr)
      BY <3>1, UnfencedDef
    <3>3. A!Fences(t)[i - 1] = Null
      BY <3>2 DEF UnfencedIs
    <3> QED
      BY <3>1, <3>3 DEF Tidy
  <2> QED
    BY <2>1, <2>2 DEF Tidy
<1>3. \A i \in 1..k : i \notin A!Unfenced(t, rr)
  BY <1>2, ProperIs
<1>4. A!Unfenced(t, {"record"}) = {} /\ A!Unfenced(t, {"report"}) = {}
  BY <1>1, <1>3, UnfencedDef DEF UnfencedIs
<1>5. Sealed(t, h) = n
  <2>1. \A x : A!FirstOf({}, x) = x
    BY DEF A!FirstOf
  <2> QED
    BY <1>4, <2>1 DEF Sealed, A!WithRecord
<1>6. IsText(s) /\ Len(s) = 2 /\ s[1].is = "record"
  BY SectionLines
<1> HIDE DEF s
<1>7. IsText(n) /\ Len(n) = k + 2 /\ (\A i \in 1..k : n[i] = t[i]) /\ \A i \in 1..2 : n[k + i] = s[i]
  <2>1. Joined(t \o s, t, s)
    BY <1>6, CatText
  <2>2. Joined(n, t, s)
    BY <2>1
  <2> QED
    BY <1>6, <2>2 DEF Joined
<1> HIDE DEF n, k
<1>8. /\ A!Fences(n)[0] = Null
      /\ \A i \in 1..Len(n) : A!Fences(n)[i] = A!NextFence(n[i], A!Fences(n)[i - 1])
  BY <1>1, <1>7, FencesDef
<1>9. \A i \in 0..k : A!Fences(n)[i] = A!Fences(t)[i]
  <2>1. Same(n, 0, t, 0, k)
    BY <1>1, <1>7, <1>8 DEF Same, k
  <2>2. \A i \in 0..k : A!Fences(n)[0 + i] = A!Fences(t)[0 + i]
    BY <2>1, FencesAgree
  <2> QED
    BY <1>1, <2>2
<1>10. A!Fences(n)[k] # Null /\ A!Fences(n)[k + 1] # Null
  <2>1. A!Fences(n)[k] # Null
    BY <1>1, <1>2, <1>9
  <2>2. PICK i \in 1..Len(n) : i = k + 1 /\ i - 1 = k /\ n[i] = s[1]
    BY <1>1, <1>7
  <2>3. A!Fences(n)[i] = A!NextFence(s[1], A!Fences(n)[k])
    <3>1. A!Fences(n)[i] = A!NextFence(n[i], A!Fences(n)[i - 1])
      BY <1>8
    <3> QED
      BY <2>2, <3>1
  <2>4. ~A!Closes(s[1], A!Fences(n)[k])
    BY <1>6 DEF A!Closes
  <2> QED
    BY <2>1, <2>2, <2>3, <2>4 DEF A!NextFence
<1>11. A!Unfenced(n, {"record"}) = {}
  <2> SUFFICES ASSUME NEW i \in A!Unfenced(n, {"record"}) PROVE FALSE
    OBVIOUS
  <2>1. i \in 1..(k + 2) /\ UnfencedIs(n, i, {"record"})
    BY <1>7, UnfencedDef
  <2>2. CASE i <= k
    <3>1. i \in 1..k /\ i - 1 \in 0..k
      BY <1>1, <2>1, <2>2
    <3>2. UnfencedIs(t, i, {"record"})
      BY <1>7, <1>9, <2>1, <3>1 DEF UnfencedIs
    <3> QED
      BY <1>4, <3>1, <3>2, UnfencedDef DEF k
  <2>3. CASE i > k
    <3>1. i - 1 = k \/ i - 1 = k + 1
      BY <1>1, <2>1, <2>3
    <3> QED
      BY <1>10, <2>1, <3>1 DEF UnfencedIs
  <2> QED
    BY <1>1, <2>1, <2>2, <2>3
<1>12. A!RecordOf(n) = <<>>
  BY <1>11 DEF A!RecordOf, A!FirstOf
<1>13. A!ReadSeal(<<>>) = Null
  <2>1. DOMAIN <<>> = {}
    OBVIOUS
  <2> QED
    BY <2>1 DEF A!ReadSeal
<1> QED
  BY <1>5, <1>7, <1>12, <1>13 DEF n, s

LEMMA SealedPlan ==
    ASSUME PlanInv, NEW h, NEW next, next = A!Parsed(Sealed(plan.text, h))
    PROVE  /\ next = A!Parsed(next.text) /\ IsText(next.text)
           /\ IF A!NoFenceOpen(plan.proper)
              THEN /\ Tidy(next.text) /\ next.seal = h /\ next.proper = plan.proper
                   /\ A!Outside(next.text) = A!Outside(plan.text)
              ELSE opened /\ next.seal = Null /\ next.text = plan.text \o A!RecordSection(h)
<1>1. next.text = Sealed(plan.text, h) /\ next.proper = A!Proper(Sealed(plan.text, h)) /\ next.seal = A!ReadSeal(A!RecordOf(Sealed(plan.text, h)))
  BY ParsedIs
<1>2. plan.proper = A!Proper(plan.text)
  BY ParsedIs DEF PlanInv
<1>3. A!NoFenceOpen(plan.proper) <=> Tidy(plan.text)
  BY <1>2, TidyIs DEF PlanInv, A!NoFenceOpen
<1>4. CASE Tidy(plan.text)
  BY <1>1, <1>2, <1>3, <1>4, SealedText DEF PlanInv
<1>5. CASE ~Tidy(plan.text)
  BY <1>1, <1>3, <1>5, OpenText DEF PlanInv
<1> QED
  BY <1>4, <1>5

LEMMA Advance ==
    ASSUME NEW j, SealJob(j), NEW x, NEW k, k = [j EXCEPT !.at = x]
    PROVE  /\ SealJob(k) /\ k.at = x /\ k.before = j.before /\ k.existing = j.existing
           /\ k.record = j.record /\ k.next = j.next
<1>1. k = [at |-> x, before |-> j.before, existing |-> j.existing, record |-> j.record, next |-> j.next]
  BY DEF SealJob
<1> QED
  BY <1>1 DEF SealJob

(* What each action does to the job, to the plan and to the sidecar.            *)
LEMMA PlanStep ==
    ASSUME PlanInv, SealInv, RecordsAreNotNull, A!Next
    PROVE  PlanInv' /\ SealInv'
<1> USE DEF A!files, A!dir, A!session, A!past, Stages
<1>1. CASE A!EditPlan
  <2>1. PlanInv'
    BY <1>1, EditedPlan
  <2>2. job' = job /\ job = A!Idle
    BY <1>1 DEF A!EditPlan
  <2> QED
    BY <2>1, <2>2 DEF SealInv, A!Idle
<1>2. CASE A!WriteOutput \/ A!WriteMessage \/ A!MoveAside
  <2>1. plan' = plan /\ opened' = opened /\ job' = job /\ job = A!Idle
    BY <1>2 DEF A!WriteOutput, A!WriteMessage, A!MoveAside
  <2> QED
    BY <2>1 DEF PlanInv, SealInv, A!Idle
<1>3. CASE A!Kill
  <2>1. plan' = plan /\ opened' = opened /\ job' = A!Idle
    BY <1>3 DEF A!Kill, A!End
  <2> QED
    BY <2>1 DEF PlanInv, SealInv, A!Idle
<1>4. CASE A!Prompt \/ A!AppendRow \/ A!ArchivePhase \/ A!ClearOutput \/ A!Check
  <2>1. plan' = plan /\ opened' = opened /\ job'.at \notin Stages /\ (job'.at = "clear" => ClearJob(job'))
    <3>1. CASE A!Prompt
      BY <3>1 DEF A!Prompt, A!Refuse, A!End, A!Idle
    <3>2. CASE A!AppendRow
      BY <3>2 DEF A!AppendRow, A!End, A!Idle
    <3>3. CASE A!ArchivePhase
      <4>1. plan' = plan /\ opened' = opened /\ job = A!Idle
        BY <3>3 DEF A!ArchivePhase, A!Refuse, A!Begin
      <4>2. job' = A!Idle \/ \E p, l : job' = [at |-> "clear", phase |-> p, left |-> l]
        BY <3>3 DEF A!ArchivePhase, A!Refuse, A!End
      <4> QED
        BY <4>1, <4>2 DEF A!Idle, ClearJob
    <3>4. CASE A!ClearOutput
      <4>1. plan' = plan /\ opened' = opened /\ job.at = "clear"
        BY <3>4 DEF A!ClearOutput
      <4>2. job' = A!Idle \/ \E l : job' = [job EXCEPT !.left = l]
        BY <3>4 DEF A!ClearOutput, A!End
      <4>3. job = [at |-> "clear", phase |-> job.phase, left |-> job.left]
        BY <4>1 DEF SealInv, ClearJob
      <4>4. ASSUME NEW l, job' = [job EXCEPT !.left = l] PROVE job' = [at |-> "clear", phase |-> job.phase, left |-> l]
        BY <4>3, <4>4
      <4> QED
        BY <4>1, <4>2, <4>4 DEF A!Idle, ClearJob
    <3>5. CASE A!Check
      <4>1. job' = A!Idle /\ UNCHANGED <<A!files, A!dir, A!session, A!past>>
        BY <3>5, Zenon DEF A!Check
      <4> QED
        BY <4>1 DEF A!Idle
    <3> QED
      BY <1>4, <3>1, <3>2, <3>3, <3>4, <3>5
  <2> QED
    BY <2>1 DEF PlanInv, SealInv
<1>5. CASE A!Seal
  <2>1. plan' = plan /\ opened' = opened /\ sidecar' = sidecar
    BY <1>5 DEF A!Seal, A!Refuse
  <2>2. CASE job' = A!Idle
    BY <2>1, <2>2 DEF PlanInv, SealInv, A!Idle
  <2>3. CASE job' # A!Idle
    <3>1. job' = [at |-> IF A!SealedHere /\ A!Archived = Null THEN "archive" ELSE "sidecar", before |-> plan,
                  existing |-> sidecar, record |-> A!AssembleSidecar,
                  next |-> A!Parsed(Sealed(plan.text, A!AssembleSidecar))]
      BY <1>5, <2>3 DEF A!Seal, A!Refuse, A!End, Sealed
    <3>2. A!AssembleSidecar # Null
      BY DEF RecordsAreNotNull, A!AssembleSidecar
    <3>3. job'.record = A!AssembleSidecar /\ job'.at \in {"archive", "sidecar"}
      BY <3>1
    <3> QED
      BY <2>1, <3>1, <3>2, <3>3 DEF PlanInv, SealInv, SealJob
  <2> QED
    BY <2>2, <2>3
<1>6. CASE A!ArchiveSidecar \/ A!PublishSidecar
  <2>1. plan' = plan /\ opened' = opened /\ job.at \in {"archive", "sidecar"}
    BY <1>6 DEF A!ArchiveSidecar, A!PublishSidecar
  <2>2. CASE job' = A!Idle
    BY <2>1, <2>2 DEF PlanInv, SealInv, A!Idle
  <2>3. CASE job' # A!Idle
    <3>1. \/ job' = [job EXCEPT !.at = "sidecar"] /\ sidecar' = sidecar
          \/ job' = [job EXCEPT !.at = "plan"] /\ sidecar' = job.record
      BY <1>6, <2>3 DEF A!ArchiveSidecar, A!PublishSidecar, A!End
    <3>2. SealJob(job)
      BY <2>1 DEF SealInv
    <3> QED
      BY <2>1, <3>1, <3>2, Advance DEF PlanInv, SealInv
  <2> QED
    BY <2>2, <2>3
<1>7. CASE A!PublishPlan
  <2>1. job.at = "plan" /\ sidecar' = sidecar
    BY <1>7 DEF A!PublishPlan
  <2>2. CASE job' = A!Idle
    <3>1. (plan' = job.next \/ plan' = plan) /\ opened' = opened
      BY <1>7 DEF A!PublishPlan
    <3>2. job.next = A!Parsed(Sealed(plan.text, job.record))
      BY <2>1 DEF SealInv
    <3>3. PlanInv'
      BY <3>1, <3>2, SealedPlan DEF PlanInv
    <3> QED
      BY <2>2, <3>3 DEF SealInv, A!Idle
  <2>3. CASE job' # A!Idle
    <3>1. job' = [job EXCEPT !.at = "restore"] /\ plan' = plan /\ opened' = opened
      BY <1>7, <2>3 DEF A!PublishPlan
    <3>2. SealJob(job)
      BY <2>1 DEF SealInv
    <3> QED
      BY <2>1, <3>1, <3>2, Advance DEF PlanInv, SealInv
  <2> QED
    BY <2>2, <2>3
<1>8. CASE A!RestoreSidecar
  <2>1. plan' = plan /\ opened' = opened /\ job' = A!Idle
    BY <1>8 DEF A!RestoreSidecar
  <2> QED
    BY <2>1 DEF PlanInv, SealInv, A!Idle
<1> QED
  BY <1>1, <1>2, <1>3, <1>4, <1>5, <1>6, <1>7, <1>8 DEF A!Next

(* Where the records that the plan ever named are.                              *)
(* Beside it, or where an open fence hid it: then the sidecar is replaced only   *)
(* by a seal for which the plan does not name it.                               *)
Saved(r) == r \in kept \/ (r \in DOMAIN archives /\ archives[r] = r)
Beside(r) == r = sidecar /\ (opened \/ plan.seal = sidecar)
Unsealed(j) == j.at \notin {"plan", "restore"} /\ (j.at = "sidecar" => plan.seal # sidecar)
Replacable(r) == opened /\ r \in given
RecordInv ==
    /\ Null \notin named
    /\ \A r \in named : Saved(r) \/ Replacable(r) \/ (Unsealed(job) /\ Beside(r))
    /\ job.at = "archive" => A!Archived = Null /\ sidecar # Null

LEMMA RecordStep ==
    ASSUME PlanInv, SealInv, RecordInv, RecordsAreNotNull, A!Next
    PROVE  RecordInv'
<1> USE DEF A!files, A!dir, A!session, A!past
<1>a. \A r \in named : r # Null /\ (Saved(r) \/ Replacable(r) \/ (Unsealed(job) /\ Beside(r)))
  BY DEF RecordInv
<1>b. ASSUME UNCHANGED <<named, given, opened>>, job'.at \notin {"sidecar", "plan", "restore", "archive"},
             \A r \in named : Saved(r) \/ (Unsealed(job) /\ Beside(r)) => Saved(r)' \/ Beside(r)'
      PROVE  RecordInv'
  BY <1>a, <1>b DEF RecordInv, Replacable, Unsealed
<1>1. CASE A!EditPlan
  <2>1. (opened \/ opened' \/ plan'.seal = plan.seal) /\ (opened => opened')
    BY <1>1, EditedPlan
  <2>2. job' = job /\ UNCHANGED <<sidecar, archives, kept, named, given>> /\ job.at = "idle"
    BY <1>1 DEF A!EditPlan, A!Idle
  <2> QED
    BY <1>a, <2>1, <2>2 DEF RecordInv, Saved, Beside, Replacable, Unsealed
<1>2. CASE A!WriteOutput \/ A!WriteMessage
  <2>1. UNCHANGED <<plan, job, sidecar, archives, kept, named, given, opened>> /\ job.at = "idle"
    BY <1>2 DEF A!WriteOutput, A!WriteMessage, A!Idle
  <2> QED
    BY <1>b, <2>1 DEF Saved, Beside
<1>3. CASE A!MoveAside
  <2>1. UNCHANGED <<plan, job, named, given, opened>> /\ job.at = "idle"
    BY <1>3 DEF A!MoveAside, A!Idle
  <2>2. CASE kept' = kept \cup {sidecar} /\ archives' = archives
    <3>1. \A r \in named : Saved(r) \/ Beside(r) => Saved(r)'
      BY <2>2 DEF Saved, Beside
    <3> QED
      BY <1>b, <2>1, <3>1
  <2>3. CASE UNCHANGED <<sidecar, kept>> /\ \E name \in DOMAIN archives : archives[name] # name /\ archives' = [n \in DOMAIN archives \ {name} |-> archives[n]]
    <3>1. PICK name \in DOMAIN archives : archives[name] # name /\ archives' = [n \in DOMAIN archives \ {name} |-> archives[n]]
      BY <2>3
    <3>2. \A r \in named : Saved(r) => Saved(r)'
      BY <2>3, <3>1 DEF Saved
    <3>3. \A r \in named : Beside(r) => Beside(r)'
      BY <2>1, <2>3 DEF Beside
    <3> QED
      BY <1>b, <2>1, <3>2, <3>3
  <2> QED
    BY <1>3, <2>2, <2>3 DEF A!MoveAside
<1>4. CASE A!Kill
  <2>1. UNCHANGED <<plan, sidecar, archives, named, given, opened>> /\ job' = A!Idle /\ kept \subseteq kept'
    BY <1>4 DEF A!Kill, A!End
  <2>2. \A r \in named : /\ Saved(r) => Saved(r)'
                         /\ Beside(r) => Beside(r)'
    BY <2>1 DEF Saved, Beside
  <2>3. job'.at = "idle"
    BY <2>1 DEF A!Idle
  <2> QED
    BY <1>b, <2>1, <2>2, <2>3
<1>5. CASE A!Prompt \/ A!AppendRow \/ A!ArchivePhase \/ A!ClearOutput \/ A!Check
  <2>1. /\ UNCHANGED <<plan, sidecar, archives, kept, named, given, opened>>
        /\ job.at \notin {"sidecar", "plan", "restore"} /\ job'.at \notin Stages
    <3>1. CASE A!Prompt
      BY <3>1 DEF A!Prompt, A!Refuse, A!End, A!Idle, A!Begin, Stages
    <3>2. CASE A!AppendRow
      BY <3>2 DEF A!AppendRow, A!End, A!Idle, Stages
    <3>3. CASE A!ArchivePhase
      <4>1. UNCHANGED <<plan, sidecar, archives, kept, named, given, opened>> /\ job = A!Idle
        BY <3>3 DEF A!ArchivePhase, A!Refuse, A!Begin
      <4>2. job' = A!Idle \/ \E p, l : job' = [at |-> "clear", phase |-> p, left |-> l]
        BY <3>3 DEF A!ArchivePhase, A!Refuse, A!End
      <4> QED
        BY <4>1, <4>2 DEF A!Idle, Stages
    <3>4. CASE A!ClearOutput
      <4>1. UNCHANGED <<plan, sidecar, archives, kept, named, given, opened>> /\ job.at = "clear"
        BY <3>4 DEF A!ClearOutput
      <4>2. job' = A!Idle \/ \E l : job' = [job EXCEPT !.left = l]
        BY <3>4 DEF A!ClearOutput, A!End
      <4>3. job = [at |-> "clear", phase |-> job.phase, left |-> job.left]
        BY <4>1 DEF SealInv, ClearJob
      <4>4. ASSUME NEW l, job' = [job EXCEPT !.left = l] PROVE job'.at = "clear"
        BY <4>3, <4>4
      <4> QED
        BY <4>1, <4>2, <4>4 DEF A!Idle, Stages
    <3>5. CASE A!Check
      <4>1. job' = A!Idle /\ UNCHANGED <<A!files, A!dir, A!session, A!past>> /\ job = A!Idle
        BY <3>5, Zenon DEF A!Check, A!Begin
      <4> QED
        BY <4>1 DEF A!Idle, Stages
    <3> QED
      BY <1>5, <3>1, <3>2, <3>3, <3>4, <3>5
  <2>2. \A r \in named : /\ Saved(r) => Saved(r)'
                         /\ Beside(r) => Beside(r)'
    BY <2>1 DEF Saved, Beside
  <2> QED
    BY <1>b, <2>1, <2>2 DEF Stages
<1>6. CASE A!Seal
  <2>1. UNCHANGED <<plan, sidecar, archives, kept, named, given, opened>> /\ job.at = "idle"
    BY <1>6 DEF A!Seal, A!Refuse, A!Begin, A!Idle
  <2>2. \A r \in named : /\ Saved(r) => Saved(r)'
                         /\ Beside(r) => Beside(r)'
    BY <2>1 DEF Saved, Beside
  <2>3. CASE job' = A!Idle
    <3>1. job'.at = "idle"
      BY <2>3 DEF A!Idle
    <3> QED
      BY <1>b, <2>1, <2>2, <3>1
  <2>4. CASE job' # A!Idle
    <3>1. PICK replace, over \in BOOLEAN : A!SealRefusal(replace, over) = Null
      BY <1>6, <2>4 DEF A!Seal, A!Refuse, A!End
    <3>2. ~(A!SealedHere /\ A!ArchiveRefused)
      <4>1. /\ "RAW_OUTPUT_IN_PLAN" # Null /\ "SETTLEMENTS_INVALID" # Null /\ "TASK_REF_UNRESOLVED" # Null
            /\ "SOURCE_MISSING" # Null /\ "PLAN_OVER_BUDGET" # Null /\ "SIDECAR_EXISTS" # Null
        BY InputsAssumption DEF A!InputsAssumption, A!Refusals
      <4> QED
        BY <3>1, <4>1, Zenon DEF A!SealRefusal
    <3>3. job'.at = IF A!SealedHere /\ A!Archived = Null THEN "archive" ELSE "sidecar"
      BY <1>6, <2>4 DEF A!Seal, A!Refuse, A!End
    <3>4. CASE A!SealedHere /\ A!Archived = Null
      <4>1. job'.at = "archive" /\ A!Archived' = Null /\ sidecar' # Null
        BY <2>1, <3>3, <3>4 DEF A!Archived, A!SealedHere
      <4> QED
        BY <1>a, <2>1, <2>2, <4>1 DEF RecordInv, Replacable, Unsealed
    <3>5. CASE ~(A!SealedHere /\ A!Archived = Null)
      <4>1. job'.at = "sidecar"
        BY <3>3, <3>5
      <4>2. \A r \in named : Beside(r) => Saved(r) \/ plan.seal # sidecar
        <5> SUFFICES ASSUME NEW r \in named, Beside(r), plan.seal = sidecar PROVE Saved(r)
          OBVIOUS
        <5>1. r # Null /\ r = sidecar /\ A!SealedHere
          BY <1>a DEF Beside, A!SealedHere
        <5>2. A!Archived = sidecar
          BY <3>2, <3>5, <5>1 DEF A!ArchiveRefused
        <5> QED
          BY <5>1, <5>2 DEF A!Archived, Saved
      <4> QED
        BY <1>a, <2>1, <2>2, <4>1, <4>2 DEF RecordInv, Replacable, Unsealed
    <3> QED
      BY <3>4, <3>5
  <2> QED
    BY <2>3, <2>4
<1>7. CASE A!ArchiveSidecar
  <2>1. /\ UNCHANGED <<plan, sidecar, kept, named, given, opened>> /\ job.at = "archive" /\ SealJob(job) /\ job.existing = sidecar
        /\ A!Archived = Null /\ sidecar # Null
    BY <1>7 DEF A!ArchiveSidecar, SealInv, Stages, RecordInv
  <2>2. \A b : \A r : r # sidecar /\ r \in DOMAIN archives => r \in DOMAIN A!ArchivedAs(b) /\ A!ArchivedAs(b)[r] = archives[r]
    BY <2>1 DEF A!ArchivedAs
  <2>3. sidecar \in DOMAIN archives => archives[sidecar] # sidecar
    BY <2>1 DEF A!Archived
  <2>4. ASSUME NEW b, archives' = A!ArchivedAs(b)
        PROVE  \A r \in named : Saved(r) => Saved(r)'
    BY <2>1, <2>2, <2>3, <2>4 DEF Saved
  <2>5. CASE archives' = A!ArchivedAs(job.existing) /\ job' = [job EXCEPT !.at = "sidecar"]
    <3>1. job'.at = "sidecar"
      BY <2>1, <2>5, Advance
    <3>2. \A r \in named : Beside(r) => Saved(r)'
      BY <2>1, <2>5 DEF Saved, Beside, A!ArchivedAs
    <3> QED
      BY <1>a, <2>1, <2>4, <2>5, <3>1, <3>2 DEF RecordInv, Replacable
  <2>6. CASE archives' \in {archives, A!ArchivedAs(A!Torn)} /\ job' = A!Idle
    <3>1. \A r \in named : Saved(r) => Saved(r)'
      BY <2>1, <2>4, <2>6 DEF Saved
    <3>2. \A r \in named : Beside(r) => Beside(r)'
      BY <2>1 DEF Beside
    <3>3. job'.at = "idle"
      BY <2>6 DEF A!Idle
    <3> QED
      BY <1>b, <2>1, <3>1, <3>2, <3>3
  <2> QED
    BY <1>7, <2>5, <2>6 DEF A!ArchiveSidecar, A!End
<1>8. CASE A!PublishSidecar
  <2>1. UNCHANGED <<plan, archives, kept, named, opened>> /\ job.at = "sidecar" /\ SealJob(job) /\ job.existing = sidecar
    BY <1>8 DEF A!PublishSidecar, SealInv, Stages
  <2>2. \/ job' = [job EXCEPT !.at = "plan"] /\ given' = given \cup ({job.existing} \ {Null, plan.seal})
        \/ job' = A!Idle /\ UNCHANGED <<sidecar, given>>
    BY <1>8 DEF A!PublishSidecar, A!End
  <2>3. CASE job' = A!Idle /\ UNCHANGED <<sidecar, given>>
    BY <1>b, <2>1, <2>3 DEF A!Idle, Saved, Beside
  <2>4. CASE job' = [job EXCEPT !.at = "plan"] /\ given' = given \cup ({job.existing} \ {Null, plan.seal})
    <3>1. job'.at = "plan"
      BY <2>1, <2>4, Advance
    <3>2. ASSUME NEW r \in named, Unsealed(job), Beside(r) PROVE Replacable(r)'
      <4>1. r = sidecar /\ plan.seal # sidecar /\ opened /\ r # Null
        BY <1>a, <2>1, <3>2 DEF Unsealed, Beside
      <4> QED
        BY <2>1, <2>4, <4>1 DEF Replacable
    <3>3. \A r \in named : (Saved(r) => Saved(r)') /\ (Replacable(r) => Replacable(r)')
      BY <2>1, <2>4 DEF Saved, Replacable
    <3> QED
      BY <1>a, <2>1, <3>1, <3>2, <3>3 DEF RecordInv
  <2> QED
    BY <2>2, <2>3, <2>4
<1>9. CASE A!PublishPlan
  <2>1. UNCHANGED <<sidecar, archives, kept, opened>> /\ job.at = "plan" /\ SealJob(job) /\ job.record = sidecar /\ job.record # Null
    BY <1>9 DEF A!PublishPlan, SealInv, Stages
  <2>2. \A r \in named : (Saved(r) => Saved(r)') /\ ~Unsealed(job)
    BY <2>1 DEF Saved, Unsealed
  <2>3. CASE plan' = job.next /\ named' = named \cup {job.record} /\ given' = given \ {job.record} /\ job' = A!Idle
    <3>1. job.next = A!Parsed(Sealed(plan.text, job.record))
      BY <2>1 DEF SealInv, Stages
    <3>2. opened \/ plan'.seal = sidecar
      BY <2>1, <2>3, <3>1, SealedPlan
    <3>3. job'.at = "idle"
      BY <2>3 DEF A!Idle
    <3>4. \A r \in named' : Saved(r)' \/ Replacable(r)' \/ Beside(r)'
      <4> SUFFICES ASSUME NEW r \in named' PROVE Saved(r)' \/ Replacable(r)' \/ Beside(r)'
        OBVIOUS
      <4>1. CASE r = job.record
        BY <2>1, <3>2, <4>1 DEF Beside
      <4>2. CASE r # job.record
        BY <1>a, <2>1, <2>2, <2>3, <4>2 DEF Replacable
      <4> QED
        BY <4>1, <4>2
    <3> QED
      BY <1>a, <2>1, <2>3, <3>3, <3>4 DEF RecordInv, Unsealed
  <2>4. CASE job' = [job EXCEPT !.at = "restore"] /\ UNCHANGED <<plan, named, given>>
    <3>1. job'.at = "restore"
      BY <2>1, <2>4, Advance
    <3> QED
      BY <1>a, <2>1, <2>2, <2>4, <3>1 DEF RecordInv, Replacable
  <2> QED
    BY <1>9, <2>3, <2>4 DEF A!PublishPlan
<1>10. CASE A!RestoreSidecar
  <2>1. UNCHANGED <<archives, named, given, opened>> /\ job.at = "restore" /\ job' = A!Idle /\ kept \subseteq kept'
    BY <1>10 DEF A!RestoreSidecar
  <2>2. \A r \in named : (Saved(r) => Saved(r)') /\ ~Unsealed(job)
    BY <2>1 DEF Saved, Unsealed
  <2> QED
    BY <1>b, <2>1, <2>2 DEF A!Idle
<1> QED
  BY <1>1, <1>2, <1>3, <1>4, <1>5, <1>6, <1>7, <1>8, <1>9, <1>10 DEF A!Next

(***************************************************************************)
(* The outputs: what the session wrote is either the current output of its      *)
(* phase and kind or in the history, so the record of a seal has it all.        *)
(***************************************************************************)
LEMMA AppendText ==
    ASSUME NEW s, IsText(s), NEW x
    PROVE  /\ IsText(Append(s, x)) /\ Len(Append(s, x)) = Len(s) + 1 /\ Len(s) \in Nat
           /\ \A i \in 1..Len(s) : Append(s, x)[i] = s[i]
           /\ Append(s, x)[Len(s) + 1] = x
<1> DEFINE S == LinesOf(s) \cup {x}
<1>1. s \in Seq(S) /\ x \in S
  BY TextIsSeq DEF LinesOf
<1> HIDE DEF S
<1>2. /\ Append(s, x) \in Seq(S)
      /\ Len(Append(s, x)) = Len(s) + 1
      /\ \A i \in 1 .. Len(s) : Append(s, x)[i] = s[i]
      /\ Append(s, x)[Len(s) + 1] = x
  BY <1>1, AppendProperties
<1> QED
  BY <1>2, SeqIsText DEF IsText

LEMMA FirstsOfAppend ==
    ASSUME NEW s, IsText(s), NEW x, NEW n \in 0..Len(s)
    PROVE  SubSeq(Append(s, x), 1, n) = SubSeq(s, 1, n)
<1> DEFINE a == Append(s, x)
<1>1. IsText(a) /\ Len(a) = Len(s) + 1 /\ Len(s) \in Nat /\ \A i \in 1..Len(s) : a[i] = s[i]
  BY AppendText
<1> HIDE DEF a
<1>2. /\ n \in Nat /\ 0 \in Nat /\ 0 + n <= Len(s) /\ 0 + n <= Len(a) /\ 0 + 1 = 1 /\ 0 + n = n
  BY <1>1
<1>3. Part(SubSeq(a, 0 + 1, 0 + n), a, 0, n) /\ Part(SubSeq(s, 0 + 1, 0 + n), s, 0, n)
  BY <1>1, <1>2, PartText
<1>4. Part(SubSeq(a, 1, n), a, 0, n) /\ Part(SubSeq(s, 1, n), s, 0, n)
  BY <1>2, <1>3
<1> DEFINE y == SubSeq(a, 1, n)
           z == SubSeq(s, 1, n)
<1>5. IsText(y) /\ IsText(z) /\ Len(y) = n /\ Len(z) = n /\ \A i \in 1..n : y[i] = a[0 + i] /\ z[i] = s[0 + i]
  BY <1>4 DEF Part
<1>6. \A i \in 1..n : a[0 + i] = s[0 + i]
  BY <1>1, <1>2
<1> HIDE DEF y, z
<1>7. y = z
  BY <1>5, <1>6, TextEqual
<1> QED
  BY <1>7 DEF y, z, a

LEMMA HistoryAppend ==
    ASSUME NEW h, IsText(h), A!HistoryValid(h), NEW row,
           row.attempt = Len(A!AttemptsOf(h, row.phase)) + 1,
           row.outputs # A!NoOutputs,
           row.voice = "native" => \A k \in Kinds \ {"native"} : row.outputs[k] = Null
    PROVE  /\ A!HistoryValid(Append(h, row))
           /\ A!InHistory(Append(h, row)) = A!InHistory(h) \cup {row.outputs[k] : k \in Kinds}
<1> DEFINE a == Append(h, row)
<1>1. /\ IsText(a) /\ Len(a) = Len(h) + 1 /\ Len(h) \in Nat /\ \A i \in 1..Len(h) : a[i] = h[i]
      /\ a[Len(h) + 1] = row
  BY AppendText
<1>2. \A n \in 0..Len(h) : SubSeq(a, 1, n) = SubSeq(h, 1, n)
  BY FirstsOfAppend
<1>3. SubSeq(h, 1, Len(h)) = h
  <2>1. Part(SubSeq(h, 0 + 1, 0 + Len(h)), h, 0, Len(h))
    BY <1>1, PartText
  <2>2. 0 + 1 = 1 /\ 0 + Len(h) = Len(h)
    BY <1>1
  <2>3. Part(SubSeq(h, 1, Len(h)), h, 0, Len(h))
    BY <2>1, <2>2
  <2> DEFINE y == SubSeq(h, 1, Len(h))
  <2>4. IsText(y) /\ Len(y) = Len(h) /\ \A i \in 1..Len(h) : y[i] = h[0 + i]
    BY <2>3 DEF Part
  <2>5. \A i \in 1..Len(h) : h[0 + i] = h[i]
    BY <1>1
  <2> HIDE DEF y
  <2>6. y = h
    BY <2>4, <2>5, TextEqual
  <2> QED
    BY <2>6 DEF y
<1> HIDE DEF a
<1>4. DOMAIN h = 1..Len(h) /\ DOMAIN a = 1..(Len(h) + 1)
  BY <1>1 DEF IsText
<1>5. ASSUME NEW i \in DOMAIN a
      PROVE  /\ a[i].attempt = Len(A!AttemptsOf(SubSeq(a, 1, i - 1), a[i].phase)) + 1
             /\ a[i].outputs # A!NoOutputs
             /\ a[i].voice = "native" => \A k \in Kinds \ {"native"} : a[i].outputs[k] = Null
  <2>1. CASE i \in 1..Len(h)
    <3>1. a[i] = h[i] /\ i \in DOMAIN h /\ i - 1 \in 0..Len(h)
      BY <1>1, <1>4, <2>1
    <3>2. SubSeq(a, 1, i - 1) = SubSeq(h, 1, i - 1)
      BY <1>2, <3>1
    <3>3. /\ h[i].attempt = Len(A!AttemptsOf(SubSeq(h, 1, i - 1), h[i].phase)) + 1
          /\ h[i].outputs # A!NoOutputs
          /\ h[i].voice = "native" => \A k \in Kinds \ {"native"} : h[i].outputs[k] = Null
      BY <3>1 DEF A!HistoryValid
    <3> QED
      BY <3>1, <3>2, <3>3
  <2>2. CASE i = Len(h) + 1
    <3>1. a[i] = row /\ i - 1 = Len(h) /\ Len(h) \in 0..Len(h)
      BY <1>1, <2>2
    <3>2. SubSeq(a, 1, i - 1) = h
      BY <1>2, <1>3, <3>1
    <3> QED
      BY <3>1, <3>2
  <2> QED
    BY <1>1, <1>4, <2>1, <2>2
<1>6. A!HistoryValid(a)
  BY <1>5 DEF A!HistoryValid
<1>7. \A x : x \in A!InHistory(a) <=> x \in A!InHistory(h) \/ \E k \in Kinds : x = row.outputs[k]
  <2>1. \A x : x \in A!InHistory(a) <=> \E i \in 1..(Len(h) + 1) : \E k \in Kinds : x = a[i].outputs[k]
    BY <1>4 DEF A!InHistory, A!ToSet
  <2>2. \A x : x \in A!InHistory(h) <=> \E i \in 1..Len(h) : \E k \in Kinds : x = h[i].outputs[k]
    BY <1>4 DEF A!InHistory, A!ToSet
  <2>3. \A i \in 1..(Len(h) + 1) : i \in 1..Len(h) \/ i = Len(h) + 1
    BY <1>1
  <2>4. \A i \in 1..Len(h) : i \in 1..(Len(h) + 1)
    BY <1>1
  <2>5. Len(h) + 1 \in 1..(Len(h) + 1)
    BY <1>1
  <2> QED
    BY <1>1, <2>1, <2>2, <2>3, <2>4, <2>5
<1> QED
  BY <1>6, <1>7 DEF a

(* What the session wrote is an output, current or archived, and nothing else is. *)
Whole(o, h, n) == \A x : x \in A!InOutputs(o) \cup A!InHistory(h) /\ x # Null <=> x \in 1..n
Holds(r) == \E n \in 0..written : Whole(r.outputs, r.history, n)
OutputInv ==
    /\ written \in Nat /\ IsText(history)
    /\ outputs \in [Phases -> [Kinds -> {Null} \cup 1..written]]
    /\ A!HistoryValid(history) /\ Whole(outputs, history, written)
    /\ job.at = "clear" => job.phase \in Phases /\ job.left \subseteq Kinds
                           /\ \A k \in job.left : outputs[job.phase][k] \in A!InHistory(history)
    /\ \A r \in named : Holds(r)
    /\ job.at \in Stages => Holds(job.record)

LEMMA OutputStep ==
    ASSUME PlanInv, SealInv, OutputInv, A!Next
    PROVE  OutputInv'
<1> USE DEF A!files, A!dir, A!session, A!past
<1>a. /\ written \in Nat /\ IsText(history)
      /\ outputs \in [Phases -> [Kinds -> {Null} \cup 1..written]]
      /\ A!HistoryValid(history) /\ Whole(outputs, history, written)
      /\ \A r \in named : Holds(r)
      /\ job.at \in Stages => Holds(job.record)
  BY DEF OutputInv
<1>1. CASE A!EditPlan \/ A!WriteMessage \/ A!MoveAside \/ A!Kill \/ A!Check
  <2>1. /\ UNCHANGED <<written, history, outputs, named>>
        /\ job'.at = "idle"
    <3>1. CASE A!Check
      <4>1. job' = A!Idle /\ UNCHANGED <<A!files, A!dir, A!session, A!past>>
        BY <3>1, Zenon DEF A!Check
      <4> QED
        BY <4>1 DEF A!Idle
    <3> QED
      BY <1>1, <3>1 DEF A!EditPlan, A!WriteMessage, A!MoveAside, A!Kill, A!End, A!Idle
  <2> QED
    BY <1>a, <2>1 DEF OutputInv, Holds, Stages
<1>2. CASE A!WriteOutput
  <2>1. /\ UNCHANGED <<history, named, job>> /\ written' = written + 1 /\ job.at = "idle"
    BY <1>2 DEF A!WriteOutput, A!Idle
  <2>2. PICK p \in Phases, k \in Kinds : outputs[p][k] = Null /\ outputs' = [outputs EXCEPT ![p][k] = written + 1]
    BY <1>2, <2>1 DEF A!WriteOutput
  <2>3. \A q \in Phases, l \in Kinds : outputs'[q][l] = IF q = p /\ l = k THEN written + 1 ELSE outputs[q][l]
    BY <1>a, <2>2
  <2>4. outputs' \in [Phases -> [Kinds -> {Null} \cup 1..(written + 1)]]
    <3>1. \A x : x \in {Null} \cup 1..written => x \in {Null} \cup 1..(written + 1)
      BY <1>a
    <3>2. written + 1 \in {Null} \cup 1..(written + 1)
      BY <1>a
    <3> DEFINE V == {Null} \cup 1..written
               W == {Null} \cup 1..(written + 1)
               m == written + 1
    <3>3. V \subseteq W /\ m \in W /\ outputs \in [Phases -> [Kinds -> V]] /\ outputs' = [outputs EXCEPT ![p][k] = m]
      BY <1>a, <2>2, <3>1, <3>2
    <3> HIDE DEF V, W, m
    <3>4. outputs' \in [Phases -> [Kinds -> W]]
      BY <3>3
    <3> QED
      BY <3>4 DEF W
  <2>5. \A x : x \in A!InOutputs(outputs)' /\ x # Null <=> (x \in A!InOutputs(outputs) /\ x # Null) \/ x = written + 1
    <3>1. \A x : x \in A!InOutputs(outputs)' <=> \E q \in Phases, l \in Kinds : x = outputs'[q][l]
      BY DEF A!InOutputs
    <3>2. \A x : x \in A!InOutputs(outputs) <=> \E q \in Phases, l \in Kinds : x = outputs[q][l]
      BY DEF A!InOutputs
    <3>3. written + 1 # Null
      BY <1>a, ConstantsAssumption DEF ConstantsAssumption
    <3> QED
      <4>1. ASSUME NEW x, x \in A!InOutputs(outputs)', x # written + 1 PROVE x \in A!InOutputs(outputs)
        BY <2>3, <3>1, <3>2, <4>1
      <4>2. ASSUME NEW x, x \in A!InOutputs(outputs), x # Null PROVE x \in A!InOutputs(outputs)'
        <5>1. PICK q \in Phases, l \in Kinds : x = outputs[q][l]
          BY <3>2, <4>2
        <5>2. ~(q = p /\ l = k)
          BY <2>2, <4>2, <5>1
        <5>3. outputs'[q][l] = x
          BY <2>3, <5>1, <5>2
        <5> QED
          BY <3>1, <5>3
      <4>3. outputs'[p][k] = written + 1
        BY <2>3
      <4>4. written + 1 \in A!InOutputs(outputs)'
        BY <3>1, <4>3
      <4> QED
        BY <3>3, <4>1, <4>2, <4>4
  <2>6. Whole(outputs, history, written)'
    <3>1. \A x : x \in 1..(written + 1) <=> x \in 1..written \/ x = written + 1
      BY <1>a
    <3>2. written + 1 # Null
      BY <1>a, ConstantsAssumption DEF ConstantsAssumption
    <3> QED
      BY <1>a, <2>1, <2>5, <3>1, <3>2 DEF Whole
  <2>7. \A r : Holds(r) => Holds(r)'
    <3>1. \A n \in 0..written : n \in 0..written'
      BY <1>a, <2>1
    <3> QED
      BY <3>1 DEF Holds
  <2> QED
    BY <1>a, <2>1, <2>4, <2>6, <2>7 DEF OutputInv, Stages
<1>3. CASE A!Prompt \/ A!AppendRow
  <2>1. UNCHANGED <<written, history, outputs, named>> /\ job'.at \in {"idle", "row"}
    BY <1>3 DEF A!Prompt, A!AppendRow, A!Refuse, A!End, A!Idle
  <2> QED
    BY <1>a, <2>1 DEF OutputInv, Holds, Stages
<1>4. CASE A!ArchivePhase
  <2>1. UNCHANGED <<written, outputs, named>> /\ job = A!Idle
    BY <1>4 DEF A!ArchivePhase, A!Refuse, A!Begin
  <2>2. CASE job' = A!Idle /\ history' = history
    BY <1>a, <2>1, <2>2 DEF OutputInv, Holds, Stages, A!Idle
  <2>3. CASE ~(job' = A!Idle /\ history' = history)
    <3> DEFINE current(p, v) == [k \in Kinds |-> IF v \in {Null, k} THEN outputs[p][k] ELSE Null]
               row(p, v) == [phase |-> p, attempt |-> Len(A!AttemptsOf(history, p)) + 1, voice |-> v, outputs |-> current(p, v)]
    <3>1. PICK p \in Phases, v \in {Null, "native"} :
             /\ current(p, v) # A!NoOutputs
             /\ history' = Append(history, row(p, v))
             /\ job' = [at |-> "clear", phase |-> p, left |-> {k \in Kinds : current(p, v)[k] # Null}]
      BY <1>4, <2>3 DEF A!ArchivePhase, A!Refuse, A!End
    <3> DEFINE c == current(p, v)
               r == row(p, v)
    <3>2. \A k \in Kinds : c[k] = Null \/ c[k] = outputs[p][k]
      OBVIOUS
    <3>3. v = "native" => \A k \in Kinds \ {"native"} : c[k] = Null
      BY ConstantsAssumption DEF ConstantsAssumption
    <3>4. r.attempt = Len(A!AttemptsOf(history, r.phase)) + 1 /\ r.outputs = c /\ r.voice = v
      OBVIOUS
    <3> HIDE DEF c, r, current, row
    <3>5. c # A!NoOutputs /\ history' = Append(history, r)
      BY <3>1 DEF c, r
    <3>6. /\ A!HistoryValid(Append(history, r))
          /\ A!InHistory(Append(history, r)) = A!InHistory(history) \cup {r.outputs[k] : k \in Kinds}
      BY <1>a, <3>3, <3>4, <3>5, HistoryAppend
    <3>7. A!HistoryValid(history)' /\ A!InHistory(history)' = A!InHistory(history) \cup {c[k] : k \in Kinds}
      BY <3>4, <3>5, <3>6
    <3>8. IsText(history)'
      BY <1>a, <3>5, AppendText
    <3>9. Whole(outputs, history, written)'
      <4>1. \A x : x \in {c[k] : k \in Kinds} => x = Null \/ x \in A!InOutputs(outputs)
        BY <3>2 DEF A!InOutputs
      <4> QED
        BY <1>a, <2>1, <3>7, <4>1 DEF Whole
    <3>10. job'.at = "clear" /\ job'.phase = p /\ job'.left = {k \in Kinds : c[k] # Null}
      BY <3>1 DEF c
    <3>11. \A k \in job'.left : outputs'[job'.phase][k] \in A!InHistory(history)'
      BY <2>1, <3>2, <3>7, <3>10
    <3> QED
      BY <1>a, <2>1, <3>7, <3>8, <3>9, <3>10, <3>11 DEF OutputInv, Holds, Stages
  <2> QED
    BY <2>2, <2>3
<1>5. CASE A!ClearOutput
  <2>1. /\ UNCHANGED <<written, history, named>> /\ job.at = "clear"
    BY <1>5 DEF A!ClearOutput
  <2>2. job = [at |-> "clear", phase |-> job.phase, left |-> job.left] /\ job.phase \in Phases /\ job.left \subseteq Kinds
        /\ \A k \in job.left : outputs[job.phase][k] \in A!InHistory(history)
    BY <2>1 DEF SealInv, ClearJob, OutputInv
  <2>3. CASE outputs' = outputs /\ job' = A!Idle
    BY <1>a, <2>1, <2>3 DEF OutputInv, Holds, Stages, A!Idle
  <2>4. CASE ~(outputs' = outputs /\ job' = A!Idle)
    <3>1. PICK k \in job.left : /\ outputs' = [outputs EXCEPT ![job.phase][k] = Null]
                                /\ job' = A!Idle \/ job' = [job EXCEPT !.left = job.left \ {k}]
      BY <1>5, <2>4 DEF A!ClearOutput, A!End
    <3>2. \A q \in Phases, l \in Kinds : outputs'[q][l] = IF q = job.phase /\ l = k THEN Null ELSE outputs[q][l]
      BY <1>a, <2>2, <3>1
    <3>3. outputs' \in [Phases -> [Kinds -> {Null} \cup 1..written]]
      <4> DEFINE W == {Null} \cup 1..written
      <4>1. Null \in W /\ outputs \in [Phases -> [Kinds -> W]]
        BY <1>a
      <4> HIDE DEF W
      <4>2. outputs' \in [Phases -> [Kinds -> W]]
        BY <2>2, <3>1, <4>1
      <4> QED
        BY <4>2 DEF W
    <3>4. Whole(outputs, history, written)'
      <4>1. \A x : x \in A!InOutputs(outputs)' <=> \E q \in Phases, l \in Kinds : x = outputs'[q][l]
        BY DEF A!InOutputs
      <4>2. \A x : x \in A!InOutputs(outputs) <=> \E q \in Phases, l \in Kinds : x = outputs[q][l]
        BY DEF A!InOutputs
      <4>3. \A x : x \in A!InOutputs(outputs)' => x = Null \/ x \in A!InOutputs(outputs)
        BY <3>2, <4>1, <4>2
      <4>4. \A x : x \in A!InOutputs(outputs) => x \in A!InHistory(history) \/ x \in A!InOutputs(outputs)'
        <5> SUFFICES ASSUME NEW x, x \in A!InOutputs(outputs), x \notin A!InHistory(history)
                     PROVE  x \in A!InOutputs(outputs)'
          OBVIOUS
        <5>1. PICK q \in Phases, l \in Kinds : x = outputs[q][l]
          BY <4>2
        <5>2. ~(q = job.phase /\ l = k)
          BY <2>2, <3>1, <5>1
        <5>3. outputs'[q][l] = x
          BY <3>2, <5>1, <5>2
        <5> QED
          BY <4>1, <5>3
      <4>5. A!InHistory(history)' = A!InHistory(history)
        BY <2>1
      <4> QED
        BY <1>a, <2>1, <4>3, <4>4, <4>5 DEF Whole
    <3>5. job' = A!Idle \/ job' = [at |-> "clear", phase |-> job.phase, left |-> job.left \ {k}]
      BY <2>2, <3>1
    <3>6. job'.at = "clear" => /\ job'.phase \in Phases /\ job'.left \subseteq Kinds
                               /\ \A l \in job'.left : outputs'[job'.phase][l] \in A!InHistory(history)'
      BY <2>1, <2>2, <3>2, <3>5 DEF A!Idle
    <3>7. job'.at \notin Stages
      BY <3>5 DEF A!Idle, Stages
    <3> QED
      BY <1>a, <2>1, <3>3, <3>4, <3>6, <3>7 DEF OutputInv, Holds
  <2> QED
    BY <2>3, <2>4
<1>6. CASE A!Seal
  <2>1. UNCHANGED <<written, history, outputs, named>>
    BY <1>6 DEF A!Seal, A!Refuse
  <2>2. CASE job' = A!Idle
    BY <1>a, <2>1, <2>2 DEF OutputInv, Holds, Stages, A!Idle
  <2>3. CASE job' # A!Idle
    <3>1. job'.record = A!AssembleSidecar /\ job'.at \in {"archive", "sidecar"}
      BY <1>6, <2>3 DEF A!Seal, A!Refuse, A!End
    <3>2. A!AssembleSidecar.outputs = outputs /\ A!AssembleSidecar.history = history
      BY DEF A!AssembleSidecar
    <3>3. Holds(job.record)'
      BY <1>a, <2>1, <3>1, <3>2 DEF Holds
    <3> QED
      BY <1>a, <2>1, <3>1, <3>3 DEF OutputInv, Holds
  <2> QED
    BY <2>2, <2>3
<1>7. CASE A!ArchiveSidecar \/ A!PublishSidecar \/ A!PublishPlan \/ A!RestoreSidecar
  <2>1. UNCHANGED <<written, history, outputs>> /\ job.at \in Stages /\ SealJob(job)
    BY <1>7 DEF A!ArchiveSidecar, A!PublishSidecar, A!PublishPlan, A!RestoreSidecar, SealInv, Stages
  <2>2. \A r : Holds(r)' <=> Holds(r)
    BY <2>1 DEF Holds
  <2>3. named' \in {named, named \cup {job.record}}
    BY <1>7 DEF A!ArchiveSidecar, A!PublishSidecar, A!PublishPlan, A!RestoreSidecar
  <2>4. job' = A!Idle \/ \E x \in {"sidecar", "plan", "restore"} : job' = [job EXCEPT !.at = x]
    BY <1>7 DEF A!ArchiveSidecar, A!PublishSidecar, A!PublishPlan, A!RestoreSidecar, A!End
  <2>5. job'.at # "clear" /\ (job'.at \in Stages => job'.record = job.record)
    BY <2>1, <2>4, Advance DEF A!Idle, Stages
  <2>6. \A r \in named' : Holds(r)'
    BY <1>a, <2>1, <2>2, <2>3
  <2>7. job'.at \in Stages => Holds(job.record)'
    <3> SUFFICES ASSUME job'.at \in Stages PROVE Holds(job.record)'
      OBVIOUS
    <3>1. Holds(job.record) /\ job'.record = job.record
      BY <1>a, <2>1, <2>5
    <3> QED
      BY <2>1, <3>1 DEF Holds
  <2> QED
    BY <1>a, <2>1, <2>5, <2>6, <2>7 DEF OutputInv
<1> QED
  BY <1>1, <1>2, <1>3, <1>4, <1>5, <1>6, <1>7 DEF A!Next

(***************************************************************************)
(* What a command says when it ends: the pair that a seal leaves, and the       *)
(* handoff that check accepts.                                                  *)
(***************************************************************************)
(* How a step may end a command with the codes the properties are about.        *)
Telling == {"sealed", "SEAL_WRITE_FAILED", "SEAL_RECOVERY_FAILED", "CHECK: ok"}

LEMMA LastCode ==
    ASSUME SealInv, A!Next
    PROVE  \/ A!Check \/ A!PublishPlan \/ A!RestoreSidecar
           \/ job' # A!Idle \/ last'.code \notin Telling
<1> USE DEF A!files, A!dir, A!session, A!past
<1>1. CASE A!EditPlan \/ A!WriteOutput \/ A!WriteMessage \/ A!MoveAside
  <2>1. last' = A!NoCommand
    BY <1>1 DEF A!EditPlan, A!WriteOutput, A!WriteMessage, A!MoveAside
  <2>2. last'.code = "none"
    BY <2>1 DEF A!NoCommand
  <2> QED
    BY <2>2 DEF Telling
<1>2. CASE A!Kill \/ A!AppendRow
  <2>1. \E c \in {"killed", "ok", "INTERNAL"} : last' = [code |-> c]
    BY <1>2 DEF A!Kill, A!AppendRow, A!End
  <2>2. last'.code \in {"killed", "ok", "INTERNAL"}
    BY <2>1
  <2> QED
    BY <2>2 DEF Telling
<1>3. CASE A!Prompt
  <2>1. \A over : A!PromptRefusal(over) \in A!Refusals \cup {Null}
    BY DEF A!PromptRefusal, A!Refusals
  <2>2. ASSUME NEW over, A!Refuse(A!PromptRefusal(over)), A!PromptRefusal(over) # Null
        PROVE  last'.code \notin Telling
    <3>1. last' = [code |-> A!PromptRefusal(over)]
      BY <2>2 DEF A!Refuse, A!End
    <3>2. last'.code = A!PromptRefusal(over)
      BY <3>1
    <3> QED
      BY <2>1, <2>2, <3>2 DEF A!Refusals, Telling
  <2>3. ASSUME NEW row, job' = [at |-> "row", row |-> row] PROVE job' # A!Idle
    <3>1. job'.at = "row"
      BY <2>3
    <3> QED
      BY <3>1 DEF A!Idle
  <2>4. ASSUME A!End("INTERNAL") PROVE last'.code \notin Telling
    BY <2>4 DEF A!End, Telling
  <2>5. \/ \E over : A!Refuse(A!PromptRefusal(over)) /\ A!PromptRefusal(over) # Null
        \/ A!End("INTERNAL")
        \/ \E row : job' = [at |-> "row", row |-> row]
    BY <1>3 DEF A!Prompt
  <2> QED
    BY <2>2, <2>3, <2>4, <2>5
<1>4. CASE A!ArchivePhase
  <2>1. \/ A!Refuse("HISTORY_INVALID") \/ A!Refuse("empty") \/ A!End("INTERNAL")
        \/ \E p, l : job' = [at |-> "clear", phase |-> p, left |-> l]
    BY <1>4 DEF A!ArchivePhase
  <2>2. ASSUME NEW p, NEW l, job' = [at |-> "clear", phase |-> p, left |-> l] PROVE job' # A!Idle
    <3>1. job'.at = "clear"
      BY <2>2
    <3> QED
      BY <3>1 DEF A!Idle
  <2>3. ASSUME NEW c \in {"HISTORY_INVALID", "empty", "INTERNAL"}, A!End(c) PROVE last'.code \notin Telling
    BY <2>3 DEF A!End, Telling
  <2> QED
    BY <2>1, <2>2, <2>3 DEF A!Refuse
<1>5. CASE A!ClearOutput
  <2>1. A!End("INTERNAL") \/ A!End("archived") \/ \E l : job' = [job EXCEPT !.left = l]
    BY <1>5 DEF A!ClearOutput
  <2>2. job = [at |-> "clear", phase |-> job.phase, left |-> job.left]
    BY <1>5 DEF A!ClearOutput, SealInv, ClearJob
  <2>3. ASSUME NEW l, job' = [job EXCEPT !.left = l] PROVE job' # A!Idle
    <3>1. job'.at = "clear"
      BY <2>2, <2>3
    <3> QED
      BY <3>1 DEF A!Idle
  <2>4. ASSUME NEW c \in {"INTERNAL", "archived"}, A!End(c) PROVE last'.code \notin Telling
    BY <2>4 DEF A!End, Telling
  <2> QED
    BY <2>1, <2>3, <2>4
<1>6. CASE A!Seal
  <2>1. \A replace, over : A!SealRefusal(replace, over) \in A!Refusals \cup {Null}
    BY DEF A!SealRefusal, A!Refusals
  <2>2. \/ \E replace, over : A!Refuse(A!SealRefusal(replace, over)) /\ A!SealRefusal(replace, over) # Null
        \/ A!End("INTERNAL")
        \/ job'.at \in {"archive", "sidecar"}
    BY <1>6 DEF A!Seal
  <2>3. ASSUME NEW c \in A!Refusals, A!End(c) PROVE last'.code \notin Telling
    BY <2>3 DEF A!End, Telling, A!Refusals
  <2>4. "INTERNAL" \in A!Refusals
    BY DEF A!Refusals
  <2> QED
    BY <2>1, <2>2, <2>3, <2>4 DEF A!Refuse, A!Idle
<1>7. CASE A!ArchiveSidecar \/ A!PublishSidecar
  <2>1. A!End("INTERNAL") \/ A!End("killed") \/ \E x \in {"sidecar", "plan"} : job' = [job EXCEPT !.at = x]
    BY <1>7 DEF A!ArchiveSidecar, A!PublishSidecar
  <2>2. SealJob(job)
    BY <1>7 DEF A!ArchiveSidecar, A!PublishSidecar, SealInv, Stages
  <2>3. ASSUME NEW x \in {"sidecar", "plan"}, job' = [job EXCEPT !.at = x] PROVE job' # A!Idle
    BY <2>2, <2>3, Advance DEF A!Idle
  <2>4. ASSUME NEW c \in {"INTERNAL", "killed"}, A!End(c) PROVE last'.code \notin Telling
    BY <2>4 DEF A!End, Telling
  <2> QED
    BY <2>1, <2>3, <2>4
<1> QED
  BY <1>1, <1>2, <1>3, <1>4, <1>5, <1>6, <1>7 DEF A!Next

LEMMA PairStep ==
    ASSUME PlanInv, SealInv, A!Next
    PROVE  A!SealLeavesPair'
<1> USE DEF A!files, A!dir, A!session, A!past
<1>1. CASE A!PublishPlan
  <2>1. job.at = "plan" /\ SealJob(job) /\ sidecar' = sidecar /\ job.record = sidecar /\ job.before = plan
        /\ job.next = A!Parsed(Sealed(plan.text, job.record))
    BY <1>1 DEF A!PublishPlan, SealInv, Stages
  <2>2. CASE plan' = job.next /\ job' = A!Idle /\ last' = [code |-> "sealed", job |-> job]
    <3>1. IF A!NoFenceOpen(plan.proper)
          THEN plan'.seal = job.record /\ plan'.proper = plan.proper /\ A!Outside(plan'.text) = A!Outside(plan.text)
          ELSE plan'.seal = Null /\ plan'.text = plan.text \o A!RecordSection(job.record)
      BY <2>1, <2>2, SealedPlan
    <3>2. last'.code = "sealed" /\ last'.job = job
      BY <2>2
    <3>3. /\ sidecar' = last'.job.record
          /\ IF A!NoFenceOpen(last'.job.before.proper)
             THEN plan'.seal = sidecar' /\ plan'.proper = last'.job.before.proper /\ A!Outside(plan'.text) = A!Outside(last'.job.before.text)
             ELSE plan'.seal = Null /\ plan'.text = last'.job.before.text \o A!RecordSection(last'.job.record)
      BY <2>1, <3>1, <3>2
    <3> QED
      BY <3>2, <3>3 DEF A!SealLeavesPair
  <2>3. CASE job' = [job EXCEPT !.at = "restore"]
    <3>1. job'.at = "restore"
      BY <2>1, <2>3, Advance
    <3> QED
      BY <3>1 DEF A!SealLeavesPair, A!Idle
  <2> QED
    BY <1>1, <2>2, <2>3 DEF A!PublishPlan
<1>2. CASE A!RestoreSidecar
  <2>1. job.before = plan /\ plan' = plan
    BY <1>2 DEF A!RestoreSidecar, SealInv, Stages
  <2>2. CASE sidecar' = job.existing /\ last' = [code |-> "SEAL_WRITE_FAILED", job |-> job]
    <3>1. last'.code = "SEAL_WRITE_FAILED" /\ last'.job = job
      BY <2>2
    <3> QED
      BY <2>1, <2>2, <3>1 DEF A!SealLeavesPair
  <2>3. CASE kept' = kept \cup ({job.existing} \ {Null}) /\ last' = [code |-> "SEAL_RECOVERY_FAILED", job |-> job]
    <3>1. last'.code = "SEAL_RECOVERY_FAILED" /\ last'.job = job
      BY <2>3
    <3> QED
      BY <2>1, <2>3, <3>1 DEF A!SealLeavesPair
  <2> QED
    BY <1>2, <2>2, <2>3 DEF A!RestoreSidecar
<1>3. CASE A!Check
  <2>1. last'.code \in {"CHECK: ok", "CHECK: fail"}
    <3>1. PICK shape \in Shapes : last' = [code |-> IF A!CheckHandoff(plan.text, plan.binding, sidecar, MessageFor(shape, quoted)) THEN "CHECK: ok" ELSE "CHECK: fail",
                         message |-> MessageFor(shape, quoted)]
      BY <1>3, Zenon DEF A!Check
    <3> QED
      BY <3>1
  <2> QED
    BY <2>1 DEF A!SealLeavesPair
<1>4. CASE job' # A!Idle \/ last'.code \notin Telling
  BY <1>4 DEF A!SealLeavesPair, Telling
<1> QED
  BY <1>1, <1>2, <1>3, <1>4, LastCode

(* A message is a text, and a line that opens a fence says which.               *)
IsMessage(m) == IsText(m) /\ \A i \in 1..Len(m) : A!Opens(m[i]) => m[i].of # Null
MessagesAreTexts == \A shape \in Shapes : \A b : b # Null => IsMessage(MessageFor(shape, b))

LEMMA OneElement ==
    ASSUME NEW n \in Nat, NEW S \in SUBSET (1..n), A!Cardinality(S) = 1
    PROVE  \E x \in 1..n : S = {x}
<1>1. IsFiniteSet(1..n)
  BY FS_Interval
<1>2. IsFiniteSet(S)
  BY <1>1, FS_Subset
<1>3. Cardinality(S) = 1
  BY DEF A!Cardinality, Cardinality
<1>4. PICK x : S = {x}
  BY <1>2, <1>3, FS_Singleton
<1> QED
  BY <1>4

LEMMA AtIs ==
    ASSUME NEW t, IsText(t), NEW kinds
    PROVE  /\ A!At(t, kinds) \in SUBSET (1..Len(t)) /\ Len(t) \in Nat
           /\ \A i \in 1..Len(t) : i \in A!At(t, kinds) <=> t[i].is \in kinds
BY DEF IsText, A!At

(* An empty block never passes: it says what was accepted of nothing.           *)
LEMMA EmptyBlock ==
    ASSUME NEW b, A!CheckMessage(<<>>, b)
    PROVE  FALSE
<1>1. Len(<<>>) = 0 /\ DOMAIN <<>> = {} /\ 0 \in Nat
  OBVIOUS
<1>2. A!Unstaged(<<>>) = <<>>
  BY DEF A!Unstaged
<1>3. A!Unfenced(<<>>, {"run"}) = {} /\ {i \in DOMAIN <<>> : A!Wraps(<<>>, i)} = {}
  BY <1>1 DEF A!Unfenced
<1>4. A!FirstOf({} \cup {}, 0) = 0 /\ A!FirstOf({}, 0) = 0
  BY DEF A!FirstOf
<1>5. A!HandoffBlock(<<>>, FALSE) = <<>>
  BY <1>2, <1>3, <1>4 DEF A!HandoffBlock
<1>6. A!At(<<>>, {"auto"}) = {}
  BY <1>1 DEF A!At
<1> QED
  BY <1>4, <1>5, <1>6 DEF A!CheckMessage

(* The block that the reader takes: it lies between the fence that wraps it and *)
(* the last line, which closes that fence.                                      *)
Wrapped(raw, s, block) ==
    /\ s \in 1..Len(raw) /\ s + 1 < Len(raw)
    /\ A!Opens(raw[s]) /\ A!Fences(raw)[s - 1] = Null /\ raw[s + 1].is = "run"
    /\ A!Closes(raw[Len(raw)], raw[s].of)
    /\ \A k \in (s + 1)..(Len(raw) - 1) : ~A!Closes(raw[k], raw[s].of)
    /\ Part(block, raw, s, Len(raw) - 1 - s)

LEMMA WrappedBlock ==
    ASSUME NEW m, NEW raw, raw = A!Unstaged(m), IsText(raw), A!HandoffBlock(m, TRUE) # <<>>
    PROVE  \E s : Wrapped(raw, s, A!HandoffBlock(m, TRUE))
<1> DEFINE wrapped == {i \in DOMAIN raw : A!Wraps(raw, i)}
           start == A!FirstOf({} \cup wrapped, 0)
           block == A!HandoffBlock(m, TRUE)
<1>1. block = IF start = 0 THEN <<>> ELSE IF start \in {} THEN SubSeq(raw, start, Len(raw)) ELSE SubSeq(raw, start + 1, Len(raw) - 1)
  BY DEF A!HandoffBlock
<1>2. DOMAIN raw = 1..Len(raw) /\ Len(raw) \in Nat
  BY DEF IsText
<1>3. wrapped \in SUBSET Nat /\ {} \cup wrapped = wrapped
  BY <1>2
<1> HIDE DEF block
<1>4. start # 0 /\ block = SubSeq(raw, start + 1, Len(raw) - 1)
  <2> HIDE DEF start
  <2> QED
    BY <1>1 DEF block
<1>5. start \in wrapped
  <2> HIDE DEF wrapped
  <2> QED
    BY <1>3, <1>4, FirstOfIs
<1> HIDE DEF start
<1>6. A!Wraps(raw, start) /\ start \in 1..Len(raw)
  BY <1>2, <1>5
<1>7. /\ A!Opens(raw[start]) /\ A!Fences(raw)[start - 1] = Null
      /\ Len(raw) > start + 1 /\ raw[start + 1].is = "run" /\ A!Closes(raw[Len(raw)], raw[start].of)
      /\ \A k \in (start + 1)..(Len(raw) - 1) : ~A!Closes(raw[k], raw[start].of)
  BY <1>6 DEF A!Wraps, A!Within
<1>8. Part(block, raw, start, Len(raw) - 1 - start)
  <2> DEFINE k == Len(raw) - 1 - start
  <2>1. k \in Nat /\ start \in Nat /\ start + k <= Len(raw) /\ start + k = Len(raw) - 1
    BY <1>2, <1>6, <1>7
  <2> HIDE DEF k
  <2>2. Part(SubSeq(raw, start + 1, start + k), raw, start, k)
    BY <2>1, PartText
  <2> QED
    BY <1>4, <2>1, <2>2 DEF k
<1>9. Wrapped(raw, start, block)
  BY <1>2, <1>6, <1>7, <1>8 DEF Wrapped
<1> QED
  BY <1>9 DEF block

(* What the check says of the block it took.                                    *)
BlockBound(block, binding, x, y) ==
    /\ x \in 1..Len(block) /\ y \in 1..Len(block)
    /\ {i \in 1..Len(block) : block[i].is = "fields"} = {x}
    /\ {i \in 1..Len(block) : block[i].is = "branch"} = {y}
    /\ A!BoundTo(block[x].of, binding)
    /\ A!FieldLines(block, "branch") = {y}

LEMMA BlockChecked ==
    ASSUME NEW block, IsText(block), Len(block) # 0, block[1].is = "run", block[Len(block)].is # "stage",
           NEW binding, A!CheckMessage(block, binding)
    PROVE  \E x, y : BlockBound(block, binding, x, y)
<1>1. DOMAIN block = 1..Len(block) /\ Len(block) \in Nat /\ 1 \in 1..Len(block)
  BY DEF IsText
<1>2. A!Unstaged(block) = block
  BY DEF A!Unstaged, A!Last
<1>3. A!HandoffBlock(block, FALSE) = block
  <2> DEFINE bare == A!Unfenced(block, {"run"})
             wrapped == {i \in DOMAIN block : A!Wraps(block, i)}
             start == A!FirstOf(bare \cup wrapped, 0)
  <2>1. 1 \in bare
    <3>1. A!Fences(block)[0] = Null /\ 1 - 1 = 0
      BY <1>1, FencesDef
    <3>2. UnfencedIs(block, 1, {"run"})
      BY <3>1 DEF UnfencedIs, A!Opens
    <3> QED
      BY <1>1, <3>2, UnfencedDef
  <2>2. bare \cup wrapped \in SUBSET Nat /\ \A i \in bare \cup wrapped : 1 <= i
    <3>1. bare \in SUBSET (1..Len(block)) /\ wrapped \in SUBSET (1..Len(block))
      BY <1>1, UnfencedDef
    <3> HIDE DEF bare, wrapped
    <3> QED
      BY <1>1, <3>1
  <2>3. start = 1
    <3> DEFINE S == bare \cup wrapped
    <3>1. S \in SUBSET Nat /\ 1 \in S /\ \A i \in S : 1 <= i
      BY <2>1, <2>2
    <3> HIDE DEF S
    <3>2. A!FirstOf(S, 0) = 1
      BY <3>1, FirstIs
    <3> QED
      BY <3>2 DEF S
  <2>4. A!HandoffBlock(block, FALSE) =
          IF start = 0 THEN <<>> ELSE IF start \in bare THEN SubSeq(block, start, Len(block)) ELSE SubSeq(block, start + 1, Len(block) - 1)
    BY <1>2 DEF A!HandoffBlock
  <2> HIDE DEF start, bare
  <2>5. A!HandoffBlock(block, FALSE) = SubSeq(block, 1, Len(block))
    <3>1. start # 0 /\ start \in bare
      BY <2>1, <2>3
    <3>2. A!HandoffBlock(block, FALSE) = SubSeq(block, start, Len(block))
      BY <2>4, <3>1, Zenon
    <3> QED
      BY <2>3, <3>2
  <2>6. SubSeq(block, 1, Len(block)) = block
    <3>1. Part(SubSeq(block, 0 + 1, 0 + Len(block)), block, 0, Len(block))
      BY <1>1, PartText
    <3>2. 0 + 1 = 1 /\ 0 + Len(block) = Len(block)
      BY <1>1
    <3>3. Part(SubSeq(block, 1, Len(block)), block, 0, Len(block))
      BY <3>1, <3>2
    <3> DEFINE z == SubSeq(block, 1, Len(block))
    <3>4. IsText(z) /\ Len(z) = Len(block) /\ \A i \in 1..Len(block) : z[i] = block[0 + i]
      BY <3>3 DEF Part
    <3>5. \A i \in 1..Len(block) : block[0 + i] = block[i]
      BY <1>1
    <3> HIDE DEF z
    <3>6. z = block
      BY <3>4, <3>5, TextEqual
    <3> QED
      BY <3>6 DEF z
  <2> QED
    BY <2>5, <2>6
<1> DEFINE auto == A!FirstOf(A!At(block, {"auto"}), 0)
           fields == A!FieldLines(block, "fields")
           branch == A!FieldLines(block, "branch")
<1>4. /\ auto # 0 /\ auto < Len(block)
      /\ A!Cardinality(fields) = 1 /\ A!Cardinality(branch) = 1
      /\ \A i \in fields : A!BoundTo(block[i].of, binding)
      /\ \A i \in (auto + 1)..Len(block) : block[i].is \in {"bullet", "none", "fence", "continued"}
  BY <1>3 DEF A!CheckMessage
<1> DEFINE F == SubSeq(block, 1, auto - 1)
<1>5. fields = A!At(F, {"fields"}) /\ branch = A!At(F, {"branch"})
  BY DEF A!FieldLines
<1> HIDE DEF fields, branch
<1>6. auto \in 1..Len(block) /\ block[auto].is = "auto"
  <2>1. A!At(block, {"auto"}) \in SUBSET Nat /\ A!At(block, {"auto"}) \in SUBSET (1..Len(block))
    BY <1>1, AtIs
  <2> DEFINE S == A!At(block, {"auto"})
  <2>2. auto \in S
    <3>1. S \in SUBSET Nat
      BY <2>1
    <3>2. auto = A!FirstOf(S, 0)
      OBVIOUS
    <3> HIDE DEF S, auto
    <3> QED
      BY <1>4, <3>1, <3>2, FirstOfIs
  <2> HIDE DEF auto
  <2> QED
    BY <2>1, <2>2, AtIs
<1> HIDE DEF auto
<1>7. IsText(F) /\ Len(F) = auto - 1 /\ auto - 1 \in Nat /\ \A i \in 1..(auto - 1) : F[i] = block[i]
  <2> DEFINE k == auto - 1
  <2>1. k \in Nat /\ 0 \in Nat /\ 0 + k <= Len(block) /\ 0 + 1 = 1 /\ 0 + k = k
    BY <1>1, <1>6
  <2> HIDE DEF k
  <2>2. Part(SubSeq(block, 0 + 1, 0 + k), block, 0, k)
    BY <2>1, PartText
  <2>3. Part(SubSeq(block, 1, k), block, 0, k)
    BY <2>1, <2>2
  <2>4. \A i \in 1..k : 0 + i = i
    BY <2>1
  <2> QED
    BY <2>1, <2>3, <2>4 DEF Part, k
<1> HIDE DEF F
<1>8. ASSUME NEW kind \in {"fields", "branch"}
      PROVE  {i \in 1..Len(block) : block[i].is = kind} = A!At(F, {kind}) /\ A!At(F, {kind}) \in SUBSET (1..Len(block))
  <2>1. /\ A!At(F, {kind}) \in SUBSET (1..(auto - 1))
        /\ \A i \in 1..(auto - 1) : i \in A!At(F, {kind}) <=> block[i].is = kind
    BY <1>7, AtIs
  <2>2. \A i \in 1..Len(block) : i \in 1..(auto - 1) \/ i = auto \/ i \in (auto + 1)..Len(block)
    BY <1>1, <1>6
  <2>3. \A i \in 1..(auto - 1) : i \in 1..Len(block)
    BY <1>1, <1>6
  <2>4. \A i \in 1..Len(block) : block[i].is = kind => i \in 1..(auto - 1)
    BY <1>4, <1>6, <2>2
  <2> QED
    BY <2>1, <2>3, <2>4
<1>9. PICK x \in 1..Len(block) : fields = {x}
  <2>1. fields \in SUBSET (1..Len(block))
    BY <1>5, <1>8
  <2> QED
    BY <1>1, <1>4, <2>1, OneElement
<1>10. PICK y \in 1..Len(block) : branch = {y}
  <2>1. branch \in SUBSET (1..Len(block))
    BY <1>5, <1>8
  <2> QED
    BY <1>1, <1>4, <2>1, OneElement
<1>11. A!BoundTo(block[x].of, binding)
  BY <1>4, <1>9
<1>12. BlockBound(block, binding, x, y)
  BY <1>5, <1>8, <1>9, <1>10, <1>11 DEF BlockBound, branch
<1> QED
  BY <1>12

(* Between the fence that wraps the block and the last line of it, that fence is *)
(* the one open.                                                                *)
LEMMA OpenThroughout ==
    ASSUME NEW raw, IsText(raw), NEW s, NEW block, Wrapped(raw, s, block), raw[s].of # Null
    PROVE  /\ \A j \in s..(Len(raw) - 1) : A!Fences(raw)[j] = raw[s].of
           /\ A!Fences(raw)[Len(raw)] = Null
<1> DEFINE n == Len(raw)
           o == raw[s].of
           bad == {j \in Nat : s <= j /\ j <= n - 1 /\ A!Fences(raw)[j] # o}
<1>1. /\ n \in Nat /\ s \in 1..n /\ s + 1 < n /\ A!Opens(raw[s]) /\ A!Fences(raw)[s - 1] = Null
      /\ \A k \in (s + 1)..(n - 1) : ~A!Closes(raw[k], o)
      /\ A!Closes(raw[n], o)
  BY DEF Wrapped, IsText
<1>2. \A i \in 1..n : A!Fences(raw)[i] = A!NextFence(raw[i], A!Fences(raw)[i - 1])
  BY <1>1, FencesDef
<1> HIDE DEF n, o
<1>3. A!Fences(raw)[s] = o
  BY <1>1, <1>2 DEF A!NextFence, o
<1>4. ASSUME NEW j \in bad
      PROVE  j # 0 /\ j - 1 \in bad
  <2>1. j \in Nat /\ s <= j /\ j <= n - 1 /\ A!Fences(raw)[j] # o /\ j # s
    BY <1>3
  <2>2. j \in 1..n /\ j \in (s + 1)..(n - 1) /\ j - 1 \in Nat /\ s <= j - 1 /\ j - 1 <= n - 1
    BY <1>1, <2>1
  <2>3. A!Fences(raw)[j] = A!NextFence(raw[j], A!Fences(raw)[j - 1])
    BY <1>2, <2>2
  <2>4. A!Fences(raw)[j - 1] # o
    <3> SUFFICES ASSUME A!Fences(raw)[j - 1] = o PROVE FALSE
      OBVIOUS
    <3>1. ~A!Closes(raw[j], o) /\ o # Null
      BY <1>1, <2>2 DEF o
    <3>2. A!NextFence(raw[j], o) = o
      BY <3>1 DEF A!NextFence
    <3> QED
      BY <2>1, <2>3, <3>2
  <2> QED
    BY <2>1, <2>2, <2>4
<1>5. bad \in SUBSET Nat
  OBVIOUS
<1>6. bad = {}
  <2> HIDE DEF bad
  <2> QED
    BY <1>4, <1>5, NoneIsBad
<1>7. \A j \in s..(n - 1) : A!Fences(raw)[j] = o
  BY <1>1, <1>6
<1>8. A!Fences(raw)[n] = Null
  <2>1. n \in 1..n /\ n - 1 \in s..(n - 1)
    BY <1>1
  <2>2. A!Fences(raw)[n] = A!NextFence(raw[n], o)
    BY <1>2, <1>7, <2>1
  <2>3. o # Null
    BY DEF o
  <2> QED
    BY <1>1, <2>2, <2>3 DEF A!NextFence
<1> QED
  BY <1>7, <1>8 DEF n, o

(* What the reader copies is the block, with the fence around it.               *)
LEMMA CopiedIs ==
    ASSUME NEW m, IsMessage(m), NEW raw, IsText(raw), Len(m) = Len(raw) + 1,
           \A i \in 1..Len(raw) : raw[i] = m[i],
           ~A!Opens(m[Len(m)]), NEW s, NEW block, Wrapped(raw, s, block)
    PROVE  A!Copied(m) = {m[i] : i \in s..Len(raw)}
<1> DEFINE n == Len(raw)
           starts == {i \in DOMAIN m : A!Opens(m[i]) /\ ~A!Within(m, i)}
<1>1. /\ n \in Nat /\ s \in 1..n /\ s + 1 < n /\ A!Opens(raw[s]) /\ A!Fences(raw)[s - 1] = Null
  BY DEF Wrapped, IsText
<1>2. IsText(m) /\ Len(m) = n + 1 /\ DOMAIN m = 1..(n + 1) /\ raw[s].of # Null
  BY <1>1 DEF IsMessage, IsText
<1>3. /\ \A j \in s..(n - 1) : A!Fences(raw)[j] = raw[s].of
      /\ A!Fences(raw)[n] = Null
  BY <1>2, OpenThroughout
<1>4. \A j \in 0..n : A!Fences(m)[j] = A!Fences(raw)[j]
  <2>1. A!Fences(m)[0] = Null /\ A!Fences(raw)[0] = Null
    BY <1>1, <1>2, FencesDef
  <2>2. Same(m, 0, raw, 0, n)
    BY <1>1, <1>2, <2>1 DEF Same
  <2>3. \A j \in 0..n : A!Fences(m)[0 + j] = A!Fences(raw)[0 + j]
    BY <2>2, FencesAgree
  <2>4. \A j \in 0..n : 0 + j = j
    BY <1>1
  <2> HIDE DEF n
  <2> QED
    BY <2>3, <2>4
<1> HIDE DEF n
<1>5. \A i \in 1..(n + 1) : A!Within(m, i) <=> (s < i /\ i <= n)  \/ (A!Within(m, i) /\ i < s)
  <2> TAKE i \in 1..(n + 1)
  <2>1. i - 1 \in 0..n /\ A!Fences(m)[i - 1] = A!Fences(raw)[i - 1]
    BY <1>1, <1>4
  <2>2. CASE i < s
    BY <1>1, <2>2
  <2>3. CASE i = s
    BY <1>1, <2>1, <2>3 DEF A!Within
  <2>4. CASE s < i /\ i <= n
    <3>1. i - 1 \in s..(n - 1)
      BY <1>1, <2>4
    <3> QED
      BY <1>2, <1>3, <2>1, <2>4, <3>1 DEF A!Within
  <2>5. CASE i = n + 1
    <3>1. i - 1 = n
      BY <1>1, <2>5
    <3> QED
      BY <1>1, <1>3, <2>1, <2>5, <3>1 DEF A!Within
  <2> QED
    BY <1>1, <2>2, <2>3, <2>4, <2>5
<1>6. A!Opens(m[s]) /\ ~A!Opens(m[n + 1])
  BY <1>1, <1>2 DEF n
<1>7. s \in starts /\ \A i \in starts : i <= s
  BY <1>1, <1>2, <1>5, <1>6
<1>8. A!Max(starts) = s
  <2>1. starts \in SUBSET Nat
    BY <1>2
  <2> HIDE DEF starts
  <2>2. s \in starts /\ \A i \in starts : s >= i
    BY <1>1, <1>7, <2>1
  <2>3. A!Max(starts) \in starts /\ \A i \in starts : A!Max(starts) >= i
    BY <2>2 DEF A!Max
  <2>4. A!Max(starts) >= s /\ s >= A!Max(starts) /\ A!Max(starts) \in Nat /\ s \in Nat
    BY <2>1, <2>2, <2>3
  <2> QED
    BY <2>4
<1>9. A!Copied(m) = {m[i] : i \in {j \in s..(n + 1) : A!Fenced(m, j)}}
  <2>1. starts # {}
    BY <1>7
  <2>2. A!Copied(m) = IF starts = {} THEN {} ELSE {m[i] : i \in {j \in A!Max(starts)..Len(m) : A!Fenced(m, j)}}
    BY DEF A!Copied
  <2> HIDE DEF starts
  <2> QED
    BY <1>2, <1>8, <2>1, <2>2
<1>10. {j \in s..(n + 1) : A!Fenced(m, j)} = s..n
  <2>1. \A j \in s..(n + 1) : A!Fenced(m, j) <=> j <= n
    <3> TAKE j \in s..(n + 1)
    <3>1. j \in 1..(n + 1)
      BY <1>1
    <3>2. CASE j = s
      BY <1>1, <1>6, <3>2 DEF A!Fenced
    <3>3. CASE s < j /\ j <= n
      BY <1>5, <3>1, <3>3 DEF A!Fenced
    <3>4. CASE j = n + 1
      BY <1>1, <1>5, <1>6, <3>1, <3>4 DEF A!Fenced
    <3> QED
      BY <1>1, <3>2, <3>3, <3>4
  <2> QED
    BY <1>1, <2>1
<1> QED
  BY <1>9, <1>10 DEF n

LEMMA HandoffChecked ==
    ASSUME NEW m, IsMessage(m), NEW text, NEW binding, binding = A!BindingFor(text),
           NEW beside, A!CheckHandoff(text, binding, beside, m)
    PROVE  LET stage == A!Last(m).of
               copied(kind) == {l.of : l \in {c \in A!Copied(m) : c.is = kind}} IN
           /\ copied("fields") # {} /\ \A f \in copied("fields") : A!BoundTo(f, binding) /\ f.record = beside
           /\ copied("branch") = {stage.head} /\ stage.plan = text
<1> DEFINE block == A!HandoffBlock(m, TRUE)
           raw == A!Unstaged(m)
           branch == A!FieldLines(block, "branch")
<1>1. /\ A!CheckPlan(text, beside) /\ binding # Null /\ A!CheckMessage(block, binding)
      /\ A!StageBound(m, binding)
  BY DEF A!CheckHandoff, A!CheckStageLine
<1>2. /\ A!Cardinality(A!At(m, {"stage", "stage like"})) = 1 /\ A!Last(m).is = "stage"
      /\ A!Last(m).of.plan = binding.plan
      /\ branch # {} /\ block[A!Max(branch)].of = A!Last(m).of.head
  BY <1>1 DEF A!StageBound
<1> HIDE DEF block
<1>3. /\ IsText(m) /\ Len(m) \in Nat
      /\ A!At(m, {"stage", "stage like"}) \in SUBSET (1..Len(m))
      /\ \A i \in 1..Len(m) : i \in A!At(m, {"stage", "stage like"}) <=> m[i].is \in {"stage", "stage like"}
  BY AtIs DEF IsMessage
<1>4. PICK only \in 1..Len(m) : A!At(m, {"stage", "stage like"}) = {only}
  BY <1>2, <1>3, OneElement
<1>5. m[Len(m)].is = "stage" /\ Len(m) \in 1..Len(m) /\ only = Len(m)
  <2> HIDE DEF raw, branch
  <2>1. A!Last(m) = m[Len(m)]
    BY Zenon DEF A!Last
  <2>2. Len(m) \in 1..Len(m)
    <3>1. \A a \in Nat : \A b \in 1..a : a \in 1..a
      OBVIOUS
    <3> QED
      BY <1>3, <3>1, Zenon
  <2>3. m[Len(m)].is = "stage"
    BY <1>2, <2>1
  <2>4. Len(m) \in {only}
    BY <1>3, <1>4, <2>2, <2>3
  <2> QED
    BY <2>2, <2>3, <2>4
<1>6. \A i \in 1..Len(m) : i # Len(m) => m[i].is # "stage"
  BY <1>3, <1>4, <1>5
<1>7. raw = SubSeq(m, 1, Len(m) - 1)
  <2>1. m # <<>>
    <3> SUFFICES ASSUME m = <<>> PROVE FALSE
      OBVIOUS
    <3>1. Len(<<>>) = 0
      OBVIOUS
    <3> HIDE DEF raw, branch
    <3> QED
      BY <1>5, <3>1
  <2> QED
    BY <1>2, <2>1 DEF A!Unstaged, A!Front
<1>8. IsText(raw) /\ Len(m) = Len(raw) + 1 /\ \A i \in 1..Len(raw) : raw[i] = m[i]
  <2> DEFINE k == Len(m) - 1
  <2>1. k \in Nat /\ 0 \in Nat /\ 0 + k <= Len(m) /\ 0 + 1 = 1 /\ 0 + k = k /\ Len(m) = k + 1
    <3> HIDE DEF raw, branch
    <3>1. Len(m) \in Nat /\ Len(m) >= 1
      <4>1. \A a \in Nat : a \in 1..a => a >= 1
        OBVIOUS
      <4> QED
        BY <1>3, <1>5, <4>1, Zenon
    <3> QED
      BY <3>1
  <2> HIDE DEF k, raw
  <2>2. Part(SubSeq(m, 0 + 1, 0 + k), m, 0, k)
    BY <1>3, <2>1, PartText
  <2>3. Part(raw, m, 0, k)
    BY <1>7, <2>1, <2>2 DEF k
  <2>4. \A i \in 1..k : 0 + i = i
    BY <2>1
  <2>5. IsText(raw) /\ Len(raw) = k /\ \A i \in 1..k : raw[i] = m[i]
    BY <2>3, <2>4 DEF Part
  <2> QED
    BY <2>1, <2>5
<1>9. block # <<>>
  BY <1>1, EmptyBlock
<1>10. PICK s : Wrapped(raw, s, block)
  BY <1>8, <1>9, WrappedBlock DEF block
<1> HIDE DEF raw
<1> DEFINE n == Len(raw)
           w == n - 1 - s
<1>11. /\ n \in Nat /\ s \in 1..n /\ s + 1 < n /\ A!Opens(raw[s]) /\ raw[s + 1].is = "run"
       /\ A!Closes(raw[n], raw[s].of)
       /\ IsText(block) /\ Len(block) = w /\ \A i \in 1..w : block[i] = raw[s + i]
  BY <1>8, <1>10 DEF Wrapped, Part, IsText
<1>12. w \in Nat /\ w >= 1 /\ s \in Nat /\ \A i \in 1..w : s + i \in 1..n /\ s + i # n + 1
  BY <1>11
<1> HIDE DEF n, w
<1>13. \A i \in 1..w : block[i] = m[s + i]
  BY <1>8, <1>11, <1>12 DEF n
<1>14. block[1].is = "run" /\ block[Len(block)].is # "stage" /\ Len(block) # 0
  <2>1. 1 \in 1..w /\ w \in 1..w /\ s + w \in 1..Len(m) /\ s + w # Len(m)
    BY <1>8, <1>11, <1>12 DEF n
  <2> QED
    BY <1>6, <1>11, <1>12, <1>13, <2>1
<1>15. PICK x, y : BlockBound(block, binding, x, y)
  BY <1>1, <1>11, <1>14, BlockChecked
<1>16. ~A!Opens(m[Len(m)])
  BY <1>5 DEF A!Opens
<1>17. A!Copied(m) = {m[i] : i \in s..n}
  BY <1>8, <1>10, <1>16, CopiedIs DEF n
<1>18. m[s].is \in {"fence", "info"} /\ m[n].is = "fence"
  <2>1. n \in 1..n /\ raw[s] = m[s] /\ raw[n] = m[n]
    BY <1>8, <1>11, <1>12 DEF n
  <2> QED
    BY <1>11, <2>1, Zenon DEF A!Opens, A!Closes
<1> DEFINE copied(kind) == {l.of : l \in {c \in A!Copied(m) : c.is = kind}}
<1>19. ASSUME NEW kind \in {"fields", "branch"}
       PROVE  copied(kind) = {block[i].of : i \in {j \in 1..w : block[j].is = kind}}
  <2>1. \A i \in s..n : m[i].is = kind => i - s \in 1..w /\ m[i] = block[i - s]
    <3> SUFFICES ASSUME NEW i \in s..n, m[i].is = kind PROVE i - s \in 1..w /\ m[i] = block[i - s]
      OBVIOUS
    <3>1. i # s /\ i # n
      BY <1>18
    <3>2. i - s \in 1..w /\ s + (i - s) = i
      BY <1>11, <1>12, <3>1 DEF w
    <3> QED
      BY <1>13, <3>2
  <2>2. \A i \in 1..w : s + i \in s..n /\ m[s + i] = block[i]
    BY <1>11, <1>12, <1>13
  <2>3. \A v : v \in copied(kind) <=> \E i \in s..n : m[i].is = kind /\ v = m[i].of
    BY <1>17
  <2>4. \A v : v \in copied(kind) => \E j \in 1..w : block[j].is = kind /\ v = block[j].of
    <3> HIDE DEF copied, branch
    <3> QED
      BY <2>1, <2>3
  <2>5. \A v : (\E j \in 1..w : block[j].is = kind /\ v = block[j].of) => v \in copied(kind)
    BY <2>2, <2>3
  <2> QED
    BY <2>4, <2>5
<1>20. /\ {i \in 1..w : block[i].is = "fields"} = {x} /\ {i \in 1..w : block[i].is = "branch"} = {y}
       /\ A!BoundTo(block[x].of, binding) /\ branch = {y} /\ y \in 1..w
  BY <1>11, <1>15 DEF BlockBound
<1> HIDE DEF copied, branch
<1>21. copied("fields") = {block[x].of} /\ copied("branch") = {block[y].of}
  BY <1>19, <1>20
<1>22. A!Max({y}) = y
  <2>1. \A i \in {y} : y >= i
    BY <1>12, <1>20
  <2> QED
    BY <2>1 DEF A!Max
<1>23. copied("branch") = {A!Last(m).of.head}
  BY <1>2, <1>20, <1>21, <1>22
<1>24. binding.plan = text /\ binding.record = A!ReadSeal(A!RecordOf(text))
  BY <1>1 DEF A!BindingFor
<1>25. binding.record = beside
  BY <1>1, <1>24 DEF A!CheckPlan
<1>26. A!BoundTo(block[x].of, binding) /\ block[x].of.record = beside
  BY <1>20, <1>25 DEF A!BoundTo
<1> QED
  BY <1>2, <1>21, <1>23, <1>24, <1>26 DEF copied

LEMMA HandoffStep ==
    ASSUME PlanInv, SealInv, MessagesAreTexts, A!Next
    PROVE  A!HandoffIsCurrent'
<1> USE DEF A!files, A!dir, A!session, A!past
<1>1. CASE A!Check
  <2>1. PICK shape \in Shapes :
           /\ quoted # Null
           /\ last' = [code |-> IF A!CheckHandoff(plan.text, plan.binding, sidecar, MessageFor(shape, quoted)) THEN "CHECK: ok" ELSE "CHECK: fail",
                       message |-> MessageFor(shape, quoted)]
           /\ UNCHANGED <<A!files, A!dir, A!session, A!past>>
    BY <1>1, Zenon DEF A!Check
  <2> DEFINE m == MessageFor(shape, quoted)
  <2>2. last'.message = m /\ IsMessage(m) /\ plan' = plan /\ sidecar' = sidecar
        /\ (last'.code = "CHECK: ok" => A!CheckHandoff(plan.text, plan.binding, sidecar, m))
    BY <2>1 DEF MessagesAreTexts
  <2>3. plan.binding = A!BindingFor(plan.text)
    BY ParsedIs DEF PlanInv
  <2> HIDE DEF m
  <2>4. CASE last'.code = "CHECK: ok"
    <3> DEFINE stage == A!Last(m).of
               copied(kind) == {l.of : l \in {c \in A!Copied(m) : c.is = kind}}
    <3>1. /\ copied("fields") # {} /\ \A f \in copied("fields") : A!BoundTo(f, plan.binding) /\ f.record = sidecar
          /\ copied("branch") = {stage.head} /\ stage.plan = plan.text
      BY <2>2, <2>3, <2>4, HandoffChecked
    <3> QED
      BY <2>2, <3>1 DEF A!HandoffIsCurrent
  <2>5. CASE last'.code # "CHECK: ok"
    BY <2>5 DEF A!HandoffIsCurrent
  <2> QED
    BY <2>4, <2>5
<1>2. CASE A!PublishPlan
  <2>1. \/ last'.code = "sealed"
        \/ job' = [job EXCEPT !.at = "restore"] /\ SealJob(job)
    BY <1>2 DEF A!PublishPlan, SealInv, Stages
  <2>2. last'.code = "sealed" \/ job' # A!Idle
    BY <2>1, Advance DEF A!Idle
  <2> QED
    BY <2>2 DEF A!HandoffIsCurrent
<1>3. CASE A!RestoreSidecar
  <2>1. last'.code \in {"SEAL_WRITE_FAILED", "SEAL_RECOVERY_FAILED"}
    BY <1>3 DEF A!RestoreSidecar
  <2> QED
    BY <2>1 DEF A!HandoffIsCurrent
<1>4. CASE job' # A!Idle \/ last'.code \notin Telling
  BY <1>4 DEF A!HandoffIsCurrent, Telling
<1> QED
  BY <1>1, <1>2, <1>3, <1>4, LastCode

(***************************************************************************)
(* The plan tool: the theorems.                                                 *)
(***************************************************************************)
(* The state the plan tool starts in satisfies all of it: no job, no record, no *)
(* output.                                                                      *)
LEMMA PlanInit ==
    ASSUME A!Init
    PROVE  PlanInv /\ SealInv /\ RecordInv
<1>1. PICK t \in Plans : plan = A!Parsed(t)
  BY DEF A!Init
<1>2. plan.text = t
  BY <1>1, ParsedIs
<1>3. PlanInv
  <2>1. IsText(t) /\ plan.proper = A!Proper(t)
    BY <1>1, InputTexts, ParsedIs
  <2>2. opened \/ Tidy(t)
    BY <2>1, TidyIs DEF A!Init, A!NoFenceOpen
  <2> QED
    BY <1>1, <1>2, <2>1, <2>2 DEF PlanInv
<1>4. job.at = "idle" /\ named = {}
  BY DEF A!Init, A!Idle
<1> QED
  BY <1>3, <1>4 DEF SealInv, RecordInv, Stages

LEMMA NoOutputsYet ==
    ASSUME NEW F, F = [p \in Phases |-> A!NoOutputs]
    PROVE  A!InOutputs(F) \subseteq {Null}
BY DEF A!InOutputs, A!NoOutputs

LEMMA NoHistory == IsText(<<>>) /\ A!HistoryValid(<<>>) /\ A!InHistory(<<>>) = {}
<1>1. Len(<<>>) = 0 /\ DOMAIN <<>> = {} /\ <<>> = [i \in 1..0 |-> <<>>[i]]
  OBVIOUS
<1>2. A!ToSet(<<>>) = {}
  BY <1>1 DEF A!ToSet
<1> QED
  BY <1>1, <1>2 DEF IsText, A!HistoryValid, A!InHistory

LEMMA OutputInit ==
    ASSUME A!Init
    PROVE  OutputInv
<1>1. /\ outputs = [p \in Phases |-> A!NoOutputs] /\ history = <<>> /\ written = 0
      /\ named = {} /\ job.at = "idle"
  BY DEF A!Init, A!Idle
<1>2. outputs \in [Phases -> [Kinds -> {Null} \cup 1..written]]
  BY <1>1 DEF A!NoOutputs
<1>3. IsText(history) /\ A!HistoryValid(history) /\ A!InHistory(history) = {}
  BY <1>1, NoHistory
<1>4. A!InOutputs(outputs) \subseteq {Null}
  BY <1>1, NoOutputsYet
<1>5. Whole(outputs, history, written)
  BY <1>1, <1>3, <1>4 DEF Whole
<1> QED
  BY <1>1, <1>2, <1>3, <1>5 DEF OutputInv, Stages

(* What is told of the last command holds of none.                              *)
LEMMA ToldInit ==
    ASSUME A!Init
    PROVE  A!SealLeavesPair /\ A!HandoffIsCurrent
<1>1. last.code = "none"
  BY DEF A!Init, A!NoCommand
<1> QED
  BY <1>1 DEF A!SealLeavesPair, A!HandoffIsCurrent

AutoplanInv == PlanInv /\ SealInv /\ RecordInv /\ OutputInv
AutoInv == tool = "autoplan" => AutoplanInv

LEMMA OneTool == Init => (tool = "autoplan" => A!Init)
BY DEF Init

LEMMA StepOfOne == [Next]_vars => tool' = tool /\ (tool = "autoplan" => A!Next \/ UNCHANGED <<autoplan, job, last>>)
BY DEF Next, vars, autoplan

LEMMA AutoplanUnchanged ==
    ASSUME UNCHANGED <<autoplan, job, last>>
    PROVE  /\ AutoplanInv => AutoplanInv'
           /\ A!SealLeavesPair => A!SealLeavesPair'
           /\ A!HandoffIsCurrent => A!HandoffIsCurrent'
<1>1. /\ plan' = plan /\ sidecar' = sidecar /\ archives' = archives /\ kept' = kept
      /\ outputs' = outputs /\ history' = history /\ written' = written /\ named' = named
      /\ given' = given /\ opened' = opened /\ job' = job /\ last' = last
  BY DEF autoplan
<1>2. AutoplanInv => AutoplanInv'
  BY <1>1 DEF AutoplanInv, PlanInv, SealInv, RecordInv, OutputInv, Saved, Beside, Replacable, Unsealed, A!Archived, Whole, Holds
<1>3. A!SealLeavesPair => A!SealLeavesPair'
  BY <1>1 DEF A!SealLeavesPair
<1>4. A!HandoffIsCurrent => A!HandoffIsCurrent'
  BY <1>1 DEF A!HandoffIsCurrent
<1> QED
  BY <1>2, <1>3, <1>4

LEMMA AutoplanStep ==
    ASSUME AutoplanInv, RecordsAreNotNull, A!Next
    PROVE  AutoplanInv'
<1>1. PlanInv' /\ SealInv'
  BY PlanStep DEF AutoplanInv
<1>2. RecordInv'
  BY RecordStep DEF AutoplanInv
<1>3. OutputInv'
  BY OutputStep DEF AutoplanInv
<1> QED
  BY <1>1, <1>2, <1>3 DEF AutoplanInv

(* The inductive invariant: the plan file is what parsing its text gives, a seal *)
(* in flight holds the record it will name, every record ever named is archived, *)
(* kept or beside the plan, and every output is current or in the history.      *)
THEOREM AutoplanHolds ==
    ASSUME RecordsAreNotNull
    PROVE  Spec => []AutoInv
<1>1. Init => AutoInv
  BY OneTool, PlanInit, OutputInit DEF AutoInv, AutoplanInv
<1>2. AutoInv /\ [Next]_vars => AutoInv'
  BY StepOfOne, AutoplanUnchanged, AutoplanStep DEF AutoInv
<1> QED
  BY <1>1, <1>2, PTL DEF Spec

(* No seal, replacement, rollback or kill loses a record that the plan once named *)
(* (cli.ts, sealCmd), for any plans, edits, phases and number of steps; except, *)
(* once a plan left a fence open, by a seal told to replace a sidecar that the  *)
(* plan does not name as it reads.                                              *)
THEOREM RecordsAreSafe ==
    ASSUME RecordsAreNotNull
    PROVE  Spec => []RecordsSurvive
<1>1. AutoInv => RecordsSurvive
  BY DEF AutoInv, AutoplanInv, RecordInv, Saved, Beside, Replacable, RecordsSurvive, A!RecordsSurvive, A!Preserved
<1> QED
  BY <1>1, AutoplanHolds, PTL

(* An output of the session is current, or in the history, from when it is written *)
(* to the end, and every record that was ever named holds all outputs up to then. *)
THEOREM OutputsAreSafe ==
    ASSUME RecordsAreNotNull
    PROVE  Spec => []EveryOutputIsKept
<1>1. ASSUME NEW o, NEW h, NEW n, Whole(o, h, n), Null \notin 1..n
      PROVE  (A!InOutputs(o) \cup A!InHistory(h)) \ {Null} = 1..n
  BY <1>1 DEF Whole
<1>2. \A n \in Nat : Null \notin 1..n
  BY ConstantsAssumption DEF ConstantsAssumption
<1>3. OutputInv => A!EveryOutputIsKept
  <2> SUFFICES ASSUME OutputInv PROVE A!EveryOutputIsKept
    OBVIOUS
  <2>1. written \in Nat /\ A!HistoryValid(history) /\ Whole(outputs, history, written)
    BY DEF OutputInv
  <2>2. 1..written \subseteq A!InOutputs(outputs) \cup A!InHistory(history)
    BY <1>1, <1>2, <2>1
  <2>3. ASSUME NEW r \in named
        PROVE  \E n \in 0..written : (A!InOutputs(r.outputs) \cup A!InHistory(r.history)) \ {Null} = 1..n
    <3>1. PICK n \in 0..written : Whole(r.outputs, r.history, n)
      BY DEF OutputInv, Holds
    <3>2. Null \notin 1..n
      BY <1>2, <2>1
    <3>3. (A!InOutputs(r.outputs) \cup A!InHistory(r.history)) \ {Null} = 1..n
      BY <1>1, <3>1, <3>2
    <3> QED
      BY <3>3
  <2> QED
    BY <2>1, <2>2, <2>3 DEF A!EveryOutputIsKept
<1>4. AutoInv => EveryOutputIsKept
  BY <1>3 DEF AutoInv, AutoplanInv, EveryOutputIsKept
<1> QED
  BY <1>4, AutoplanHolds, PTL

(* A seal that says sealed leaves a plan that names the sidecar beside it, every line *)
(* outside the record as it was; or, if the plan leaves a fence open, the old text *)
(* with a record after it that reads as none. One whose publication failed leaves *)
(* the old pair, or the old plan and a copy of the old sidecar (cli.ts, sealCmd). *)
THEOREM SealsLeavePairs ==
    ASSUME RecordsAreNotNull
    PROVE  Spec => []SealLeavesPair
<1>1. Init => SealLeavesPair
  BY OneTool, ToldInit DEF SealLeavesPair
<1>2. AutoInv /\ SealLeavesPair /\ [Next]_vars => SealLeavesPair'
  <2> SUFFICES ASSUME AutoInv, SealLeavesPair, [Next]_vars PROVE SealLeavesPair'
    OBVIOUS
  <2>1. CASE tool = "autoplan" /\ A!Next
    BY <2>1, PairStep DEF AutoInv, AutoplanInv, SealLeavesPair
  <2>2. CASE UNCHANGED <<autoplan, job, last>>
    BY <2>2, StepOfOne, AutoplanUnchanged DEF SealLeavesPair
  <2>3. CASE tool # "autoplan"
    BY <2>3, StepOfOne DEF SealLeavesPair
  <2> QED
    BY <2>1, <2>2, <2>3, StepOfOne
<1> QED
  BY <1>1, <1>2, AutoplanHolds, PTL DEF Spec

(* A message that check accepts hands off this plan: the last fenced block quotes it *)
(* as it is, names its record and binding, and the stage line is for the same commit, *)
(* whatever lines surround the block (transport.ts, checkMessage).              *)
THEOREM HandoffsAreCurrent ==
    ASSUME RecordsAreNotNull, MessagesAreTexts
    PROVE  Spec => []HandoffIsCurrent
<1>1. Init => HandoffIsCurrent
  BY OneTool, ToldInit DEF HandoffIsCurrent
<1>2. AutoInv /\ HandoffIsCurrent /\ [Next]_vars => HandoffIsCurrent'
  <2> SUFFICES ASSUME AutoInv, HandoffIsCurrent, [Next]_vars PROVE HandoffIsCurrent'
    OBVIOUS
  <2>1. CASE tool = "autoplan" /\ A!Next
    BY <2>1, HandoffStep DEF AutoInv, AutoplanInv, HandoffIsCurrent
  <2>2. CASE UNCHANGED <<autoplan, job, last>>
    BY <2>2, StepOfOne, AutoplanUnchanged DEF HandoffIsCurrent
  <2>3. CASE tool # "autoplan"
    BY <2>3, StepOfOne DEF HandoffIsCurrent
  <2> QED
    BY <2>1, <2>2, <2>3, StepOfOne
<1> QED
  BY <1>1, <1>2, AutoplanHolds, PTL DEF Spec

(***************************************************************************)
(* pregate-deps: the walk over the dependents of a file reaches, in as many     *)
(* steps as there are files, exactly what every closed set with it holds.       *)
(***************************************************************************)
(* One step of the walk through the dependents of what was seen, and the walk as *)
(* the function that takes n of them.                                           *)
Grow(reverse, seen) == seen \cup UNION {reverse[node] : node \in {m \in seen : ~P!IsPyTestFile(m)}}
SeenTo(f, reverse, file, n) == f = [i \in 0..n |-> IF i = 0 THEN {file} ELSE Grow(reverse, f[i - 1])]

LEMMA SeenExists ==
    ASSUME NEW reverse, NEW file, NEW m \in Nat
    PROVE  \E f : SeenTo(f, reverse, file, m)
<1> DEFINE bad == {n \in Nat : ~\E f : SeenTo(f, reverse, file, n)}
<1>1. \E f : SeenTo(f, reverse, file, 0)
  <2> DEFINE f == [i \in 0..0 |-> {file}]
  <2>1. f = [i \in 0..0 |-> IF i = 0 THEN {file} ELSE Grow(reverse, f[i - 1])]
    OBVIOUS
  <2> QED
    BY <2>1 DEF SeenTo
<1>2. ASSUME NEW n \in Nat, n # 0, NEW g, SeenTo(g, reverse, file, n - 1)
      PROVE  \E f : SeenTo(f, reverse, file, n)
  <2> DEFINE new == Grow(reverse, g[n - 1])
             f == [i \in 0..n |-> IF i = n THEN new ELSE g[i]]
  <2>1. ASSUME NEW i \in 0..n
        PROVE  f[i] = IF i = 0 THEN {file} ELSE Grow(reverse, f[i - 1])
    <3>1. CASE i = n
      <4>1. f[i - 1] = g[n - 1] /\ f[i] = new /\ i # 0
        BY <1>2, <3>1
      <4> QED
        BY <3>1, <4>1
    <3>2. CASE i # n
      <4>1. i \in 0..(n - 1) /\ f[i] = g[i] /\ (i # 0 => f[i - 1] = g[i - 1])
        BY <3>2
      <4> HIDE DEF f
      <4>2. g[i] = IF i = 0 THEN {file} ELSE Grow(reverse, g[i - 1])
        BY <1>2, <4>1 DEF SeenTo
      <4> QED
        BY <4>1, <4>2
    <3> QED
      BY <3>1, <3>2
  <2>2. f = [i \in 0..n |-> f[i]]
    OBVIOUS
  <2> HIDE DEF f
  <2>3. SeenTo(f, reverse, file, n)
    BY <2>1, <2>2 DEF SeenTo
  <2> QED
    BY <2>3
<1>3. \A n \in bad : n # 0 /\ n - 1 \in bad
  <2> SUFFICES ASSUME NEW n \in bad
               PROVE  n # 0 /\ n - 1 \in bad
    OBVIOUS
  <2>1. n \in Nat /\ n # 0
    BY <1>1
  <2>2. ~\E f : SeenTo(f, reverse, file, n - 1)
    BY <1>2, <2>1
  <2> QED
    BY <2>1, <2>2
<1>4. bad = {}
  <2> HIDE DEF bad
  <2> QED
    BY <1>3, NoneIsBad DEF bad
<1> QED
  BY <1>4
Seen(f, reverse, file, size) ==
    /\ size \in Nat /\ f[0] = {file}
    /\ \A i \in 1..size : f[i] = Grow(reverse, f[i - 1])
Reached(f, reverse, file, size) == P!Walk(reverse, size, file) = {node \in f[size] : P!IsPyTestFile(node)}

(* What the walk returns: the tests among what is seen after that many steps.   *)
LEMMA WalkSees ==
    ASSUME NEW reverse, NEW file, NEW size \in Nat
    PROVE  \E f : Seen(f, reverse, file, size) /\ Reached(f, reverse, file, size)
<1> DEFINE f == CHOOSE g : SeenTo(g, reverse, file, size)
<1>1. SeenTo(f, reverse, file, size)
  BY SeenExists
<1>2. P!Walk(reverse, size, file) = {node \in f[size] : P!IsPyTestFile(node)}
  BY DEF P!Walk, SeenTo, Grow
<1> HIDE DEF f
<1>3. f = [i \in 0..size |-> IF i = 0 THEN {file} ELSE Grow(reverse, f[i - 1])]
  BY <1>1 DEF SeenTo
<1>4. f[0] = {file} /\ \A i \in 1..size : f[i] = Grow(reverse, f[i - 1])
  BY <1>3
<1> QED
  BY <1>2, <1>4 DEF Seen, Reached

(* Finite files, each of whose dependents are among them.                       *)
Graph(reverse, D) == IsFiniteSet(D) /\ \A f \in D : reverse[f] \subseteq D

LEMMA GrowIs ==
    ASSUME NEW reverse, NEW S
    PROVE  /\ S \subseteq Grow(reverse, S)
           /\ P!Closed(reverse, S) <=> Grow(reverse, S) = S
           /\ \A T : S \subseteq T /\ P!Closed(reverse, T) => Grow(reverse, S) \subseteq T
BY DEF Grow, P!Closed

(* What is seen is in every closed set that holds the file ...                  *)
LEMMA SeenIsLeast ==
    ASSUME NEW f, NEW reverse, NEW file, NEW size, Seen(f, reverse, file, size),
           NEW T, file \in T, P!Closed(reverse, T)
    PROVE  \A i \in 0..size : f[i] \subseteq T
<1> DEFINE bad == {n \in Nat : n <= size /\ ~(f[n] \subseteq T)}
<1>1. size \in Nat /\ f[0] = {file} /\ \A i \in 1..size : f[i] = Grow(reverse, f[i - 1])
  BY DEF Seen
<1>2. ASSUME NEW n \in bad PROVE n # 0 /\ n - 1 \in bad
  <2>1. n \in Nat /\ n <= size /\ ~(f[n] \subseteq T) /\ n # 0
    BY <1>1
  <2>2. n \in 1..size /\ n - 1 \in Nat /\ n - 1 <= size
    BY <1>1, <2>1
  <2>3. f[n] = Grow(reverse, f[n - 1])
    BY <1>1, <2>2
  <2>4. ~(f[n - 1] \subseteq T)
    BY <2>1, <2>3, GrowIs
  <2> QED
    BY <2>1, <2>2, <2>4
<1>3. bad \in SUBSET Nat
  OBVIOUS
<1>4. bad = {}
  <2> HIDE DEF bad
  <2> QED
    BY <1>2, <1>3, NoneIsBad
<1> QED
  BY <1>1, <1>4

(* ... and while a step still adds something, there are as many files as steps: *)
(* so the walk, which takes as many steps as there are files, ends closed.      *)
LEMMA SeenIsClosed ==
    ASSUME NEW f, NEW reverse, NEW file, NEW size, Seen(f, reverse, file, size),
           NEW D, Graph(reverse, D), file \in D, size = Cardinality(D)
    PROVE  f[size] \subseteq D /\ P!Closed(reverse, f[size])
<1>1. size \in Nat /\ f[0] = {file} /\ \A i \in 1..size : f[i] = Grow(reverse, f[i - 1])
  BY DEF Seen
<1>2. IsFiniteSet(D) /\ P!Closed(reverse, D)
  BY DEF Graph, P!Closed
<1>3. \A i \in 0..size : f[i] \subseteq D
  BY <1>2, SeenIsLeast
<1>4. \A i \in 0..size : IsFiniteSet(f[i]) /\ Cardinality(f[i]) \in Nat /\ Cardinality(f[i]) <= size
  <2> TAKE i \in 0..size
  <2>1. f[i] \in SUBSET D
    BY <1>3
  <2> QED
    BY <1>2, <2>1, FS_Subset, FS_CardinalityType
<1> SUFFICES ASSUME ~P!Closed(reverse, f[size]) PROVE FALSE
  BY <1>1, <1>3
<1>5. \A i \in 0..size : ~P!Closed(reverse, f[i])
  <2> DEFINE bad == {n \in Nat : n <= size /\ P!Closed(reverse, f[size - n])}
  <2>1. ASSUME NEW n \in bad PROVE n # 0 /\ n - 1 \in bad
    <3>1. n \in Nat /\ n <= size /\ P!Closed(reverse, f[size - n]) /\ size - 0 = size
      BY <1>1
    <3>2. n # 0
      BY <3>1
    <3>3. size - n + 1 \in 1..size /\ (size - n + 1) - 1 = size - n /\ size - (n - 1) = size - n + 1
          /\ n - 1 \in Nat /\ n - 1 <= size
      BY <1>1, <3>1, <3>2
    <3>4. f[size - n + 1] = Grow(reverse, f[size - n])
      BY <1>1, <3>3
    <3>5. f[size - n + 1] = f[size - n]
      BY <3>1, <3>4, GrowIs
    <3>6. P!Closed(reverse, f[size - (n - 1)])
      BY <3>1, <3>3, <3>5
    <3> QED
      BY <3>2, <3>3, <3>6
  <2>2. bad \in SUBSET Nat
    OBVIOUS
  <2>3. bad = {}
    <3> HIDE DEF bad
    <3> QED
      BY <2>1, <2>2, NoneIsBad
  <2> TAKE i \in 0..size
  <2>4. size - i \in Nat /\ size - i <= size /\ size - (size - i) = i
    BY <1>1
  <2>5. size - i \notin bad
    BY <2>3
  <2> QED
    BY <2>4, <2>5
<1>6. \A i \in 0..size : Cardinality(f[i]) > i
  <2> DEFINE bad == {n \in Nat : n <= size /\ ~(Cardinality(f[n]) > n)}
  <2>1. Cardinality(f[0]) > 0
    <3>1. IsFiniteSet(f[0]) /\ f[0] # {} /\ Cardinality(f[0]) \in Nat
      BY <1>1, <1>4
    <3>2. Cardinality(f[0]) # 0
      BY <3>1, FS_EmptySet
    <3> QED
      BY <3>1, <3>2
  <2>2. ASSUME NEW n \in bad PROVE n # 0 /\ n - 1 \in bad
    <3>1. n \in Nat /\ n <= size /\ ~(Cardinality(f[n]) > n) /\ n # 0
      BY <2>1
    <3>2. n \in 1..size /\ n \in 0..size /\ n - 1 \in 0..size /\ n - 1 \in Nat /\ n - 1 <= size
      BY <1>1, <3>1
    <3>3. f[n] = Grow(reverse, f[n - 1]) /\ ~P!Closed(reverse, f[n - 1])
      BY <1>1, <1>5, <3>2
    <3>4. f[n - 1] \in SUBSET f[n] /\ f[n - 1] # f[n]
      BY <3>3, GrowIs
    <3>5. Cardinality(f[n - 1]) <= Cardinality(f[n]) /\ Cardinality(f[n - 1]) # Cardinality(f[n])
      BY <1>4, <3>2, <3>4, FS_Subset
    <3>6. ~(Cardinality(f[n - 1]) > n - 1)
      BY <1>4, <3>1, <3>2, <3>5
    <3> QED
      BY <3>1, <3>2, <3>6
  <2>3. bad \in SUBSET Nat
    OBVIOUS
  <2>4. bad = {}
    <3> HIDE DEF bad
    <3> QED
      BY <2>2, <2>3, NoneIsBad
  <2> QED
    BY <1>1, <2>4
<1>7. Cardinality(f[size]) > size /\ Cardinality(f[size]) <= size /\ Cardinality(f[size]) \in Nat
  BY <1>1, <1>4, <1>6
<1> QED
  BY <1>1, <1>7

(* The walk from a module finds the tests that depend on it.                    *)
LEMMA WalkFinds ==
    ASSUME NEW reverse, NEW D, Graph(reverse, D), NEW file \in D
    PROVE  P!Walk(reverse, Cardinality(D), file)
             = {t \in D : P!IsPyTestFile(t) /\ P!Depends({files \in SUBSET D : P!Closed(reverse, files)}, file, t)}
<1> DEFINE size == Cardinality(D)
           closed == {files \in SUBSET D : P!Closed(reverse, files)}
<1>1. size \in Nat
  BY FS_CardinalityType DEF Graph
<1> HIDE DEF size
<1>2. PICK f : Seen(f, reverse, file, size) /\ Reached(f, reverse, file, size)
  BY <1>1, WalkSees
<1>3. /\ f[0] = {file} /\ \A i \in 1..size : f[i] = Grow(reverse, f[i - 1])
      /\ P!Walk(reverse, size, file) = {node \in f[size] : P!IsPyTestFile(node)}
  BY <1>2 DEF Seen, Reached
<1>4. f[size] \subseteq D /\ P!Closed(reverse, f[size])
  BY <1>2, SeenIsClosed DEF size
<1>5. \A T : file \in T /\ P!Closed(reverse, T) => \A i \in 0..size : f[i] \subseteq T
  BY <1>2, SeenIsLeast
<1>6. size \in 0..size /\ 0 \in 0..size
  BY <1>1
<1>7. ASSUME NEW t \in f[size] PROVE t \in D /\ P!Depends(closed, file, t)
  BY <1>4, <1>5, <1>6 DEF P!Depends
<1>8. file \in f[size]
  <2> DEFINE bad == {n \in Nat : n <= size /\ ~(file \in f[n])}
  <2>1. ASSUME NEW n \in bad PROVE n # 0 /\ n - 1 \in bad
    <3>1. n \in Nat /\ n <= size /\ ~(file \in f[n]) /\ n # 0
      BY <1>3
    <3>2. n \in 1..size /\ n - 1 \in Nat /\ n - 1 <= size
      BY <1>1, <3>1
    <3>3. f[n] = Grow(reverse, f[n - 1])
      BY <1>3, <3>2
    <3>4. file \notin f[n - 1]
      BY <3>1, <3>3, GrowIs
    <3> QED
      BY <3>1, <3>2, <3>4
  <2>2. bad \in SUBSET Nat
    OBVIOUS
  <2>3. bad = {}
    <3> HIDE DEF bad
    <3> QED
      BY <2>1, <2>2, NoneIsBad
  <2> QED
    BY <1>1, <2>3
<1>9. ASSUME NEW t, P!Depends(closed, file, t) PROVE t \in f[size]
  <2>1. f[size] \in closed
    BY <1>4
  <2> QED
    BY <1>8, <1>9, <2>1 DEF P!Depends
<1> QED
  BY <1>3, <1>7, <1>9 DEF size

(* The tests that depend on a file, as the property counts them.                *)
TestsOf(srcs, roots, f) ==
    {t \in DOMAIN srcs : P!IsPyTestFile(t)
        /\ P!Depends({files \in SUBSET DOMAIN srcs : P!Closed(P!Dependents(srcs, roots), files)}, f, t)}
ModulesOf(srcs, roots) == {f \in DOMAIN srcs : ~P!IsPyTestFile(f) /\ P!UnderRoot(f, roots)}

(* What the graph yields: for each module under the roots the tests that depend *)
(* on it, and no entry where there are none.                                    *)
LEMMA GenerateIs ==
    ASSUME NEW srcs, IsFiniteSet(DOMAIN srcs), NEW roots
    PROVE  /\ DOMAIN P!Generate(srcs, roots) = {f \in ModulesOf(srcs, roots) : TestsOf(srcs, roots, f) # {}}
           /\ \A f \in DOMAIN P!Generate(srcs, roots) : P!Generate(srcs, roots)[f] = TestsOf(srcs, roots, f)
<1> DEFINE reverse == P!Dependents(srcs, roots)
           D == DOMAIN srcs
           reached == [file \in {f \in D : ~P!IsPyTestFile(f) /\ P!UnderRoot(f, roots)} |->
                         P!Walk(reverse, P!Cardinality(D), file)]
<1>1. Graph(reverse, D)
  BY DEF Graph, P!Dependents
<1>2. P!Cardinality(D) = Cardinality(D)
  BY DEF P!Cardinality, Cardinality
<1>3. \A f \in D : P!Walk(reverse, Cardinality(D), f) = TestsOf(srcs, roots, f)
  <2> HIDE DEF reverse, D
  <2>1. \A f \in D : P!Walk(reverse, Cardinality(D), f)
             = {t \in D : P!IsPyTestFile(t) /\ P!Depends({files \in SUBSET D : P!Closed(reverse, files)}, f, t)}
    BY <1>1, WalkFinds
  <2> QED
    BY <2>1 DEF TestsOf, reverse, D
<1>4. P!Generate(srcs, roots) = [file \in {f \in DOMAIN reached : reached[f] # {}} |-> reached[file]]
  BY DEF P!Generate
<1> HIDE DEF reverse
<1>5. DOMAIN reached = ModulesOf(srcs, roots) /\ \A f \in ModulesOf(srcs, roots) : reached[f] = TestsOf(srcs, roots, f)
  BY <1>2, <1>3 DEF ModulesOf
<1> HIDE DEF reached
<1> QED
  BY <1>4, <1>5

(* What a policy file must say after a run over what the file said before.      *)
MapRight(deps, before, roots, srcs, mode) ==
    LET declared == {key \in DOMAIN before : ~P!IsOwnedKey(key, before[key], roots)}
        modules == {f \in DOMAIN srcs \ declared : P!UnderRoot(f, roots) /\ ~P!IsPyTestFile(f)}
        recorded(key) == IF key \in DOMAIN deps THEN deps[key] ELSE {}
    IN /\ \A f \in modules : recorded(f) = TestsOf(srcs, roots, f)
       /\ \A key \in DOMAIN deps \ declared : key \in modules
       /\ \A key \in declared : recorded(key) = before[key] /\ key \in DOMAIN deps
       /\ mode # "prune" => \A key \in DOMAIN before : before[key] \subseteq recorded(key)

LEMMA ComparedIs ==
    ASSUME NEW deps, NEW raw, NEW roots
    PROVE  LET users == P!Kept(deps, roots)
               generated == P!Generated(raw, users)
               found == P!Compared(deps, raw, roots) IN
           /\ found.merged = P!Merged(users, generated)
           /\ found.missing = P!Pairs(generated, DOMAIN generated) \ P!Pairs(deps, P!Owned(deps, roots))
           /\ found.stale = P!Pairs(deps, P!Owned(deps, roots)) \ P!Pairs(generated, DOMAIN generated)
BY DEF P!Compared

LEMMA PairsAre ==
    ASSUME NEW deps, NEW keys
    PROVE  \A key, test : <<key, test>> \in P!Pairs(deps, keys) <=> key \in keys /\ test \in deps[key]
BY DEF P!Pairs

(* The merged entries are right, and so is a file that neither lacks a pair nor *)
(* has one too many.                                                            *)
LEMMA ComparedRight ==
    ASSUME NEW srcs, IsFiniteSet(DOMAIN srcs), NEW roots, NEW deps, NEW mode,
           NEW found, found = P!Compared(deps, P!Generate(srcs, roots), roots)
    PROVE  /\ (mode # "prune" => found.stale = {}) => MapRight(found.merged, deps, roots, srcs, mode)
           /\ found.stale = {} /\ found.missing = {} => MapRight(deps, deps, roots, srcs, mode)
<1> DEFINE raw == P!Generate(srcs, roots)
           owned == P!Owned(deps, roots)
           users == P!Kept(deps, roots)
           generated == P!Generated(raw, users)
           declared == {key \in DOMAIN deps : ~P!IsOwnedKey(key, deps[key], roots)}
           modules == {f \in DOMAIN srcs \ declared : P!UnderRoot(f, roots) /\ ~P!IsPyTestFile(f)}
           tests(f) == TestsOf(srcs, roots, f)
<1>1. /\ DOMAIN raw = {f \in ModulesOf(srcs, roots) : tests(f) # {}}
      /\ \A f \in DOMAIN raw : raw[f] = tests(f)
  BY GenerateIs
<1>2. /\ found.merged = P!Merged(users, generated)
      /\ found.missing = P!Pairs(generated, DOMAIN generated) \ P!Pairs(deps, owned)
      /\ found.stale = P!Pairs(deps, owned) \ P!Pairs(generated, DOMAIN generated)
  BY ComparedIs
<1> HIDE DEF raw, tests
<1>3. DOMAIN users = declared /\ \A key \in declared : users[key] = deps[key]
  BY DEF P!Kept, P!Owned
<1>4. owned = DOMAIN deps \ declared /\ \A key \in owned : deps[key] # {}
  BY DEF P!Owned, P!IsOwnedKey
<1> HIDE DEF users, owned
<1>5. modules = ModulesOf(srcs, roots) \ declared
  BY DEF ModulesOf
<1> HIDE DEF declared, modules
<1>6. /\ DOMAIN generated = {f \in modules : tests(f) # {}}
      /\ \A f \in DOMAIN generated : generated[f] = tests(f)
  BY <1>1, <1>3, <1>5 DEF P!Generated
<1> HIDE DEF generated
<1> DEFINE merged == P!Merged(users, generated)
<1>7. /\ DOMAIN merged = declared \cup DOMAIN generated
      /\ \A key \in declared : merged[key] = deps[key]
      /\ \A key \in DOMAIN generated \ declared : merged[key] = tests(key)
  BY <1>3, <1>6 DEF P!Merged
<1> HIDE DEF merged
<1>8. modules \cap declared = {}
  BY <1>5
<1>9. ASSUME found.stale = {}
      PROVE  \A key \in owned : key \in DOMAIN generated /\ deps[key] \subseteq tests(key)
  <2> TAKE key \in owned
  <2>1. \A test \in deps[key] : <<key, test>> \in P!Pairs(deps, owned)
    BY PairsAre
  <2>2. \A test \in deps[key] : <<key, test>> \in P!Pairs(generated, DOMAIN generated)
    BY <1>2, <1>9, <2>1
  <2>3. \A test \in deps[key] : key \in DOMAIN generated /\ test \in generated[key]
    BY <2>2, PairsAre
  <2> QED
    BY <1>4, <1>6, <2>3
<1>10. ASSUME found.missing = {}
       PROVE  \A key \in DOMAIN generated : key \in owned /\ tests(key) \subseteq deps[key]
  <2> TAKE key \in DOMAIN generated
  <2>1. \A test \in generated[key] : <<key, test>> \in P!Pairs(generated, DOMAIN generated)
    BY PairsAre
  <2>2. \A test \in generated[key] : <<key, test>> \in P!Pairs(deps, owned)
    BY <1>2, <1>10, <2>1
  <2>3. \A test \in generated[key] : key \in owned /\ test \in deps[key]
    BY <2>2, PairsAre
  <2> QED
    BY <1>6, <2>3
<1>11. ASSUME mode # "prune" => found.stale = {}
       PROVE  MapRight(merged, deps, roots, srcs, mode)
  <2> DEFINE recorded(key) == IF key \in DOMAIN merged THEN merged[key] ELSE {}
  <2>1. \A f \in modules : recorded(f) = tests(f)
    BY <1>6, <1>7, <1>8
  <2>2. \A key \in DOMAIN merged \ declared : key \in modules
    BY <1>6, <1>7
  <2>3. \A key \in declared : recorded(key) = deps[key] /\ key \in DOMAIN merged
    BY <1>7
  <2>4. mode # "prune" => \A key \in DOMAIN deps : deps[key] \subseteq recorded(key)
    <3> SUFFICES ASSUME mode # "prune", NEW key \in DOMAIN deps PROVE deps[key] \subseteq recorded(key)
      OBVIOUS
    <3>1. CASE key \in declared
      BY <2>3, <3>1
    <3>2. CASE key \in owned
      <4>1. key \in DOMAIN generated /\ deps[key] \subseteq tests(key)
        BY <1>9, <1>11, <3>2
      <4>2. key \in modules
        BY <1>6, <4>1
      <4> QED
        BY <2>1, <4>1, <4>2
    <3> QED
      BY <1>4, <3>1, <3>2
  <2> HIDE DEF recorded
  <2> QED
    BY <2>1, <2>2, <2>3, <2>4 DEF MapRight, recorded, declared, modules, tests
<1>12. ASSUME found.stale = {}, found.missing = {}
       PROVE  MapRight(deps, deps, roots, srcs, mode)
  <2> DEFINE recorded(key) == IF key \in DOMAIN deps THEN deps[key] ELSE {}
  <2>1. \A f \in modules : recorded(f) = tests(f)
    <3> TAKE f \in modules
    <3>1. CASE f \in DOMAIN generated
      BY <1>4, <1>9, <1>10, <1>12, <3>1
    <3>2. CASE f \notin DOMAIN generated
      BY <1>4, <1>6, <1>8, <1>9, <1>12, <3>2
    <3> QED
      BY <3>1, <3>2
  <2>2. \A key \in DOMAIN deps \ declared : key \in modules
    BY <1>4, <1>6, <1>9, <1>12
  <2>3. \A key \in declared : recorded(key) = deps[key] /\ key \in DOMAIN deps
    BY DEF declared
  <2>4. \A key \in DOMAIN deps : deps[key] \subseteq recorded(key)
    OBVIOUS
  <2> HIDE DEF recorded
  <2> QED
    BY <2>1, <2>2, <2>3, <2>4 DEF MapRight, recorded, declared, modules, tests
<1> QED
  BY <1>2, <1>11, <1>12 DEF merged

(* What holds of a run in flight: while nobody edits what it has read, it holds *)
(* the policy it started from, and then the file the sources call for.          *)
DepsInv ==
    /\ IsFiniteSet(DOMAIN sources) /\ policy.reads \in P!Reads
    /\ job # P!Idle => job.at \in {"read", "scratch", "rename"}
    /\ job.at = "read" => job = [at |-> "read", mode |-> job.mode, roots |-> job.roots, deps |-> job.deps, fresh |-> job.fresh]
    /\ job.at \in {"scratch", "rename"} =>
         job = [at |-> job.at, mode |-> job.mode, roots |-> job.roots, deps |-> job.deps, fresh |-> job.fresh, next |-> job.next]
    /\ job.at = "read" /\ job.fresh => policy.deps = job.deps
    /\ job.at \in {"scratch", "rename"} /\ job.fresh => MapRight(job.next, job.deps, job.roots, sources, job.mode)
    /\ job.at = "rename" => scratch = job.next

LEMMA DepsInputs ==
    /\ \A tree \in Trees \cup SourceEdits : IsFiniteSet(DOMAIN tree)
    /\ \A text \in Policies \cup PolicyEdits : text.reads \in P!Reads
BY InputsAssumption DEF P!InputsAssumption, P!IsFiniteSet, IsFiniteSet

LEMMA DepsInit ==
    ASSUME P!Init
    PROVE  DepsInv /\ P!MapIsTheClosure
<1>1. job = P!Idle /\ job.at = "idle" /\ last.code = "none" /\ sources \in Trees /\ policy \in Policies
  BY DEF P!Init, P!Idle, P!NoRun
<1> QED
  BY <1>1, DepsInputs DEF DepsInv, P!MapIsTheClosure

(* A run that ends without a file, or has not ended, says nothing of the policy. *)
Silent == {"none", "missing_root", "internal", "killed", "unsupported_path", "limit_exceeded", "stale_entries"} \cup (P!Reads \ {"ok"})
LEMMA SilentStep ==
    ASSUME last'.code \in Silent
    PROVE  P!MapIsTheClosure'
BY DEF P!MapIsTheClosure, Silent, P!Reads

LEMMA EndStep ==
    ASSUME NEW code, P!End(code), DepsInv, UNCHANGED <<policy, sources>>
    PROVE  DepsInv' /\ last'.code = code
<1>1. job' = P!Idle /\ job'.at = "idle" /\ last'.code = code
  BY DEF P!End, P!Idle
<1> QED
  BY <1>1 DEF DepsInv

LEMMA DecideStep ==
    ASSUME DepsInv, P!MapIsTheClosure, job.at = "read", UNCHANGED <<policy, sources>>,
           NEW found, found = P!Compared(job.deps, P!Generate(sources, job.roots), job.roots), P!Decide(found)
    PROVE  DepsInv' /\ P!MapIsTheClosure'
<1>1. /\ job = [at |-> "read", mode |-> job.mode, roots |-> job.roots, deps |-> job.deps, fresh |-> job.fresh]
      /\ IsFiniteSet(DOMAIN sources) /\ policy.reads \in P!Reads
      /\ job.fresh => policy.deps = job.deps
  BY DEF DepsInv
<1>2. /\ (job.mode # "prune" => found.stale = {}) => MapRight(found.merged, job.deps, job.roots, sources, job.mode)
      /\ found.stale = {} /\ found.missing = {} => MapRight(job.deps, job.deps, job.roots, sources, job.mode)
  BY <1>1, ComparedRight
<1>3. CASE \E code \in {"limit_exceeded", "stale_entries"} : P!End(code)
  BY <1>3, EndStep, SilentStep DEF Silent
<1>4. CASE \E code \in {"current", "unchanged"} : P!Ended(code) /\ found.stale = {} /\ found.missing = {}
  <2>1. PICK code \in {"current", "unchanged"} : P!Ended(code) /\ found.stale = {} /\ found.missing = {}
    BY <1>4
  <2>2. /\ job' = P!Idle /\ job'.at = "idle"
        /\ last'.roots = job.roots /\ last'.before = job.deps /\ last'.mode = job.mode /\ last'.fresh = job.fresh
    BY <2>1 DEF P!Ended, P!Idle
  <2>3. DepsInv'
    BY <1>1, <2>2 DEF DepsInv
  <2>4. job.fresh => MapRight(policy.deps, job.deps, job.roots, sources, job.mode)
    BY <1>1, <1>2, <2>1
  <2>5. last'.fresh => MapRight(policy.deps, last.before, last.roots, sources, last.mode)'
    BY <2>2, <2>4 DEF MapRight, TestsOf
  <2>6. P!MapIsTheClosure'
    BY <2>5 DEF P!MapIsTheClosure, MapRight, TestsOf
  <2> QED
    BY <2>3, <2>6
<1>5. CASE P!Ended("stale")
  <2>1. job' = P!Idle /\ job'.at = "idle" /\ last'.code = "stale"
    BY <1>5 DEF P!Ended, P!Idle
  <2> QED
    BY <1>1, <2>1 DEF DepsInv, P!MapIsTheClosure
<1>6. CASE /\ job' = [at |-> "scratch", mode |-> job.mode, roots |-> job.roots, deps |-> job.deps,
                      fresh |-> job.fresh, next |-> found.merged]
           /\ UNCHANGED <<last, scratch>> /\ (job.mode # "prune" => found.stale = {})
  <2>1. /\ job'.at = "scratch" /\ job'.next = found.merged /\ job'.deps = job.deps /\ job'.roots = job.roots
        /\ job'.mode = job.mode /\ job'.fresh = job.fresh
        /\ job' = [at |-> job'.at, mode |-> job'.mode, roots |-> job'.roots, deps |-> job'.deps, fresh |-> job'.fresh, next |-> job'.next]
    BY <1>6
  <2>2. MapRight(found.merged, job.deps, job.roots, sources, job.mode)
    BY <1>2, <1>6
  <2>3. MapRight(job.next, job.deps, job.roots, sources, job.mode)'
    BY <2>1, <2>2 DEF MapRight, TestsOf
  <2>4. DepsInv'
    BY <1>1, <2>1, <2>3 DEF DepsInv
  <2>5. P!MapIsTheClosure'
    BY <1>6 DEF P!MapIsTheClosure
  <2> QED
    BY <2>4, <2>5
<1> QED
  BY <1>3, <1>4, <1>5, <1>6, Zenon DEF P!Decide

(* An edit marks what a run has read as no longer fresh.                        *)
ReadJob(j) == j = [at |-> "read", mode |-> j.mode, roots |-> j.roots, deps |-> j.deps, fresh |-> j.fresh]
Freshened(k, j, x) == k = [j EXCEPT !.fresh = x]
LEMMA ReadEdited ==
    ASSUME NEW j, ReadJob(j), NEW x, NEW k, Freshened(k, j, x)
    PROVE  k.at = "read" /\ k.fresh = x /\ ReadJob(k)
<1>1. k = [at |-> "read", mode |-> j.mode, roots |-> j.roots, deps |-> j.deps, fresh |-> x]
  BY DEF ReadJob, Freshened
<1> QED
  BY <1>1 DEF ReadJob

LEMMA DepsStep ==
    ASSUME DepsInv, P!MapIsTheClosure, P!Next
    PROVE  DepsInv' /\ P!MapIsTheClosure'
<1>0. IsFiniteSet(DOMAIN sources) /\ policy.reads \in P!Reads
  BY DEF DepsInv
<1>1. CASE P!Start
  <2>1. UNCHANGED <<policy, sources>>
    BY <1>1 DEF P!Start
  <2>2. CASE P!End("missing_root") \/ (policy.reads # "ok" /\ P!End(policy.reads))
    BY <1>0, <2>1, <2>2, EndStep, SilentStep DEF Silent
  <2>3. CASE \E mode \in {"check", "write", "prune"}, roots \in RootSets :
               last' = P!NoRun /\ job' = [at |-> "read", mode |-> mode, roots |-> roots, deps |-> policy.deps, fresh |-> TRUE]
    <3>1. /\ last'.code = "none" /\ job'.at = "read" /\ job'.deps = policy.deps
          /\ job' = [at |-> "read", mode |-> job'.mode, roots |-> job'.roots, deps |-> job'.deps, fresh |-> job'.fresh]
      BY <2>3 DEF P!NoRun
    <3> QED
      BY <1>0, <2>1, <3>1, SilentStep DEF Silent, DepsInv
  <2> QED
    BY <1>1, <2>2, <2>3 DEF P!Start
<1>2. CASE P!ReadSources
  <2>1. UNCHANGED <<policy, sources>> /\ job.at = "read"
    BY <1>2 DEF P!ReadSources
  <2>2. CASE P!End("internal") \/ P!End("unsupported_path")
    BY <2>1, <2>2, EndStep, SilentStep DEF Silent
  <2>3. CASE P!Decide(P!Compared(job.deps, P!Generate(sources, job.roots), job.roots))
    BY <2>1, <2>3, DecideStep
  <2> QED
    BY <1>2, <2>2, <2>3 DEF P!ReadSources
<1>3. CASE P!WriteScratch
  <2>1. UNCHANGED <<policy, sources>> /\ job.at = "scratch"
    BY <1>3 DEF P!WriteScratch
  <2>2. CASE P!End("internal")
    BY <2>1, <2>2, EndStep, SilentStep DEF Silent
  <2>3. CASE scratch' = job.next /\ job' = [job EXCEPT !.at = "rename"] /\ UNCHANGED last
    <3>1. job' = [at |-> "rename", mode |-> job.mode, roots |-> job.roots, deps |-> job.deps, fresh |-> job.fresh, next |-> job.next]
      BY <2>1, <2>3 DEF DepsInv
    <3>2. /\ job'.at = "rename" /\ job'.next = job.next /\ job'.deps = job.deps /\ job'.roots = job.roots
          /\ job'.mode = job.mode /\ job'.fresh = job.fresh
          /\ job' = [at |-> job'.at, mode |-> job'.mode, roots |-> job'.roots, deps |-> job'.deps, fresh |-> job'.fresh, next |-> job'.next]
      BY <3>1
    <3>3. job.fresh => MapRight(job.next, job.deps, job.roots, sources, job.mode)
      BY <2>1 DEF DepsInv
    <3>4. job'.fresh => MapRight(job.next, job.deps, job.roots, sources, job.mode)'
      BY <2>1, <3>2, <3>3 DEF MapRight, TestsOf
    <3>5. DepsInv'
      BY <1>0, <2>1, <2>3, <3>2, <3>4 DEF DepsInv
    <3>6. P!MapIsTheClosure'
      BY <2>1, <2>3 DEF P!MapIsTheClosure
    <3> QED
      BY <3>5, <3>6
  <2> QED
    BY <1>3, <2>2, <2>3 DEF P!WriteScratch
<1>4. CASE P!Rename
  <2>1. sources' = sources /\ job.at = "rename" /\ job' = P!Idle /\ job'.at = "idle" /\ scratch = job.next
    BY <1>4 DEF P!Rename, P!Ended, P!Idle, DepsInv
  <2>2. CASE policy' = policy /\ last' = [code |-> "internal"]
    <3>1. last'.code = "internal"
      BY <2>2
    <3> QED
      BY <1>0, <2>1, <2>2, <3>1, SilentStep DEF Silent, DepsInv
  <2>3. CASE policy' = P!Policy(scratch) /\ P!Ended("written")
    <3>1. /\ policy'.reads = "ok" /\ policy'.deps = job.next
          /\ last'.roots = job.roots /\ last'.before = job.deps /\ last'.mode = job.mode /\ last'.fresh = job.fresh
      BY <2>1, <2>3 DEF P!Ended, P!Policy
    <3>2. DepsInv'
      BY <1>0, <2>1, <3>1 DEF DepsInv, P!Reads
    <3>3. job.fresh => MapRight(job.next, job.deps, job.roots, sources, job.mode)
      BY <2>1 DEF DepsInv
    <3>4. last'.fresh => MapRight(policy.deps, last.before, last.roots, sources, last.mode)'
      BY <2>1, <3>1, <3>3 DEF MapRight, TestsOf
    <3>5. P!MapIsTheClosure'
      BY <3>4 DEF P!MapIsTheClosure, MapRight, TestsOf
    <3> QED
      BY <3>2, <3>5
  <2> QED
    BY <1>4, <2>2, <2>3 DEF P!Rename
<1>5. CASE P!Kill
  <2>1. UNCHANGED <<policy, sources>> /\ P!End("killed")
    BY <1>5 DEF P!Kill
  <2> QED
    BY <2>1, EndStep, SilentStep DEF Silent
<1>6. CASE P!EditPolicy \/ P!EditSources
  <2>1. last'.code = "none" /\ scratch' = scratch
    BY <1>6 DEF P!EditPolicy, P!EditSources, P!Edited, P!NoRun
  <2>2. P!MapIsTheClosure'
    BY <2>1, SilentStep DEF Silent
  <2>3. IsFiniteSet(DOMAIN sources)' /\ (policy.reads \in P!Reads)'
    BY <1>0, <1>6, DepsInputs DEF P!EditPolicy, P!EditSources
  <2>4. CASE job = P!Idle
    <3>1. job' = P!Idle /\ job'.at = "idle"
      BY <1>6, <2>4 DEF P!EditPolicy, P!EditSources, P!Edited, P!Idle
    <3> QED
      BY <2>2, <2>3, <3>1 DEF DepsInv
  <2>5. CASE job # P!Idle /\ job.at = "read" /\ policy' = policy
    <3>1. job' = job \/ job' = [job EXCEPT !.fresh = FALSE]
      BY <1>6 DEF P!EditPolicy, P!EditSources, P!Edited
    <3>2. /\ job'.at = "read" /\ job'.deps = job.deps /\ (job'.fresh => job.fresh)
          /\ job' = [at |-> "read", mode |-> job'.mode, roots |-> job'.roots, deps |-> job'.deps, fresh |-> job'.fresh]
      <4>1. job = [at |-> "read", mode |-> job.mode, roots |-> job.roots, deps |-> job.deps, fresh |-> job.fresh]
        BY <2>5 DEF DepsInv
      <4> QED
        BY <3>1, <4>1
    <3>3. job'.fresh => policy'.deps = job'.deps
      BY <2>5, <3>2 DEF DepsInv
    <3> QED
      BY <2>2, <2>3, <2>5, <3>2, <3>3 DEF DepsInv
  <2>6. CASE job # P!Idle /\ ~(job.at = "read" /\ policy' = policy)
    <3>1. job' = [job EXCEPT !.fresh = FALSE]
      BY <1>6, <2>6 DEF P!EditPolicy, P!EditSources, P!Edited
    <3>2. job.at \in {"read", "scratch", "rename"}
      BY <2>6 DEF DepsInv
    <3>3. CASE job.at = "read"
      <4>1. job = [at |-> "read", mode |-> job.mode, roots |-> job.roots, deps |-> job.deps, fresh |-> job.fresh]
        BY <3>3 DEF DepsInv
      <4>2. /\ job'.at = "read" /\ job'.fresh = FALSE
            /\ job' = [at |-> "read", mode |-> job'.mode, roots |-> job'.roots, deps |-> job'.deps, fresh |-> job'.fresh]
        <5>1. ReadJob(job)
          BY <4>1 DEF ReadJob
        <5>2. PICK x : x = FALSE /\ Freshened(job', job, x)
          BY <3>1, Zenon DEF Freshened
        <5>3. job'.at = "read" /\ job'.fresh = x /\ ReadJob(job')
          BY <5>1, <5>2, ReadEdited
        <5> QED
          BY <5>2, <5>3 DEF ReadJob
      <4> QED
        BY <2>2, <2>3, <4>2 DEF DepsInv
    <3>4. CASE job.at \in {"scratch", "rename"}
      <4>1. job = [at |-> job.at, mode |-> job.mode, roots |-> job.roots, deps |-> job.deps, fresh |-> job.fresh, next |-> job.next]
        BY <3>4 DEF DepsInv
      <4>2. /\ job'.at = job.at /\ job'.fresh = FALSE /\ job'.next = job.next
            /\ job' = [at |-> job'.at, mode |-> job'.mode, roots |-> job'.roots, deps |-> job'.deps, fresh |-> job'.fresh, next |-> job'.next]
        BY <3>1, <4>1
      <4>3. job.at = "rename" => scratch = job.next
        BY DEF DepsInv
      <4> QED
        BY <2>1, <2>2, <2>3, <3>4, <4>2, <4>3 DEF DepsInv
    <3> QED
      BY <3>2, <3>3, <3>4
  <2> QED
    BY <2>4, <2>5, <2>6
<1> QED
  BY <1>1, <1>2, <1>3, <1>4, <1>5, <1>6 DEF P!Next

(* The dependencies that pregate-deps says it wrote, or found current, are for each *)
(* module under the roots the tests that reach it in the import graph, and what users *)
(* declared is untouched: for any finite trees, policies, edits and number of runs. *)
THEOREM MapHolds == Spec => []MapIsTheClosure
<1> DEFINE Inv == tool = "pregate" => DepsInv /\ P!MapIsTheClosure
<1>1. Init => Inv
  BY DepsInit DEF Init
<1>2. Inv /\ [Next]_vars => Inv'
  <2> SUFFICES ASSUME Inv, [Next]_vars PROVE Inv'
    OBVIOUS
  <2>1. tool' = tool /\ (tool = "pregate" => P!Next \/ UNCHANGED vars)
    BY DEF Next, vars
  <2>2. CASE tool = "pregate" /\ P!Next
    BY <2>1, <2>2, DepsStep
  <2>3. CASE UNCHANGED vars
    <3>1. UNCHANGED <<policy, sources, scratch, job, last>>
      BY <2>3 DEF vars, pregate
    <3> QED
      BY <2>1, <3>1 DEF DepsInv, P!MapIsTheClosure, MapRight, TestsOf
  <2>4. CASE tool # "pregate"
    BY <2>1, <2>4
  <2> QED
    BY <2>1, <2>2, <2>3, <2>4
<1>3. Inv => MapIsTheClosure
  BY DEF MapIsTheClosure
<1> QED
  BY <1>1, <1>2, <1>3, PTL DEF Spec

(***************************************************************************)
(* layout-scaffold: an operation of apply moves no lookup, and leaves every     *)
(* whole document whole somewhere.                                              *)
(***************************************************************************)
(* Where a lookup goes from an entry, and the real path as that many lookups.   *)
Looked(t, next) == IF L!NodeAt(t, next).type = "link" THEN L!NodeAt(t, next).to ELSE next
RealTo(f, t, path, n) == f = [i \in 0..n |-> IF i = 0 THEN L!Project ELSE Looked(t, Append(f[i - 1], path[i]))]
SameLinks(t, u) == \A p : Looked(t, p) = Looked(u, p)

LEMMA RealIs == \A t, path : L!Real(t, path) = (CHOOSE f : RealTo(f, t, path, Len(path)))[Len(path)]
BY DEF L!Real, RealTo, Looked

LEMMA RealSame ==
    ASSUME NEW t, NEW u, SameLinks(t, u), NEW path
    PROVE  L!Real(t, path) = L!Real(u, path)
<1>1. \A f : RealTo(f, t, path, Len(path)) <=> RealTo(f, u, path, Len(path))
  BY DEF RealTo, SameLinks
<1>2. (CHOOSE f : RealTo(f, t, path, Len(path))) = (CHOOSE f : RealTo(f, u, path, Len(path)))
  BY <1>1, Zenon
<1> QED
  BY <1>2, RealIs

LEMMA LocatedSame ==
    ASSUME NEW t, NEW u, SameLinks(t, u), NEW path
    PROVE  L!Located(t, path) = L!Located(u, path)
BY RealSame DEF L!Located

(* An entry made where there was none, and is no link, moves no lookup and takes *)
(* no document away.                                                            *)
LEMMA Added ==
    ASSUME NEW t, NEW path, L!NodeAt(t, path).type = "none", NEW node, node.type # "link",
           NEW u, u = L!Put(t, path, node)
    PROVE  /\ SameLinks(t, u) /\ L!Documents(t) \subseteq L!Documents(u)
           /\ L!NodeAt(u, path) = node /\ \A p : p # path => L!NodeAt(u, p) = L!NodeAt(t, p)
<1>1. L!NodeAt(u, path) = node /\ \A p : p # path => L!NodeAt(u, p) = L!NodeAt(t, p)
  BY DEF L!NodeAt, L!Put
<1>2. SameLinks(t, u)
  BY <1>1 DEF SameLinks, Looked
<1>3. L!Documents(t) \subseteq L!Documents(u)
  BY DEF L!NodeAt, L!Put, L!Documents
<1> QED
  BY <1>1, <1>2, <1>3

(* Nor does taking a file away, whose document another path holds whole.        *)
LEMMA Removed ==
    ASSUME NEW t, NEW path, L!NodeAt(t, path).type = "file", NEW u, u = L!Put(t, path, L!Absent)
    PROVE  /\ SameLinks(t, u)
           /\ L!NodeAt(u, path) = L!Absent /\ \A p : p # path => L!NodeAt(u, p) = L!NodeAt(t, p)
           /\ \A to : /\ to # path /\ L!NodeAt(t, to).type = "file" /\ L!NodeAt(t, to).doc = L!NodeAt(t, path).doc
                      /\ L!NodeAt(t, path).whole => L!NodeAt(t, to).whole
                      => L!Documents(t) \subseteq L!Documents(u)
<1>1. L!NodeAt(u, path) = L!Absent /\ \A p : p # path => L!NodeAt(u, p) = L!NodeAt(t, p)
  BY DEF L!NodeAt, L!Put
<1>2. SameLinks(t, u)
  BY <1>1 DEF SameLinks, Looked, L!Absent
<1>3. /\ path \in DOMAIN t /\ t[path] = L!NodeAt(t, path)
      /\ \A p : L!NodeAt(t, p).type = "file" => p \in DOMAIN t /\ t[p] = L!NodeAt(t, p)
  BY DEF L!NodeAt, L!Absent
<1>4. \A p \in DOMAIN t : p # path => p \in DOMAIN u /\ u[p] = t[p]
  BY DEF L!Put
<1>5. ASSUME NEW to, to # path, L!NodeAt(t, to).type = "file", L!NodeAt(t, to).doc = L!NodeAt(t, path).doc,
             L!NodeAt(t, path).whole => L!NodeAt(t, to).whole
      PROVE  L!Documents(t) \subseteq L!Documents(u)
  BY <1>3, <1>4, <1>5 DEF L!Documents
<1> QED
  BY <1>1, <1>2, <1>5

Ops(j) == j = [at |-> j.at, id |-> j.id, todo |-> j.todo, attempted |-> j.attempted, absent |-> j.absent,
               authorized |-> j.authorized, confirmed |-> j.confirmed]

(* An apply in flight: the source it is moving is a file; while the copy is being *)
(* written and once the source is to be unlinked the destination holds the same *)
(* document, in part and whole; and where nothing was at the look, only others  *)
(* can have put a whole file.                                                   *)
Calls == {"look", "copy", "copying", "clean", "unlink"}
MovedFrom == L!NodeAt(world.tree, L!From(Head(job.todo)))
MovedTo == L!NodeAt(world.tree, L!To)
FromOthers(path, node) == node.type = "file" /\ node.whole => \E made \in Dropped : made.path = path /\ made.node = node
Doubled == L!To # L!From(Head(job.todo)) /\ MovedTo.type = "file" /\ MovedTo.doc = MovedFrom.doc
MoveInv ==
    /\ edits \in Nat
    /\ job # L!Idle => job.at \in {"step"} \cup Calls /\ Ops(job)
    /\ job.at \in Calls => MovedFrom.type = "file"
    /\ (job.at = "copy" /\ job.absent) \/ job.at = "clean" => FromOthers(L!To, MovedTo)
    /\ job.at = "copying" => Doubled /\ ~MovedTo.whole
    /\ job.at = "unlink" => Doubled /\ (MovedFrom.whole => MovedTo.whole)

LEMMA DroppedInputs == \A made \in Dropped : made.node.type # "link"
BY InputsAssumption DEF L!InputsAssumption

(* What stands in the way of the source or the copy of it changing.             *)
LEMMA MoveKept ==
    ASSUME MoveInv, edits' \in Nat, job' = job,
           SameLinks(world.tree, world'.tree),
           \A p : L!NodeAt(world.tree, p).type = "file" => L!NodeAt(world'.tree, p) = L!NodeAt(world.tree, p),
           \A p : L!NodeAt(world'.tree, p) = L!NodeAt(world.tree, p) \/ \E made \in Dropped : made.path = p /\ made.node = L!NodeAt(world'.tree, p)
    PROVE  MoveInv'
<1>1. L!From(Head(job.todo))' = L!From(Head(job.todo)) /\ L!To' = L!To
  BY LocatedSame DEF L!From, L!To, L!tree
<1>2. job.at \in Calls => MovedFrom' = MovedFrom
  BY <1>1 DEF MoveInv, MovedFrom
<1>3. MovedTo.type = "file" => MovedTo' = MovedTo
  BY <1>1 DEF MovedTo
<1>4. FromOthers(L!To, MovedTo) => FromOthers(L!To, MovedTo)'
  <2>1. MovedTo' = MovedTo \/ \E made \in Dropped : made.path = L!To /\ made.node = MovedTo'
    BY <1>1 DEF MovedTo
  <2> QED
    BY <1>1, <2>1 DEF FromOthers
<1>5. job.at \in Calls /\ Doubled => Doubled'
  BY <1>1, <1>2, <1>3 DEF Doubled
<1> QED
  BY <1>1, <1>2, <1>3, <1>4, <1>5 DEF MoveInv, Ops, Calls, Doubled

(* A tree that keeps its documents.                                             *)
LEMMA KeepsAll == ASSUME L!Documents(world.tree) \subseteq L!Documents(world'.tree) PROVE L!LosesNothing
BY DEF L!LosesNothing

(* A part of a document that a whole one replaces moves no lookup either.       *)
LEMMA Completed ==
    ASSUME NEW t, NEW path, L!NodeAt(t, path).type = "file", ~L!NodeAt(t, path).whole, NEW node, node.type = "file",
           NEW u, u = L!Put(t, path, node)
    PROVE  /\ SameLinks(t, u) /\ L!Documents(t) \subseteq L!Documents(u)
           /\ L!NodeAt(u, path) = node /\ \A p : p # path => L!NodeAt(u, p) = L!NodeAt(t, p)
<1>1. L!NodeAt(u, path) = node /\ \A p : p # path => L!NodeAt(u, p) = L!NodeAt(t, p)
  BY DEF L!NodeAt, L!Put
<1>2. SameLinks(t, u)
  BY <1>1 DEF SameLinks, Looked
<1>3. path \in DOMAIN t /\ ~t[path].whole
  BY DEF L!NodeAt, L!Absent
<1>4. \A p \in DOMAIN t : p # path => p \in DOMAIN u /\ u[p] = t[p]
  BY DEF L!Put
<1>5. L!Documents(t) \subseteq L!Documents(u)
  BY <1>3, <1>4 DEF L!Documents
<1> QED
  BY <1>1, <1>2, <1>5

(* A file that is taken away takes its own document and no other.               *)
LEMMA RemovedOnly ==
    ASSUME NEW t, NEW path, L!NodeAt(t, path).type = "file", NEW u, u = L!Put(t, path, L!Absent)
    PROVE  L!Documents(t) \ L!Documents(u) \subseteq {d \in {L!NodeAt(t, path).doc} : L!NodeAt(t, path).whole}
<1>1. path \in DOMAIN t /\ t[path] = L!NodeAt(t, path)
  BY DEF L!NodeAt, L!Absent
<1>2. \A p \in DOMAIN t : p # path => p \in DOMAIN u /\ u[p] = t[p]
  BY DEF L!Put
<1>3. ASSUME NEW d \in L!Documents(t), d \notin L!Documents(u)
      PROVE  d = L!NodeAt(t, path).doc /\ L!NodeAt(t, path).whole
  <2>1. PICK p \in DOMAIN t : t[p].type = "file" /\ t[p].whole /\ d = t[p].doc
    BY <1>3 DEF L!Documents
  <2>2. p = path
    BY <1>2, <1>3, <2>1 DEF L!Documents
  <2> QED
    BY <1>1, <2>1, <2>2
<1> QED
  BY <1>3

(* What becomes of the job record.                                              *)
LEMMA StopKeeps ==
    ASSUME job' = L!Idle, edits' = edits, MoveInv
    PROVE  MoveInv'
BY DEF MoveInv, L!Idle, Calls

OpsAt(k, j, at) == k.at = at /\ k.todo = j.todo /\ k.id = j.id /\ k.authorized = j.authorized /\ k.confirmed = j.confirmed /\ Ops(k)
Onward(k, j, at, x) == k = [j EXCEPT !.at = at, !.attempted = x]
Turned(k, j, at) == k = [j EXCEPT !.at = at]
Sighted(k, j, y) == k = [j EXCEPT !.at = "copy", !.absent = y]
Passed(k, j, x) == k = [j EXCEPT !.at = "step", !.todo = Tail(@), !.attempted = x]
LEMMA OnwardIs ==
    ASSUME NEW j, Ops(j), NEW at, NEW x, NEW k, Onward(k, j, at, x)
    PROVE  OpsAt(k, j, at)
<1>1. k = [at |-> at, id |-> j.id, todo |-> j.todo, attempted |-> x, absent |-> j.absent, authorized |-> j.authorized, confirmed |-> j.confirmed]
  BY DEF Ops, Onward
<1> QED
  BY <1>1 DEF Ops, OpsAt
LEMMA AtIsOnward ==
    ASSUME NEW j, Ops(j), NEW at, NEW k, Turned(k, j, at)
    PROVE  OpsAt(k, j, at)
<1>1. k = [at |-> at, id |-> j.id, todo |-> j.todo, attempted |-> j.attempted, absent |-> j.absent, authorized |-> j.authorized, confirmed |-> j.confirmed]
  BY DEF Ops, Turned
<1> QED
  BY <1>1 DEF Ops, OpsAt
LEMMA SightedIs ==
    ASSUME NEW j, Ops(j), NEW y, NEW k, Sighted(k, j, y)
    PROVE  OpsAt(k, j, "copy") /\ k.absent = y
<1>1. k = [at |-> "copy", id |-> j.id, todo |-> j.todo, attempted |-> j.attempted, absent |-> y, authorized |-> j.authorized, confirmed |-> j.confirmed]
  BY DEF Ops, Sighted
<1> QED
  BY <1>1 DEF Ops, OpsAt
LEMMA DoneIs ==
    ASSUME NEW j, Ops(j), NEW x, NEW k, Passed(k, j, x)
    PROVE  /\ k.at = "step" /\ k.todo = Tail(j.todo) /\ k.id = j.id
           /\ k.authorized = j.authorized /\ k.confirmed = j.confirmed /\ Ops(k)
<1>1. k = [at |-> "step", id |-> j.id, todo |-> Tail(j.todo), attempted |-> x, absent |-> j.absent, authorized |-> j.authorized, confirmed |-> j.confirmed]
  BY DEF Ops, Passed
<1> QED
  BY <1>1 DEF Ops

LEMMA StepIs ==
    ASSUME L!Done, Ops(job)
    PROVE  /\ job'.at = "step" /\ job'.todo = Tail(job.todo) /\ job'.id = job.id
           /\ job'.authorized = job.authorized /\ job'.confirmed = job.confirmed /\ Ops(job')
<1>1. PICK x : Passed(job', job, x)
  BY Zenon DEF L!Done, Passed
<1> QED
  BY <1>1, DoneIs

(* An apply that starts carries out the plan of the moment, which is the one    *)
(* shown when its id was given.                                                 *)
Beginning(built, authorize, confirmed) ==
    /\ L!Started(built, authorize, confirmed) /\ L!Status(built, authorize) = "ok"
    /\ shown' = shown /\ (confirmed \/ built.id.scaffoldOnly) /\ (confirmed => built.id = shown.id)

LEMMA Begun ==
    ASSUME L!Command
    PROVE  \/ job' = job
           \/ \E o \in L!Options, authorize \in BOOLEAN, confirmed \in BOOLEAN : Beginning(L!BuildPlan(world, o), authorize, confirmed)
<1>1. PICK o \in L!Options : \/ L!Plan(L!BuildPlan(world, o))
                             \/ \E authorize \in BOOLEAN : L!Apply(L!BuildPlan(world, o), authorize)
                             \/ L!OneShot(L!BuildPlan(world, o))
  BY Zenon DEF L!Command
<1> DEFINE built == L!BuildPlan(world, o)
<1> HIDE DEF built
<1>2. CASE L!Plan(built)
  BY <1>2 DEF L!Plan
<1>3. CASE \E authorize \in BOOLEAN : L!Apply(built, authorize)
  <2>1. PICK authorize \in BOOLEAN : L!Apply(built, authorize)
    BY <1>3
  <2>2. job' = job \/ Beginning(built, authorize, TRUE)
    BY <2>1, Zenon DEF L!Apply, L!Recomputed, Beginning
  <2> QED
    BY <2>2 DEF built
<1>4. CASE L!OneShot(built)
  <2>1. job' = job \/ Beginning(built, FALSE, FALSE)
    BY <1>4, Zenon DEF L!OneShot, L!Recomputed, Beginning
  <2> QED
    BY <2>1 DEF built
<1> QED
  BY <1>1, <1>2, <1>3, <1>4 DEF built

LEMMA StartedIs ==
    ASSUME NEW built, NEW authorize, NEW confirmed, L!Started(built, authorize, confirmed)
    PROVE  /\ job'.at = "step" /\ job'.id = built.id /\ job'.todo = L!Operations(built.id)
           /\ job'.authorized = authorize /\ job'.confirmed = confirmed /\ Ops(job')
BY DEF L!Started, Ops

(* What each operation does to the tree: nothing, one entry added where there was *)
(* none, a file taken away, or both.                                            *)
AddsOne(path, node) ==
    /\ L!NodeAt(world.tree, path).type = "none" /\ node.type # "link"
    /\ world'.tree = L!Put(world.tree, path, node)

LEMMA WithIs == ASSUME NEW path, NEW node, L!With(path, node) PROVE world'.tree = L!Put(world.tree, path, node)
BY DEF L!With, L!World, L!tree

LEMMA MoveStep ==
    ASSUME MoveInv, L!Next
    PROVE  MoveInv' /\ L!LosesNothing /\ (job # L!Idle => SameLinks(world.tree, world'.tree))
<1>0. edits \in Nat /\ (job # L!Idle => Ops(job)) /\ (job.at # "idle" => job # L!Idle)
  BY DEF MoveInv, L!Idle
<1>a. ASSUME UNCHANGED world
      PROVE  L!LosesNothing /\ SameLinks(world.tree, world'.tree)
  BY <1>a, KeepsAll DEF SameLinks
<1>b. ASSUME NEW path, NEW node, AddsOne(path, node)
      PROVE  /\ L!LosesNothing /\ SameLinks(world.tree, world'.tree)
             /\ L!NodeAt(world'.tree, path) = node
             /\ \A p : p # path => L!NodeAt(world'.tree, p) = L!NodeAt(world.tree, p)
             /\ \A p : L!NodeAt(world.tree, p).type = "file" => p # path
  BY <1>b, Added, KeepsAll DEF AddsOne
<1>1. CASE L!Command
  <2>1. job = L!Idle /\ edits' = edits /\ world' = world
    BY <1>1 DEF L!Command, L!Begin
  <2>2. job' = job \/ (job'.at = "step" /\ Ops(job'))
    BY <1>1, Begun, StartedIs DEF Beginning
  <2> QED
    BY <1>0, <1>a, <2>1, <2>2 DEF MoveInv, L!Idle, Calls
<1>2. CASE L!MakeDirectory
  <2>1. job.at = "step" /\ edits' = edits /\ Ops(job)
    BY <1>0, <1>2 DEF L!MakeDirectory, L!Operation, L!Unchanged
  <2>2. L!Done \/ job' = L!Idle
    BY <1>2 DEF L!MakeDirectory, L!Stop
  <2>3. world' = world \/ AddsOne(Head(job.todo).path, L!Dir)
    BY <1>2, WithIs DEF L!MakeDirectory, L!MayCreate, L!tree, AddsOne, L!Dir
  <2>4. MoveInv'
    BY <1>0, <2>1, <2>2, StepIs, StopKeeps DEF MoveInv, Calls
  <2> QED
    BY <1>a, <1>b, <2>3, <2>4
<1>3. CASE L!GitMove
  <2> DEFINE op == Head(job.todo)
             from == L!From(op)
             to == L!Located(world.tree, op.move.destination)
             node == L!NodeAt(world.tree, from)
  <2>1. job.at = "step" /\ edits' = edits /\ Ops(job)
    BY <1>0, <1>3 DEF L!GitMove, L!Operation, L!Unchanged
  <2>2. L!Done \/ job' = L!Idle
    BY <1>3 DEF L!GitMove, L!Stop
  <2>3. MoveInv'
    BY <1>0, <2>1, <2>2, StepIs, StopKeeps DEF MoveInv, Calls
  <2>4. \/ world' = world
        \/ /\ node.type = "file" /\ L!NodeAt(world.tree, to).type = "none"
           /\ world'.tree = L!Put(L!Put(world.tree, to, node), from, L!Absent)
    BY <1>3 DEF L!GitMove, L!MayCreate, L!World, L!Moved, L!tree
  <2>5. CASE /\ node.type = "file" /\ L!NodeAt(world.tree, to).type = "none"
             /\ world'.tree = L!Put(L!Put(world.tree, to, node), from, L!Absent)
    <3> DEFINE t == L!Put(world.tree, to, node)
    <3>1. /\ SameLinks(world.tree, t) /\ L!Documents(world.tree) \subseteq L!Documents(t)
          /\ L!NodeAt(t, to) = node /\ L!NodeAt(t, from) = node /\ to # from
      BY <2>5, Added
    <3> HIDE DEF t, node, to, from
    <3>2. SameLinks(t, world'.tree) /\ L!Documents(t) \subseteq L!Documents(world'.tree)
      BY <2>5, <3>1, Removed DEF t
    <3> QED
      BY <2>3, <3>1, <3>2, KeepsAll DEF SameLinks
  <2> QED
    BY <1>a, <2>3, <2>4, <2>5
<1>4. CASE L!StatFails \/ L!PostCheck
  <2>1. job' = L!Idle /\ edits' = edits /\ world' = world
    BY <1>4 DEF L!StatFails, L!PostCheck, L!Stop, L!Unchanged
  <2> QED
    BY <1>a, <2>1, StopKeeps
<1>5. CASE L!Kill
  <2>1. job' = L!Idle /\ edits' = edits /\ world' = world
    BY <1>5 DEF L!Kill, L!Stop
  <2> QED
    BY <1>a, <2>1, StopKeeps
<1>6. CASE L!LinkFile
  <2> DEFINE op == Head(job.todo)
             node == L!NodeAt(world.tree, L!From(op))
  <2>1. job.at = "step" /\ edits' = edits /\ Ops(job) /\ node.type = "file"
    BY <1>0, <1>6 DEF L!LinkFile, L!Operation, L!SourceThere, L!tree, L!Unchanged
  <2>2. CASE AddsOne(op.to, node) /\ job' = [job EXCEPT !.at = "unlink", !.attempted = TRUE]
    <3>1. PICK x : Onward(job', job, "unlink", x)
      BY <2>2, Zenon DEF Onward
    <3>2. job'.at = "unlink" /\ job'.todo = job.todo /\ Ops(job')
      BY <2>1, <3>1, OnwardIs DEF OpsAt
    <3> HIDE DEF op, node
    <3>3. /\ L!LosesNothing /\ SameLinks(world.tree, world'.tree)
          /\ L!NodeAt(world'.tree, op.to) = node /\ L!NodeAt(world'.tree, L!From(op)) = node
          /\ op.to # L!From(op)
      BY <1>b, <2>1, <2>2 DEF node
    <3>4. L!From(op)' = L!From(op) /\ job'.todo = job.todo /\ Head(job'.todo) = Head(job.todo)
      BY <3>2, <3>3, LocatedSame DEF L!From, L!tree, op
    <3>5. MovedFrom' = node /\ MovedTo' = node /\ (L!To # L!From(Head(job.todo)))'
      BY <3>3, <3>4 DEF op, MovedFrom, MovedTo, L!To
    <3>6. MoveInv'
      BY <1>0, <2>1, <3>2, <3>5 DEF MoveInv, Doubled, Calls
    <3> QED
      BY <3>3, <3>6
  <2>3. CASE world' = world /\ job' = [job EXCEPT !.at = "look", !.attempted = TRUE]
    <3>1. PICK x : Onward(job', job, "look", x)
      BY <2>3, Zenon DEF Onward
    <3>2. job'.at = "look" /\ job'.todo = job.todo /\ Ops(job')
      BY <2>1, <3>1, OnwardIs DEF OpsAt
    <3>3. MovedFrom' = node
      BY <2>3, <3>2 DEF L!From, L!tree, MovedFrom
    <3> HIDE DEF node
    <3>4. MoveInv'
      BY <1>0, <2>1, <3>2, <3>3 DEF MoveInv, Calls
    <3> QED
      BY <1>a, <2>3, <3>4
  <2>4. CASE world' = world /\ job' = L!Idle
    BY <1>a, <2>1, <2>4, StopKeeps
  <2> QED
    BY <1>6, <2>1, <2>2, <2>3, <2>4, WithIs DEF L!LinkFile, L!MayCreate, L!tree, AddsOne, L!Stop
<1>c. ASSUME job.at \in Calls, world' = world, edits' = edits, NEW at, Turned(job', job, at),
             at = "clean" /\ (job.absent \/ job.at = "copying") /\ job.at \in {"copy", "copying"}
      PROVE  MoveInv'
  <2>1. OpsAt(job', job, at)
    BY <1>0, <1>c, AtIsOnward DEF Calls
  <2>2. MovedFrom' = MovedFrom /\ MovedTo' = MovedTo /\ L!To' = L!To
    BY <1>c, <2>1 DEF MovedFrom, MovedTo, L!From, L!tree, L!To, OpsAt
  <2>3. FromOthers(L!To, MovedTo) /\ MovedFrom.type = "file"
    BY <1>c DEF MoveInv, FromOthers, Calls
  <2>4. FromOthers(L!To, MovedTo)'
    BY <2>2, <2>3 DEF FromOthers
  <2> QED
    BY <1>0, <1>c, <2>1, <2>2, <2>3, <2>4 DEF MoveInv, OpsAt, Calls
<1>d. ASSUME job.at \in {"copy", "copying"}, world' = world, edits' = edits, L!CopyFails, job.absent \/ job.at = "copying"
      PROVE  MoveInv'
  <2>1. job' = L!Idle \/ Turned(job', job, "clean")
    BY <1>d DEF L!CopyFails, L!Stop, Turned
  <2> QED
    BY <1>c, <1>d, <2>1, StopKeeps DEF Calls
<1>e. ASSUME NEW mtime, NEW whole
      PROVE  LET copy == L!Copied(MovedFrom, mtime, whole) IN
             /\ copy.type = "file" /\ copy.doc = MovedFrom.doc /\ copy.whole = whole
             /\ L!Copies(mtime, whole) => world'.tree = L!Put(world.tree, L!To, copy)
  BY WithIs DEF L!Copies, L!Copied, L!File, MovedFrom, L!tree
<1>f. ASSUME NEW copy, NEW at, job.at \in Calls, edits' = edits, Turned(job', job, at), SameLinks(world.tree, world'.tree),
             L!NodeAt(world'.tree, L!To) = copy, L!NodeAt(world'.tree, L!From(Head(job.todo))) = MovedFrom,
             L!To # L!From(Head(job.todo)), copy.type = "file", copy.doc = MovedFrom.doc,
             \/ at = "copying" /\ ~copy.whole
             \/ at = "unlink" /\ copy.whole
      PROVE  MoveInv'
  <2>1. OpsAt(job', job, at)
    BY <1>0, <1>f, AtIsOnward DEF Calls
  <2>2. L!From(Head(job.todo))' = L!From(Head(job.todo)) /\ L!To' = L!To
    BY <1>f, <2>1, LocatedSame DEF L!From, L!tree, L!To, OpsAt
  <2>3. MovedFrom' = MovedFrom /\ MovedTo' = copy
    BY <1>f, <2>2 DEF MovedFrom, MovedTo
  <2>4. MovedFrom.type = "file"
    BY <1>f DEF MoveInv
  <2> HIDE DEF MovedFrom
  <2>5. Doubled'
    BY <1>f, <2>2, <2>3 DEF Doubled
  <2> QED
    BY <1>0, <1>f, <2>1, <2>3, <2>4, <2>5 DEF MoveInv, OpsAt, Calls
<1>7. CASE L!CopyFile
  <2>1. job.at = "copy" /\ edits' = edits
    BY <1>7, Zenon DEF L!CopyFile, L!Unchanged
  <2>2. \/ L!MayCreate(L!To) /\ L!Copies("now", FALSE) /\ job' = [job EXCEPT !.at = "copying"]
        \/ job' = L!Idle /\ world' = world
        \/ L!CopyFails /\ world' = world
    BY <1>7, Zenon DEF L!CopyFile, L!Stop
  <2>3. CASE L!MayCreate(L!To) /\ L!Copies("now", FALSE) /\ job' = [job EXCEPT !.at = "copying"]
    <3> DEFINE copy == L!Copied(MovedFrom, "now", FALSE)
    <3>1. copy.type = "file" /\ copy.doc = MovedFrom.doc /\ copy.whole = FALSE /\ world'.tree = L!Put(world.tree, L!To, copy)
      BY <1>e, <2>3
    <3>2. MovedFrom.type = "file" /\ Turned(job', job, "copying")
      BY <2>1, <2>3 DEF MoveInv, Calls, Turned
    <3> HIDE DEF copy
    <3>3. AddsOne(L!To, copy)
      BY <2>3, <3>1 DEF AddsOne, L!MayCreate, L!tree
    <3>4. /\ L!LosesNothing /\ SameLinks(world.tree, world'.tree) /\ L!NodeAt(world'.tree, L!To) = copy
          /\ \A p : p # L!To => L!NodeAt(world'.tree, p) = L!NodeAt(world.tree, p)
          /\ \A p : L!NodeAt(world.tree, p).type = "file" => p # L!To
      BY <1>b, <3>3
    <3>5. L!NodeAt(world'.tree, L!From(Head(job.todo))) = MovedFrom /\ L!To # L!From(Head(job.todo))
      BY <3>2, <3>4 DEF MovedFrom
    <3> QED
      BY <1>f, <2>1, <3>1, <3>2, <3>4, <3>5 DEF Calls
  <2>4. CASE job' = L!Idle /\ world' = world
    BY <1>a, <2>1, <2>4, StopKeeps
  <2>5. CASE L!CopyFails /\ world' = world
    <3>1. CASE job.absent
      BY <1>a, <1>d, <2>1, <2>5, <3>1
    <3>2. CASE ~job.absent
      <4>1. job' = L!Idle
        BY <2>5, <3>2 DEF L!CopyFails, L!Stop
      <4> QED
        BY <1>a, <2>1, <2>5, <4>1, StopKeeps
    <3> QED
      BY <3>1, <3>2
  <2> QED
    BY <2>2, <2>3, <2>4, <2>5
<1>11. CASE L!Look
  <2>1. job.at = "look" /\ edits' = edits /\ world' = world
    BY <1>11 DEF L!Look, L!Unchanged
  <2> DEFINE none == L!NodeAt(world.tree, L!To).type = "none"
  <2>2. job' = L!Idle \/ Sighted(job', job, none)
    BY <1>11 DEF L!Look, L!Stop, Sighted, L!tree
  <2>3. ASSUME Sighted(job', job, none)
        PROVE  MoveInv'
    <3>1. OpsAt(job', job, "copy") /\ job'.absent = none
      BY <1>0, <2>1, <2>3, SightedIs
    <3>2. MovedFrom' = MovedFrom /\ MovedTo' = MovedTo /\ L!To' = L!To
      BY <2>1, <3>1 DEF MovedFrom, MovedTo, L!From, L!tree, L!To, OpsAt
    <3>3. MovedFrom.type = "file"
      BY <2>1 DEF MoveInv, Calls
    <3>4. job'.absent => FromOthers(L!To, MovedTo)'
      BY <3>1, <3>2 DEF FromOthers, MovedTo
    <3> QED
      BY <1>0, <2>1, <3>1, <3>2, <3>3, <3>4 DEF MoveInv, OpsAt, Calls
  <2> QED
    BY <1>a, <2>1, <2>2, <2>3, StopKeeps
<1>12. CASE L!FinishCopy
  <2>1. job.at = "copying" /\ edits' = edits
    BY <1>12, Zenon DEF L!FinishCopy, L!Unchanged
  <2>2. \/ \E mtime : L!Copies(mtime, TRUE) /\ job' = [job EXCEPT !.at = "unlink"]
        \/ L!CopyFails /\ world' = world
    BY <1>12, Zenon DEF L!FinishCopy
  <2>3. CASE \E mtime : L!Copies(mtime, TRUE) /\ job' = [job EXCEPT !.at = "unlink"]
    <3>1. PICK mtime : L!Copies(mtime, TRUE) /\ Turned(job', job, "unlink")
      BY <2>3 DEF Turned
    <3> DEFINE copy == L!Copied(MovedFrom, mtime, TRUE)
    <3>2. copy.type = "file" /\ copy.doc = MovedFrom.doc /\ copy.whole = TRUE /\ world'.tree = L!Put(world.tree, L!To, copy)
      BY <1>e, <3>1
    <3>3. Doubled /\ ~MovedTo.whole
      BY <2>1 DEF MoveInv
    <3> HIDE DEF copy
    <3>4. /\ SameLinks(world.tree, world'.tree) /\ L!Documents(world.tree) \subseteq L!Documents(world'.tree)
          /\ L!NodeAt(world'.tree, L!To) = copy /\ \A p : p # L!To => L!NodeAt(world'.tree, p) = L!NodeAt(world.tree, p)
      BY <3>2, <3>3, Completed DEF Doubled, MovedTo
    <3>5. L!NodeAt(world'.tree, L!From(Head(job.todo))) = MovedFrom /\ L!To # L!From(Head(job.todo))
      BY <3>3, <3>4 DEF Doubled, MovedFrom
    <3>6. MoveInv'
      BY <1>f, <2>1, <3>1, <3>2, <3>4, <3>5 DEF Calls
    <3> QED
      BY <3>4, <3>6, KeepsAll
  <2>4. CASE L!CopyFails /\ world' = world
    BY <1>a, <1>d, <2>1, <2>4
  <2> QED
    BY <2>2, <2>3, <2>4
<1>13. CASE L!CleanUp
  <2>1. job.at = "clean" /\ edits' = edits /\ job' = L!Idle
    BY <1>13, Zenon DEF L!CleanUp, L!Stop
  <2>2. MoveInv'
    BY <2>1, StopKeeps
  <2>3. world' = world \/ (MovedTo.type = "file" /\ L!With(L!To, L!Absent))
    BY <1>13 DEF L!CleanUp, L!tree, MovedTo
  <2>4. CASE MovedTo.type = "file" /\ L!With(L!To, L!Absent)
    <3>1. world'.tree = L!Put(world.tree, L!To, L!Absent)
      BY <2>4, WithIs
    <3>2. /\ SameLinks(world.tree, world'.tree)
          /\ L!Documents(world.tree) \ L!Documents(world'.tree) \subseteq {d \in {MovedTo.doc} : MovedTo.whole}
      BY <2>4, <3>1, Removed, RemovedOnly DEF MovedTo
    <3>3. MovedTo.whole => \E made \in Dropped : made.path = L!To /\ made.node = MovedTo
      BY <2>1, <2>4 DEF MoveInv, FromOthers
    <3>4. MovedTo.whole => MovedTo.doc \in L!Raced
      BY <2>1, <3>3 DEF L!Raced, MovedTo, L!tree
    <3> QED
      BY <2>2, <3>2, <3>4 DEF L!LosesNothing
  <2> QED
    BY <1>a, <2>2, <2>3, <2>4
<1>8. CASE L!UnlinkSource
  <2> DEFINE op == Head(job.todo)
             from == L!From(op)
  <2>1. job.at = "unlink" /\ edits' = edits /\ Ops(job)
    <3>1. job.at = "unlink" /\ edits' = edits
      BY <1>8, Zenon DEF L!UnlinkSource
    <3> QED
      BY <1>0, <3>1
  <2>2. CASE world'.tree = L!Put(world.tree, from, L!Absent) /\ L!Done
    <3>1. /\ L!NodeAt(world.tree, from).type = "file" /\ op.to # from /\ L!NodeAt(world.tree, op.to).type = "file"
          /\ L!NodeAt(world.tree, op.to).doc = L!NodeAt(world.tree, from).doc
          /\ L!NodeAt(world.tree, from).whole => L!NodeAt(world.tree, op.to).whole
      BY <2>1 DEF MoveInv, Calls, Doubled, MovedFrom, MovedTo, L!To
    <3> HIDE DEF op, from
    <3>2. SameLinks(world.tree, world'.tree) /\ L!Documents(world.tree) \subseteq L!Documents(world'.tree)
      BY <2>2, <3>1, Removed
    <3>3. MoveInv'
      BY <1>0, <2>1, <2>2, StepIs DEF MoveInv, Calls
    <3> QED
      BY <3>2, <3>3, KeepsAll
  <2>3. CASE world' = world /\ job' = L!Idle
    BY <1>a, <2>1, <2>3, StopKeeps
  <2> QED
    BY <1>8, <2>2, <2>3, WithIs DEF L!UnlinkSource, L!Stop
<1>9. CASE \E e \in Edits : L!Edit(e)
  <2>1. job = L!Idle /\ job' = job /\ edits' = edits + 1
    BY <1>9 DEF L!Edit
  <2> QED
    BY <1>0, <2>1 DEF MoveInv, L!LosesNothing, L!Idle, L!Step, Calls
<1>10. CASE L!Drop
  <2>1. PICK made \in Dropped : AddsOne(made.path, made.node)
    BY <1>10, WithIs, DroppedInputs DEF L!Drop, L!MayCreate, L!tree, AddsOne
  <2>2. job' = job /\ edits' = edits + 1
    BY <1>10 DEF L!Drop
  <2>3. /\ L!LosesNothing /\ SameLinks(world.tree, world'.tree)
        /\ \A p : L!NodeAt(world.tree, p).type = "file" => L!NodeAt(world'.tree, p) = L!NodeAt(world.tree, p)
        /\ \A p : L!NodeAt(world'.tree, p) = L!NodeAt(world.tree, p) \/ (p = made.path /\ made.node = L!NodeAt(world'.tree, p))
    BY <1>b, <2>1
  <2>4. edits' \in Nat
    BY <1>0, <2>2
  <2> QED
    BY <2>2, <2>3, <2>4, MoveKept
<1> QED
  BY <1>1, <1>2, <1>3, <1>4, <1>5, <1>6, <1>7, <1>8, <1>9, <1>10, <1>11, <1>12, <1>13 DEF L!Next

LEMMA MoveInit ==
    ASSUME L!Init
    PROVE  MoveInv
BY DEF L!Init, L!Idle, MoveInv, Calls

LEMMA LayoutStep == [Next]_vars => tool' = tool /\ (tool = "layout" => L!Next \/ UNCHANGED <<layout, job, edits, faults, commands>>)
BY DEF Next, vars

LEMMA MoveUnchanged ==
    ASSUME UNCHANGED <<layout, job, edits, faults, commands>>
    PROVE  (MoveInv => MoveInv') /\ L!LosesNothing
<1>1. world' = world /\ job' = job /\ edits' = edits
  BY DEF layout
<1>2. MovedFrom' = MovedFrom /\ MovedTo' = MovedTo /\ L!To' = L!To /\ Doubled' = Doubled
  BY <1>1 DEF MovedFrom, MovedTo, Doubled, L!To, L!From, L!tree
<1>3. FromOthers(L!To, MovedTo)' = FromOthers(L!To, MovedTo)
  BY <1>2 DEF FromOthers
<1> QED
  BY <1>1, <1>2, <1>3, KeepsAll DEF MoveInv, Ops

(* The invariant of a move: the source is a file until it is unlinked; when it is to *)
(* be unlinked the destination holds its document, whole if the source is; and  *)
(* a whole file that the clean-up finds is one that others added.               *)
THEOREM MoveHolds == Spec => [](tool = "layout" => MoveInv)
<1> DEFINE Inv == tool = "layout" => MoveInv
<1>1. Init => Inv
  BY MoveInit DEF Init
<1>2. Inv /\ [Next]_vars => Inv'
  <2> SUFFICES ASSUME Inv, [Next]_vars PROVE Inv'
    OBVIOUS
  <2>1. CASE tool = "layout" /\ L!Next
    BY <2>1, MoveStep, LayoutStep
  <2>2. CASE ~(tool = "layout" /\ L!Next)
    BY <2>2, MoveUnchanged, LayoutStep
  <2> QED
    BY <2>1, <2>2
<1> QED
  BY <1>1, <1>2, PTL DEF Spec

(* No file operation of apply takes the last whole copy of a document, whatever the *)
(* tree, the plan and the faults, except a file that others put at the          *)
(* destination between the look of apply.ts and a copy that then fails: the     *)
(* clean-up takes that one away, and nothing else.                              *)
THEOREM NothingIsLost == Spec => NothingLost
<1>1. (tool = "layout" => MoveInv) /\ [Next]_vars => [tool = "layout" => L!LosesNothing]_vars
  <2> SUFFICES ASSUME tool = "layout" => MoveInv, [Next]_vars, tool = "layout"
               PROVE  L!LosesNothing
    OBVIOUS
  <2>1. CASE L!Next
    BY <2>1, MoveStep
  <2>2. CASE ~L!Next
    BY <2>2, MoveUnchanged, LayoutStep
  <2> QED
    BY <2>1, <2>2
<1> QED
  BY <1>1, MoveHolds, PTL DEF Spec, NothingLost

(***************************************************************************)
(* layout-scaffold: how a path resolves, and what a plan lists, for any path    *)
(* and any number of moves.                                                     *)
(***************************************************************************)
LEMMA RealsExist ==
    ASSUME NEW t, NEW path, NEW m \in Nat
    PROVE  \E f : RealTo(f, t, path, m)
<1> DEFINE bad == {n \in Nat : ~\E f : RealTo(f, t, path, n)}
<1>1. \E f : RealTo(f, t, path, 0)
  <2> DEFINE f == [i \in 0..0 |-> L!Project]
  <2>1. f = [i \in 0..0 |-> IF i = 0 THEN L!Project ELSE Looked(t, Append(f[i - 1], path[i]))]
    OBVIOUS
  <2> QED
    BY <2>1 DEF RealTo
<1>2. ASSUME NEW n \in Nat, n # 0, NEW g, RealTo(g, t, path, n - 1)
      PROVE  \E f : RealTo(f, t, path, n)
  <2> DEFINE new == Looked(t, Append(g[n - 1], path[n]))
             f == [i \in 0..n |-> IF i = n THEN new ELSE g[i]]
  <2>1. ASSUME NEW i \in 0..n
        PROVE  f[i] = IF i = 0 THEN L!Project ELSE Looked(t, Append(f[i - 1], path[i]))
    <3>1. CASE i = n
      <4>1. f[i - 1] = g[n - 1] /\ f[i] = new /\ i # 0
        BY <1>2, <3>1
      <4> QED
        BY <3>1, <4>1
    <3>2. CASE i # n
      <4>1. i \in 0..(n - 1) /\ f[i] = g[i] /\ (i # 0 => f[i - 1] = g[i - 1])
        BY <3>2
      <4> HIDE DEF f
      <4>2. g[i] = IF i = 0 THEN L!Project ELSE Looked(t, Append(g[i - 1], path[i]))
        BY <1>2, <4>1 DEF RealTo
      <4> QED
        BY <4>1, <4>2
    <3> QED
      BY <3>1, <3>2
  <2>2. f = [i \in 0..n |-> f[i]]
    OBVIOUS
  <2> HIDE DEF f
  <2>3. RealTo(f, t, path, n)
    BY <2>1, <2>2 DEF RealTo
  <2> QED
    BY <2>3
<1>3. \A n \in bad : n # 0 /\ n - 1 \in bad
  <2> SUFFICES ASSUME NEW n \in bad
               PROVE  n # 0 /\ n - 1 \in bad
    OBVIOUS
  <2>1. n \in Nat /\ n # 0
    BY <1>1
  <2>2. ~\E f : RealTo(f, t, path, n - 1)
    BY <1>2, <2>1
  <2> QED
    BY <2>1, <2>2
<1>4. bad = {}
  <2> HIDE DEF bad
  <2> QED
    BY <1>3, NoneIsBad DEF bad
<1> QED
  BY <1>4

UpTo(path, n) == SubSeq(path, 1, n)

LEMMA UpToIs ==
    ASSUME NEW path, IsText(path), NEW n \in 0..Len(path)
    PROVE  /\ IsText(UpTo(path, n)) /\ Len(UpTo(path, n)) = n
           /\ \A i \in 1..n : UpTo(path, n)[i] = path[i]
<1>1. Len(path) \in Nat /\ n \in Nat /\ n <= Len(path)
  BY DEF IsText
<1>2. /\ IsText(SubSeq(path, 1, n)) /\ Len(SubSeq(path, 1, n)) = IF 1 <= n THEN n - 1 + 1 ELSE 0
      /\ \A i \in 1..(n - 1 + 1) : SubSeq(path, 1, n)[i] = path[1 + i - 1]
  BY <1>1, SubText
<1> QED
  BY <1>1, <1>2 DEF UpTo

LEMMA UpToAll ==
    ASSUME NEW path, IsText(path)
    PROVE  UpTo(path, Len(path)) = path
<1>1. Len(path) \in 0..Len(path)
  BY DEF IsText
<1> QED
  BY <1>1, UpToIs, TextEqual

LEMMA FrontIs ==
    ASSUME NEW path, IsText(path), NEW n \in 1..Len(path)
    PROVE  /\ L!Front(UpTo(path, n)) = UpTo(path, n - 1) /\ L!Last(UpTo(path, n)) = path[n]
           /\ n - 1 \in 0..Len(path) /\ n \in 0..Len(path)
<1>1. n - 1 \in 0..Len(path) /\ n \in 0..Len(path) /\ Len(path) \in Nat
  BY DEF IsText
<1>2. Len(UpTo(path, n)) = n /\ UpTo(path, n)[n] = path[n] /\ IsText(UpTo(path, n))
  BY <1>1, UpToIs
<1>3. L!Front(UpTo(path, n)) = UpTo(UpTo(path, n), n - 1)
  BY <1>2 DEF L!Front, UpTo
<1>4. UpTo(UpTo(path, n), n - 1) = UpTo(path, n - 1)
  <2>1. n - 1 \in 0..Len(UpTo(path, n))
    BY <1>1, <1>2
  <2>2. /\ IsText(UpTo(UpTo(path, n), n - 1)) /\ Len(UpTo(UpTo(path, n), n - 1)) = n - 1
        /\ \A i \in 1..(n - 1) : UpTo(UpTo(path, n), n - 1)[i] = UpTo(path, n)[i]
    BY <1>2, <2>1, UpToIs
  <2>3. /\ IsText(UpTo(path, n - 1)) /\ Len(UpTo(path, n - 1)) = n - 1
        /\ \A i \in 1..(n - 1) : UpTo(path, n - 1)[i] = path[i]
    BY <1>1, UpToIs
  <2>4. \A i \in 1..(n - 1) : UpTo(path, n)[i] = path[i]
    BY <1>1, UpToIs
  <2> QED
    BY <2>2, <2>3, <2>4, TextEqual
<1> QED
  BY <1>1, <1>2, <1>3, <1>4 DEF L!Last

(* A path resolves one name after the other.                                    *)
LEMMA RealStep ==
    ASSUME NEW t, NEW path, IsText(path)
    PROVE  /\ L!Real(t, UpTo(path, 0)) = L!Project
           /\ \A n \in 1..Len(path) :
                L!Real(t, UpTo(path, n)) = Looked(t, Append(L!Real(t, UpTo(path, n - 1)), path[n]))
<1> DEFINE m == Len(path)
<1>0. m \in Nat
  BY DEF IsText
<1>1. PICK f : RealTo(f, t, path, m)
  BY <1>0, RealsExist
<1>2. \A i \in 0..m : f[i] = IF i = 0 THEN L!Project ELSE Looked(t, Append(f[i - 1], path[i]))
  BY <1>1 DEF RealTo
<1>3. ASSUME NEW n \in 0..m
      PROVE  L!Real(t, UpTo(path, n)) = f[n]
  <2> DEFINE p == UpTo(path, n)
             g == CHOOSE g : RealTo(g, t, p, Len(p))
  <2>1. IsText(p) /\ Len(p) = n /\ \A i \in 1..n : p[i] = path[i]
    BY UpToIs
  <2>2. n \in Nat
    BY <1>0
  <2> HIDE DEF p
  <2>3. RealTo(g, t, p, Len(p))
    BY <2>1, <2>2, RealsExist
  <2>4. L!Real(t, p) = g[n]
    BY <2>1, RealIs
  <2> HIDE DEF g
  <2>5. \A i \in 0..n : g[i] = IF i = 0 THEN L!Project ELSE Looked(t, Append(g[i - 1], p[i]))
    BY <2>1, <2>3 DEF RealTo
  <2> DEFINE bad == {i \in 0..n : g[i] # f[i]}
  <2>6. ASSUME NEW i \in bad
        PROVE  i # 0 /\ i - 1 \in bad
    <3>1. i \in 0..n /\ i \in 0..m /\ g[i] # f[i]
      BY <1>0, <2>2
    <3>2. i # 0
      BY <1>2, <2>5, <3>1
    <3>3. i \in 1..n /\ i - 1 \in 0..n
      BY <2>2, <3>1, <3>2
    <3>4. g[i] = Looked(t, Append(g[i - 1], p[i])) /\ f[i] = Looked(t, Append(f[i - 1], path[i])) /\ p[i] = path[i]
      BY <1>2, <2>1, <2>5, <3>1, <3>2, <3>3
    <3>5. g[i - 1] # f[i - 1]
      BY <3>1, <3>4
    <3> QED
      BY <3>2, <3>3, <3>5
  <2>7. bad = {}
    <3>1. bad \in SUBSET Nat
      BY <2>2
    <3> HIDE DEF bad
    <3> QED
      BY <2>6, <3>1, NoneIsBad
  <2>8. n \in 0..n
    BY <2>2
  <2> QED
    BY <2>4, <2>7, <2>8 DEF p
<1>4. L!Real(t, UpTo(path, 0)) = L!Project
  BY <1>0, <1>2, <1>3
<1>5. ASSUME NEW n \in 1..m
      PROVE  L!Real(t, UpTo(path, n)) = Looked(t, Append(L!Real(t, UpTo(path, n - 1)), path[n]))
  <2>1. n \in 0..m /\ n - 1 \in 0..m /\ n # 0
    BY <1>0
  <2> QED
    BY <1>2, <1>3, <2>1
<1> QED
  BY <1>4, <1>5

(* Links name paths; no operation of apply changes that.                        *)
Sound(t) == \A p : IsText(p) => IsText(Looked(t, p))

LEMMA SoundSame == ASSUME NEW t, NEW u, Sound(t), SameLinks(t, u) PROVE Sound(u)
BY DEF Sound, SameLinks

LEMMA ProjectIs == IsText(L!Project) /\ Len(L!Project) = 1 /\ L!Project[1] = "root"
<1>1. L!Project \in Seq({"root"}) /\ Len(L!Project) = 1 /\ L!Project[1] = "root"
  BY DEF L!Project
<1> QED
  BY <1>1, SeqIsText

LEMMA RealText ==
    ASSUME NEW t, Sound(t), NEW path, IsText(path)
    PROVE  \A n \in 0..Len(path) : IsText(L!Real(t, UpTo(path, n)))
<1> DEFINE bad == {n \in 0..Len(path) : ~IsText(L!Real(t, UpTo(path, n)))}
<1>0. Len(path) \in Nat
  BY DEF IsText
<1>1. ASSUME NEW n \in bad
      PROVE  n # 0 /\ n - 1 \in bad
  <2>1. n \in 0..Len(path) /\ ~IsText(L!Real(t, UpTo(path, n)))
    OBVIOUS
  <2>2. n # 0
    BY <2>1, RealStep, ProjectIs
  <2>3. n \in 1..Len(path) /\ n - 1 \in 0..Len(path)
    BY <1>0, <2>1, <2>2
  <2>4. L!Real(t, UpTo(path, n)) = Looked(t, Append(L!Real(t, UpTo(path, n - 1)), path[n]))
    BY <2>3, RealStep
  <2>5. ~IsText(L!Real(t, UpTo(path, n - 1)))
    BY <2>1, <2>4, AppendText DEF Sound
  <2> QED
    BY <2>2, <2>3, <2>5
<1>2. bad \in SUBSET Nat
  BY <1>0
<1>3. bad = {}
  <2> HIDE DEF bad
  <2> QED
    BY <1>1, <1>2, NoneIsBad
<1> QED
  BY <1>3

(* Where lookups from n to m meet no link, the names are what they add.         *)
LEMMA AppendMore ==
    ASSUME NEW r, IsText(r), NEW path, IsText(path), NEW n \in 0..Len(path), NEW m \in (n + 1)..Len(path)
    PROVE  Append(r \o SubSeq(path, n + 1, m - 1), path[m]) = r \o SubSeq(path, n + 1, m)
<1> DEFINE k == m - n
           a == SubSeq(path, n + 1, m - 1)
           b == SubSeq(path, n + 1, m)
           l == Append(r \o a, path[m])
<1>0. Len(path) \in Nat /\ Len(r) \in Nat /\ n \in Nat /\ m \in Nat /\ k \in Nat /\ k # 0 /\ n + k <= Len(path) /\ m = n + k
  BY DEF IsText
<1>1. Part(a, path, n, k - 1)
  <2>1. m - 1 = n + (k - 1) /\ k - 1 \in Nat /\ n + (k - 1) <= Len(path)
    BY <1>0
  <2> HIDE DEF k
  <2> QED
    BY <1>0, <2>1, PartText
<1>2. Part(b, path, n, k)
  <2> HIDE DEF k
  <2> QED
    BY <1>0, PartText
<1> HIDE DEF k, a, b
<1>3. Joined(r \o a, r, a) /\ Joined(r \o b, r, b)
  BY <1>1, <1>2, CatText DEF Part
<1> DEFINE ra == r \o a
           rb == r \o b
<1> HIDE DEF ra, rb
<1>4. /\ IsText(ra) /\ Len(ra) = Len(r) + (k - 1)
      /\ \A i \in 1..Len(r) : ra[i] = r[i]
      /\ \A i \in 1..(k - 1) : ra[Len(r) + i] = path[n + i]
  BY <1>1, <1>3 DEF Part, Joined, ra
<1>5. /\ IsText(rb) /\ Len(rb) = Len(r) + k
      /\ \A i \in 1..Len(r) : rb[i] = r[i]
      /\ \A i \in 1..k : rb[Len(r) + i] = path[n + i]
  BY <1>2, <1>3 DEF Part, Joined, rb
<1>6. /\ IsText(Append(ra, path[m])) /\ Len(Append(ra, path[m])) = Len(ra) + 1
      /\ \A i \in 1..Len(ra) : Append(ra, path[m])[i] = ra[i]
      /\ Append(ra, path[m])[Len(ra) + 1] = path[m]
  BY <1>4, AppendText
<1>7. ASSUME NEW i \in 1..(Len(r) + k)
      PROVE  Append(ra, path[m])[i] = rb[i]
  <2>1. CASE i \in 1..Len(r)
    <3>1. i \in 1..Len(ra)
      BY <1>0, <1>4, <2>1
    <3> QED
      BY <1>4, <1>5, <1>6, <2>1, <3>1
  <2>2. CASE i = Len(r) + k
    <3>1. i = Len(ra) + 1 /\ k \in 1..k /\ m = n + k
      BY <1>0, <1>4, <2>2
    <3> QED
      BY <1>5, <1>6, <2>2, <3>1
  <2>3. CASE i \notin 1..Len(r) /\ i # Len(r) + k
    <3>1. PICK j \in 1..(k - 1) : i = Len(r) + j
      <4>1. i - Len(r) \in 1..(k - 1) /\ i = Len(r) + (i - Len(r))
        BY <1>0, <2>3
      <4> QED
        BY <4>1
    <3>2. i \in 1..Len(ra) /\ j \in 1..k
      BY <1>0, <1>4, <3>1
    <3> QED
      BY <1>4, <1>5, <1>6, <3>1, <3>2
  <2> QED
    BY <2>1, <2>2, <2>3
<1>8. Len(Append(ra, path[m])) = Len(rb) /\ Len(rb) = Len(r) + k
  BY <1>0, <1>4, <1>5, <1>6
<1>9. Append(ra, path[m]) = rb
  BY <1>5, <1>6, <1>7, <1>8, TextEqual
<1> QED
  BY <1>9 DEF ra, rb, a, b

LEMMA NoneAdded ==
    ASSUME NEW r, IsText(r), NEW path, IsText(path), NEW n \in 0..Len(path)
    PROVE  r \o SubSeq(path, n + 1, n) = r
<1>1. Len(path) \in Nat /\ n \in Nat /\ n + 0 <= Len(path) /\ 0 \in Nat /\ n + 0 = n
  BY DEF IsText
<1>2. Part(SubSeq(path, n + 1, n + 0), path, n, 0)
  BY <1>1, PartText
<1> DEFINE a == SubSeq(path, n + 1, n)
<1>3. IsText(a) /\ Len(a) = 0
  BY <1>1, <1>2 DEF Part
<1> HIDE DEF a
<1>4. IsText(r \o a) /\ Len(r \o a) = Len(r) + 0 /\ \A i \in 1..Len(r) : (r \o a)[i] = r[i]
  BY <1>3, CatText DEF Joined
<1>5. r \o a = r
  <2> DEFINE ra == r \o a
  <2>1. Len(r) \in Nat
    BY DEF IsText
  <2>2. IsText(ra) /\ Len(ra) = Len(r) /\ \A i \in 1..Len(r) : ra[i] = r[i]
    BY <1>4, <2>1
  <2> HIDE DEF ra
  <2>3. ra = r
    BY <2>2, TextEqual
  <2> QED
    BY <2>3 DEF ra
<1> QED
  BY <1>5 DEF a

LEMMA NamesAdded ==
    ASSUME NEW t, Sound(t), NEW path, IsText(path), NEW n \in 0..Len(path), NEW e \in n..Len(path),
           \A m \in (n + 1)..e : L!NodeAt(t, Append(L!Real(t, UpTo(path, m - 1)), path[m])).type # "link"
    PROVE  L!Real(t, UpTo(path, e)) = L!Real(t, UpTo(path, n)) \o SubSeq(path, n + 1, e)
<1> DEFINE r == L!Real(t, UpTo(path, n))
           bad == {m \in 0..(e - n) : L!Real(t, UpTo(path, n + m)) # r \o SubSeq(path, n + 1, n + m)}
<1>0. Len(path) \in Nat /\ n \in Nat /\ e \in Nat /\ n <= e /\ e <= Len(path) /\ e - n \in Nat
  BY DEF IsText
<1>1. IsText(r)
  BY RealText
<1>2. ASSUME NEW m \in bad
      PROVE  m # 0 /\ m - 1 \in bad
  <2>0. m \in 0..(e - n) /\ L!Real(t, UpTo(path, n + m)) # r \o SubSeq(path, n + 1, n + m)
    BY Zenon
  <2>1. m \in 0..(e - n) /\ m \in Nat /\ L!Real(t, UpTo(path, n + m)) # r \o SubSeq(path, n + 1, n + m)
    <3>1. m \in 0..(e - n)
      BY <2>0
    <3>2. m \in Nat
      BY <1>0, <3>1
    <3> QED
      BY <2>0, <3>2
  <2>2. m # 0
    <3>1. L!Real(t, UpTo(path, n)) = r \o SubSeq(path, n + 1, n)
      BY <1>1, NoneAdded
    <3> HIDE DEF r
    <3>2. n + 0 = n
      BY <1>0
    <3> QED
      BY <2>1, <3>1, <3>2
  <2> DEFINE k == n + m
  <2>3. /\ k \in (n + 1)..Len(path) /\ k \in (n + 1)..e /\ k \in 1..Len(path)
        /\ k - 1 = n + (m - 1) /\ m - 1 \in 0..(e - n)
    BY <1>0, <2>1, <2>2
  <2>4. SUFFICES ASSUME L!Real(t, UpTo(path, k - 1)) = r \o SubSeq(path, n + 1, k - 1) PROVE FALSE
    BY <2>2, <2>3
  <2>5. L!Real(t, UpTo(path, k)) # r \o SubSeq(path, n + 1, k)
    BY <2>1
  <2> HIDE DEF k
  <2>6. L!Real(t, UpTo(path, k)) = Append(L!Real(t, UpTo(path, k - 1)), path[k])
    BY <2>3, RealStep DEF Looked
  <2> HIDE DEF r
  <2>7. Append(r \o SubSeq(path, n + 1, k - 1), path[k]) = r \o SubSeq(path, n + 1, k)
    BY <1>1, <2>3, AppendMore
  <2> QED
    BY <2>4, <2>5, <2>6, <2>7
<1>3. bad \in SUBSET Nat
  BY <1>0
<1>4. bad = {}
  <2> HIDE DEF bad
  <2> QED
    BY <1>2, <1>3, NoneIsBad
<1>5. e - n \in 0..(e - n) /\ n + (e - n) = e
  BY <1>0
<1> HIDE DEF r
<1>6. L!Real(t, UpTo(path, n + (e - n))) = r \o SubSeq(path, n + 1, n + (e - n))
  BY <1>4, <1>5
<1> QED
  BY <1>5, <1>6 DEF r

LEMMA GreatestExists ==
    ASSUME NEW m \in Nat, NEW S \in SUBSET (0..m), S # {}
    PROVE  \E k \in S : \A other \in S : other <= k
<1> DEFINE T == {m - k : k \in S}
<1>1. T \in SUBSET Nat /\ T # {}
  <2>1. \A k \in S : m - k \in Nat /\ m - k \in T
    OBVIOUS
  <2> QED
    BY <2>1
<1>2. PICK x \in T : \A y \in T : x <= y
  <2> HIDE DEF T
  <2> QED
    BY <1>1, LeastExists
<1>3. PICK k \in S : x = m - k
  OBVIOUS
<1>4. ASSUME NEW other \in S PROVE other <= k
  <2>1. m - other \in T /\ other \in 0..m /\ k \in 0..m
    OBVIOUS
  <2>2. m - k <= m - other
    BY <1>2, <1>3, <2>1
  <2> QED
    BY <2>1, <2>2
<1> QED
  BY <1>4

LEMMA LstatIs ==
    ASSUME NEW t, NEW path, IsText(path), NEW n \in 1..Len(path)
    PROVE  L!Lstat(t, UpTo(path, n)) = L!NodeAt(t, Append(L!Real(t, UpTo(path, n - 1)), path[n]))
BY FrontIs DEF L!Lstat, L!Located

(* What a plan says a path resolves to, by climbing to what there is of it, is  *)
(* where a lookup of it ends; so what is made on the way changes nothing.       *)
LEMMA TargetIsReal ==
    ASSUME NEW t, Sound(t), NEW path, IsText(path)
    PROVE  L!Target(t, path).resolved = L!Real(t, path)
<1> DEFINE there == {n \in 0..Len(path) : n = 0 \/ L!Lstat(t, UpTo(path, n)).type # "none"}
           n == CHOOSE k \in there : \A other \in there : other <= k
<1>0. Len(path) \in Nat
  BY DEF IsText
<1>1. n \in there /\ \A other \in there : other <= n
  <2>1. there \in SUBSET (0..Len(path)) /\ 0 \in there
    BY <1>0
  <2> HIDE DEF there
  <2>2. \E k \in there : \A other \in there : other <= k
    BY <1>0, <2>1, GreatestExists
  <2> QED
    BY <2>2
<1>2. L!Target(t, path).resolved = L!Real(t, UpTo(path, n)) \o SubSeq(path, n + 1, Len(path))
  BY DEF L!Target, UpTo
<1>3. n \in 0..Len(path) /\ \A m \in 1..Len(path) : m > n => L!Lstat(t, UpTo(path, m)).type = "none"
  <2> HIDE DEF n
  <2>1. n \in 0..Len(path)
    BY <1>1
  <2>2. ASSUME NEW m \in 1..Len(path), m > n, L!Lstat(t, UpTo(path, m)).type # "none" PROVE FALSE
    <3>1. m \in there
      BY <1>0, <2>2
    <3> QED
      BY <1>0, <1>1, <2>1, <2>2, <3>1
  <2> QED
    BY <2>1, <2>2
<1> HIDE DEF n, there
<1>4. \A m \in (n + 1)..Len(path) : L!NodeAt(t, Append(L!Real(t, UpTo(path, m - 1)), path[m])).type # "link"
  <2>1. ASSUME NEW m \in (n + 1)..Len(path)
        PROVE  L!NodeAt(t, Append(L!Real(t, UpTo(path, m - 1)), path[m])).type # "link"
    <3>1. m \in 1..Len(path) /\ m > n
      BY <1>0, <1>3
    <3>2. L!Lstat(t, UpTo(path, m)).type = "none"
      BY <1>3, <3>1
    <3> QED
      BY <3>1, <3>2, LstatIs
  <2> QED
    BY <2>1
<1>5. Len(path) \in n..Len(path)
  BY <1>0, <1>3
<1>6. L!Real(t, UpTo(path, Len(path))) = L!Real(t, UpTo(path, n)) \o SubSeq(path, n + 1, Len(path))
  BY <1>3, <1>4, <1>5, NamesAdded
<1> QED
  BY <1>2, <1>6, UpToAll

(* A source below plain directories only is where its name says.                *)
LEMMA InPlace ==
    ASSUME NEW t, Sound(t), NEW path, IsText(path), Len(path) # 0,
           \A dir \in L!Above(path) : L!Lstat(t, dir).type # "link"
    PROVE  L!Located(t, path) = L!Project \o path
<1> DEFINE n == Len(path)
<1>0. n \in Nat /\ n \in 1..n /\ n - 1 \in 0..n /\ 0 \in 0..n /\ n - 1 \in 0..n
  BY DEF IsText
<1>1. \A m \in 1..(n - 1) : L!NodeAt(t, Append(L!Real(t, UpTo(path, m - 1)), path[m])).type # "link"
  <2>1. ASSUME NEW m \in 1..(n - 1)
        PROVE  L!NodeAt(t, Append(L!Real(t, UpTo(path, m - 1)), path[m])).type # "link"
    <3>1. m \in 1..n /\ m \in 0..n /\ m # n
      BY <1>0
    <3>2. UpTo(path, m) # path
      BY <3>1, UpToIs
    <3>3. UpTo(path, m) \in L!Above(path)
      BY <3>1, <3>2 DEF L!Above, L!Parts, UpTo
    <3> QED
      BY <3>1, <3>3, LstatIs
  <2> QED
    BY <2>1
<1>2. L!Real(t, UpTo(path, n - 1)) = L!Real(t, UpTo(path, 0)) \o SubSeq(path, 0 + 1, n - 1)
  <2> HIDE DEF n
  <2>1. 0 + 1 = 1 /\ 0 \in 0..Len(path) /\ n - 1 \in 0..Len(path)
    BY <1>0 DEF n
  <2>2. \A m \in (0 + 1)..(n - 1) : L!NodeAt(t, Append(L!Real(t, UpTo(path, m - 1)), path[m])).type # "link"
    BY <1>1, <2>1
  <2>3. n - 1 \in 0..Len(path)
    BY <2>1
  <2> DEFINE e == n - 1
             z == 0
  <2>4. /\ z \in 0..Len(path) /\ e \in z..Len(path)
        /\ \A m \in (z + 1)..e : L!NodeAt(t, Append(L!Real(t, UpTo(path, m - 1)), path[m])).type # "link"
    BY <2>1, <2>2, <2>3
  <2> HIDE DEF e, z
  <2>5. L!Real(t, UpTo(path, e)) = L!Real(t, UpTo(path, z)) \o SubSeq(path, z + 1, e)
    BY <2>4, NamesAdded
  <2> QED
    BY <2>5 DEF e, z
<1>3. L!Located(t, path) = Append(L!Real(t, UpTo(path, n - 1)), path[n])
  <2>1. UpTo(path, n) = path
    BY UpToAll
  <2> HIDE DEF n
  <2>2. L!Front(UpTo(path, n)) = UpTo(path, n - 1) /\ L!Last(UpTo(path, n)) = path[n]
    BY <1>0, FrontIs DEF n
  <2> QED
    BY <2>1, <2>2 DEF L!Located
<1>4. Append(L!Project \o SubSeq(path, 0 + 1, n - 1), path[n]) = L!Project \o SubSeq(path, 0 + 1, n)
  <2> HIDE DEF n
  <2>1. 0 \in 0..Len(path) /\ n \in (0 + 1)..Len(path)
    BY <1>0 DEF n
  <2> QED
    BY <2>1, ProjectIs, AppendMore
<1>5. SubSeq(path, 0 + 1, n) = path
  BY UpToAll DEF UpTo
<1> HIDE DEF n
<1> QED
  BY <1>2, <1>3, <1>4, <1>5, RealStep

(* Positions of a list, in their order.                                         *)
Kept(before, s, places, n) == IF n \in places THEN Append(before, s[n]) ELSE before
WhereTo(f, s, places, m) == f = [i \in 0..m |-> IF i = 0 THEN <<>> ELSE Kept(f[i - 1], s, places, i)]

LEMMA WheresExist ==
    ASSUME NEW s, NEW places, NEW m \in Nat
    PROVE  \E f : WhereTo(f, s, places, m)
<1> DEFINE bad == {n \in Nat : ~\E f : WhereTo(f, s, places, n)}
<1>1. \E f : WhereTo(f, s, places, 0)
  <2> DEFINE f == [i \in 0..0 |-> <<>>]
  <2>1. f = [i \in 0..0 |-> IF i = 0 THEN <<>> ELSE Kept(f[i - 1], s, places, i)]
    OBVIOUS
  <2> QED
    BY <2>1 DEF WhereTo
<1>2. ASSUME NEW n \in Nat, n # 0, NEW g, WhereTo(g, s, places, n - 1)
      PROVE  \E f : WhereTo(f, s, places, n)
  <2> DEFINE new == Kept(g[n - 1], s, places, n)
             f == [i \in 0..n |-> IF i = n THEN new ELSE g[i]]
  <2>1. ASSUME NEW i \in 0..n
        PROVE  f[i] = IF i = 0 THEN <<>> ELSE Kept(f[i - 1], s, places, i)
    <3>1. CASE i = n
      <4>1. f[i - 1] = g[n - 1] /\ f[i] = new /\ i # 0
        BY <1>2, <3>1
      <4> QED
        BY <3>1, <4>1
    <3>2. CASE i # n
      <4>1. i \in 0..(n - 1) /\ f[i] = g[i] /\ (i # 0 => f[i - 1] = g[i - 1])
        BY <3>2
      <4> HIDE DEF f
      <4>2. g[i] = IF i = 0 THEN <<>> ELSE Kept(g[i - 1], s, places, i)
        BY <1>2, <4>1 DEF WhereTo
      <4> QED
        BY <4>1, <4>2
    <3> QED
      BY <3>1, <3>2
  <2>2. f = [i \in 0..n |-> f[i]]
    OBVIOUS
  <2> HIDE DEF f
  <2>3. WhereTo(f, s, places, n)
    BY <2>1, <2>2 DEF WhereTo
  <2> QED
    BY <2>3
<1>3. \A n \in bad : n # 0 /\ n - 1 \in bad
  <2> SUFFICES ASSUME NEW n \in bad
               PROVE  n # 0 /\ n - 1 \in bad
    OBVIOUS
  <2>1. n \in Nat /\ n # 0
    BY <1>1
  <2>2. ~\E f : WhereTo(f, s, places, n - 1)
    BY <1>2, <2>1
  <2> QED
    BY <2>1, <2>2
<1>4. bad = {}
  <2> HIDE DEF bad
  <2> QED
    BY <1>3, NoneIsBad DEF bad
<1> QED
  BY <1>4

Drawn(w, s, places, n) ==
    /\ IsText(w)
    /\ \A i \in 1..Len(w) : \E k \in 1..n : k \in places /\ w[i] = s[k]
    /\ \A k \in 1..n : k \in places => \E i \in 1..Len(w) : w[i] = s[k]

LEMMA KeptDrawn ==
    ASSUME NEW s, NEW places, NEW n \in Nat, n # 0, NEW w, Drawn(w, s, places, n - 1)
    PROVE  Drawn(Kept(w, s, places, n), s, places, n)
<1> DEFINE v == Kept(w, s, places, n)
<1>0. IsText(w) /\ Len(w) \in Nat /\ 1..n = 1..(n - 1) \cup {n}
  BY DEF Drawn, IsText
<1>1. CASE n \in places
  <2>1. /\ v = Append(w, s[n]) /\ IsText(v) /\ Len(v) = Len(w) + 1
        /\ \A i \in 1..Len(w) : v[i] = w[i]
        /\ v[Len(w) + 1] = s[n]
    BY <1>0, <1>1, AppendText DEF Kept
  <2> HIDE DEF v
  <2>2. 1..Len(v) = 1..Len(w) \cup {Len(w) + 1}
    BY <1>0, <2>1
  <2>3. \A i \in 1..Len(v) : \E k \in 1..n : k \in places /\ v[i] = s[k]
    BY <1>0, <1>1, <2>1, <2>2 DEF Drawn
  <2>4. \A k \in 1..n : k \in places => \E i \in 1..Len(v) : v[i] = s[k]
    BY <1>0, <2>1, <2>2 DEF Drawn
  <2> QED
    BY <2>1, <2>3, <2>4 DEF Drawn, v
<1>2. CASE n \notin places
  BY <1>0, <1>2 DEF Kept, Drawn
<1> QED
  BY <1>1, <1>2

LEMMA WhereIs ==
    ASSUME NEW s, Len(s) \in Nat, NEW places
    PROVE  Drawn(L!Where(s, places), s, places, Len(s))
<1> DEFINE m == Len(s)
           f == CHOOSE g : WhereTo(g, s, places, m)
<1>1. L!Where(s, places) = f[m]
  BY DEF L!Where, WhereTo, Kept
<1>2. WhereTo(f, s, places, m)
  BY WheresExist
<1> HIDE DEF f
<1>3. \A i \in 0..m : f[i] = IF i = 0 THEN <<>> ELSE Kept(f[i - 1], s, places, i)
  BY <1>2 DEF WhereTo
<1> DEFINE bad == {i \in 0..m : ~Drawn(f[i], s, places, i)}
<1>4. ASSUME NEW i \in bad PROVE i # 0 /\ i - 1 \in bad
  <2>1. i \in 0..m /\ ~Drawn(f[i], s, places, i)
    OBVIOUS
  <2>2. Drawn(<<>>, s, places, 0)
    <3>1. IsText(<<>>) /\ Len(<<>>) = 0
      BY DEF IsText
    <3> QED
      BY <3>1 DEF Drawn
  <2>3. i # 0
    BY <1>3, <2>1, <2>2
  <2>4. i \in Nat /\ i - 1 \in 0..m
    BY <2>1, <2>3
  <2>5. f[i] = Kept(f[i - 1], s, places, i)
    BY <1>3, <2>1, <2>3
  <2>6. ~Drawn(f[i - 1], s, places, i - 1)
    BY <2>1, <2>3, <2>4, <2>5, KeptDrawn
  <2> QED
    BY <2>3, <2>4, <2>6
<1>5. bad \in SUBSET Nat /\ m \in 0..m
  OBVIOUS
<1>6. bad = {}
  <2> HIDE DEF bad
  <2> QED
    BY <1>4, <1>5, NoneIsBad
<1> QED
  BY <1>1, <1>5, <1>6

LEMMA FunctionText ==
    ASSUME NEW n \in Nat, NEW f, f = [i \in 1..n |-> f[i]]
    PROVE  IsText(f) /\ Len(f) = n /\ DOMAIN f = 1..n
<1> DEFINE S == {f[i] : i \in 1..n}
<1>1. f \in [1..n -> S]
  OBVIOUS
<1>2. f \in Seq(S)
  BY <1>1
<1>3. DOMAIN f = 1..n
  OBVIOUS
<1>4. IsText(f) /\ DOMAIN f = 1..Len(f) /\ Len(f) \in Nat
  BY <1>2, SeqIsText, LenProperties
<1>5. Len(f) = n
  BY <1>2, <1>3, LenProperties
<1> QED
  BY <1>3, <1>4, <1>5

LEMMA EmptyText == IsText(<<>>) /\ Len(<<>>) = 0 /\ \A t : IsText(t) /\ Len(t) = 0 => t = <<>>
<1>1. IsText(<<>>) /\ Len(<<>>) = 0
  BY DEF IsText
<1> QED
  BY <1>1, TextEqual

LEMMA DrawnEmpty ==
    ASSUME NEW w, NEW s, NEW places, Drawn(w, s, places, 0)
    PROVE  Len(w) = 0
<1>1. Len(w) \in Nat /\ \A i \in 1..Len(w) : \E k \in 1..0 : TRUE
  BY DEF Drawn, IsText
<1>2. CASE Len(w) # 0
  <2>1. 1 \in 1..Len(w)
    BY <1>1, <1>2
  <2> QED
    BY <1>1, <2>1
<1> QED
  BY <1>2

LEMMA NamesAre ==
    /\ IsText(ProjectDocs) /\ IsText(RootDocs) /\ IsText(WalkOrder)
    /\ \A i \in 1..Len(WalkOrder) : IsText(WalkOrder[i]) /\ Len(WalkOrder[i]) # 0
<1>1. \A seq \in {ProjectDocs, RootDocs, WalkOrder} \cup Range(WalkOrder) : IsText(seq) /\ DOMAIN seq = 1..Len(seq)
  BY NamesAssumption, SeqIsText DEF NamesAssumption
<1>2. ASSUME NEW i \in 1..Len(WalkOrder)
      PROVE  IsText(WalkOrder[i]) /\ Len(WalkOrder[i]) # 0
  <2>1. WalkOrder[i] \in Range(WalkOrder)
    BY <1>1 DEF Range
  <2> QED
    BY <1>1, <2>1, EmptyText, NamesAssumption DEF NamesAssumption
<1> QED
  BY <1>1, <1>2

(* A move: its source has a name; one that may be carried out goes to the root, *)
(* to docs or to docs/designs.                                                  *)
Homes == {<<>>, <<"docs">>, L!Designs}
MoveOk(m) ==
    /\ IsText(m.source) /\ Len(m.source) # 0
    /\ m.blocked = "no" => \E home \in Homes : \E name : m.destination = Append(home, name)
MovesOk(ms) == IsText(ms) /\ \A i \in 1..Len(ms) : MoveOk(ms[i])

LEMMA HomesAre == \A home \in Homes : IsText(home)
<1>1. <<>> \in Seq({"docs"}) /\ <<"docs">> \in Seq({"docs"}) /\ <<"docs", "designs">> \in Seq({"docs", "designs"})
  OBVIOUS
<1> QED
  BY <1>1, SeqIsText DEF Homes, L!Designs

LEMMA LandsIn ==
    ASSUME NEW home, IsText(home), NEW name
    PROVE  LET path == Append(home, name) IN
           /\ IsText(path) /\ Len(path) # 0 /\ L!Front(path) = home /\ L!Last(path) = name /\ L!Beneath(path, home)
<1> DEFINE path == Append(home, name)
<1>1. /\ IsText(path) /\ Len(path) = Len(home) + 1 /\ Len(home) \in Nat
      /\ \A i \in 1..Len(home) : path[i] = home[i]
      /\ path[Len(home) + 1] = name
  BY AppendText
<1> HIDE DEF path
<1>2. Len(home) \in 0..Len(path) /\ Len(path) - 1 = Len(home) /\ Len(path) # 0 /\ Len(home) <= Len(path)
  BY <1>1
<1>3. UpTo(path, Len(home)) = home
  BY <1>1, <1>2, UpToIs, TextEqual
<1>4. UpTo(home, Len(home)) = home
  BY UpToAll
<1>5. L!Front(path) = home /\ L!Last(path) = name
  BY <1>1, <1>2, <1>3 DEF L!Front, L!Last, UpTo
<1>6. L!Beneath(path, home)
  BY <1>2, <1>3, <1>4 DEF L!Beneath, L!IsPrefix, UpTo
<1> QED
  BY <1>1, <1>2, <1>5, <1>6 DEF path

LEMMA CatMoves ==
    ASSUME NEW a, MovesOk(a), NEW b, MovesOk(b)
    PROVE  MovesOk(a \o b)
<1> DEFINE c == a \o b
<1>1. Joined(c, a, b) /\ Len(a) \in Nat /\ Len(b) \in Nat
  BY CatText DEF MovesOk, IsText
<1> HIDE DEF c
<1>2. ASSUME NEW i \in 1..Len(c)
      PROVE  MoveOk(c[i])
  <2>1. CASE i \in 1..Len(a)
    BY <1>1, <2>1 DEF Joined, MovesOk
  <2>2. CASE i \notin 1..Len(a)
    <3>1. i - Len(a) \in 1..Len(b) /\ Len(a) + (i - Len(a)) = i
      BY <1>1, <2>2 DEF Joined
    <3>2. c[Len(a) + (i - Len(a))] = b[i - Len(a)]
      BY <1>1, <3>1 DEF Joined
    <3> QED
      BY <3>1, <3>2 DEF MovesOk
  <2> QED
    BY <2>1, <2>2
<1>3. MovesOk(c)
  BY <1>1, <1>2 DEF MovesOk, Joined
<1> QED
  BY <1>3 DEF c

LEMMA WhereMoves ==
    ASSUME NEW ms, MovesOk(ms), NEW places
    PROVE  MovesOk(L!Where(ms, places))
<1>1. Drawn(L!Where(ms, places), ms, places, Len(ms))
  BY WhereIs DEF MovesOk, IsText
<1> QED
  BY <1>1 DEF Drawn, MovesOk

LEMMA LocationMoves == ASSUME NEW t PROVE MovesOk(L!DocLocationMoves(t))
<1> DEFINE down == L!Where(ProjectDocs, {i \in DOMAIN ProjectDocs : L!IsFile(t, L!InRoot(ProjectDocs[i])) /\ ~L!IsFile(t, L!InDocs(ProjectDocs[i]))})
           up == L!Where(RootDocs, {i \in DOMAIN RootDocs : L!IsFile(t, L!InDocs(RootDocs[i])) /\ ~L!IsFile(t, L!InRoot(RootDocs[i]))})
           a == [i \in DOMAIN down |-> L!Found("location", L!InRoot(down[i]), L!InDocs(down[i]), IF L!IsDir(t, <<"docs">>) THEN <<>> ELSE <<"docs">>, "no")]
           b == [i \in DOMAIN up |-> L!Found("location", L!InDocs(up[i]), L!InRoot(up[i]), <<>>, "no")]
<1>1. IsText(down) /\ IsText(up)
  <2>1. \A places : IsText(L!Where(ProjectDocs, places)) /\ IsText(L!Where(RootDocs, places))
    BY NamesAre, WhereIs DEF Drawn, IsText
  <2> QED
    BY <2>1
<1> HIDE DEF down, up
<1>2. /\ \A n : IsText(L!InRoot(n)) /\ Len(L!InRoot(n)) # 0 /\ IsText(L!InDocs(n)) /\ Len(L!InDocs(n)) # 0
      /\ \A n : L!InRoot(n) = Append(<<>>, n) /\ L!InDocs(n) = Append(<<"docs">>, n)
  <2>1. \A n : <<n>> = Append(<<>>, n) /\ <<"docs", n>> = Append(<<"docs">>, n)
    OBVIOUS
  <2>2. <<>> \in Homes /\ <<"docs">> \in Homes
    BY DEF Homes
  <2> QED
    BY <2>1, <2>2, HomesAre, LandsIn DEF L!InRoot, L!InDocs
<1>3. <<>> \in Homes /\ <<"docs">> \in Homes
  BY DEF Homes
<1>4. \A n, missing : MoveOk(L!Found("location", L!InRoot(n), L!InDocs(n), missing, "no")) /\ MoveOk(L!Found("location", L!InDocs(n), L!InRoot(n), missing, "no"))
  BY <1>2, <1>3 DEF MoveOk, L!Found
<1>5. MovesOk(a)
  <2>1. a = [i \in 1..Len(down) |-> a[i]] /\ Len(down) \in Nat /\ DOMAIN down = 1..Len(down)
    BY <1>1 DEF IsText
  <2>2. \A i \in 1..Len(down) : MoveOk(a[i])
    BY <1>4, <2>1
  <2> HIDE DEF a
  <2> QED
    BY <2>1, <2>2, FunctionText DEF MovesOk
<1>6. MovesOk(b)
  <2>1. b = [i \in 1..Len(up) |-> b[i]] /\ Len(up) \in Nat /\ DOMAIN up = 1..Len(up)
    BY <1>1 DEF IsText
  <2>2. \A i \in 1..Len(up) : MoveOk(b[i])
    BY <1>4, <2>1
  <2> HIDE DEF b
  <2> QED
    BY <2>1, <2>2, FunctionText DEF MovesOk
<1>7. L!DocLocationMoves(t) = a \o b
  BY DEF L!DocLocationMoves, down, up
<1> HIDE DEF a, b
<1> QED
  BY <1>5, <1>6, <1>7, CatMoves

LEMMA TypeMoves == ASSUME NEW t PROVE MovesOk(L!DocTypeMoves(t))
<1> DEFINE shape(path) == Shape(L!Stat(t, path).doc)
           wrong(path) == shape(path) = "inbox" \/ (shape(path) = "design" /\ ~L!Beneath(path, L!Designs))
           misplaced == L!Where(WalkOrder, {i \in DOMAIN WalkOrder : L!Walked(t, WalkOrder[i]) /\ wrong(WalkOrder[i])})
           recordFor(path, destination) ==
               L!Found("type", path, destination, IF L!Stat(t, L!Designs).type = "none" THEN L!Designs ELSE <<>>,
                       IF L!Stat(t, destination).type = "none" THEN "no" ELSE "collision")
           a == [i \in DOMAIN misplaced |->
                   IF shape(misplaced[i]) = "inbox" THEN L!Found("type", misplaced[i], <<>>, <<>>, "inbox")
                   ELSE recordFor(misplaced[i], Append(L!Designs, L!Last(misplaced[i])))]
<1>1. IsText(misplaced) /\ \A i \in 1..Len(misplaced) : IsText(misplaced[i]) /\ Len(misplaced[i]) # 0
  <2>1. \A places : Drawn(L!Where(WalkOrder, places), WalkOrder, places, Len(WalkOrder))
    BY NamesAre, WhereIs DEF IsText
  <2> HIDE DEF wrong, shape
  <2>2. PICK places : misplaced = L!Where(WalkOrder, places)
    OBVIOUS
  <2> HIDE DEF misplaced
  <2>3. Drawn(misplaced, WalkOrder, places, Len(WalkOrder))
    BY <2>1, <2>2
  <2>4. ASSUME NEW i \in 1..Len(misplaced)
        PROVE  IsText(misplaced[i]) /\ Len(misplaced[i]) # 0
    <3>1. PICK k \in 1..Len(WalkOrder) : misplaced[i] = WalkOrder[k]
      BY <2>3 DEF Drawn
    <3> QED
      BY <3>1, NamesAre
  <2> QED
    BY <2>3, <2>4 DEF Drawn
<1>2. L!DocTypeMoves(t) = a
  BY DEF L!DocTypeMoves
<1> HIDE DEF misplaced, shape
<1>3. a = [i \in 1..Len(misplaced) |-> a[i]] /\ Len(misplaced) \in Nat /\ DOMAIN misplaced = 1..Len(misplaced)
  BY <1>1 DEF IsText
<1>4. ASSUME NEW i \in 1..Len(misplaced)
      PROVE  MoveOk(a[i])
  <2> DEFINE s == misplaced[i]
  <2>1. a[i] = L!Found("type", s, <<>>, <<>>, "inbox") \/ a[i] = recordFor(s, Append(L!Designs, L!Last(s)))
    BY <1>3
  <2>2. IsText(s) /\ Len(s) # 0
    BY <1>1
  <2> HIDE DEF a, s
  <2>3. L!Designs \in Homes
    BY DEF Homes
  <2> HIDE DEF wrong
  <2>4. CASE a[i] = L!Found("type", s, <<>>, <<>>, "inbox")
    BY <2>2, <2>4 DEF MoveOk, L!Found
  <2>5. CASE a[i] = recordFor(s, Append(L!Designs, L!Last(s)))
    <3>1. PICK missing, blocked : a[i] = L!Found("type", s, Append(L!Designs, L!Last(s)), missing, blocked)
      BY <2>5
    <3>2. a[i].source = s /\ a[i].destination = Append(L!Designs, L!Last(s))
      BY <3>1 DEF L!Found
    <3> HIDE DEF recordFor
    <3> QED
      BY <2>2, <2>3, <3>2 DEF MoveOk
  <2> QED
    BY <2>1, <2>4, <2>5
<1> HIDE DEF a
<1> QED
  BY <1>2, <1>3, <1>4, FunctionText DEF MovesOk

(* What a plan may carry out.                                                   *)
LEMMA RecordsOk ==
    ASSUME NEW t, NEW o, NEW found, found = IF o.scaffoldOnly THEN <<>> ELSE L!LayoutMoves(t)
    PROVE  LET records == L!Movable(L!Considered(o, found)) IN
           /\ MovesOk(records) /\ \A i \in 1..Len(records) : records[i].blocked = "no"
           /\ o.scaffoldOnly => Len(records) = 0
<1> DEFINE considered == L!Considered(o, found)
           records == L!Movable(considered)
<1>1. MovesOk(found) /\ (o.scaffoldOnly => Len(found) = 0)
  <2>1. CASE o.scaffoldOnly
    BY <2>1, EmptyText DEF MovesOk
  <2>2. CASE ~o.scaffoldOnly
    <3>1. MovesOk(L!DocLocationMoves(t) \o L!DocTypeMoves(t))
      BY LocationMoves, TypeMoves, CatMoves
    <3>2. MovesOk(L!LayoutMoves(t))
      BY <3>1, WhereMoves DEF L!LayoutMoves
    <3> QED
      BY <2>2, <3>2
  <2> QED
    BY <2>1, <2>2
<1>2. MovesOk(considered) /\ (Len(found) = 0 => Len(considered) = 0)
  <2>1. PICK places : considered = L!Where(found, places)
    BY DEF L!Considered
  <2>2. Drawn(considered, found, places, Len(found))
    BY <1>1, <2>1, WhereIs DEF MovesOk, IsText
  <2>3. MovesOk(considered)
    BY <1>1, <2>1, WhereMoves
  <2> HIDE DEF considered
  <2>4. Len(found) = 0 => Len(considered) = 0
    BY <2>2, DrawnEmpty
  <2> QED
    BY <2>3, <2>4
<1> HIDE DEF considered
<1>3. /\ MovesOk(records) /\ (Len(considered) = 0 => Len(records) = 0)
      /\ \A i \in 1..Len(records) : records[i].blocked = "no"
  <2> DEFINE places == {i \in DOMAIN considered : ~L!Manual(considered[i])}
  <2>1. records = L!Where(considered, places)
    BY DEF L!Movable
  <2>2. \A k \in places : considered[k].blocked = "no"
    BY DEF L!Manual
  <2> HIDE DEF places
  <2>3. Drawn(records, considered, places, Len(considered))
    BY <1>2, <2>1, WhereIs DEF MovesOk, IsText
  <2>4. MovesOk(records)
    BY <1>2, <2>1, WhereMoves
  <2> HIDE DEF records
  <2>5. Len(considered) = 0 => Len(records) = 0
    BY <2>3, DrawnEmpty
  <2>6. \A i \in 1..Len(records) : records[i].blocked = "no"
    BY <2>2, <2>3, Zenon DEF Drawn
  <2> QED
    BY <2>4, <2>5, <2>6
<1> QED
  BY <1>1, <1>2, <1>3 DEF considered

(* What an apply may still do: every path it will write or unlink is on the     *)
(* plan's list, and outside the project only with authority.                    *)
MayWrite(path, id, authorized) == path \in L!Listed(id) /\ (~L!InProject(path) => authorized)
DirectoryFine(op, t, id, authorized) ==
    /\ op.kind = "directory" /\ MayWrite(op.path, id, authorized)
    /\ \E d \in L!Range(L!CanonicalDirs) : op.path = L!Real(t, d)
MoveFine(op, t, id, authorized) ==
    /\ op.kind \in {"git", "file"}
    /\ MayWrite(op.to, id, authorized) /\ L!Located(t, op.move.destination) = op.to
    /\ MayWrite(L!Located(t, op.move.source), id, authorized)
OpFine(op, t, id, authorized, confirmed) ==
    DirectoryFine(op, t, id, authorized) \/ (confirmed /\ MoveFine(op, t, id, authorized))

LEMMA FineSame ==
    ASSUME NEW op, NEW t, NEW u, SameLinks(t, u), NEW id, NEW authorized, NEW confirmed, OpFine(op, t, id, authorized, confirmed)
    PROVE  OpFine(op, u, id, authorized, confirmed)
BY RealSame, LocatedSame DEF OpFine, DirectoryFine, MoveFine

LEMMA CanonicalAre ==
    /\ L!CanonicalDirs = << <<"docs">>, <<"docs", "archive">>, <<"docs", "designs">> >>
    /\ Len(L!CanonicalDirs) = 3 /\ DOMAIN L!CanonicalDirs = 1..3
    /\ L!CanonicalDirs[1] = <<"docs">> /\ L!CanonicalDirs[3] = L!Designs
    /\ \A i \in 1..3 : IsText(L!CanonicalDirs[i]) /\ L!CanonicalDirs[i] \in L!Range(L!CanonicalDirs)
<1>1. <<"docs">> \in Seq({"docs"}) /\ <<"docs", "archive">> \in Seq({"docs", "archive"}) /\ <<"docs", "designs">> \in Seq({"docs", "designs"})
  OBVIOUS
<1>2. IsText(<<"docs">>) /\ IsText(<<"docs", "archive">>) /\ IsText(<<"docs", "designs">>)
  BY <1>1, SeqIsText
<1> DEFINE c == << <<"docs">>, <<"docs", "archive">>, <<"docs", "designs">> >>
<1>3. Len(c) = 3 /\ DOMAIN c = 1..3 /\ c[1] = <<"docs">> /\ c[2] = <<"docs", "archive">> /\ c[3] = <<"docs", "designs">>
  OBVIOUS
<1>4. c = L!CanonicalDirs
  BY DEF L!CanonicalDirs
<1> HIDE DEF c
<1>5. \A i \in 1..3 : i = 1 \/ i = 2 \/ i = 3
  OBVIOUS
<1>6. \A i \in 1..3 : IsText(c[i])
  BY <1>2, <1>3, <1>5
<1> QED
  BY <1>3, <1>4, <1>6 DEF L!Range, L!Designs, c

(* The directories of a plan that nothing refuses.                              *)
Directory(t, d) == [requested |-> d, resolved |-> L!Target(t, d).resolved, exists |-> L!Lstat(t, d).type # "none"]

LEMMA DirectoriesAre ==
    ASSUME NEW t
    PROVE  LET dirs == L!Directories(t, {}) IN
           /\ IsText(dirs) /\ DOMAIN dirs = 1..Len(dirs)
           /\ \A i \in 1..Len(dirs) : \E d \in L!Range(L!CanonicalDirs) : dirs[i] = Directory(t, d)
           /\ \A k \in 1..3 : \E i \in 1..Len(dirs) : dirs[i] = Directory(t, L!CanonicalDirs[k])
<1> DEFINE places == {i \in DOMAIN L!CanonicalDirs : ~L!Failed({}, L!CanonicalDirs[i])}
           sound == L!Where(L!CanonicalDirs, places)
           dirs == [i \in DOMAIN sound |-> Directory(t, sound[i])]
<1>1. L!Directories(t, {}) = dirs
  BY DEF L!Directories, Directory
<1>2. places = 1..3
  BY CanonicalAre DEF L!Failed
<1>3. Drawn(sound, L!CanonicalDirs, 1..3, 3)
  BY <1>2, CanonicalAre, WhereIs
<1> HIDE DEF sound
<1>4. dirs = [i \in 1..Len(sound) |-> dirs[i]] /\ Len(sound) \in Nat /\ DOMAIN sound = 1..Len(sound)
  BY <1>3 DEF Drawn, IsText
<1>5. \A i \in 1..Len(sound) : dirs[i] = Directory(t, sound[i])
  BY <1>4
<1> HIDE DEF dirs
<1>6. IsText(dirs) /\ Len(dirs) = Len(sound) /\ DOMAIN dirs = 1..Len(dirs)
  BY <1>4, FunctionText
<1>7. \A i \in 1..Len(dirs) : \E d \in L!Range(L!CanonicalDirs) : dirs[i] = Directory(t, d)
  BY <1>3, <1>5, <1>6, CanonicalAre DEF Drawn
<1>8. \A k \in 1..3 : \E i \in 1..Len(dirs) : dirs[i] = Directory(t, L!CanonicalDirs[k])
  BY <1>3, <1>5, <1>6 DEF Drawn
<1> QED
  BY <1>1, <1>6, <1>7, <1>8

(* Nothing is refused: every source is a file in plain directories.             *)
LEMMA NothingRefused ==
    ASSUME NEW w, NEW records, L!Refusals(w, records, L!Preflighted(w, records)) = {}
    PROVE  /\ L!Preflighted(w, records) = {}
           /\ \A i \in DOMAIN records : \A dir \in L!Above(records[i].source) : L!Lstat(w.tree, dir).type # "link"
<1> DEFINE pre == L!Preflighted(w, records)
           early == L!WithSources(w, records, L!TypeRefusals(w.tree))
<1>1. \A refusals, more : refusals \subseteq L!Adding(refusals, more)
  BY DEF L!Adding
<1>2. pre \subseteq L!Refusals(w, records, pre)
  <2> HIDE DEF pre
  <2>1. CASE ~w.git
    BY <2>1 DEF L!Refusals
  <2>2. CASE w.git
    <3>1. pre \subseteq L!WithGitlinks(w, records, pre)
      BY <1>1 DEF L!WithGitlinks
    <3>2. \A refusals : refusals \subseteq L!WithIndex(w, records, refusals)
      BY <1>1 DEF L!WithIndex
    <3> QED
      BY <2>2, <3>1, <3>2 DEF L!Refusals
  <2> QED
    BY <2>1, <2>2
<1>3. pre = {}
  BY <1>2
<1>4. early \subseteq pre
  <2> HIDE DEF early
  <2>1. early \subseteq L!WithDestinations(w, records, early)
    BY <1>1 DEF L!WithDestinations
  <2>2. \A refusals : refusals \subseteq L!WithTargets(w, refusals)
    BY <1>1 DEF L!WithTargets
  <2> QED
    BY <2>1, <2>2 DEF L!Preflighted, early
<1>5. L!TypeRefusals(w.tree) = {} /\ early = {}
  BY <1>1, <1>3, <1>4 DEF L!WithSources
<1>6. \A i \in DOMAIN records : L!SourceRefusal(w, records[i].source) = "ok"
  <2>1. L!WithSources(w, records, {}) = {}
    BY <1>5
  <2>2. \A r : ~L!Failed({}, r)
    BY DEF L!Failed
  <2>3. L!Codes(DOMAIN records, LAMBDA i : L!SourceRefusal(w, records[i].source), LAMBDA i : records[i].source) = {}
    BY <2>1, <2>2 DEF L!WithSources, L!Adding
  <2> QED
    BY <2>3 DEF L!Codes
<1>7. ASSUME NEW path, L!SourceRefusal(w, path) = "ok", NEW dir \in L!Above(path)
      PROVE  L!Lstat(w.tree, dir).type = "dir"
  BY <1>7 DEF L!SourceRefusal
<1> HIDE DEF pre, early
<1> QED
  BY <1>3, <1>6, <1>7 DEF pre

(* A plan that is carried out: its parts.                                       *)
PlanIs(id, dirs, bound, records, w) ==
    /\ id.directories = dirs /\ id.moves = bound
    /\ id.external = L!External(dirs, bound, id.scaffoldOnly)
    /\ dirs = L!Directories(w.tree, {}) /\ MovesOk(records)
    /\ IsText(bound) /\ Len(bound) = Len(records) /\ DOMAIN bound = 1..Len(bound)
    /\ \A i \in 1..Len(records) :
         /\ bound[i].move = records[i] /\ bound[i].resolvedParent = L!ParentOf(w.tree, records[i].destination)
         /\ records[i].blocked = "no"
         /\ \A dir \in L!Above(records[i].source) : L!Lstat(w.tree, dir).type # "link"
    /\ id.scaffoldOnly => Len(records) = 0

LEMMA StatusOk ==
    ASSUME NEW built, NEW authorize, L!Status(built, authorize) = "ok"
    PROVE  ~built.refused /\ (L!WritesOutside(built.id) => authorize)
BY DEF L!Status

LEMMA PlanParts ==
    ASSUME NEW w, NEW o, ~L!BuildPlan(w, o).refused
    PROVE  \E dirs, bound, records : PlanIs(L!BuildPlan(w, o).id, dirs, bound, records, w)
<1> DEFINE found == IF o.scaffoldOnly THEN <<>> ELSE L!LayoutMoves(w.tree)
           records == L!Movable(L!Considered(o, found))
           pre == L!Preflighted(w, records)
           dirs == L!Directories(w.tree, pre)
           bound == L!BoundMoves(w, records, pre)
           id == L!Binding(w, o, found, dirs, bound)
<1>1. L!BuildPlan(w, o) = L!Checked(w, o, found, records, pre)
  BY DEF L!BuildPlan, L!Listing, L!Drafted
<1>2. MovesOk(records) /\ (\A i \in 1..Len(records) : records[i].blocked = "no") /\ (o.scaffoldOnly => Len(records) = 0)
  BY RecordsOk
<1> HIDE DEF found, records, pre
<1>3. L!BuildPlan(w, o).id = id /\ L!Refusals(w, records, pre) = {}
  <2> DEFINE refused == L!Refusals(w, records, pre) # {} \/ \E path \in o.excludes : \A m \in L!Range(found) : m.source # path
             checked == [refused |-> refused, id |-> id]
  <2>1. L!BuildPlan(w, o) = checked
    BY <1>1 DEF L!Checked
  <2>2. ~refused => L!Refusals(w, records, pre) = {}
    OBVIOUS
  <2> HIDE DEF refused, id
  <2>3. checked.id = id /\ (refused => checked.refused)
    OBVIOUS
  <2> HIDE DEF checked
  <2> QED
    BY <2>1, <2>2, <2>3
<1>4. /\ pre = {}
      /\ \A i \in DOMAIN records : \A dir \in L!Above(records[i].source) : L!Lstat(w.tree, dir).type # "link"
  BY <1>3, NothingRefused DEF pre
<1>5. DOMAIN records = 1..Len(records) /\ Len(records) \in Nat
  BY <1>2 DEF MovesOk, IsText
<1>6. /\ bound = [i \in 1..Len(records) |-> bound[i]]
      /\ \A i \in 1..Len(records) :
           bound[i].move = records[i] /\ bound[i].resolvedParent = L!ParentOf(w.tree, records[i].destination)
  <2>1. \A p : ~L!Failed({}, p)
    BY DEF L!Failed
  <2> QED
    BY <1>4, <1>5, <2>1 DEF L!BoundMoves
<1>7. /\ id.directories = dirs /\ id.moves = bound /\ id.scaffoldOnly = o.scaffoldOnly
      /\ id.external = L!External(dirs, bound, o.scaffoldOnly)
  BY DEF L!Binding
<1> HIDE DEF bound, dirs, id
<1>8. IsText(bound) /\ Len(bound) = Len(records) /\ DOMAIN bound = 1..Len(bound)
  BY <1>5, <1>6, FunctionText
<1>9. dirs = L!Directories(w.tree, {})
  BY <1>4 DEF dirs
<1>10. PlanIs(id, dirs, bound, records, w)
  BY <1>2, <1>4, <1>5, <1>6, <1>7, <1>8, <1>9 DEF PlanIs
<1> QED
  BY <1>3, <1>10

(* An entry outside the project that the plan writes below needs authority.     *)
LEMMA Outward ==
    ASSUME NEW id, NEW dirs, NEW bound, id.external = L!External(dirs, bound, id.scaffoldOnly),
           IsText(dirs), NEW k \in 1..Len(dirs), ~L!InProject(dirs[k].resolved),
           ~dirs[k].exists \/ \E m \in L!Range(bound) : L!Beneath(m.move.destination, dirs[k].requested)
    PROVE  L!WritesOutside(id)
<1>1. dirs[k] \in L!Range(dirs)
  <2>1. DOMAIN dirs = 1..Len(dirs)
    BY DEF IsText
  <2> QED
    BY <2>1 DEF L!Range
<1> DEFINE d == dirs[k]
           pair == [requested |-> d.requested, resolved |-> d.resolved,
                    write |-> ~d.exists \/ id.scaffoldOnly \/ \E m \in L!Range(bound) : L!Beneath(m.move.destination, d.requested)]
<1>2. d \in {e \in L!Range(dirs) : ~L!InProject(e.resolved)}
  BY <1>1
<1>3. pair \in id.external
  BY <1>2 DEF L!External
<1>4. pair.write
  OBVIOUS
<1> HIDE DEF pair
<1> QED
  BY <1>3, <1>4 DEF L!WritesOutside

LEMMA StaysWithin ==
    ASSUME NEW p, IsText(p), L!InProject(p), NEW s, NEW q, q = p \o s \/ q = Append(p, s), IsText(q),
           \A i \in 1..Len(p) : q[i] = p[i], Len(p) <= Len(q)
    PROVE  L!InProject(q)
<1>1. Len(L!Project) <= Len(p) /\ UpTo(L!Project, Len(L!Project)) = UpTo(p, Len(L!Project))
  BY DEF L!InProject, L!Beneath, L!IsPrefix, UpTo
<1>2. Len(p) \in Nat /\ Len(q) \in Nat /\ Len(L!Project) = 1
  BY ProjectIs DEF IsText
<1>3. UpTo(p, 1) = UpTo(q, 1)
  <2>1. 1 \in 0..Len(p) /\ 1 \in 0..Len(q)
    BY <1>1, <1>2
  <2> DEFINE a == UpTo(p, 1)
             b == UpTo(q, 1)
  <2>2. /\ IsText(a) /\ Len(a) = 1 /\ (\A i \in 1..1 : a[i] = p[i])
        /\ IsText(b) /\ Len(b) = 1 /\ (\A i \in 1..1 : b[i] = q[i])
    BY <2>1, UpToIs
  <2>3. \A i \in 1..1 : q[i] = p[i]
    BY <1>1, <1>2
  <2> HIDE DEF a, b
  <2>4. a = b
    BY <2>2, <2>3, TextEqual
  <2> QED
    BY <2>4 DEF a, b
<1> QED
  BY <1>1, <1>2, <1>3 DEF L!InProject, L!Beneath, L!IsPrefix, UpTo

LEMMA BelowProject ==
    ASSUME NEW path, IsText(path)
    PROVE  L!InProject(L!Project \o path)
<1> DEFINE q == L!Project \o path
<1>1. Joined(q, L!Project, path)
  BY ProjectIs, CatText
<1>2. Len(path) \in Nat /\ Len(L!Project) \in Nat /\ IsText(L!Project)
  BY ProjectIs DEF IsText
<1> HIDE DEF q
<1>3. IsText(q) /\ (\A i \in 1..Len(L!Project) : q[i] = L!Project[i]) /\ Len(L!Project) <= Len(q)
  BY <1>1, <1>2 DEF Joined
<1>4. Len(L!Project) \in 0..Len(q) /\ Len(L!Project) \in 0..Len(L!Project)
  BY <1>2, <1>3 DEF IsText
<1>5. UpTo(q, Len(L!Project)) = UpTo(L!Project, Len(L!Project))
  <2> DEFINE a == UpTo(q, Len(L!Project))
             b == UpTo(L!Project, Len(L!Project))
  <2>1. /\ IsText(a) /\ Len(a) = Len(L!Project) /\ (\A i \in 1..Len(L!Project) : a[i] = q[i])
        /\ IsText(b) /\ Len(b) = Len(L!Project) /\ (\A i \in 1..Len(L!Project) : b[i] = L!Project[i])
    BY <1>2, <1>3, <1>4, UpToIs
  <2> HIDE DEF a, b
  <2>2. a = b
    BY <1>3, <2>1, TextEqual
  <2> QED
    BY <2>2 DEF a, b
<1>6. L!InProject(q)
  BY <1>3, <1>5 DEF L!InProject, L!Beneath, L!IsPrefix, UpTo
<1> QED
  BY <1>6 DEF q

LEMMA DirectoryStarts ==
    ASSUME NEW w, Sound(w.tree), NEW id, NEW dirs, NEW bound, NEW records, PlanIs(id, dirs, bound, records, w),
           NEW authorized, L!WritesOutside(id) => authorized,
           NEW k \in 1..Len(dirs), ~dirs[k].exists
    PROVE  DirectoryFine([kind |-> "directory", path |-> dirs[k].resolved], w.tree, id, authorized)
<1>1. /\ IsText(dirs) /\ DOMAIN dirs = 1..Len(dirs)
      /\ \A i \in 1..Len(dirs) : \E d \in L!Range(L!CanonicalDirs) : dirs[i] = Directory(w.tree, d)
  BY DirectoriesAre DEF PlanIs
<1>2. PICK d \in L!Range(L!CanonicalDirs) : dirs[k] = Directory(w.tree, d)
  BY <1>1
<1>3. IsText(d)
  BY CanonicalAre DEF L!Range
<1>4. dirs[k].resolved = L!Real(w.tree, d)
  BY <1>2, <1>3, TargetIsReal DEF Directory
<1>5. dirs[k].resolved \in L!Listed(id)
  <2>1. dirs[k] \in L!Range(id.directories)
    BY <1>1 DEF PlanIs, L!Range
  <2> QED
    BY <2>1 DEF L!Listed
<1>6. ~L!InProject(dirs[k].resolved) => authorized
  BY <1>1, Outward DEF PlanIs
<1> QED
  BY <1>4, <1>5, <1>6 DEF DirectoryFine, MayWrite

LEMMA MoveStarts ==
    ASSUME NEW w, Sound(w.tree), NEW id, NEW dirs, NEW bound, NEW records, PlanIs(id, dirs, bound, records, w),
           NEW authorized, L!WritesOutside(id) => authorized, NEW i \in 1..Len(bound), NEW kind \in {"git", "file"}
    PROVE  MoveFine([kind |-> kind, move |-> bound[i].move, to |-> Append(bound[i].resolvedParent, L!Last(bound[i].move.destination))],
                    w.tree, id, authorized)
<1> DEFINE t == w.tree
           m == records[i]
           parent == bound[i].resolvedParent
           to == Append(parent, L!Last(m.destination))
           from == L!Project \o m.source
<1>1. /\ bound[i].move = m /\ parent = L!ParentOf(t, m.destination) /\ m.blocked = "no"
      /\ \A dir \in L!Above(m.source) : L!Lstat(t, dir).type # "link"
      /\ IsText(m.source) /\ Len(m.source) # 0
      /\ \E home \in Homes : \E name : m.destination = Append(home, name)
      /\ bound[i] \in L!Range(bound) /\ id.moves = bound
  BY DEF PlanIs, MovesOk, MoveOk, L!Range
<1>h. PICK home \in Homes : \E name : m.destination = Append(home, name)
  BY <1>1
<1>2. PICK name : m.destination = Append(home, name)
  BY <1>h
<1> HIDE DEF m
<1>3. /\ IsText(home) /\ IsText(m.destination) /\ L!Front(m.destination) = home /\ L!Last(m.destination) = name
      /\ L!Beneath(m.destination, home)
  BY <1>2, HomesAre, LandsIn
<1>4. parent = L!Real(t, home)
  BY <1>1, <1>3, TargetIsReal DEF L!ParentOf
<1>5. L!Located(t, m.destination) = to
  BY <1>3, <1>4 DEF L!Located
<1>6. L!Located(t, m.source) = from
  BY <1>1, InPlace
<1>7. IsText(parent)
  <2>1. Len(home) \in 0..Len(home) /\ UpTo(home, Len(home)) = home
    BY <1>3, UpToAll DEF IsText
  <2> QED
    BY <1>3, <1>4, <2>1, RealText
<1>8. to \in L!Listed(id) /\ from \in L!Listed(id)
  BY <1>1 DEF L!Listed
<1>9. L!InProject(from)
  BY <1>1, BelowProject
<1>10. L!InProject(parent) => L!InProject(to)
  <2> HIDE DEF parent
  <2>1. /\ IsText(to) /\ (\A k \in 1..Len(parent) : to[k] = parent[k]) /\ Len(to) = Len(parent) + 1 /\ Len(parent) \in Nat
    BY <1>7, AppendText
  <2>2. Len(parent) <= Len(to)
    BY <2>1
  <2> QED
    BY <1>7, <2>1, <2>2, StaysWithin
<1>11. ~L!InProject(parent) => authorized
  <2> SUFFICES ASSUME ~L!InProject(parent) PROVE L!WritesOutside(id)
    OBVIOUS
  <2>1. CASE home = <<>>
    <3>1. parent = L!Project
      BY <1>4, <2>1, RealStep, EmptyText, UpToAll
    <3>2. L!InProject(L!Project)
      BY ProjectIs DEF L!InProject, L!Beneath, L!IsPrefix
    <3> QED
      BY <3>1, <3>2
  <2>2. CASE home # <<>>
    <3>1. PICK c \in 1..3 : home = L!CanonicalDirs[c]
      <4>1. 1 \in 1..3 /\ 3 \in 1..3
        OBVIOUS
      <4> QED
        BY <2>2, <4>1, CanonicalAre DEF Homes
    <3>2. /\ IsText(dirs)
          /\ \A k \in 1..3 : \E j \in 1..Len(dirs) : dirs[j] = Directory(t, L!CanonicalDirs[k])
      BY DirectoriesAre DEF PlanIs
    <3>3. PICK j \in 1..Len(dirs) : dirs[j] = Directory(t, home)
      BY <3>1, <3>2
    <3>4. dirs[j].requested = home /\ dirs[j].resolved = parent
      BY <1>1, <1>3, <3>3 DEF Directory, L!ParentOf
    <3>5. \E e \in L!Range(bound) : L!Beneath(e.move.destination, dirs[j].requested)
      BY <1>1, <1>3, <3>4
    <3>6. id.external = L!External(dirs, bound, id.scaffoldOnly)
      BY DEF PlanIs
    <3> HIDE DEF parent
    <3> QED
      BY <3>2, <3>4, <3>5, <3>6, Outward
  <2> QED
    BY <2>1, <2>2
<1> HIDE DEF parent, to, from
<1>12. MayWrite(to, id, authorized) /\ MayWrite(from, id, authorized)
  BY <1>8, <1>9, <1>10, <1>11 DEF MayWrite
<1> DEFINE op == [kind |-> kind, move |-> m, to |-> to]
<1>13. op.kind = kind /\ op.move = m /\ op.to = to
  OBVIOUS
<1>14. op = [kind |-> kind, move |-> bound[i].move, to |-> Append(bound[i].resolvedParent, L!Last(bound[i].move.destination))]
  BY <1>1 DEF to, parent
<1> HIDE DEF op
<1>15. MoveFine(op, t, id, authorized)
  BY <1>5, <1>6, <1>12, <1>13 DEF MoveFine
<1> QED
  BY <1>14, <1>15

LEMMA OperationsFine ==
    ASSUME NEW w, Sound(w.tree), NEW id, NEW dirs, NEW bound, NEW records, PlanIs(id, dirs, bound, records, w),
           NEW authorized, L!WritesOutside(id) => authorized, NEW confirmed, confirmed \/ id.scaffoldOnly
    PROVE  LET todo == L!Operations(id) IN
           IsText(todo) /\ \A i \in 1..Len(todo) : OpFine(todo[i], w.tree, id, authorized, confirmed)
<1> DEFINE places == {i \in DOMAIN dirs : ~dirs[i].exists}
           missing == L!Where(dirs, places)
           a == [i \in DOMAIN missing |-> [kind |-> "directory", path |-> missing[i].resolved]]
           b == [i \in DOMAIN bound |->
                   [kind |-> IF bound[i].tracking = "tracked" THEN "git" ELSE "file", move |-> bound[i].move,
                    to |-> Append(bound[i].resolvedParent, L!Last(bound[i].move.destination))]]
           todo == a \o b
<1>1. L!Operations(id) = todo
  BY DEF L!Operations, PlanIs
<1>2. IsText(dirs) /\ DOMAIN dirs = 1..Len(dirs)
  BY DirectoriesAre DEF PlanIs
<1>3. Drawn(missing, dirs, places, Len(dirs))
  BY <1>2, WhereIs DEF IsText
<1> HIDE DEF missing
<1>4. a = [i \in 1..Len(missing) |-> a[i]] /\ Len(missing) \in Nat /\ DOMAIN missing = 1..Len(missing)
  BY <1>3 DEF Drawn, IsText
<1>5. ASSUME NEW i \in 1..Len(missing)
      PROVE  OpFine(a[i], w.tree, id, authorized, confirmed)
  <2>1. PICK k \in 1..Len(dirs) : k \in places /\ missing[i] = dirs[k]
    BY <1>3 DEF Drawn
  <2>2. ~dirs[k].exists
    BY <2>1
  <2>3. a[i] = [kind |-> "directory", path |-> dirs[k].resolved]
    BY <1>4, <2>1
  <2> HIDE DEF a, places
  <2>4. DirectoryFine([kind |-> "directory", path |-> dirs[k].resolved], w.tree, id, authorized)
    BY <2>2, DirectoryStarts
  <2> QED
    BY <2>3, <2>4 DEF OpFine
<1>6. b = [i \in 1..Len(bound) |-> b[i]] /\ IsText(bound) /\ DOMAIN bound = 1..Len(bound) /\ Len(bound) \in Nat
  BY DEF PlanIs, IsText
<1>7. ASSUME NEW i \in 1..Len(bound)
      PROVE  OpFine(b[i], w.tree, id, authorized, confirmed)
  <2>1. PICK kind \in {"git", "file"} : b[i] = [kind |-> kind, move |-> bound[i].move,
                                              to |-> Append(bound[i].resolvedParent, L!Last(bound[i].move.destination))]
    BY <1>6
  <2> HIDE DEF b
  <2>2. MoveFine(b[i], w.tree, id, authorized)
    BY <2>1, MoveStarts
  <2>3. confirmed
    <3>1. CASE id.scaffoldOnly
      <4>1. Len(bound) = 0
        BY <3>1 DEF PlanIs
      <4> QED
        BY <4>1
    <3> QED
      BY <3>1
  <2> QED
    BY <2>2, <2>3 DEF OpFine
<1> HIDE DEF a, b
<1>8. IsText(a) /\ Len(a) = Len(missing) /\ IsText(b) /\ Len(b) = Len(bound)
  BY <1>4, <1>6, FunctionText
<1>9. Joined(todo, a, b)
  BY <1>8, CatText
<1> HIDE DEF todo
<1>10. ASSUME NEW i \in 1..Len(todo)
       PROVE  OpFine(todo[i], w.tree, id, authorized, confirmed)
  <2>1. CASE i \in 1..Len(a)
    BY <1>5, <1>8, <1>9, <2>1 DEF Joined
  <2>2. CASE i \notin 1..Len(a)
    <3>1. i - Len(a) \in 1..Len(b) /\ Len(a) + (i - Len(a)) = i
      BY <1>4, <1>6, <1>8, <1>9, <2>2 DEF Joined
    <3>2. todo[Len(a) + (i - Len(a))] = b[i - Len(a)]
      BY <1>9, <3>1 DEF Joined
    <3> QED
      BY <1>7, <1>8, <3>1, <3>2
  <2> QED
    BY <2>1, <2>2
<1> QED
  BY <1>1, <1>9, <1>10 DEF Joined

(* A world has its five parts and its links name paths; the user's edits keep   *)
(* it so.                                                                       *)
IsWorld(w) ==
    /\ w = [tree |-> w.tree, index |-> w.index, git |-> w.git, lock |-> w.lock, sparse |-> w.sparse]
    /\ Sound(w.tree)
LinksArePaths ==
    /\ \A w \in Worlds : IsWorld(w)
    /\ \A w : IsWorld(w) => \A e \in Edits : IsWorld(AfterEdit(w, e))

(* What is left of an apply in flight is on the list that was confirmed.        *)
Todo(j, t) == IsText(j.todo) /\ \A i \in 1..Len(j.todo) : OpFine(j.todo[i], t, j.id, j.authorized, j.confirmed)
AtFile(j) == j.at \in Calls => j.todo # <<>> /\ Head(j.todo).kind = "file"
ConfInv ==
    /\ IsWorld(world)
    /\ job # L!Idle => Todo(job, world.tree) /\ (job.confirmed => job.id = shown.id) /\ AtFile(job)

LEMMA TailText ==
    ASSUME NEW s, IsText(s), s # <<>>
    PROVE  /\ IsText(Tail(s)) /\ \A i \in 1..Len(Tail(s)) : i + 1 \in 1..Len(s) /\ Tail(s)[i] = s[i + 1]
           /\ 1 \in 1..Len(s) /\ Head(s) = s[1]
<1> DEFINE S == LinesOf(s)
<1>1. s \in Seq(S) /\ Len(s) # 0 /\ Len(s) \in Nat
  BY TextIsSeq, EmptyText DEF LinesOf, IsText
<1> HIDE DEF S
<1>2. Tail(s) \in Seq(S) /\ Len(Tail(s)) = Len(s) - 1 /\ \A i \in 1..(Len(s) - 1) : Tail(s)[i] = s[i + 1]
  BY <1>1, HeadTailProperties
<1>3. Head(s) = s[1]
  BY <1>1
<1>4. IsText(Tail(s))
  BY <1>2, SeqIsText
<1>5. 1 \in 1..Len(s) /\ \A i \in 1..(Len(s) - 1) : i + 1 \in 1..Len(s)
  BY <1>1
<1> QED
  BY <1>2, <1>3, <1>4, <1>5

(* The same job, carried on or one operation further.                           *)
LEMMA CarriedOn ==
    ASSUME ConfInv, job # L!Idle, SameLinks(world.tree, world'.tree), IsWorld(world'), shown' = shown,
           job'.todo = job.todo \/ (job.todo # <<>> /\ job'.todo = Tail(job.todo)),
           job'.id = job.id, job'.authorized = job.authorized, job'.confirmed = job.confirmed, AtFile(job')
    PROVE  ConfInv'
<1>1. IsText(job'.todo) /\ \A i \in 1..Len(job'.todo) : \E k \in 1..Len(job.todo) : job'.todo[i] = job.todo[k]
  <2>1. CASE job'.todo = job.todo
    BY <2>1 DEF ConfInv, Todo
  <2>2. CASE job.todo # <<>> /\ job'.todo = Tail(job.todo)
    <3>1. IsText(job.todo)
      BY DEF ConfInv, Todo
    <3> QED
      BY <2>2, <3>1, TailText
  <2> QED
    BY <2>1, <2>2
<1>2. \A k \in 1..Len(job.todo) : OpFine(job.todo[k], world'.tree, job.id, job.authorized, job.confirmed)
  BY FineSame DEF ConfInv, Todo
<1>3. Todo(job', world'.tree)
  BY <1>1, <1>2 DEF Todo
<1>4. job'.confirmed => job'.id = shown'.id
  BY DEF ConfInv
<1> QED
  BY <1>3, <1>4 DEF ConfInv, IsWorld, Todo, AtFile, Sound, Looked, OpFine, DirectoryFine, MoveFine, MayWrite, IsText

LEMMA Ended ==
    ASSUME IsWorld(world'), job' = L!Idle
    PROVE  ConfInv'
BY DEF ConfInv, IsWorld, Sound, Looked, IsText, L!Idle

(* What an operation touches.                                                   *)
LEMMA TouchedOne ==
    ASSUME NEW p, NEW node, world'.tree = L!Put(world.tree, p, node)
    PROVE  \A path \in L!Touched : path = p /\ world'.tree[path] = node
BY DEF L!Touched, L!Put, L!NodeAt

LEMMA TouchedTwo ==
    ASSUME NEW p, NEW q, NEW a, NEW b, world'.tree = L!Put(L!Put(world.tree, p, a), q, b)
    PROVE  \A path \in L!Touched : path \in {p, q}
BY DEF L!Touched, L!Put, L!NodeAt

LEMMA TouchedNone == ASSUME world' = world PROVE L!Touched = {}
BY DEF L!Touched, L!NodeAt

LEMMA AllowedMove ==
    ASSUME ConfInv, job # L!Idle, job.todo # <<>>, Head(job.todo).kind \in {"git", "file"}
    PROVE  /\ job.confirmed /\ job.id = shown.id
           /\ MoveFine(Head(job.todo), world.tree, shown.id, job.authorized)
<1>1. OpFine(Head(job.todo), world.tree, job.id, job.authorized, job.confirmed)
  BY TailText DEF ConfInv, Todo
<1>2. ~DirectoryFine(Head(job.todo), world.tree, job.id, job.authorized)
  BY DEF DirectoryFine
<1> QED
  BY <1>1, <1>2 DEF OpFine, ConfInv

LEMMA AllowedPaths ==
    ASSUME job.confirmed, NEW S, \A path \in L!Touched : path \in S,
           \A path \in S : MayWrite(path, shown.id, job.authorized)
    PROVE  L!ChangesWhatWasConfirmed
BY DEF L!ChangesWhatWasConfirmed, MayWrite

LEMMA AllowedDirectory ==
    ASSUME ConfInv, job # L!Idle, job.todo # <<>>, Head(job.todo).kind = "directory",
           world'.tree = L!Put(world.tree, Head(job.todo).path, L!Dir)
    PROVE  L!ChangesWhatWasConfirmed
<1> DEFINE op == Head(job.todo)
<1>1. OpFine(op, world.tree, job.id, job.authorized, job.confirmed)
  BY TailText DEF ConfInv, Todo
<1>2. DirectoryFine(op, world.tree, job.id, job.authorized)
  BY <1>1 DEF OpFine, MoveFine
<1>3. \A path \in L!Touched : path = op.path /\ world'.tree[path] = L!Dir
  BY TouchedOne
<1> HIDE DEF op
<1>4. op.path \in {L!Target(world.tree, d).resolved : d \in L!Range(L!CanonicalDirs)}
  <2>1. PICK d \in L!Range(L!CanonicalDirs) : op.path = L!Real(world.tree, d)
    BY <1>2 DEF DirectoryFine
  <2>2. IsText(d)
    BY CanonicalAre DEF L!Range
  <2>3. Sound(world.tree)
    BY DEF ConfInv, IsWorld
  <2> QED
    BY <2>1, <2>2, <2>3, TargetIsReal
<1>5. op.path \in L!Listed(job.id) /\ (~L!InProject(op.path) => job.authorized) /\ (job.confirmed => job.id = shown.id)
  BY <1>2 DEF DirectoryFine, MayWrite, ConfInv
<1> QED
  BY <1>3, <1>4, <1>5 DEF L!ChangesWhatWasConfirmed, L!tree

LEMMA WorldIs ==
    ASSUME NEW t, NEW index, world' = L!World(t, index), SameLinks(world.tree, world'.tree), ConfInv
    PROVE  IsWorld(world') /\ world'.tree = t
<1>1. world' = [tree |-> t, index |-> index, git |-> world.git, lock |-> world.lock, sparse |-> world.sparse]
  BY DEF L!World
<1>2. Sound(world'.tree)
  BY SoundSame DEF ConfInv, IsWorld
<1> QED
  BY <1>1, <1>2 DEF IsWorld

LEMMA WithWorld ==
    ASSUME NEW path, NEW node, L!With(path, node), SameLinks(world.tree, world'.tree), ConfInv
    PROVE  IsWorld(world') /\ world'.tree = L!Put(world.tree, path, node)
BY WorldIs DEF L!With, L!tree

LEMMA SameWorld ==
    ASSUME world' = world, ConfInv
    PROVE  IsWorld(world') /\ L!ChangesWhatWasConfirmed
BY TouchedNone DEF ConfInv, L!ChangesWhatWasConfirmed

LEMMA ConfStart ==
    ASSUME ConfInv, L!Command
    PROVE  ConfInv' /\ L!ChangesWhatWasConfirmed
<1>1. job = L!Idle /\ world' = world
  BY DEF L!Command, L!Begin
<1>2. L!ChangesWhatWasConfirmed
  BY <1>1, SameWorld
<1>3. IsWorld(world') /\ IsWorld(world) /\ Sound(world.tree)
  BY <1>1, SameWorld DEF ConfInv, IsWorld
<1>4. CASE job' = job
  BY <1>1, <1>2, <1>3, <1>4, Ended
<1>5. CASE \E o \in L!Options, authorize \in BOOLEAN, confirmed \in BOOLEAN : Beginning(L!BuildPlan(world, o), authorize, confirmed)
  <2>1. PICK o, authorize, confirmed : Beginning(L!BuildPlan(world, o), authorize, confirmed)
    BY <1>5, Zenon
  <2> DEFINE built == L!BuildPlan(world, o)
             id == built.id
  <2>2. /\ job'.at = "step" /\ job'.id = id /\ job'.todo = L!Operations(id)
        /\ job'.authorized = authorize /\ job'.confirmed = confirmed
    BY <2>1, StartedIs DEF Beginning
  <2>3. ~built.refused /\ (L!WritesOutside(id) => authorize)
    BY <2>1, StatusOk DEF Beginning
  <2>4. (confirmed \/ id.scaffoldOnly) /\ (confirmed => id = shown.id) /\ shown' = shown
    BY <2>1 DEF Beginning
  <2>5. PICK dirs, bound, records : PlanIs(id, dirs, bound, records, world)
    BY <2>3, PlanParts
  <2> HIDE DEF built, id
  <2>6. Todo(job', world.tree)
    BY <1>3, <2>2, <2>3, <2>4, <2>5, OperationsFine DEF Todo
  <2>7. AtFile(job') /\ (job'.confirmed => job'.id = shown'.id)
    BY <2>2, <2>4 DEF AtFile, Calls
  <2>8. Todo(job', world'.tree)
    BY <1>1, <2>6
  <2>9. Todo(job, world.tree)' /\ AtFile(job)' /\ IsWorld(world)' /\ (job.confirmed => job.id = shown.id)'
    BY <1>3, <2>7, <2>8 DEF Todo, AtFile, IsWorld, OpFine, DirectoryFine, MoveFine, MayWrite, IsText, Sound, Looked
  <2> QED
    BY <1>2, <2>9 DEF ConfInv
<1> QED
  BY <1>2, <1>4, <1>5, Begun

LEMMA ConfStep ==
    ASSUME MoveInv, ConfInv, LinksArePaths, L!Next
    PROVE  ConfInv' /\ L!ChangesWhatWasConfirmed
<1>0. job # L!Idle => Ops(job) /\ SameLinks(world.tree, world'.tree)
  BY MoveStep DEF MoveInv
<1>i. \A at \in {"step"} \cup Calls : job.at = at => job # L!Idle
  BY DEF L!Idle, Calls
<1>1. CASE L!Command
  BY <1>1, ConfStart
<1>2. CASE L!MakeDirectory
  <2>1. /\ job # L!Idle /\ job.todo # <<>> /\ Head(job.todo).kind = "directory" /\ shown' = shown
    BY <1>2, <1>i DEF L!MakeDirectory, L!Operation, L!Unchanged
  <2>2. L!Done \/ job' = L!Idle
    BY <1>2 DEF L!MakeDirectory, L!Stop
  <2>3. world' = world \/ L!With(Head(job.todo).path, L!Dir)
    BY <1>2 DEF L!MakeDirectory
  <2>4. IsWorld(world') /\ L!ChangesWhatWasConfirmed
    BY <1>0, <2>1, <2>3, WithWorld, SameWorld, AllowedDirectory
  <2>5. ConfInv'
    <3>1. CASE L!Done
      <4>1. AtFile(job')
        BY <1>0, <2>1, <3>1, StepIs DEF AtFile, Calls
      <4> QED
        BY <1>0, <2>1, <2>4, <3>1, <4>1, StepIs, CarriedOn
    <3> QED
      BY <2>2, <2>4, <3>1, Ended
  <2> QED
    BY <2>4, <2>5
<1>3. CASE L!GitMove
  <2> DEFINE op == Head(job.todo)
             from == L!From(op)
             to == L!Located(world.tree, op.move.destination)
             node == L!NodeAt(world.tree, from)
             moved == L!Put(L!Put(world.tree, to, node), from, L!Absent)
  <2>1. /\ job # L!Idle /\ job.todo # <<>> /\ op.kind = "git" /\ shown' = shown
    BY <1>3, <1>i DEF L!GitMove, L!Operation, L!Unchanged
  <2>2. L!Done \/ job' = L!Idle
    BY <1>3 DEF L!GitMove, L!Stop
  <2>3. world' = world \/ \E index : world' = L!World(moved, index)
    BY <1>3 DEF L!GitMove, L!Moved, L!tree
  <2>4. /\ job.confirmed /\ MayWrite(to, shown.id, job.authorized) /\ MayWrite(from, shown.id, job.authorized)
    BY <2>1, AllowedMove DEF MoveFine, L!From, L!tree
  <2> HIDE DEF to, from, node
  <2>5. IsWorld(world') /\ L!ChangesWhatWasConfirmed
    <3>1. CASE world' = world
      BY <3>1, SameWorld
    <3>2. CASE \E index : world' = L!World(moved, index)
      <4>1. IsWorld(world') /\ world'.tree = moved
        BY <1>0, <2>1, <3>2, WorldIs
      <4>2. \A path \in L!Touched : path \in {to, from}
        BY <4>1, TouchedTwo
      <4> QED
        BY <2>4, <4>1, <4>2, AllowedPaths
    <3> QED
      BY <2>3, <3>1, <3>2
  <2>6. ConfInv'
    <3>1. CASE L!Done
      <4>1. AtFile(job')
        BY <1>0, <2>1, <3>1, StepIs DEF AtFile, Calls
      <4> QED
        BY <1>0, <2>1, <2>5, <3>1, <4>1, StepIs, CarriedOn
    <3> QED
      BY <2>2, <2>5, <3>1, Ended
  <2> QED
    BY <2>5, <2>6
<1>4. CASE L!StatFails \/ L!PostCheck
  <2>1. job' = L!Idle /\ world' = world
    BY <1>4 DEF L!StatFails, L!PostCheck, L!Stop
  <2> QED
    BY <2>1, SameWorld, Ended
<1>5. CASE L!Kill
  <2>1. job' = L!Idle /\ world' = world
    BY <1>5 DEF L!Kill, L!Stop
  <2> QED
    BY <2>1, SameWorld, Ended
<1>6. CASE L!LinkFile
  <2> DEFINE op == Head(job.todo)
  <2>1. /\ job # L!Idle /\ job.todo # <<>> /\ op.kind = "file" /\ shown' = shown
    BY <1>6, <1>i DEF L!LinkFile, L!Operation, L!Unchanged
  <2>2. job.confirmed /\ MayWrite(op.to, shown.id, job.authorized)
    BY <2>1, AllowedMove DEF MoveFine
  <2>3. world' = world \/ \E node : L!With(op.to, node)
    BY <1>6 DEF L!LinkFile
  <2>4. \/ job' = L!Idle
        \/ \E at \in {"look", "unlink"} : job' = [job EXCEPT !.at = at, !.attempted = TRUE]
    BY <1>6 DEF L!LinkFile, L!Stop
  <2>5. IsWorld(world') /\ L!ChangesWhatWasConfirmed
    <3> HIDE DEF op
    <3>1. CASE \E node : L!With(op.to, node)
      <4>1. PICK node : L!With(op.to, node)
        BY <3>1
      <4>2. IsWorld(world') /\ world'.tree = L!Put(world.tree, op.to, node)
        BY <1>0, <2>1, <4>1, WithWorld
      <4>3. \A path \in L!Touched : path \in {op.to}
        BY <4>2, TouchedOne
      <4> QED
        BY <2>2, <4>2, <4>3, AllowedPaths
    <3> QED
      BY <2>3, <3>1, SameWorld
  <2>6. CASE \E at \in {"look", "unlink"} : job' = [job EXCEPT !.at = at, !.attempted = TRUE]
    <3>1. PICK at, x : Onward(job', job, at, x)
      BY <2>6, Zenon DEF Onward
    <3>2. OpsAt(job', job, at)
      BY <1>0, <2>1, <3>1, OnwardIs
    <3>3. AtFile(job')
      BY <2>1, <3>2 DEF OpsAt, AtFile
    <3> QED
      BY <1>0, <2>1, <2>5, <3>2, <3>3, CarriedOn DEF OpsAt
  <2> QED
    BY <2>4, <2>5, <2>6, Ended
<1>j. ASSUME job.at \in Calls, shown' = shown, world' = world \/ \E node : L!With(L!To, node),
             job' = L!Idle \/ (\E at : Turned(job', job, at)) \/ (\E y : Sighted(job', job, y))
      PROVE  ConfInv' /\ L!ChangesWhatWasConfirmed
  <2> DEFINE op == Head(job.todo)
  <2>1. /\ job # L!Idle /\ job.todo # <<>> /\ op.kind = "file"
    BY <1>j, <1>i DEF ConfInv, AtFile
  <2>2. job.confirmed /\ MayWrite(L!To, shown.id, job.authorized)
    BY <2>1, AllowedMove DEF MoveFine, L!To
  <2>3. IsWorld(world') /\ L!ChangesWhatWasConfirmed
    <3>1. CASE \E node : L!With(L!To, node)
      <4>1. PICK node : L!With(L!To, node)
        BY <3>1
      <4>2. IsWorld(world') /\ world'.tree = L!Put(world.tree, L!To, node)
        BY <1>0, <2>1, <4>1, WithWorld
      <4>3. \A path \in L!Touched : path \in {L!To}
        BY <4>2, TouchedOne
      <4> QED
        BY <2>2, <4>2, <4>3, AllowedPaths
    <3> QED
      BY <1>j, <3>1, SameWorld
  <2>4. CASE (\E at : Turned(job', job, at)) \/ (\E y : Sighted(job', job, y))
    <3>1. PICK at : OpsAt(job', job, at)
      BY <1>0, <2>1, <2>4, AtIsOnward, SightedIs
    <3>2. AtFile(job')
      BY <2>1, <3>1 DEF OpsAt, AtFile
    <3> QED
      BY <1>0, <1>j, <2>1, <2>3, <3>1, <3>2, CarriedOn DEF OpsAt
  <2> QED
    BY <1>j, <2>3, <2>4, Ended
<1>k. ASSUME L!CopyFails
      PROVE  job' = L!Idle \/ (\E at : Turned(job', job, at))
  BY <1>k DEF L!CopyFails, L!Stop, Turned
<1>7. CASE L!Look \/ L!CopyFile \/ L!FinishCopy \/ L!CleanUp
  <2>1. job.at \in Calls /\ shown' = shown
    BY <1>7, Zenon DEF L!Look, L!CopyFile, L!FinishCopy, L!CleanUp, L!Unchanged, Calls
  <2>2. world' = world \/ \E node : L!With(L!To, node)
    <3>1. \A mtime, whole : L!Copies(mtime, whole) => \E node : L!With(L!To, node)
      BY Zenon DEF L!Copies
    <3> QED
      BY <1>7, <3>1, Zenon DEF L!Look, L!CopyFile, L!FinishCopy, L!CleanUp
  <2>3. job' = L!Idle \/ (\E at : Turned(job', job, at)) \/ (\E y : Sighted(job', job, y))
    <3>1. CASE L!Look
      BY <3>1 DEF L!Look, L!Stop, Sighted
    <3>2. CASE L!CopyFile \/ L!FinishCopy
      BY <1>k, <3>2, Zenon DEF L!CopyFile, L!FinishCopy, L!Stop, Turned
    <3>3. CASE L!CleanUp
      BY <3>3, Zenon DEF L!CleanUp, L!Stop
    <3> QED
      BY <1>7, <3>1, <3>2, <3>3
  <2> QED
    BY <1>j, <2>1, <2>2, <2>3
<1>8. CASE L!UnlinkSource
  <2> DEFINE op == Head(job.todo)
             from == L!From(op)
  <2>0. job.at = "unlink" /\ shown' = shown
    BY <1>8, Zenon DEF L!UnlinkSource
  <2>1. /\ job # L!Idle /\ job.todo # <<>> /\ op.kind = "file" /\ shown' = shown
    BY <2>0, <1>i DEF ConfInv, AtFile, Calls
  <2>2. job.confirmed /\ MayWrite(from, shown.id, job.authorized)
    BY <2>1, AllowedMove DEF MoveFine, L!From, L!tree
  <2>3. (L!With(from, L!Absent) /\ L!Done) \/ (world' = world /\ job' = L!Idle)
    BY <1>8 DEF L!UnlinkSource, L!Stop
  <2> HIDE DEF op, from
  <2>4. CASE L!With(from, L!Absent) /\ L!Done
    <3>1. IsWorld(world') /\ world'.tree = L!Put(world.tree, from, L!Absent)
      BY <1>0, <2>1, <2>4, WithWorld
    <3>2. \A path \in L!Touched : path \in {from}
      BY <3>1, TouchedOne
    <3>3. L!ChangesWhatWasConfirmed
      BY <2>2, <3>2, AllowedPaths
    <3>4. AtFile(job')
      BY <1>0, <2>1, <2>4, StepIs DEF AtFile, Calls
    <3>5. ConfInv'
      BY <1>0, <2>1, <2>4, <3>1, <3>4, StepIs, CarriedOn
    <3> QED
      BY <3>3, <3>5
  <2>5. CASE world' = world /\ job' = L!Idle
    BY <2>5, SameWorld, Ended
  <2> QED
    BY <2>3, <2>4, <2>5
<1>9. CASE \E e \in Edits : L!Edit(e)
  <2>1. PICK e \in Edits : L!Edit(e)
    BY <1>9
  <2>2. job = L!Idle /\ job' = job /\ world' = AfterEdit(world, e)
    BY <2>1 DEF L!Edit
  <2>3. IsWorld(world')
    BY <2>2 DEF ConfInv, LinksArePaths
  <2>4. L!ChangesWhatWasConfirmed
    BY <2>2 DEF L!ChangesWhatWasConfirmed, L!Step
  <2> QED
    BY <2>2, <2>3, <2>4, Ended
<1>10. CASE L!Drop
  <2>1. PICK made \in Dropped : L!With(made.path, made.node)
    BY <1>10 DEF L!Drop
  <2>2. job # L!Idle /\ job' = job /\ shown' = shown /\ edits' = edits + 1
    BY <1>10 DEF L!Drop
  <2>3. IsWorld(world')
    BY <1>0, <2>1, <2>2, WithWorld
  <2>4. ConfInv'
    <3>1. AtFile(job')
      BY <2>2 DEF ConfInv
    <3> QED
      BY <1>0, <2>2, <2>3, <3>1, CarriedOn
  <2>5. L!ChangesWhatWasConfirmed
    <3>1. edits' # edits
      BY <2>2 DEF MoveInv
    <3> QED
      BY <3>1 DEF L!ChangesWhatWasConfirmed, L!Step
  <2> QED
    BY <2>4, <2>5
<1> QED
  BY <1>1, <1>2, <1>3, <1>4, <1>5, <1>6, <1>7, <1>8, <1>9, <1>10 DEF L!Next

LEMMA ConfInit ==
    ASSUME L!Init, LinksArePaths
    PROVE  ConfInv
BY DEF L!Init, ConfInv, LinksArePaths

LEMMA ConfUnchanged ==
    ASSUME UNCHANGED <<layout, job, edits, faults, commands>>
    PROVE  (ConfInv => ConfInv') /\ L!ChangesWhatWasConfirmed
<1>1. world' = world /\ job' = job /\ shown' = shown
  BY DEF layout
<1>2. L!ChangesWhatWasConfirmed
  BY <1>1, TouchedNone DEF L!ChangesWhatWasConfirmed
<1>3. ConfInv => ConfInv'
  BY <1>1 DEF ConfInv, Todo, AtFile, IsWorld, OpFine, DirectoryFine, MoveFine, MayWrite, IsText, Sound, Looked
<1> QED
  BY <1>2, <1>3

(* Apply changes only what the user was shown and confirmed, where it resolved when *)
(* it was shown, and outside the project only with authority; without a plan id *)
(* it makes the directories of the project and nothing else.                    *)
THEOREM AppliesWhatWasConfirmed ==
    ASSUME LinksArePaths
    PROVE  Spec => OnlyConfirmed
<1> DEFINE Both == tool = "layout" => MoveInv /\ ConfInv
<1>1. Init => Both
  BY MoveInit, ConfInit DEF Init
<1>2. Both /\ [Next]_vars => Both' /\ [tool = "layout" => L!ChangesWhatWasConfirmed]_vars
  <2> SUFFICES ASSUME Both, [Next]_vars PROVE Both' /\ (tool = "layout" => L!ChangesWhatWasConfirmed)
    OBVIOUS
  <2>1. CASE tool = "layout" /\ L!Next
    BY <2>1, MoveStep, ConfStep, LayoutStep
  <2>2. CASE ~(tool = "layout" /\ L!Next)
    BY <2>2, MoveUnchanged, ConfUnchanged, LayoutStep
  <2> QED
    BY <2>1, <2>2
<1> QED
  BY <1>1, <1>2, PTL DEF Spec, OnlyConfirmed
================================================================================
