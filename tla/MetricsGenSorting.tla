------------------------- MODULE MetricsGenSorting -------------------------
(***************************************************************************)
(* Proofs about the sort stage of MetricsGen (main.go:99 and bySubsystem, *)
(* main.go:222-249): every order SortedOrders admits is a permutation of  *)
(* the surviving positions in which no record comes after one it must     *)
(* precede, and therefore the metrics without a subsystem are rendered    *)
(* before every "##" section.                                              *)
(*                                                                         *)
(* SortedOrders is built by the recursive function SortedPrefixes.  The   *)
(* proof names what that function computes without recursion              *)
(* (SortedPrefix), shows that this closed form satisfies the recursive    *)
(* equation, and concludes by a least-counterexample argument on the      *)
(* well-founded < of the naturals that the two agree at every length.     *)
(***************************************************************************)
EXTENDS MetricsGenProofs, WellFoundedInduction

\* the orders of k positions of L in which each position is one sort.Slice
\* may place after the ones before it
SortedPrefix(s, L, k) ==
    {o \in [1..k -> L] : \A a \in 1..k : o[a] \in SortCandidates(s, L, SubSeq(o, 1, a - 1))}

\* the orders of X, each extended by one more position sort.Slice may place
ExtendSorted(s, L, X) == UNION {{Append(o, i) : i \in SortCandidates(s, L, o)} : o \in X}

-----------------------------------------------------------------------------
(* Lemmas about sequences as functions on 1..k and their prefixes.         *)

LEMMA FunIsSeq ==
    ASSUME NEW S, NEW k \in Nat, NEW o \in [1..k -> S]
    PROVE  o \in Seq(S) /\ Len(o) = k
<1>1. o \in Seq(S)
  BY SeqDef
<1>2. DOMAIN o = 1..Len(o) /\ Len(o) \in Nat
  BY <1>1, LenProperties
<1>. QED  BY <1>1, <1>2

LEMMA PrefixOfPrefix ==
    ASSUME NEW S, NEW p \in Seq(S), NEW j \in 0..Len(p), NEW a \in 1..(j + 1)
    PROVE  SubSeq(SubSeq(p, 1, j), 1, a - 1) = SubSeq(p, 1, a - 1)
<1>1. SubSeq(p, 1, j) \in Seq(S) /\ Len(SubSeq(p, 1, j)) = j
      /\ \A i \in 1..j : SubSeq(p, 1, j)[i] = p[i]
  BY SubSeqProperties, LenProperties
<1>2. SubSeq(SubSeq(p, 1, j), 1, a - 1) \in Seq(S)
      /\ Len(SubSeq(SubSeq(p, 1, j), 1, a - 1)) = a - 1
      /\ \A i \in 1..(a - 1) : SubSeq(SubSeq(p, 1, j), 1, a - 1)[i] = p[i]
  BY <1>1, SubSeqProperties, LenProperties
<1>3. SubSeq(p, 1, a - 1) \in Seq(S) /\ Len(SubSeq(p, 1, a - 1)) = a - 1
      /\ \A i \in 1..(a - 1) : SubSeq(p, 1, a - 1)[i] = p[i]
  BY SubSeqProperties, LenProperties
<1>. QED  BY <1>2, <1>3, SeqEqual

LEMMA PrefixOfAppend ==
    ASSUME NEW S, NEW o \in Seq(S), NEW i \in S, NEW a \in 1..(Len(o) + 1)
    PROVE  SubSeq(Append(o, i), 1, a - 1) = SubSeq(o, 1, a - 1)
<1>1. Append(o, i) \in Seq(S) /\ Len(Append(o, i)) = Len(o) + 1
      /\ \A j \in 1..Len(o) : Append(o, i)[j] = o[j]
  BY AppendProperties
<1>2. SubSeq(Append(o, i), 1, a - 1) \in Seq(S)
      /\ Len(SubSeq(Append(o, i), 1, a - 1)) = a - 1
      /\ \A j \in 1..(a - 1) : SubSeq(Append(o, i), 1, a - 1)[j] = o[j]
  BY <1>1, SubSeqProperties, LenProperties
<1>3. SubSeq(o, 1, a - 1) \in Seq(S) /\ Len(SubSeq(o, 1, a - 1)) = a - 1
      /\ \A j \in 1..(a - 1) : SubSeq(o, 1, a - 1)[j] = o[j]
  BY SubSeqProperties, LenProperties
<1>. QED  BY <1>2, <1>3, SeqEqual

-----------------------------------------------------------------------------
(* The closed form satisfies the equation of SortedPrefixes.               *)

LEMMA SortedPrefixZero ==
    ASSUME NEW s, NEW L
    PROVE  SortedPrefix(s, L, 0) = {<< >>}
<1>1. ASSUME NEW o \in SortedPrefix(s, L, 0) PROVE o = << >>
  <2>1. o \in [1..0 -> L]
    BY DEF SortedPrefix
  <2>. QED  BY <2>1, FunIsSeq, EmptySeq
<1>2. << >> \in SortedPrefix(s, L, 0)
  <2>1. << >> \in [1..0 -> L]
    BY EmptySeq, LenProperties
  <2>. QED  BY <2>1 DEF SortedPrefix
<1>. QED  BY <1>1, <1>2

LEMMA SortedPrefixStep ==
    ASSUME NEW s, NEW L, NEW k \in Nat \ {0}
    PROVE  SortedPrefix(s, L, k) = ExtendSorted(s, L, SortedPrefix(s, L, k - 1))
<1>1. ASSUME NEW p \in SortedPrefix(s, L, k)
      PROVE  p \in ExtendSorted(s, L, SortedPrefix(s, L, k - 1))
  <2> DEFINE o == SubSeq(p, 1, k - 1)
  <2>1. p \in [1..k -> L] /\ \A a \in 1..k : p[a] \in SortCandidates(s, L, SubSeq(p, 1, a - 1))
    BY <1>1 DEF SortedPrefix
  <2>2. p \in Seq(L) /\ Len(p) = k
    BY <2>1, FunIsSeq
  <2>3. o \in Seq(L) /\ Len(o) = k - 1 /\ \A a \in 1..(k - 1) : o[a] = p[a]
    BY <2>2, SubSeqProperties
  <2>4. o \in [1..(k - 1) -> L]
    BY <2>3, LenProperties
  <2>5. ASSUME NEW a \in 1..(k - 1)
        PROVE  o[a] \in SortCandidates(s, L, SubSeq(o, 1, a - 1))
    <3>1. p[a] \in SortCandidates(s, L, SubSeq(p, 1, a - 1))
      BY <2>1
    <3>2. SubSeq(o, 1, a - 1) = SubSeq(p, 1, a - 1)
      BY <2>2, PrefixOfPrefix
    <3>. QED  BY <2>3, <3>1, <3>2, Zenon
  <2>6. o \in SortedPrefix(s, L, k - 1)
    BY <2>4, <2>5, Zenon DEF SortedPrefix
  <2>7. p[k] \in SortCandidates(s, L, o)
    BY <2>1
  <2>8. p = Append(o, p[k])
    <3>1. Append(o, p[k]) \in Seq(L) /\ Len(Append(o, p[k])) = k
          /\ \A a \in 1..k : Append(o, p[k])[a] = p[a]
      BY <2>2, <2>3, AppendProperties, ElementOfSeq
    <3>. QED  BY <2>2, <3>1, SeqEqual
  <2>9. p \in {Append(o, i) : i \in SortCandidates(s, L, o)}
    BY <2>7, <2>8
  <2>. QED  BY <2>6, <2>9 DEF ExtendSorted
<1>2. ASSUME NEW o \in SortedPrefix(s, L, k - 1), NEW i \in SortCandidates(s, L, o)
      PROVE  Append(o, i) \in SortedPrefix(s, L, k)
  <2> DEFINE p == Append(o, i)
  <2>1. o \in [1..(k - 1) -> L]
        /\ \A a \in 1..(k - 1) : o[a] \in SortCandidates(s, L, SubSeq(o, 1, a - 1))
    BY <1>2 DEF SortedPrefix
  <2>2. i \in L
    BY <1>2 DEF SortCandidates
  <2>3. o \in Seq(L) /\ Len(o) = k - 1
    BY <2>1, FunIsSeq
  <2>4. /\ p \in Seq(L) /\ Len(p) = k
        /\ \A a \in 1..(k - 1) : p[a] = o[a]
        /\ p[k] = i
    BY <2>2, <2>3, AppendProperties
  <2>5. p \in [1..k -> L]
    BY <2>4, LenProperties
  <2>6. ASSUME NEW a \in 1..k
        PROVE  p[a] \in SortCandidates(s, L, SubSeq(p, 1, a - 1))
    <3>1. SubSeq(p, 1, a - 1) = SubSeq(o, 1, a - 1)
      BY <2>2, <2>3, PrefixOfAppend
    <3>2. CASE a < k
      <4>1. o[a] \in SortCandidates(s, L, SubSeq(o, 1, a - 1))
        BY <3>2, <2>1
      <4>2. p[a] = o[a]
        BY <3>2, <2>4
      <4>. QED  BY <3>1, <4>1, <4>2, Zenon
    <3>3. CASE a = k
      <4>1. SubSeq(o, 1, a - 1) = o
        BY <3>3, <2>3, SubSeqFull
      <4>2. p[a] = i
        BY <3>3, <2>4
      <4>. QED  BY <1>2, <3>1, <4>1, <4>2, Zenon
    <3>4. a < k \/ a = k
      OBVIOUS
    <3>. QED  BY <3>2, <3>3, <3>4
  <2>. QED  BY <2>5, <2>6, Zenon DEF SortedPrefix
<1>3. ASSUME NEW x \in ExtendSorted(s, L, SortedPrefix(s, L, k - 1))
      PROVE  x \in SortedPrefix(s, L, k)
  <2>1. PICK o \in SortedPrefix(s, L, k - 1) : x \in {Append(o, i) : i \in SortCandidates(s, L, o)}
    BY <1>3 DEF ExtendSorted
  <2>2. PICK i \in SortCandidates(s, L, o) : x = Append(o, i)
    BY <2>1
  <2>. QED  BY <1>2, <2>2
<1>. QED  BY <1>1, <1>3

-----------------------------------------------------------------------------
(* The order < of the naturals as a relation, for the least-counterexample *)
(* argument.                                                               *)

NatLess == OpToRel(<, Nat)

LEMMA NatLessWellFounded == IsWellFoundedOn(NatLess, Nat)
BY NatLessThanWellFounded, Zenon DEF NatLess

LEMMA NatLessMember ==
    ASSUME NEW i \in Nat, NEW j \in Nat, i < j
    PROVE  <<i, j>> \in NatLess
<1>1. <<i, j>> \in Nat \X Nat
  OBVIOUS
<1>. QED  BY <1>1 DEF NatLess, OpToRel

(* SortedPrefixes computes the closed form: both functions satisfy the    *)
(* recursive equation, and a least length at which they differ would      *)
(* contradict the equation one length below it.                           *)

LEMMA SortedPrefixesClosedForm ==
    ASSUME NEW s, NEW L, IsFiniteSet(L), NEW k \in 0..Cardinality(L)
    PROVE  SortedPrefixes(s, L)[k] = SortedPrefix(s, L, k)
<1> DEFINE n == Cardinality(L)
<1> DEFINE Rec == SortedPrefixes(s, L)
<1> DEFINE Closed == [j \in 0..n |-> SortedPrefix(s, L, j)]
<1> DEFINE Equation(f) ==
       f = [j \in 0..n |-> IF j = 0 THEN {<< >>} ELSE ExtendSorted(s, L, f[j - 1])]
<1>1. n \in Nat
  BY FS_CardinalityType
<1>2. Equation(Closed)
  <2>1. ASSUME NEW j \in 0..n
        PROVE  Closed[j] = IF j = 0 THEN {<< >>} ELSE ExtendSorted(s, L, Closed[j - 1])
    <3>1. CASE j = 0
      BY <3>1, SortedPrefixZero
    <3>2. CASE j # 0
      <4>1. j \in Nat \ {0} /\ j - 1 \in 0..n
        BY <1>1, <3>2
      <4>. QED  BY <3>2, <4>1, SortedPrefixStep
    <3>. QED  BY <3>1, <3>2
  <2>. QED  BY <2>1
<1>3. Equation(Rec)
  BY <1>2, Zenon DEF SortedPrefixes, ExtendSorted
<1>4. \A j \in 0..n : Rec[j] = Closed[j]
  <2> DEFINE T == {j \in 0..n : Rec[j] # Closed[j]}
  <2>1. SUFFICES ASSUME T # {} PROVE FALSE
    OBVIOUS
  <2>2. \E m \in T : \A j \in T : ~(<<j, m>> \in NatLess)
    <3>1. T \subseteq Nat
      BY <1>1
    <3>. QED  BY <2>1, <3>1, WFMin, NatLessWellFounded
  <2>3. PICK m \in T : \A j \in T : ~(<<j, m>> \in NatLess)
    BY <2>2
  <2>4. ASSUME NEW j \in T PROVE ~(j < m)
    <3>1. j \in Nat /\ m \in Nat
      BY <1>1
    <3>. QED  BY <3>1, <2>3, NatLessMember
  <2>5. m # 0
    BY <1>2, <1>3, <1>1
  <2>6. Rec[m - 1] = Closed[m - 1]
    <3>1. m - 1 \in 0..n /\ m - 1 < m
      BY <2>5, <1>1
    <3>. QED  BY <3>1, <2>4
  <2>7. Rec[m] = Closed[m]
    <3>1. Rec[m] = ExtendSorted(s, L, Rec[m - 1]) /\ Closed[m] = ExtendSorted(s, L, Closed[m - 1])
      BY <1>2, <1>3, <2>5, <1>1
    <3>. QED  BY <3>1, <2>6
  <2>. QED  BY <2>4, <2>7
<1>. QED  BY <1>4

-----------------------------------------------------------------------------
(* What sort.Slice leaves: a permutation of L in which no position comes  *)
(* after one that bySubsystem says it must precede.                        *)

LEMMA PrefixRange ==
    ASSUME NEW S, NEW o \in Seq(S), NEW j \in 0..Len(o)
    PROVE  Range(SubSeq(o, 1, j)) = {o[c] : c \in 1..j}
<1>1. DOMAIN SubSeq(o, 1, j) = 1..j /\ \A c \in 1..j : SubSeq(o, 1, j)[c] = o[c]
  BY SubSeqProperties, LenProperties
<1>. QED  BY <1>1 DEF Range

LEMMA SortedOrderProperties ==
    ASSUME NEW s, NEW L, IsFiniteSet(L), NEW o \in SortedOrders(s, L)
    PROVE  /\ o \in Seq(L) /\ Len(o) = Cardinality(L)
           /\ Range(o) = L
           /\ \A a, b \in 1..Len(o) : a < b => ~bySubsystem(s[o[b]], s[o[a]])
<1> DEFINE n == Cardinality(L)
<1> DEFINE Rest(a) == L \ Range(SubSeq(o, 1, a - 1))
<1>1. n \in Nat
  BY FS_CardinalityType
<1>2. o \in SortedPrefix(s, L, n)
  BY <1>1, SortedPrefixesClosedForm DEF SortedOrders
<1>3. o \in [1..n -> L] /\ o \in Seq(L) /\ Len(o) = n
  BY <1>1, <1>2, FunIsSeq DEF SortedPrefix
<1>4. ASSUME NEW a \in 1..n
      PROVE  /\ o[a] \in Rest(a)
             /\ \A j \in Rest(a) : ~bySubsystem(s[j], s[o[a]])
  <2>1. o[a] \in SortCandidates(s, L, SubSeq(o, 1, a - 1))
    BY <1>2 DEF SortedPrefix
  <2>. QED  BY <2>1 DEF SortCandidates
<1>5. ASSUME NEW a \in 1..n
      PROVE  Range(SubSeq(o, 1, a - 1)) = {o[c] : c \in 1..(a - 1)}
  BY <1>3, PrefixRange
<1>6. ASSUME NEW c \in 1..n, NEW b \in 1..n, c < b
      PROVE  o[b] # o[c]
  <2>1. Range(SubSeq(o, 1, b - 1)) = {o[i] : i \in 1..(b - 1)}
    BY <1>5
  <2>2. o[c] \in Range(SubSeq(o, 1, b - 1))
    <3>1. c \in 1..(b - 1)
      BY <1>1, <1>6
    <3>. QED  BY <2>1, <3>1
  <2>. QED  BY <2>2, <1>4
<1>7. ASSUME NEW a \in 1..n, NEW b \in 1..n, a < b
      PROVE  ~bySubsystem(s[o[b]], s[o[a]])
  <2>0. ASSUME NEW c \in 1..(a - 1) PROVE o[b] # o[c]
    <3>1. c \in 1..n /\ c < b
      BY <1>1, <1>7
    <3>. QED  BY <3>1, <1>6
  <2>1. o[b] \in L /\ o[b] \notin {o[c] : c \in 1..(a - 1)}
    BY <1>3, <2>0
  <2>2. o[b] \in Rest(a)
    BY <2>1, <1>5
  <2>. QED  BY <2>2, <1>4
<1>8. Range(o) = L
  <2>1. o \in Injection(1..n, L)
    BY <1>3, <1>6 DEF Injection, IsInjective
  <2>2. Cardinality(1..n) = n
    BY <1>1, FS_Interval
  <2>3. o \in Surjection(1..n, L)
    BY <2>1, <2>2, FS_Injection
  <2>. QED  BY <1>3, <2>3 DEF Surjection, Range
<1>. QED  BY <1>3, <1>7, <1>8

-----------------------------------------------------------------------------
(* The sort and render stages.  SortedPermutation is inductive once the   *)
(* render index is known to stay within the order after the loop ends.     *)

\* the stages from the sort on, in which order is the sorted slice
Sorted == {"create", "render", "done", "panic"}

\* SortedPermutation, and the render index bounded by the order when the
\* loop has ended or panicked
SortInv ==
    /\ SortedPermutation
    /\ pc \in {"done", "panic"} => idx <= Len(order) + 1

LEMMA LiveFinite ==
    ASSUME TypeOK
    PROVE  IsFiniteSet(live)
<1>1. IsFiniteSet(DOMAIN allMetrics)
  BY FS_Interval, LenProperties DEF TypeOK
<1>. QED  BY <1>1, FS_Subset DEF TypeOK

\* a step that neither enters nor leaves the sorted stages through the sort,
\* and leaves the slice, the survivors and the order alone
LEMMA SortInvKept ==
    ASSUME TypeOK, SortInv, pc' \in Sorted => pc \in Sorted,
           UNCHANGED <<allMetrics, live, order>>,
           pc' \in {"done", "panic"} => pc \in {"render", "done", "panic"} /\ idx' = idx
    PROVE  SortInv'
<1>1. pc' \in Sorted => SortedPermutation'
  BY DEF SortInv, SortedPermutation, Sorted
<1>2. pc' \in {"done", "panic"} => idx' <= Len(order') + 1
  BY DEF SortInv, TypeOK
<1>. QED  BY <1>1, <1>2 DEF SortInv, SortedPermutation, Sorted

LEMMA SortInvStep ==
    ASSUME TypeOK, SortInv, [Next]_vars
    PROVE  SortInv'
<1>1. CASE SortMetrics
  <2>1. PICK o \in SortedOrders(allMetrics, live) : order' = o
    BY <1>1 DEF SortMetrics
  <2>2. /\ o \in Seq(live) /\ Len(o) = Cardinality(live) /\ Range(o) = live
        /\ \A a, b \in 1..Len(o) : a < b => ~bySubsystem(allMetrics[o[b]], allMetrics[o[a]])
    BY LiveFinite, SortedOrderProperties
  <2>3. pc' = "create" /\ UNCHANGED <<allMetrics, live>>
    BY <1>1, SMTT(30) DEF SortMetrics
  <2>. QED  BY <2>1, <2>2, <2>3 DEF SortInv, SortedPermutation
<1>2. CASE CreateOutput \/ RenderMetric \/ RenderPanic \/ Finish \/ CreateFails
  BY <1>2, SortInvKept DEF CreateOutput, RenderMetric, RenderPanic, Finish, CreateFails,
                           Sorted, TypeOK
<1>3. CASE \/ ParseFailure \/ getPackages \/ NextRoot \/ StartPatterns
           \/ AddKindMetrics \/ AddLegacyMetrics \/ Dedupe \/ DropMetrics
           \/ EndDrop \/ FoldSubsystem \/ EndFold
  <2>1. pc' \notin Sorted
    BY <1>3 DEF ParseFailure, getPackages, NextRoot, StartPatterns, AddKindMetrics,
                AddLegacyMetrics, Dedupe, DropMetrics, EndDrop, FoldSubsystem, EndFold,
                Sorted
  <2>. QED  BY <2>1 DEF SortInv, SortedPermutation, Sorted
<1>4. ASSUME NEW f \in Files, ScanFile(f) \/ ScanFileFatal(f)
      PROVE  SortInv'
  <2>1. pc' \notin Sorted
    BY <1>4 DEF ScanFile, ScanFileFatal, Sorted
  <2>. QED  BY <2>1 DEF SortInv, SortedPermutation, Sorted
<1>5. CASE Terminated \/ UNCHANGED vars
  BY <1>5, SortInvKept DEF Terminated, vars, Sorted
<1>. QED  BY <1>1, <1>2, <1>3, <1>4, <1>5, SMTT(30) DEF Next

\* The render loop walks a permutation of the surviving records that
\* sort.Slice with bySubsystem may leave: every survivor once, none after a
\* record it must precede (main.go:99, bySubsystem at main.go:222-249).
LEMMA SortCorrect == Spec => []SortedPermutation
<1>1. Init => SortInv
  BY DEF Init, SortInv, SortedPermutation
<1>2. TypeOK /\ SortInv /\ [Next]_vars => SortInv'
  BY SortInvStep
<1>3. SortInv => SortedPermutation
  BY DEF SortInv
<1>. QED  BY <1>1, <1>2, <1>3, TypeCorrect, PTL DEF Spec

\* bySubsystem puts a record without subsystem before one with a subsystem:
\* the empty subsystem has the highest priority of the table
LEMMA UngroupedPrecedes ==
    ASSUME NEW l \in MetricInfo, NEW r \in MetricInfo,
           l.subsystem = << >>, r.subsystem # << >>
    PROVE  bySubsystem(l, r)
<1>1. Priority(l.subsystem) = SubSystemSortOrder[<< >>]
  BY SortOrderAssumption DEF Priority
<1>2. Priority(r.subsystem) < SubSystemSortOrder[<< >>]
  BY SortOrderAssumption, TableAssumption DEF Priority
<1>. QED  BY <1>1, <1>2, SortOrderAssumption, TableAssumption DEF bySubsystem

\* The metrics without a subsystem are rendered before every metric with a
\* subsystem, so none is written inside a "##" section: what lets the render
\* loop (main.go:133-166) never reset previousTitle.
THEOREM UngroupedBeforeSections == Spec => []UngroupedFirst
<1>1. TypeOK /\ SortInv => UngroupedFirst
  <2> SUFFICES ASSUME TypeOK, SortInv, pc \in {"render", "done", "panic"},
                      NEW a \in 1..(idx - 1), NEW b \in 1..(idx - 1), a < b,
                      allMetrics[order[a]].subsystem # << >>,
                      allMetrics[order[b]].subsystem = << >>
               PROVE  FALSE
    BY DEF UngroupedFirst
  <2>1. idx - 1 <= Len(order) /\ Len(order) \in Nat /\ idx \in Nat
    <3>1. Len(order) \in Nat /\ idx \in Nat
      BY LenProperties DEF TypeOK
    <3>2. idx <= Len(order) + 1
      <4>1. CASE pc = "render"
        BY <4>1 DEF TypeOK
      <4>2. CASE pc \in {"done", "panic"}
        BY <4>2 DEF SortInv
      <4>. QED  BY <4>1, <4>2
    <3>. QED  BY <3>1, <3>2
  <2>2. ~bySubsystem(allMetrics[order[b]], allMetrics[order[a]])
    <3>1. a \in 1..Len(order) /\ b \in 1..Len(order)
      BY <2>1
    <3>2. \A x, y \in 1..Len(order) :
             x < y => ~bySubsystem(allMetrics[order[y]], allMetrics[order[x]])
      BY DEF SortInv, SortedPermutation
    <3>. QED  BY <3>1, <3>2
  <2>3. allMetrics[order[a]] \in MetricInfo /\ allMetrics[order[b]] \in MetricInfo
    <3>1. order[a] \in DOMAIN allMetrics /\ order[b] \in DOMAIN allMetrics
      BY <2>1, ElementOfSeq, SMTT(30) DEF TypeOK
    <3>. QED  BY <3>1, LenProperties, SMTT(30) DEF TypeOK
  <2>. QED  BY <2>2, <2>3, UngroupedPrecedes
<1>2. TypeOK /\ SortInv /\ [Next]_vars => SortInv'
  BY SortInvStep
<1>3. Init => SortInv
  BY DEF Init, SortInv, SortedPermutation
<1>. QED  BY <1>1, <1>2, <1>3, TypeCorrect, PTL DEF Spec

=============================================================================
