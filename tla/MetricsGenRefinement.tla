------------------------- MODULE MetricsGenRefinement -------------------------
(***************************************************************************)
(* Proof that the dedupe, drop and fold loops of main() implement the      *)
(* Normalizer's contract: Spec => Abs!ASpec, for every value of the        *)
(* constants that meets the assumptions of MetricsGen.                     *)
(***************************************************************************)
EXTENDS MetricsGenProofs

-----------------------------------------------------------------------------
(* The dedupe key identifies the triple.                                   *)

\* The parts a, b of one key are the parts c, d of another.
SameParts(a, b, c, d) == a = c /\ b = d

\* Two strings joined by a "/" that occurs in neither first part split back
\* into the same parts.
LEMMA SlashSplit ==
    ASSUME NEW a \in Str, NEW c \in Str,
           NEW b \in Seq(Chars \cup {Slash}), NEW d \in Seq(Chars \cup {Slash}),
           (a \o <<Slash>>) \o b = (c \o <<Slash>>) \o d
    PROVE  SameParts(a, b, c, d)
<1> DEFINE x == (a \o <<Slash>>) \o b
           y == (c \o <<Slash>>) \o d
           CS == Chars \cup {Slash}
<1>1. /\ a \in Seq(CS) /\ c \in Seq(CS) /\ <<Slash>> \in Seq(CS)
      /\ Slash \notin Chars
  BY KeyAssumption DEF Str
<1>2. /\ Len(x) = Len(a) + 1 + Len(b) /\ Len(y) = Len(c) + 1 + Len(d)
      /\ \A i \in 1..Len(x) :
            x[i] = IF i <= Len(a) THEN a[i] ELSE IF i = Len(a) + 1 THEN Slash
                   ELSE b[i - Len(a) - 1]
      /\ \A i \in 1..Len(y) :
            y[i] = IF i <= Len(c) THEN c[i] ELSE IF i = Len(c) + 1 THEN Slash
                   ELSE d[i - Len(c) - 1]
  <2>0. ASSUME NEW e \in Seq(CS)
        PROVE  /\ e \o <<Slash>> \in Seq(CS) /\ Len(e \o <<Slash>>) = Len(e) + 1
               /\ \A i \in 1..Len(e) + 1 : (e \o <<Slash>>)[i] = IF i <= Len(e) THEN e[i] ELSE Slash
    <3>1. Len(e) \in Nat /\ Len(<<Slash>>) = 1 /\ <<Slash>>[1] = Slash
      BY LenProperties
    <3>2. /\ e \o <<Slash>> \in Seq(CS) /\ Len(e \o <<Slash>>) = Len(e) + Len(<<Slash>>)
          /\ \A i \in 1..Len(e) + Len(<<Slash>>) :
                (e \o <<Slash>>)[i] = IF i <= Len(e) THEN e[i] ELSE <<Slash>>[i - Len(e)]
      BY <1>1, ConcatProperties
    <3>. QED  BY <3>1, <3>2
  <2>1. /\ a \o <<Slash>> \in Seq(CS) /\ Len(a \o <<Slash>>) = Len(a) + 1
        /\ \A i \in 1..Len(a) + 1 : (a \o <<Slash>>)[i] = IF i <= Len(a) THEN a[i] ELSE Slash
    BY <1>1, <2>0, Zenon
  <2>2. /\ c \o <<Slash>> \in Seq(CS) /\ Len(c \o <<Slash>>) = Len(c) + 1
        /\ \A i \in 1..Len(c) + 1 : (c \o <<Slash>>)[i] = IF i <= Len(c) THEN c[i] ELSE Slash
    BY <1>1, <2>0, Zenon
  <2>3. /\ Len(x) = Len(a \o <<Slash>>) + Len(b)
        /\ \A i \in 1..Len(x) : x[i] = IF i <= Len(a \o <<Slash>>) THEN (a \o <<Slash>>)[i]
                                        ELSE b[i - Len(a \o <<Slash>>)]
    BY <2>1, ConcatProperties
  <2>4. /\ Len(y) = Len(c \o <<Slash>>) + Len(d)
        /\ \A i \in 1..Len(y) : y[i] = IF i <= Len(c \o <<Slash>>) THEN (c \o <<Slash>>)[i]
                                        ELSE d[i - Len(c \o <<Slash>>)]
    BY <2>2, ConcatProperties
  <2>5. Len(a) \in Nat /\ Len(b) \in Nat /\ Len(c) \in Nat /\ Len(d) \in Nat
    BY <1>1, LenProperties
  <2>6. \A i \in 1..Len(x) :
           x[i] = IF i <= Len(a) THEN a[i] ELSE IF i = Len(a) + 1 THEN Slash
                  ELSE b[i - Len(a) - 1]
    <3> SUFFICES ASSUME NEW i \in 1..Len(x)
                 PROVE  x[i] = IF i <= Len(a) THEN a[i] ELSE IF i = Len(a) + 1 THEN Slash
                               ELSE b[i - Len(a) - 1]
      OBVIOUS
    <3>. QED  BY <2>1, <2>3, <2>5
  <2>7. \A i \in 1..Len(y) :
           y[i] = IF i <= Len(c) THEN c[i] ELSE IF i = Len(c) + 1 THEN Slash
                  ELSE d[i - Len(c) - 1]
    <3> SUFFICES ASSUME NEW i \in 1..Len(y)
                 PROVE  y[i] = IF i <= Len(c) THEN c[i] ELSE IF i = Len(c) + 1 THEN Slash
                               ELSE d[i - Len(c) - 1]
      OBVIOUS
    <3>. QED  BY <2>2, <2>4, <2>5
  <2>. QED  BY <2>1, <2>2, <2>3, <2>4, <2>6, <2>7
<1>3. /\ \A i \in 1..Len(a) : a[i] \in Chars
      /\ \A i \in 1..Len(c) : c[i] \in Chars
  BY DEF Str
<1>0. x = y
  OBVIOUS
<1>4. Len(a) = Len(c)
  <2>1. Len(a) \in Nat /\ Len(c) \in Nat /\ Len(b) \in Nat /\ Len(d) \in Nat
    BY <1>1, LenProperties
  <2>2. ~(Len(a) < Len(c))
    <3> SUFFICES ASSUME Len(a) < Len(c) PROVE FALSE
      OBVIOUS
    <3> DEFINE i == Len(a) + 1
    <3>1. i \in 1..Len(x) /\ i \in 1..Len(y) /\ i \in 1..Len(c)
      BY <1>0, <1>2, <2>1
    <3>2. x[i] = Slash
      BY <1>2, <3>1, <2>1
    <3>3. y[i] = c[i]
      BY <1>2, <3>1, <2>1
    <3>4. c[i] \in Chars
      BY <1>3, <3>1
    <3>. QED  BY <1>0, <1>1, <3>2, <3>3, <3>4
  <2>3. ~(Len(c) < Len(a))
    <3> SUFFICES ASSUME Len(c) < Len(a) PROVE FALSE
      OBVIOUS
    <3> DEFINE i == Len(c) + 1
    <3>1. i \in 1..Len(x) /\ i \in 1..Len(y) /\ i \in 1..Len(a)
      BY <1>0, <1>2, <2>1
    <3>2. y[i] = Slash
      BY <1>2, <3>1, <2>1
    <3>3. x[i] = a[i]
      BY <1>2, <3>1, <2>1
    <3>4. a[i] \in Chars
      BY <1>3, <3>1
    <3>. QED  BY <1>0, <1>1, <3>2, <3>3, <3>4
  <2>. QED  BY <2>1, <2>2, <2>3
<1>5. a = c
  <2>1. \A i \in 1..Len(a) : a[i] = c[i]
    <3> SUFFICES ASSUME NEW i \in 1..Len(a) PROVE a[i] = c[i]
      OBVIOUS
    <3>1. i \in 1..Len(x) /\ i \in 1..Len(y)
      BY <1>0, <1>2, <1>4, <1>1, LenProperties
    <3>2. x[i] = a[i] /\ y[i] = c[i]
      BY <1>2, <1>4, <3>1
    <3>. QED  BY <1>0, <3>2
  <2>. QED  BY <1>1, <1>4, <2>1, SeqEqual
<1>6. b = d
  <2>1. Len(b) = Len(d)
    BY <1>0, <1>1, <1>2, <1>4, LenProperties
  <2>2. \A i \in 1..Len(b) : b[i] = d[i]
    <3> SUFFICES ASSUME NEW i \in 1..Len(b) PROVE b[i] = d[i]
      OBVIOUS
    <3> DEFINE j == i + Len(a) + 1
    <3>1. j \in 1..Len(x) /\ j \in 1..Len(y) /\ ~(j <= Len(a)) /\ j # Len(a) + 1
      BY <1>0, <1>2, <1>4, <1>1, LenProperties, SMTT(30)
    <3>2. x[j] = b[i] /\ y[j] = d[i]
      BY <1>2, <1>4, <3>1, <1>1, LenProperties, SMTT(30)
    <3>. QED  BY <1>0, <3>2
  <2>. QED  BY <2>1, <2>2, SeqEqual
<1>. QED  BY <1>5, <1>6 DEF SameParts


\* The dedupe key of a metric regrouped around its first "/".
LEMMA KeyRegroup ==
    ASSUME NEW m \in MetricInfo
    PROVE  /\ DedupeKey(m) = (m.namespace \o <<Slash>>) \o ((m.subsystem \o <<Slash>>) \o m.name)
           /\ (m.subsystem \o <<Slash>>) \o m.name \in Seq(Chars \cup {Slash})
           /\ m.namespace \in Str
<1> DEFINE CS == Chars \cup {Slash}
           Sl == <<Slash>>
<1>1. m.namespace \in Str /\ m.subsystem \in Str /\ m.name \in Str
  BY DEF MetricInfo
<1>2. PICK a, b, c \in Seq(CS) :
         a = m.namespace /\ b = m.subsystem /\ c = m.name /\ Sl \in Seq(CS)
  BY <1>1 DEF Str
<1>9. a \in Seq(CS) /\ b \in Seq(CS) /\ c \in Seq(CS) /\ Sl \in Seq(CS)
  BY <1>2
<1>3. a \o Sl \in Seq(CS) /\ b \o Sl \in Seq(CS) /\ Sl \o c \in Seq(CS)
  BY <1>9, ConcatProperties
<1>4. (a \o Sl) \o b \in Seq(CS) /\ (b \o Sl) \o c \in Seq(CS)
  BY <1>9, <1>3, ConcatProperties
<1>5. (((a \o Sl) \o b) \o Sl) \o c = ((a \o Sl) \o b) \o (Sl \o c)
  BY <1>9, <1>4, ConcatAssociative
<1>6. ((a \o Sl) \o b) \o (Sl \o c) = (a \o Sl) \o (b \o (Sl \o c))
  <2>1. PICK p, q \in Seq(CS) : p = a \o Sl /\ q = Sl \o c
    BY <1>3
  <2>2. b \in Seq(CS)
    BY <1>9
  <2>3. (p \o b) \o q = p \o (b \o q)
    BY <2>2, ConcatAssociative, SMTT(30)
  <2>. QED  BY <2>1, <2>3, SMTT(30)
<1>7. b \o (Sl \o c) = (b \o Sl) \o c
  BY <1>9, ConcatAssociative, SMTT(30)
<1>8. DedupeKey(m) = (((a \o Sl) \o b) \o Sl) \o c
  BY <1>2, SMTT(30) DEF DedupeKey
<1>. QED  BY <1>1, <1>2, <1>4, <1>5, <1>6, <1>7, <1>8

\* The dedupe key "%s/%s/%s" of main.go:79 tells two metrics apart exactly
\* when their (namespace, subsystem, name) triples differ.
LEMMA KeyInjective ==
    ASSUME NEW m1 \in MetricInfo, NEW m2 \in MetricInfo
    PROVE  DedupeKey(m1) = DedupeKey(m2) <=> Abs!Identity(m1) = Abs!Identity(m2)
<1>1. /\ m1.namespace \in Str /\ m1.subsystem \in Str /\ m1.name \in Str
      /\ m2.namespace \in Str /\ m2.subsystem \in Str /\ m2.name \in Str
  BY DEF MetricInfo
<1>3. ASSUME DedupeKey(m1) = DedupeKey(m2)
      PROVE  /\ m1.namespace = m2.namespace /\ m1.subsystem = m2.subsystem
             /\ m1.name = m2.name
  <2> DEFINE CS == Chars \cup {Slash}
             Sl == <<Slash>>
             r1 == (m1.subsystem \o Sl) \o m1.name
             r2 == (m2.subsystem \o Sl) \o m2.name
  <2>1. DedupeKey(m1) = (m1.namespace \o Sl) \o r1 /\ r1 \in Seq(CS)
    BY KeyRegroup
  <2>2. DedupeKey(m2) = (m2.namespace \o Sl) \o r2 /\ r2 \in Seq(CS)
    BY KeyRegroup
  <2>3. PICK n1, n2 \in Str, p1, p2 \in Seq(CS) :
           n1 = m1.namespace /\ n2 = m2.namespace /\ p1 = r1 /\ p2 = r2
    BY <1>1, <2>1, <2>2
  <2>4. (n1 \o Sl) \o p1 = (n2 \o Sl) \o p2
    BY <1>3, <2>1, <2>2, <2>3
  <2>5. n1 = n2 /\ p1 = p2
    <3>1. SameParts(n1, p1, n2, p2)
      BY <2>4, SlashSplit, Zenon
    <3>. QED  BY <3>1 DEF SameParts
  <2>6. PICK s1, s2 \in Str, x1, x2 \in Seq(CS) :
           s1 = m1.subsystem /\ s2 = m2.subsystem /\ x1 = m1.name /\ x2 = m2.name
    BY <1>1, SMTT(30) DEF Str
  <2>7. (s1 \o Sl) \o x1 = (s2 \o Sl) \o x2
    BY <2>3, <2>5, <2>6
  <2>8. s1 = s2 /\ x1 = x2
    <3>1. SameParts(s1, x1, s2, x2)
      BY <2>7, SlashSplit, Zenon
    <3>. QED  BY <3>1 DEF SameParts
  <2>. QED  BY <2>3, <2>5, <2>6, <2>8
<1>. QED  BY <1>3 DEF Abs!Identity, DedupeKey


\* lo.UniqBy over the dedupe key keeps the positions the Normalizer keeps:
\* the first of each identity.
LEMMA FirstPositionsIdentity ==
    ASSUME NEW s \in Seq(MetricInfo)
    PROVE  FirstPositions(s) = Abs!FirstOfIdentity(s)
<1>1. ASSUME NEW i \in DOMAIN s, NEW j \in 1..(i - 1)
      PROVE  DedupeKey(s[j]) = DedupeKey(s[i]) <=> Abs!Identity(s[j]) = Abs!Identity(s[i])
  <2>1. PICK m1, m2 \in MetricInfo : m1 = s[j] /\ m2 = s[i]
    BY ElementOfSeq, LenProperties
  <2>2. DedupeKey(m1) = DedupeKey(m2) <=> Abs!Identity(m1) = Abs!Identity(m2)
    BY KeyInjective
  <2>. QED  BY <2>1, <2>2
<1>. QED  BY <1>1 DEF FirstPositions, Abs!FirstOfIdentity

\* The drop loop's test and the Normalizer's noise test agree.
LEMMA NoiseIsNoiseName ==
    ASSUME NEW m
    PROVE  Noise(m) <=> Abs!NoiseName(m)
BY DEF Noise, Abs!NoiseName, HasPrefix, Abs!StartsWith


\* The CHOOSE of FoldOnce picks the least index when there is one.
LEMMA ChooseLeast ==
    ASSUME NEW K \in SUBSET Nat, NEW k0 \in K, \A j \in K : k0 <= j
    PROVE  (CHOOSE k \in K : \A j \in K : k <= j) = k0
<1> DEFINE c == CHOOSE k \in K : \A j \in K : k <= j
<1>1. c \in K /\ \A j \in K : c <= j
  OBVIOUS
<1>2. c \in Nat /\ k0 \in Nat /\ c <= k0 /\ k0 <= c
  BY <1>1
<1>. QED  BY <1>2

\* The fields of a folded record.
LEMMA FoldedByFields ==
    ASSUME NEW m \in MetricInfo, NEW k
    PROVE  /\ FoldedBy(m, k).namespace = m.namespace
           /\ FoldedBy(m, k).subsystem = FoldSubsystems[k]
           /\ FoldedBy(m, k).name = TrimPrefix(m.name, FoldPrefix(k))
BY FoldRecordFields DEF FoldedBy

\* One iteration of the fold loop (main.go:91-98) on a record that the
\* first n - 1 iterations have left in a FoldedBefore state.
LEMMA FoldStep ==
    ASSUME NEW m \in MetricInfo, NEW r, NEW n \in 1..Len(FoldSubsystems),
           FoldedBefore(m, r, n)
    PROVE  FoldedBefore(m, IF r.subsystem = << >> /\ HasPrefix(r.name, FoldPrefix(n))
                           THEN FoldedBy(r, n) ELSE r, n + 1)
<1> DEFINE r2 == IF r.subsystem = << >> /\ HasPrefix(r.name, FoldPrefix(n))
                 THEN FoldedBy(r, n) ELSE r
<1>0. /\ n \in DOMAIN FoldSubsystems /\ n + 1 - 1 = n
      /\ \A k \in 1..(n - 1) : k \in DOMAIN FoldSubsystems
  BY TableAssumption, LenProperties
<1>1. CASE r = m /\ UnfoldedBefore(m, n)
  <2>1. CASE m.subsystem = << >> /\ HasPrefix(m.name, FoldPrefix(n))
    <3>1. r2 = FoldedBy(m, n)
      BY <1>1, <2>1
    <3>2. FirstFold(m, n)
      BY <1>1, <2>1 DEF UnfoldedBefore, FirstFold
    <3>3. n \in 1..(n + 1 - 1)
      BY <1>0
    <3>. QED  BY <3>1, <3>2, <3>3 DEF FoldedBefore
  <2>2. CASE ~(m.subsystem = << >> /\ HasPrefix(m.name, FoldPrefix(n)))
    <3>1. r2 = m
      BY <1>1, <2>2
    <3>2. UnfoldedBefore(m, n + 1)
      BY <1>0, <1>1, <2>2 DEF UnfoldedBefore
    <3>. QED  BY <3>1, <3>2 DEF FoldedBefore
  <2>. QED  BY <2>1, <2>2
<1>2. ASSUME NEW k \in 1..(n - 1), FirstFold(m, k), r = FoldedBy(m, k)
      PROVE  FoldedBefore(m, r2, n + 1)
  <2>1. r.subsystem = FoldSubsystems[k]
    BY <1>2, FoldedByFields
  <2>2. FoldSubsystems[k] # << >>
    BY <1>0, FoldPrefixAssumption
  <2>3. r2 = r
    BY <2>1, <2>2
  <2>4. k \in 1..(n + 1 - 1)
    BY <1>0
  <2>. QED  BY <1>2, <2>3, <2>4 DEF FoldedBefore
<1>. QED  BY <1>1, <1>2 DEF FoldedBefore


\* After the last iteration of the fold loop a record is what the
\* Normalizer's FoldOnce makes of it.
LEMMA FoldOnceMatches ==
    ASSUME NEW m \in MetricInfo, NEW r,
           FoldedBefore(m, r, Len(FoldSubsystems) + 1)
    PROVE  r = Abs!FoldOnce(m)
<1> DEFINE F == FoldSubsystems
           K == {k \in DOMAIN F : Abs!StartsWith(m.name, F[k] \o <<Underscore>>)}
           c == CHOOSE k \in K : \A j \in K : k <= j
<1>0. /\ F \in Seq(Str) /\ Len(F) \in Nat /\ DOMAIN F = 1..Len(F)
      /\ Len(F) + 1 - 1 = Len(F)
  BY TableAssumption, LenProperties
<1>1. \A k \in DOMAIN F : k \in K <=> HasPrefix(m.name, FoldPrefix(k))
  BY DEF HasPrefix, Abs!StartsWith, FoldPrefix
<1>2. Abs!FoldOnce(m) =
        IF m.subsystem = << >> /\ K # {}
        THEN [m EXCEPT !.subsystem = F[c],
                       !.name = SubSeq(m.name, Len(F[c]) + 1 + 1, Len(m.name))]
        ELSE m
  BY Zenon DEF Abs!FoldOnce
<1>3. CASE r = m /\ UnfoldedBefore(m, Len(F) + 1)
  <2>1. m.subsystem = << >> => K = {}
    BY <1>0, <1>1, <1>3 DEF UnfoldedBefore
  <2>. QED  BY <1>2, <1>3, <2>1
<1>4. ASSUME NEW k0 \in 1..(Len(F) + 1 - 1), FirstFold(m, k0), r = FoldedBy(m, k0)
      PROVE  r = Abs!FoldOnce(m)
  <2>1. k0 \in K /\ \A j \in K : k0 <= j
    BY <1>0, <1>1, <1>4 DEF FirstFold
  <2>2. c = k0
    <3>1. K \in SUBSET Nat
      BY <1>0
    <3>. QED  BY <2>1, <3>1, ChooseLeast
  <2>3. m.subsystem = << >> /\ HasPrefix(m.name, FoldPrefix(k0))
    BY <1>4 DEF FirstFold
  <2>4. TrimPrefix(m.name, FoldPrefix(k0))
          = SubSeq(m.name, Len(F[k0]) + 1 + 1, Len(m.name))
    <3>1. F[k0] \in Seq(Chars) /\ <<Underscore>> \in Seq(Chars)
      BY <1>0, <1>4, CharsAssumption, ElementOfSeq DEF Str
    <3>2. Len(FoldPrefix(k0)) = Len(F[k0]) + 1
      BY <3>1, ConcatProperties DEF FoldPrefix
    <3>. QED  BY <2>3, <3>2 DEF TrimPrefix
  <2>5. Abs!FoldOnce(m) = [m EXCEPT !.subsystem = F[k0],
                                    !.name = SubSeq(m.name, Len(F[k0]) + 1 + 1, Len(m.name))]
    BY <1>2, <2>1, <2>2, <2>3, ZenonT(40)
  <2>. QED  BY <1>4, <2>4, <2>5 DEF FoldedBy
<1>. QED  BY <1>0, <1>3, <1>4 DEF FoldedBefore


-----------------------------------------------------------------------------
(* The normalization loops compute the Normalizer's result.               *)

\* Every state of main() is in NormalizationInv: after UniqBy the live
\* positions are the first of each key, each drop iteration removes one
\* prefix, each fold iteration folds the records the earlier prefixes left,
\* and from the sort on the live records are Normalized(merged), for every
\* value of the constants (main.go:77-98).
LEMMA NormalizationInvariant == Spec => []NormalizationInv
<1>1. Init => NormalizationInv
  BY SMTT(30) DEF Init, NormalizationInv
<1>2. TypeOK /\ TypeOK' /\ NormalizationInv /\ [Next]_vars => NormalizationInv'
  <2> SUFFICES ASSUME TypeOK, TypeOK', NormalizationInv, [Next]_vars
               PROVE  NormalizationInv'
    OBVIOUS
  <2> USE DEF NormalizationInv
  <2>1. CASE ParseFailure \/ getPackages \/ NextRoot \/ StartPatterns \/ AddKindMetrics
    BY <2>1, SMTT(30) DEF ParseFailure, getPackages, NextRoot, StartPatterns, AddKindMetrics
  <2>2. ASSUME NEW f \in Files, ScanFile(f) \/ ScanFileFatal(f)
        PROVE  NormalizationInv'
    BY <2>2 DEF ScanFile, ScanFileFatal
  <2>3. CASE AddLegacyMetrics
    BY <2>3, SMTT(30) DEF AddLegacyMetrics
  <2>4. CASE Dedupe
    BY <2>4 DEF Dedupe, FirstPositions
  <2>5. CASE DropMetrics
    <3> DEFINE D == DropSubsystems
               Kept(i, n) == \A k \in 1..(n - 1) : ~HasPrefix(merged[i].name, D[k])
    <3>1. /\ pc = "drop" /\ pc' = "drop" /\ idx <= Len(D) /\ idx' = idx + 1
          /\ live' = {i \in live : ~HasPrefix(allMetrics[i].name, D[idx])}
          /\ UNCHANGED <<allMetrics, merged>>
      BY <2>5, SMTT(30) DEF DropMetrics
    <3>2. idx \in Nat \ {0}
      BY DEF TypeOK
    <3>3. live = {i \in FirstPositions(merged) : Kept(i, idx)} /\ allMetrics = merged
      BY <3>1
    <3>4. \A i \in FirstPositions(merged) :
             Kept(i, idx + 1) <=> Kept(i, idx) /\ ~HasPrefix(merged[i].name, D[idx])
      BY <3>2
    <3>5. live' = {i \in FirstPositions(merged) : Kept(i, idx')}
      BY <3>1, <3>3, <3>4
    <3>. QED  BY <3>1, <3>2, <3>5, TableAssumption, LenProperties, SMTT(30)
  <2>6. CASE EndDrop
    <3>1. idx = Len(DropSubsystems) + 1 /\ DOMAIN DropSubsystems = 1..Len(DropSubsystems)
      BY <2>6, TableAssumption, LenProperties DEF EndDrop, TypeOK
    <3>2. live' = {i \in FirstPositions(merged) : ~Noise(merged[i])}
      BY <2>6, <3>1, SMTT(30) DEF EndDrop, Noise
    <3>3. \A i \in live' : FoldedBefore(merged[i], allMetrics'[i], idx')
      BY <2>6 DEF EndDrop, FoldedBefore, UnfoldedBefore
    <3>. QED  BY <2>6, <3>2, <3>3, SMTT(30) DEF EndDrop
  <2>7. CASE FoldSubsystem
    <3>1. /\ pc = "fold" /\ idx <= Len(FoldSubsystems) /\ idx' = idx + 1
          /\ UNCHANGED <<pc, live, merged>>
          /\ allMetrics' =
               [i \in DOMAIN allMetrics |->
                  IF i \in live /\ allMetrics[i].subsystem = << >>
                     /\ HasPrefix(allMetrics[i].name, FoldPrefix(idx))
                  THEN FoldedBy(allMetrics[i], idx)
                  ELSE allMetrics[i]]
      BY <2>7, Zenon DEF FoldSubsystem, FoldedBy, FoldPrefix
    <3>2. /\ idx \in 1..Len(FoldSubsystems) /\ idx' <= Len(FoldSubsystems) + 1
          /\ DOMAIN allMetrics' = DOMAIN merged
      BY <3>1, TableAssumption, LenProperties, SMTT(30) DEF TypeOK
    <3>3. ASSUME NEW i \in live
          PROVE  FoldedBefore(merged[i], allMetrics'[i], idx')
      <4>1. i \in DOMAIN merged /\ i \in DOMAIN allMetrics
        <5>1. live \subseteq FirstPositions(merged) /\ DOMAIN allMetrics = DOMAIN merged
          BY <3>1
        <5>2. FirstPositions(merged) \subseteq DOMAIN merged
          BY DEF FirstPositions
        <5>. QED  BY <5>1, <5>2
      <4>2. PICK m \in MetricInfo, r \in MetricInfo : m = merged[i] /\ r = allMetrics[i]
        <5>1. merged \in Seq(MetricInfo) /\ allMetrics \in Seq(MetricInfo)
          BY DEF TypeOK
        <5>2. DOMAIN merged = 1..Len(merged) /\ DOMAIN allMetrics = 1..Len(allMetrics)
          BY <5>1, LenProperties, SMTT(30)
        <5>. QED  BY <4>1, <5>1, <5>2, ElementOfSeq, ZenonT(40)
      <4>3. allMetrics'[i] = IF r.subsystem = << >> /\ HasPrefix(r.name, FoldPrefix(idx))
                             THEN FoldedBy(r, idx) ELSE r
        BY <3>1, <4>1, <4>2, SMTT(30)
      <4>4. FoldedBefore(m, r, idx)
        BY <3>1, <4>2
      <4>. QED  BY <3>1, <3>2, <4>2, <4>3, <4>4, FoldStep, SMTT(30)
    <3>. QED  BY <3>1, <3>2, <3>3, SMTT(30)
  <2>8. CASE EndFold
    <3>1. /\ pc = "fold" /\ idx > Len(FoldSubsystems) /\ pc' = "sort"
          /\ UNCHANGED <<live, allMetrics, merged>>
      BY <2>8 DEF EndFold
    <3>2. idx = Len(FoldSubsystems) + 1
      BY <3>1, TableAssumption, LenProperties, SMTT(30) DEF TypeOK
    <3>3. merged \in Seq(MetricInfo)
      BY DEF TypeOK
    <3>4. live = {i \in Abs!FirstOfIdentity(merged) : ~Abs!NoiseName(merged[i])}
      BY <3>1, <3>3, FirstPositionsIdentity, NoiseIsNoiseName, SMTT(30)
    <3>5. ASSUME NEW i \in live PROVE allMetrics[i] = Abs!FoldOnce(merged[i])
      <4>1. i \in DOMAIN merged
        BY <3>1 DEF FirstPositions
      <4>2. PICK m, r : m \in MetricInfo /\ m = merged[i] /\ r = allMetrics[i]
        BY <3>3, <4>1, ElementOfSeq
      <4>3. FoldedBefore(m, r, Len(FoldSubsystems) + 1)
        BY <3>1, <3>2, <4>2
      <4>. QED  BY <4>2, <4>3, FoldOnceMatches, SMTT(30)
    <3>6. [i \in live |-> allMetrics[i]] = Abs!Normalized(merged)
      BY <3>4, <3>5, SMTT(30) DEF Abs!Normalized
    <3>. QED  BY <3>1, <3>6
  <2>9. CASE SortMetrics \/ CreateOutput \/ CreateFails \/ RenderPanic \/ Finish
    BY <2>9 DEF SortMetrics, CreateOutput, CreateFails, RenderPanic, Finish
  <2>10. CASE RenderMetric
    <3>1. pc = "render" /\ UNCHANGED <<pc, live, allMetrics, merged>>
      BY <2>10, Zenon DEF RenderMetric
    <3>. QED  BY <3>1
  <2>11. CASE Terminated \/ UNCHANGED vars
    BY <2>11 DEF Terminated, vars
  <2>. QED
    BY <2>1, <2>2, <2>3, <2>4, <2>5, <2>6, <2>7, <2>8, <2>9, <2>10, <2>11, ZenonT(40) DEF Next
<1>. QED  BY <1>1, <1>2, TypeCorrect, PTL DEF Spec


-----------------------------------------------------------------------------
(* Refinement of the Normalizer's contract.                                *)

\* Appending keeps the old sequence as a prefix.
LEMMA AppendPrefix ==
    ASSUME NEW S, NEW s \in Seq(S), NEW t \in Seq(S)
    PROVE  Len(s) <= Len(s \o t) /\ SubSeq(s \o t, 1, Len(s)) = s
<1>1. Len(s) \in Nat /\ Len(t) \in Nat /\ Len(s \o t) = Len(s) + Len(t)
  BY ConcatProperties, LenProperties
<1>2. Len(s) <= Len(s \o t)
  BY <1>1
<1>3. CASE Len(s) = 0
  <2>1. s = << >>
    BY <1>3, EmptySeq
  <2>2. SubSeq(s \o t, 1, 0) = << >>
    BY SubSeqEmpty
  <2>. QED  BY <1>2, <1>3, <2>1, <2>2
<1>4. CASE Len(s) # 0
  <2>1. 1 \in 1..Len(s) /\ Len(s) \in 1..Len(s)
    BY <1>1, <1>4
  <2>2. SubSeq(s \o t, 1, Len(s)) = SubSeq(s, 1, Len(s))
    BY <2>1, SubSeqOfConcat1
  <2>3. SubSeq(s, 1, Len(s)) = s
    BY SubSeqFull
  <2>. QED  BY <1>2, <2>2, <2>3
<1>. QED  BY <1>3, <1>4

\* The steps of main() that stay in one stage of the Normalizer and change
\* nothing it sees.
LEMMA StageStutter ==
    ASSUME \/ /\ pc \in {"walk", "scan", "kinds"} /\ pc' \in {"walk", "scan", "kinds"}
              /\ UNCHANGED <<allMetrics, live>>
           \/ pc \in {"dedupe", "drop", "fold"} /\ pc' \in {"dedupe", "drop", "fold"}
           \/ /\ pc \in {"sort", "create", "render", "done", "panic"}
              /\ pc' \in {"sort", "create", "render", "done", "panic"}
              /\ UNCHANGED <<allMetrics, live>>,
           UNCHANGED merged
    PROVE  UNCHANGED Abs!avars
BY DEF Abs!avars, NormalizationStage

\* main() implements the Normalizer of spec.md 4.5: scanning and the
\* catalogue only append records, the dedupe, drop and fold loops compute
\* Normalized(merged) in the one step that ends the fold loop, and the
\* fatal exits of getPackages, handleVariableDeclaration and os.Create are
\* the Normalizer's failures, for every value of the constants.
THEOREM Refinement == Spec => NormalizationRefined
<1>1. Init => Abs!AInit
  BY DEF Init, Abs!AInit, Abs!NoRecords, NormalizationStage
<1>2. TypeOK /\ NormalizationInv /\ NormalizationInv' /\ [Next]_vars => [Abs!ANext]_Abs!avars
  <2> SUFFICES ASSUME TypeOK, NormalizationInv, NormalizationInv', [Next]_vars
               PROVE  [Abs!ANext]_Abs!avars
    OBVIOUS
  <2>1. CASE ParseFailure
    <3>1. Abs!Fail
      BY <2>1 DEF ParseFailure, Abs!Fail, NormalizationStage
    <3>. QED  BY <3>1 DEF Abs!ANext
  <2>2. ASSUME NEW f \in Files, ScanFileFatal(f) PROVE [Abs!ANext]_Abs!avars
    <3>1. Abs!Fail
      BY <2>2 DEF ScanFileFatal, Abs!Fail, NormalizationStage
    <3>. QED  BY <3>1 DEF Abs!ANext
  <2>3. CASE CreateFails
    <3>1. Abs!Fail
      BY <2>3 DEF CreateFails, Abs!Fail, NormalizationStage
    <3>. QED  BY <3>1 DEF Abs!ANext
  <2>4. ASSUME NEW t \in Seq(MetricInfo), pc = pc', pc \in {"scan", "kinds"},
               allMetrics' = allMetrics \o t, UNCHANGED <<live, merged>>
        PROVE  [Abs!ANext]_Abs!avars
    <3>1. Len(allMetrics) <= Len(allMetrics') /\ SubSeq(allMetrics', 1, Len(allMetrics)) = allMetrics
      BY <2>4, AppendPrefix DEF TypeOK
    <3>2. live = {}
      BY <2>4 DEF NormalizationInv
    <3>3. Abs!Collect
      BY <2>4, <3>1, <3>2, SMTT(30) DEF Abs!Collect, NormalizationStage
    <3>. QED  BY <3>3 DEF Abs!ANext
  <2>5. ASSUME NEW f \in Files, ScanFile(f) PROVE [Abs!ANext]_Abs!avars
    <3>1. src[f] \in Seq(MetricInfo)
      BY <2>5, ContentType DEF ScanFile, TypeOK
    <3>. QED  BY <2>4, <2>5, <3>1 DEF ScanFile
  <2>6. CASE AddKindMetrics
    <3>1. KindMetrics(CRDKinds[idx]) \in Seq(MetricInfo)
      <4>1. idx \in 1..Len(CRDKinds)
        BY <2>6 DEF AddKindMetrics, TypeOK
      <4>. QED  BY <4>1, CatalogAssumption, ElementOfSeq, KindMetricsType, SMTT(30)
    <3>. QED  BY <2>4, <2>6, <3>1 DEF AddKindMetrics
  <2>7. CASE AddLegacyMetrics
    <3>1. /\ pc = "kinds" /\ pc' = "dedupe" /\ merged' = allMetrics'
          /\ allMetrics' = allMetrics \o LegacyAndClientGoMetrics /\ live' = live
      BY <2>7 DEF AddLegacyMetrics
    <3>2. Len(allMetrics) <= Len(allMetrics') /\ SubSeq(allMetrics', 1, Len(allMetrics)) = allMetrics
      BY <3>1, LegacyType, AppendPrefix, SMTT(30) DEF TypeOK
    <3>3. live = {}
      BY <3>1 DEF NormalizationInv
    <3>4. Abs!Collect
      BY <3>1, <3>2, <3>3 DEF Abs!Collect, NormalizationStage
    <3>. QED  BY <3>4 DEF Abs!ANext
  <2>8. CASE EndFold
    <3>1. /\ pc = "fold" /\ pc' = "sort" /\ UNCHANGED <<live, allMetrics, merged>>
      BY <2>8 DEF EndFold
    <3>2. [i \in live' |-> allMetrics'[i]] = Abs!Normalized(merged')
      BY <3>1 DEF NormalizationInv
    <3>3. Abs!Normalize
      BY <3>1, <3>2, SMTT(30) DEF Abs!Normalize, NormalizationStage
    <3>. QED  BY <3>3 DEF Abs!ANext
  <2>9. CASE getPackages \/ NextRoot \/ StartPatterns
    BY <2>9, StageStutter, SMTT(30) DEF getPackages, NextRoot, StartPatterns
  <2>10. CASE Dedupe \/ DropMetrics \/ EndDrop \/ FoldSubsystem
    BY <2>10, StageStutter, ZenonT(40) DEF Dedupe, DropMetrics, EndDrop, FoldSubsystem
  <2>11. CASE SortMetrics \/ CreateOutput \/ RenderPanic \/ Finish
    BY <2>11, StageStutter DEF SortMetrics, CreateOutput, RenderPanic, Finish
  <2>12. CASE RenderMetric
    <3>1. pc = "render" /\ UNCHANGED <<pc, live, allMetrics, merged>>
      BY <2>12, Zenon DEF RenderMetric
    <3>. QED  BY <3>1, StageStutter
  <2>13. CASE Terminated \/ UNCHANGED vars
    BY <2>13 DEF Terminated, vars, Abs!avars, NormalizationStage
  <2>. QED
    BY <2>1, <2>2, <2>3, <2>5, <2>6, <2>7, <2>8, <2>9, <2>10, <2>11, <2>12,
       <2>13, SMTT(30) DEF Next
<1>. QED  BY <1>1, <1>2, TypeCorrect, NormalizationInvariant, PTL
          DEF Spec, NormalizationRefined, Abs!ASpec

=============================================================================
