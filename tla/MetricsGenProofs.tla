-------------------------- MODULE MetricsGenProofs --------------------------
(***************************************************************************)
(* Proofs about MetricsGen, for every value of its constants that meets   *)
(* the module's assumptions.                                               *)
(***************************************************************************)
EXTENDS MetricsGen, TLAPS, SequenceTheorems, FiniteSetTheorems



-----------------------------------------------------------------------------
(* Lemmas about the string helpers.                                        *)

LEMMA TrimPrefixType ==
    ASSUME NEW s \in Str, NEW p \in Str
    PROVE  TrimPrefix(s, p) \in Str
<1>1. \A i \in (Len(p) + 1)..Len(s) : s[i] \in Chars
  BY DEF Str
<1>. QED  BY <1>1, SubSeqProperties DEF TrimPrefix, Str

LEMMA JoinType ==
    ASSUME NEW a \in Str, NEW b \in Str
    PROVE  JoinNonEmpty(a, b) \in Str
<1>1. <<Underscore>> \in Str
  BY CharsAssumption DEF Str
<1>2. a \o <<Underscore>> \o b \in Str
  BY <1>1, ConcatProperties DEF Str
<1>. QED  BY <1>2 DEF JoinNonEmpty

LEMMA QualifiedNameType ==
    ASSUME NEW m \in MetricInfo
    PROVE  qualifiedName(m) \in Str
BY JoinType DEF qualifiedName, MetricInfo

LEMMA TitleType ==
    ASSUME NEW s \in Str
    PROVE  SubsystemTitle(s) \in Seq(TitleChars)
<1>1. CASE s \in DOMAIN SubsystemMap
  BY <1>1, TableAssumption DEF SubsystemTitle
<1>2. DerivedTitle(s) \in Seq(TitleChars)
  <2>1. \A i \in 1..Len(s) : s[i] \in Chars
    BY DEF Str
  <2>. QED  BY <2>1, CharsAssumption DEF DerivedTitle, TitleChars
<1>. QED  BY <1>1, <1>2 DEF SubsystemTitle

-----------------------------------------------------------------------------
(* Lemmas about what the steps append.                                     *)

LEMMA OperatorType ==
    ASSUME NEW sub \in Str, NEW name \in Str, NEW kind \in Str
    PROVE  Operator(sub, name, kind) \in MetricInfo
BY CatalogAssumption DEF Operator, MetricInfo, HelpText

LEMMA KindMetricsType ==
    ASSUME NEW kind \in Str
    PROVE  KindMetrics(kind) \in Seq(MetricInfo)
<1>1. [i \in 1..Len(StatusConditionNames) |->
          Operator(kind, StatusConditionNames[i], kind)] \in Seq(MetricInfo)
  BY OperatorType, CatalogAssumption
<1>2. [i \in 1..Len(TerminationNames) |->
          Operator(kind, TerminationNames[i], kind)] \in Seq(MetricInfo)
  BY OperatorType, CatalogAssumption
<1>3. (IF kind = NodeKind THEN <<Operator(NodeKind, EventTotalName, kind)>>
       ELSE << >>) \in Seq(MetricInfo)
  BY OperatorType, CatalogAssumption
<1>. QED  BY <1>1, <1>2, <1>3, ConcatProperties DEF KindMetrics

LEMMA LegacyType == LegacyAndClientGoMetrics \in Seq(MetricInfo)
<1>0. << >> \in Str
  BY DEF Str
<1>1. [i \in 1..Len(LegacyStatusNames) |->
          Operator(StatusConditionSubsystem, LegacyStatusNames[i], << >>)]
        \in Seq(MetricInfo)
  BY <1>0, OperatorType, CatalogAssumption
<1>2. [i \in 1..Len(LegacyTerminationNames) |->
          Operator(TerminationSubsystem, LegacyTerminationNames[i], << >>)]
        \in Seq(MetricInfo)
  BY <1>0, OperatorType, CatalogAssumption
<1>3. [i \in 1..Len(ClientGoNames) |->
          [namespace |-> << >>, subsystem |-> << >>, name |-> ClientGoNames[i],
           help |-> <<ClientGoNames[i], << >>>>]] \in Seq(MetricInfo)
  BY <1>0, CatalogAssumption DEF MetricInfo, HelpText
<1>. QED  BY <1>1, <1>2, <1>3, ConcatProperties DEF LegacyAndClientGoMetrics

LEMMA ContentType ==
    ASSUME NEW c \in FileContents, FatalDecl \notin Range(c)
    PROVE  c \in Seq(MetricInfo)
<1>1. c \in Seq(MetricInfo \cup {FatalDecl})
  BY InputAssumption
<1>2. \A i \in 1..Len(c) : c[i] \in MetricInfo
  <2> SUFFICES ASSUME NEW i \in 1..Len(c) PROVE c[i] \in MetricInfo
    OBVIOUS
  <2>1. c[i] \in MetricInfo \cup {FatalDecl}
    BY <1>1
  <2>2. c[i] # FatalDecl
    BY <1>1 DEF Range
  <2>. QED  BY <2>1, <2>2
<1>3. Len(c) \in Nat /\ DOMAIN c = 1..Len(c)
  BY <1>1, LenProperties
<1>4. c \in [1..Len(c) -> MetricInfo]
  BY <1>1, <1>2, <1>3, LenProperties
<1>. QED  BY <1>3, <1>4

LEMMA SortedOrdersType ==
    ASSUME NEW s \in Seq(MetricInfo), NEW L \in SUBSET DOMAIN s,
           NEW o \in SortedOrders(s, L)
    PROVE  o \in Seq(DOMAIN s)
<1>0. Len(s) \in Nat /\ DOMAIN s = 1..Len(s)
  BY LenProperties
<1>1. IsFiniteSet(L) /\ Cardinality(L) \in Nat
  <2>1. IsFiniteSet(1..Len(s))
    BY <1>0, FS_Interval
  <2>2. IsFiniteSet(L)
    BY <2>1, FS_Subset
  <2>. QED  BY <2>2, FS_CardinalityType
<1>2. o \in [1..Cardinality(L) -> L]
  BY Zenon DEF SortedOrders
<1>3. o \in [1..Cardinality(L) -> DOMAIN s]
  BY <1>2
<1>. QED  BY <1>0, <1>1, <1>3

\* The roots are numbered from 1.
LEMMA NRootsType == NRoots \in Nat \ {0}
BY Zenon, InputAssumption

\* Folding a metric into a subsystem keeps it a metricInfo.
LEMMA FoldRecordType ==
    ASSUME NEW m \in MetricInfo, NEW sub \in Str, NEW n \in Str
    PROVE  [m EXCEPT !.subsystem = sub, !.name = n] \in MetricInfo
<1> DEFINE r1 == [m EXCEPT !.subsystem = sub]
<1>1. r1 \in MetricInfo
  BY DEF MetricInfo
<1>2. [r1 EXCEPT !.name = n] \in MetricInfo
  BY <1>1 DEF MetricInfo
<1>. QED  BY <1>2

LEMMA StabilityType ==
    ASSUME NEW m
    PROVE  Stability(m) \in {"DEPRECATED", "STABLE", "BETA", "ALPHA"}
BY DEF Stability

\* The current metric of the render loop is a metricInfo.
LEMMA CurrentType ==
    ASSUME TypeOK, pc = "render", idx <= Len(order)
    PROVE  Current \in MetricInfo
<1>1. idx \in 1..Len(order)
  BY DEF TypeOK
<1>2. order[idx] \in DOMAIN allMetrics
  BY <1>1, ElementOfSeq DEF TypeOK
<1>3. DOMAIN allMetrics = 1..Len(allMetrics)
  BY LenProperties DEF TypeOK
<1>. QED  BY <1>2, <1>3, ElementOfSeq DEF TypeOK, Current

-----------------------------------------------------------------------------
(* Type correctness.                                                       *)

\* Every state of a run of main() has the types of TypeOK: the scanned,
\* catalogued and folded metrics are metricInfo records, the surviving
\* positions and the sorted order point into allMetrics, and every line
\* written is a heading with a title or a metric block.
THEOREM TypeCorrect == Spec => []TypeOK
<1>1. Init => TypeOK
  <2> SUFFICES ASSUME Init PROVE TypeOK
    OBVIOUS
  <2>1. broken \subseteq Files
    BY DEF Init
  <2>2. root \in 1..NRoots
    BY NRootsType DEF Init
  <2>3. /\ << >> \in Seq(MetricInfo) /\ << >> \in Seq(TitleChars)
        /\ << >> \in Seq(Line) /\ << >> \in Seq(DOMAIN << >>)
    BY EmptySeq
  <2>4. /\ live \subseteq DOMAIN allMetrics /\ order \in Seq(DOMAIN allMetrics)
        /\ allMetrics \in Seq(MetricInfo) /\ merged \in Seq(MetricInfo)
        /\ previousTitle \in Seq(TitleChars) /\ out \in Seq(Line)
    BY <2>3 DEF Init
  <2>5. /\ pc \in Stages /\ pc # "render" /\ idx \in Nat \ {0}
        /\ pending \subseteq Files /\ created \in BOOLEAN
    <3>1. pc = "walk" /\ idx = 1 /\ pending = {} /\ created = FALSE
      BY Zenon DEF Init
    <3>2. pc \in Stages
      BY <3>1 DEF Stages
    <3>3. idx \in Nat \ {0}
      BY <3>1
    <3>4. pending \subseteq Files
      BY <3>1
    <3>5. created \in BOOLEAN
      BY <3>1
    <3>. QED  BY <3>1, <3>2, <3>3, <3>4, <3>5
  <2>6. src \in [Files -> FileContents]
    BY Zenon DEF Init
  <2>. QED  BY <2>1, <2>2, <2>4, <2>5, <2>6 DEF TypeOK
<1>2. TypeOK /\ [Next]_vars => TypeOK'
  <2> SUFFICES ASSUME TypeOK, [Next]_vars PROVE TypeOK'
    OBVIOUS
  <2>0. Len(allMetrics) \in Nat /\ DOMAIN allMetrics = 1..Len(allMetrics)
    BY LenProperties DEF TypeOK
  <2>1. CASE ParseFailure
    BY <2>1 DEF ParseFailure, TypeOK, Stages
  <2>2. CASE getPackages
    BY <2>2 DEF getPackages, RootFiles, TypeOK, Stages
  <2>3. ASSUME NEW f \in Files, ScanFile(f) PROVE TypeOK'
    <3>1. src[f] \in Seq(MetricInfo)
      BY <2>3, ContentType DEF ScanFile, TypeOK
    <3>2. allMetrics' \in Seq(MetricInfo) /\ Len(allMetrics') = Len(allMetrics) + Len(src[f])
      BY <2>3, <3>1, ConcatProperties DEF ScanFile, TypeOK
    <3>3. DOMAIN allMetrics \subseteq DOMAIN allMetrics'
      BY <2>0, <3>2, LenProperties
    <3>4. order \in Seq(DOMAIN allMetrics')
      BY <3>3, SeqMonotonic DEF TypeOK
    <3>. QED  BY <2>3, <3>2, <3>3, <3>4 DEF ScanFile, TypeOK, Stages
  <2>4. ASSUME NEW f \in Files, ScanFileFatal(f) PROVE TypeOK'
    BY <2>4 DEF ScanFileFatal, TypeOK, Stages
  <2>5. CASE NextRoot
    BY <2>5, NRootsType DEF NextRoot, TypeOK, Stages
  <2>6. CASE StartPatterns
    BY <2>6 DEF StartPatterns, TypeOK, Stages
  <2>7. CASE AddKindMetrics
    <3>1. KindMetrics(CRDKinds[idx]) \in Seq(MetricInfo)
      <4>1. idx \in 1..Len(CRDKinds)
        BY <2>7 DEF AddKindMetrics, TypeOK
      <4>. QED  BY <4>1, CatalogAssumption, ElementOfSeq, KindMetricsType
    <3>2. allMetrics' \in Seq(MetricInfo)
      BY <2>7, <3>1, ConcatProperties DEF AddKindMetrics, TypeOK
    <3>3. DOMAIN allMetrics \subseteq DOMAIN allMetrics'
      BY <2>0, <2>7, <3>1, <3>2, ConcatProperties, LenProperties, SMTT(30) DEF AddKindMetrics, TypeOK
    <3>4. order \in Seq(DOMAIN allMetrics')
      BY <3>3, SeqMonotonic DEF TypeOK
    <3>. QED  BY <2>7, <3>2, <3>3, <3>4 DEF AddKindMetrics, TypeOK, Stages
  <2>8. CASE AddLegacyMetrics
    <3>2. allMetrics' \in Seq(MetricInfo)
      BY <2>8, LegacyType, ConcatProperties DEF AddLegacyMetrics, TypeOK
    <3>3. DOMAIN allMetrics \subseteq DOMAIN allMetrics'
      BY <2>0, <2>8, <3>2, LegacyType, ConcatProperties, LenProperties, SMTT(30)
      DEF AddLegacyMetrics, TypeOK
    <3>4. order \in Seq(DOMAIN allMetrics')
      BY <3>3, SeqMonotonic DEF TypeOK
    <3>. QED  BY <2>8, <3>2, <3>3, <3>4 DEF AddLegacyMetrics, TypeOK, Stages
  <2>9. CASE Dedupe
    BY <2>9 DEF Dedupe, TypeOK, Stages
  <2>10. CASE DropMetrics
    BY <2>10 DEF DropMetrics, TypeOK, Stages
  <2>11. CASE EndDrop
    BY <2>11 DEF EndDrop, TypeOK, Stages
  <2>12. CASE FoldSubsystem
    <3> DEFINE p == FoldSubsystems[idx] \o <<Underscore>>
    <3>1. FoldSubsystems[idx] \in Str /\ p \in Str
      <4>1. idx \in 1..Len(FoldSubsystems)
        <5>1. FoldSubsystems \in Seq(Str)
          BY TableAssumption
        <5>2. idx <= Len(FoldSubsystems)
          BY <2>12, Zenon DEF FoldSubsystem
        <5>. QED  BY <5>1, <5>2, LenProperties DEF TypeOK
      <4>2. FoldSubsystems[idx] \in Str
        BY <4>1, TableAssumption, ElementOfSeq, SMTT(30)
      <4>. QED  BY <4>2, CharsAssumption, ConcatProperties DEF Str
    <3>2. \A i \in DOMAIN allMetrics :
            [allMetrics[i] EXCEPT !.subsystem = FoldSubsystems[idx],
                                  !.name = TrimPrefix(@, p)] \in MetricInfo
      <4> SUFFICES ASSUME NEW i \in DOMAIN allMetrics
                   PROVE  [allMetrics[i] EXCEPT !.subsystem = FoldSubsystems[idx],
                                  !.name = TrimPrefix(@, p)] \in MetricInfo
        OBVIOUS
      <4>1. allMetrics[i] \in MetricInfo
        BY <2>0, ElementOfSeq DEF TypeOK
      <4>2. TrimPrefix(allMetrics[i].name, p) \in Str
        BY <3>1, <4>1, TrimPrefixType, SMTT(30) DEF MetricInfo
      <4>. QED  BY <3>1, <4>1, <4>2, FoldRecordType, ZenonT(40)
    <3>3. allMetrics' \in [DOMAIN allMetrics -> MetricInfo]
      BY <2>12, <3>2, <2>0, ElementOfSeq DEF FoldSubsystem, TypeOK
    <3>4. allMetrics' \in Seq(MetricInfo) /\ DOMAIN allMetrics' = DOMAIN allMetrics
      BY <2>0, <3>3, SMTT(30)
    <3>5. /\ idx' = idx + 1 /\ pc' = pc /\ pc = "fold"
          /\ UNCHANGED <<src, broken, root, pending, live, order, previousTitle,
                         created, out, merged>>
      BY <2>12 DEF FoldSubsystem
    <3>. QED  BY <3>4, <3>5 DEF TypeOK
  <2>13. CASE EndFold
    BY <2>13 DEF EndFold, TypeOK, Stages
  <2>14. CASE SortMetrics
    <3>1. PICK o \in SortedOrders(allMetrics, live) : order' = o
      BY <2>14 DEF SortMetrics
    <3>2. order' \in Seq(DOMAIN allMetrics)
      BY <3>1, SortedOrdersType DEF TypeOK
    <3>. QED  BY <2>14, <3>2 DEF SortMetrics, TypeOK, Stages
  <2>15. CASE CreateOutput
    BY <2>15 DEF CreateOutput, TypeOK, Stages
  <2>16. CASE CreateFails
    BY <2>16 DEF CreateFails, TypeOK, Stages
  <2>17. CASE RenderMetric
    <3> DEFINE m == Current
               title == SubsystemTitle(m.subsystem)
               heading == <<[kind |-> "heading", title |-> title]>>
               block == <<[kind |-> "metric", qn |-> qualifiedName(m),
                           help |-> m.help, stability |-> Stability(m)]>>
    <3>1. m \in MetricInfo
      BY <2>17, CurrentType DEF RenderMetric
    <3>2. title \in Seq(TitleChars)
      BY <3>1, TitleType DEF MetricInfo
    <3>3. heading \in Seq(Line) /\ << >> \in Seq(Line)
      BY <3>2 DEF Line
    <3>4. block \in Seq(Line)
      BY <3>1, QualifiedNameType, StabilityType, SMTT(30) DEF Line, MetricInfo
    <3>5. out' \in Seq(Line)
      BY <2>17, <3>3, <3>4, ConcatProperties, SMTT(30) DEF RenderMetric, TypeOK
    <3>6. previousTitle' \in Seq(TitleChars)
      BY <2>17, <3>2, SMTT(30) DEF RenderMetric, TypeOK
    <3>. QED  BY <2>17, <3>5, <3>6, SMTT(30) DEF RenderMetric, TypeOK, Stages
  <2>18. CASE RenderPanic
    BY <2>18 DEF RenderPanic, TypeOK, Stages
  <2>19. CASE Finish
    BY <2>19 DEF Finish, TypeOK, Stages
  <2>20. CASE Terminated \/ UNCHANGED vars
    BY <2>20 DEF Terminated, vars, TypeOK
  <2>. QED
    BY <2>1, <2>2, <2>3, <2>4, <2>5, <2>6, <2>7, <2>8, <2>9, <2>10, <2>11,
       <2>12, <2>13, <2>14, <2>15, <2>16, <2>17, <2>18, <2>19, <2>20 DEF Next
<1>. QED  BY <1>1, <1>2, PTL DEF Spec

-----------------------------------------------------------------------------
(* The fold keeps qualified names.                                         *)

\* A string that starts with q is q followed by what TrimPrefix leaves.
LEMMA TrimPrefixSplit ==
    ASSUME NEW s \in Str, NEW q \in Str, HasPrefix(s, q)
    PROVE  s = q \o TrimPrefix(s, q)
<1>1. s \in Seq(Chars) /\ q \in Seq(Chars)
  BY DEF Str
<1>2. Len(q) <= Len(s) /\ SubSeq(s, 1, Len(q)) = q
  BY DEF HasPrefix
<1>3. Len(q) \in 0..Len(s) /\ Len(s) \in Nat
  BY <1>1, <1>2, LenProperties
<1>4. SubSeq(s, 1, Len(q)) \o SubSeq(s, Len(q) + 1, Len(s)) = SubSeq(s, 1, Len(s))
  <2>1. /\ 1 \in 1..Len(s) + 1 /\ Len(q) \in (1 - 1)..Len(s)
        /\ Len(s) \in Len(q)..Len(s)
    BY <1>3
  <2>2. \A m \in 1..Len(s) + 1 : \A k \in (m - 1)..Len(s) : \A n \in k..Len(s) :
           SubSeq(s, m, k) \o SubSeq(s, k + 1, n) = SubSeq(s, m, n)
    BY <1>1, ConcatAdjacentSubSeq, Zenon
  <2>. QED  BY <2>1, <2>2, Zenon
<1>5. SubSeq(s, 1, Len(s)) = s
  BY <1>1, SubSeqFull
<1>6. TrimPrefix(s, q) = SubSeq(s, Len(q) + 1, Len(s))
  BY DEF TrimPrefix
<1>. QED  BY <1>2, <1>4, <1>5, <1>6, Zenon

\* Moving a non-empty prefix p and its "_" from a name into an empty
\* subsystem leaves the "_"-join of namespace, subsystem and name alone,
\* as long as something of the name remains.
LEMMA FoldJoin ==
    ASSUME NEW ns \in Str, NEW n \in Str, NEW p \in Str, p # << >>,
           HasPrefix(n, p \o <<Underscore>>),
           TrimPrefix(n, p \o <<Underscore>>) # << >>
    PROVE  JoinNonEmpty(JoinNonEmpty(ns, << >>), n)
             = JoinNonEmpty(JoinNonEmpty(ns, p), TrimPrefix(n, p \o <<Underscore>>))
<1> DEFINE U == <<Underscore>>
           r == TrimPrefix(n, p \o U)
           X == ns \o U
<1>1. ASSUME NEW a \in Seq(Chars), NEW b \in Seq(Chars)
      PROVE  a \o b \in Seq(Chars)
  BY ConcatProperties
<1>2. ASSUME NEW a \in Seq(Chars), NEW b \in Seq(Chars), NEW c \in Seq(Chars)
      PROVE  (a \o b) \o c = a \o (b \o c)
  BY ConcatAssociative
<1>3. ASSUME NEW a \in Seq(Chars), NEW b \in Seq(Chars), a \o b = << >>
      PROVE  a = << >>
  <2>1. Len(a \o b) = Len(a) + Len(b) /\ Len(a) \in Nat /\ Len(b) \in Nat
    BY ConcatProperties, LenProperties
  <2>2. Len(a) = 0
    BY <1>3, <2>1
  <2>. QED  BY <2>2, EmptySeq
<1>4. /\ ns \in Seq(Chars) /\ n \in Seq(Chars) /\ p \in Seq(Chars)
      /\ U \in Seq(Chars)
  BY CharsAssumption DEF Str
<1>5. p \o U \in Seq(Chars) /\ X \in Seq(Chars)
  BY <1>1, <1>4
<1>6. n \in Str /\ p \o U \in Str /\ r \in Str
  <2>1. n \in Str /\ p \o U \in Str
    BY <1>4, <1>5 DEF Str
  <2>. QED  BY <2>1, TrimPrefixType
<1>7. n = (p \o U) \o r
  BY <1>6, TrimPrefixSplit, Zenon
<1>8. p \o U # << >> /\ n # << >>
  BY <1>3, <1>4, <1>5, <1>6, <1>7 DEF Str
<1>9. JoinNonEmpty(ns, << >>) = ns
  BY DEF JoinNonEmpty
<1>10. CASE ns = << >>
  <2>1. JoinNonEmpty(JoinNonEmpty(ns, p), r) = (p \o U) \o r
    BY <1>10 DEF JoinNonEmpty
  <2>. QED  BY <1>7, <1>8, <1>9, <1>10, <2>1, SMTT(30) DEF JoinNonEmpty
<1>11. CASE ns # << >>
  <2>1. JoinNonEmpty(ns, n) = X \o n
    BY <1>8, <1>11 DEF JoinNonEmpty
  <2>2. JoinNonEmpty(JoinNonEmpty(ns, p), r) = ((X \o p) \o U) \o r
    BY <1>11 DEF JoinNonEmpty
  <2>3. (X \o p) \o U = X \o (p \o U)
    BY <1>2, <1>4, <1>5
  <2>4. (X \o (p \o U)) \o r = X \o ((p \o U) \o r)
    <3>1. r \in Seq(Chars)
      BY <1>6 DEF Str
    <3>. QED  BY <1>2, <1>5, <3>1, ZenonT(40)
  <2>. QED  BY <1>7, <1>9, <1>11, <2>1, <2>2, <2>3, <2>4, Zenon
<1>. QED  BY <1>10, <1>11

\* The fields of a metric after the fold's record update.
LEMMA FoldRecordFields ==
    ASSUME NEW m \in MetricInfo, NEW sub, NEW n
    PROVE  LET r == [m EXCEPT !.subsystem = sub, !.name = n]
           IN  r.namespace = m.namespace /\ r.subsystem = sub /\ r.name = n
BY Zenon DEF MetricInfo

\* Appending keeps the elements already there.
LEMMA AppendKeeps ==
    ASSUME NEW S, NEW s \in Seq(S), NEW t \in Seq(S), NEW i \in DOMAIN s
    PROVE  (s \o t)[i] = s[i]
BY ConcatProperties, LenProperties

\* The fold loop at main.go:91-98 never changes the qualified name a
\* surviving metric is documented under, unless the fold empties the name:
\* for every value of the constants, every step of main() that changes
\* allMetrics keeps qualifiedName of each surviving position.
THEOREM FoldQualifiedName == Spec => FoldKeepsQualifiedName
<1> DEFINE Keeps == \A i \in live \cap DOMAIN allMetrics' :
                      allMetrics'[i].name # << >> =>
                         qualifiedName(allMetrics'[i]) = qualifiedName(allMetrics[i])
<1>1. TypeOK /\ [Next]_vars => [Keeps]_allMetrics
  <2> SUFFICES ASSUME TypeOK, [Next]_vars PROVE [Keeps]_allMetrics
    OBVIOUS
  <2>1. ASSUME NEW t \in Seq(MetricInfo), allMetrics' = allMetrics \o t,
               live' = live
        PROVE  Keeps
    BY <2>1, AppendKeeps DEF TypeOK
  <2>2. ASSUME NEW f \in Files, ScanFile(f) PROVE Keeps
    <3>1. src[f] \in Seq(MetricInfo)
      BY <2>2, ContentType DEF ScanFile, TypeOK
    <3>2. allMetrics' = allMetrics \o src[f] /\ live' = live
      BY <2>2 DEF ScanFile
    <3>. QED  BY <2>1, <3>1, <3>2, Zenon
  <2>3. CASE AddKindMetrics
    <3>1. CRDKinds[idx] \in Str
      <4>1. idx \in 1..Len(CRDKinds)
        BY <2>3, CatalogAssumption, LenProperties DEF AddKindMetrics, TypeOK
      <4>. QED  BY <4>1, CatalogAssumption, ElementOfSeq
    <3>2. allMetrics' = allMetrics \o KindMetrics(CRDKinds[idx]) /\ live' = live
      BY <2>3 DEF AddKindMetrics
    <3>. QED  BY <2>1, <3>1, <3>2, KindMetricsType, SMTT(30)
  <2>4. CASE AddLegacyMetrics
    <3>1. allMetrics' = allMetrics \o LegacyAndClientGoMetrics /\ live' = live
      BY <2>4 DEF AddLegacyMetrics
    <3>. QED  BY <2>1, <3>1, LegacyType, SMTT(30)
  <2>5. CASE FoldSubsystem
    <3> DEFINE sub == FoldSubsystems[idx]
               p == sub \o <<Underscore>>
    <3>1. idx \in DOMAIN FoldSubsystems /\ sub \in Str /\ sub # << >>
      <4>1. idx <= Len(FoldSubsystems)
        BY <2>5, Zenon DEF FoldSubsystem
      <4>2. idx \in 1..Len(FoldSubsystems)
        BY <4>1, TableAssumption, LenProperties DEF TypeOK
      <4>. QED  BY <4>2, TableAssumption, FoldPrefixAssumption, LenProperties,
                  ElementOfSeq
    <3>2. allMetrics' =
             [i \in DOMAIN allMetrics |->
                IF i \in live /\ allMetrics[i].subsystem = << >>
                   /\ HasPrefix(allMetrics[i].name, p)
                THEN [allMetrics[i] EXCEPT !.subsystem = sub,
                                           !.name = TrimPrefix(@, p)]
                ELSE allMetrics[i]]
      BY <2>5, Zenon DEF FoldSubsystem
    <3> SUFFICES ASSUME NEW i \in live \cap DOMAIN allMetrics',
                        allMetrics'[i].name # << >>
                 PROVE  qualifiedName(allMetrics'[i]) = qualifiedName(allMetrics[i])
      BY DEF Keeps
    <3> DEFINE m == allMetrics[i]
    <3>3. i \in DOMAIN allMetrics /\ m \in MetricInfo
      <4>1. DOMAIN allMetrics' = DOMAIN allMetrics
        BY <3>2, ZenonT(40)
      <4>. QED  BY <4>1, ElementOfSeq DEF TypeOK
    <3>4. CASE m.subsystem = << >> /\ HasPrefix(m.name, p)
      <4>1. allMetrics'[i] = [m EXCEPT !.subsystem = sub, !.name = TrimPrefix(m.name, p)]
        BY <3>2, <3>3, <3>4, Zenon
      <4>2. /\ allMetrics'[i].namespace = m.namespace
            /\ allMetrics'[i].subsystem = sub
            /\ allMetrics'[i].name = TrimPrefix(m.name, p)
        BY <3>3, <4>1, FoldRecordFields
      <4>3. JoinNonEmpty(JoinNonEmpty(m.namespace, << >>), m.name)
              = JoinNonEmpty(JoinNonEmpty(m.namespace, sub), TrimPrefix(m.name, p))
        BY <3>1, <3>3, <3>4, <4>2, FoldJoin DEF MetricInfo
      <4>. QED  BY <3>4, <4>2, <4>3 DEF qualifiedName
    <3>5. CASE ~(m.subsystem = << >> /\ HasPrefix(m.name, p))
      BY <3>2, <3>3, <3>5, Zenon
    <3>. QED  BY <3>4, <3>5
  <2>6. CASE ParseFailure \/ getPackages \/ NextRoot \/ StartPatterns
    BY <2>6 DEF ParseFailure, getPackages, NextRoot, StartPatterns
  <2>7. ASSUME NEW f \in Files, ScanFileFatal(f) PROVE UNCHANGED allMetrics
    BY <2>7 DEF ScanFileFatal
  <2>8. CASE Dedupe \/ DropMetrics \/ EndDrop \/ EndFold \/ SortMetrics
    BY <2>8, SMTT(30) DEF Dedupe, DropMetrics, EndDrop, EndFold, SortMetrics
  <2>9. CASE CreateOutput \/ CreateFails \/ RenderPanic \/ Finish
    BY <2>9 DEF CreateOutput, CreateFails, RenderPanic, Finish
  <2>13. CASE RenderMetric
    <3>1. UNCHANGED allMetrics
      BY <2>13, ZenonT(40) DEF RenderMetric
    <3>. QED  BY <3>1
  <2>10. CASE Terminated \/ UNCHANGED vars
    BY <2>10 DEF Terminated, vars
  <2>11. ASSUME NEW f \in Files, ScanFile(f) \/ ScanFileFatal(f)
         PROVE  [Keeps]_allMetrics
    BY <2>2, <2>7, <2>11, SMTT(30)
  <2>12. CASE Next
    BY <2>3, <2>4, <2>5, <2>6, <2>8, <2>9, <2>10, <2>11, <2>12, <2>13, SMTT(30) DEF Next
  <2>. QED
    BY <2>10, <2>12
<1>. QED  BY <1>1, TypeCorrect, PTL DEF FoldKeepsQualifiedName, Spec

=============================================================================
