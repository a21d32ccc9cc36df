------------------------- MODULE MetricsGenDocument -------------------------
(***************************************************************************)
(* Proof that a finished run of main() documents exactly its sources      *)
(* (DocumentMatchesSources).  The argument joins four accounts of a run:  *)
(*   - CollectInv: the records in allMetrics are those of the files        *)
(*     scanned so far and of the catalogue kinds added so far, so that the *)
(*     merged records are exactly SourceRecords (main.go:69-75);           *)
(*   - NormalizationInv (MetricsGenRefinement): the survivors of the       *)
(*     dedupe, drop and fold loops are Normalized(merged);                 *)
(*   - SortedPermutation (MetricsGenSorting): the render loop walks every  *)
(*     survivor once;                                                      *)
(*   - RenderInv: the blocks written are those of the metrics the render   *)
(*     loop has passed that have a qualified name (main.go:133-166).       *)
(* What is left is a fact about sequences of records: the normalized      *)
(* records of c, rendered, are the document DocumentMatchesSources asks    *)
(* for of the records Range(c).                                            *)
(***************************************************************************)
EXTENDS MetricsGenRefinement, MetricsGenSorting

\* the files getPackages hands to the scanner: those of non-test packages
NonTestFiles == {f \in Files : ~FileTest[f]}

\* the records the files F declare
RecordsOf(F) == UNION {Range(src[f]) : f \in F}

\* the files whose records are in allMetrics: every non-test file of the
\* roots before the current one, and of the current root the ones the scan
\* loop has taken out of pending
ScannedFiles ==
    {f \in NonTestFiles : \/ FileRoot[f] < root
                          \/ FileRoot[f] = root /\ pc # "walk" /\ f \notin pending}

\* the records addPatternBasedMetrics has added for the first n CRD kinds
CatalogueRecords(n) == UNION {Range(KindMetrics(CRDKinds[k])) : k \in 1..n}

\* the stages after the catalogue is merged
Merged == {"dedupe", "drop", "fold", "sort", "create", "render", "done", "panic"}

\* What allMetrics holds while the roots are walked and the catalogue is
\* added (main.go:69-75), and what merged holds from then on.
CollectInv ==
    /\ pc = "scan" => pending \subseteq {f \in NonTestFiles : FileRoot[f] = root}
    /\ pc \in {"walk", "scan"} => Range(allMetrics) = RecordsOf(ScannedFiles)
    /\ pc = "kinds" =>
         /\ idx <= Len(CRDKinds) + 1
         /\ Range(allMetrics) = RecordsOf(NonTestFiles) \cup CatalogueRecords(idx - 1)
    /\ pc \in Merged => Range(merged) = SourceRecords

\* the block the render loop writes for metric m (main.go:150-165)
Block(m) ==
    [kind |-> "metric", qn |-> qualifiedName(m), help |-> m.help, stability |-> Stability(m)]

\* the blocks of the first n metrics of the sorted slice
RenderedBlocks(n) ==
    {Block(allMetrics[order[a]]) :
        a \in {a \in 1..n : qualifiedName(allMetrics[order[a]]) # << >>}}

\* What the render loop has written: nothing before it starts, one block
\* for each metric it has passed that has a qualified name, and all of
\* them once it has finished.
RenderInv ==
    /\ pc \notin {"render", "done", "panic"} => out = << >>
    /\ pc \in {"render", "done", "panic"} => MetricBlocks = RenderedBlocks(idx - 1)
    /\ pc = "done" => idx = Len(order) + 1

-----------------------------------------------------------------------------
(* The collection: main.go:69-75.                                          *)

\* the records of a concatenation are those of its two parts
LEMMA RangeConcat ==
    ASSUME NEW S, NEW s \in Seq(S), NEW t \in Seq(S)
    PROVE  Range(s \o t) = Range(s) \cup Range(t)
<1>1. /\ Len(s \o t) = Len(s) + Len(t) /\ Len(s) \in Nat /\ Len(t) \in Nat
      /\ \A i \in 1..(Len(s) + Len(t)) :
            (s \o t)[i] = IF i <= Len(s) THEN s[i] ELSE t[i - Len(s)]
  BY ConcatProperties
<1>2. DOMAIN (s \o t) = 1..(Len(s) + Len(t)) /\ DOMAIN s = 1..Len(s) /\ DOMAIN t = 1..Len(t)
  BY <1>1, ConcatProperties, LenProperties
<1>3. Range(s \o t) \subseteq Range(s) \cup Range(t)
  BY <1>1, <1>2 DEF Range
<1>4. Range(s) \subseteq Range(s \o t)
  BY <1>1, <1>2 DEF Range
<1>5. ASSUME NEW j \in 1..Len(t) PROVE t[j] \in Range(s \o t)
  <2>1. Len(s) + j \in 1..(Len(s) + Len(t)) /\ ~(Len(s) + j <= Len(s))
    BY <1>1
  <2>2. (s \o t)[Len(s) + j] = t[j]
    BY <1>1, <2>1
  <2>. QED  BY <2>1, <2>2, <1>2 DEF Range
<1>. QED  BY <1>3, <1>4, <1>5, <1>2 DEF Range
\* the records of one more file
LEMMA RecordsOfAdd ==
    ASSUME NEW F, NEW f
    PROVE  RecordsOf(F \cup {f}) = RecordsOf(F) \cup Range(src[f])
BY DEF RecordsOf

\* the records of the catalogue kinds up to the n-th
LEMMA CatalogueAdd ==
    ASSUME NEW n \in Nat \ {0}
    PROVE  CatalogueRecords(n) = CatalogueRecords(n - 1) \cup Range(KindMetrics(CRDKinds[n]))
<1>1. 1..n = 1..(n - 1) \cup {n}
  OBVIOUS
<1>. QED  BY <1>1 DEF CatalogueRecords

\* a step that neither collects nor merges: CollectInv holds after it
\* when it fails the run or stays in the merged stages with merged alone
LEMMA CollectKept ==
    ASSUME CollectInv,
           \/ pc' = "fatal"
           \/ pc \in Merged /\ pc' \in Merged /\ UNCHANGED <<src, merged>>
    PROVE  CollectInv'
BY DEF CollectInv, Merged, SourceRecords

LEMMA CollectStep ==
    ASSUME TypeOK, CollectInv, [Next]_vars
    PROVE  CollectInv'
<1>0. /\ NRoots \in Nat \ {0} /\ FileRoot \in [Files -> 1..NRoots]
      /\ Len(CRDKinds) \in Nat /\ DOMAIN CRDKinds = 1..Len(CRDKinds)
      /\ root \in 1..NRoots /\ idx \in Nat \ {0}
  BY InputAssumption, CatalogAssumption, LenProperties DEF TypeOK
<1>1. CASE getPackages
  <2>1. pending' \subseteq {f \in NonTestFiles : FileRoot[f] = root'}
    BY <1>1 DEF getPackages, RootFiles, NonTestFiles
  <2>2. ScannedFiles' = ScannedFiles
    BY <1>1 DEF getPackages, ScannedFiles, RootFiles, NonTestFiles
  <2>3. RecordsOf(ScannedFiles)' = RecordsOf(ScannedFiles)
    BY <1>1, <2>2 DEF getPackages, RecordsOf
  <2>. QED  BY <1>1, <2>1, <2>3 DEF getPackages, CollectInv, Merged
<1>2. ASSUME NEW f \in Files, ScanFile(f)
      PROVE  CollectInv'
  <2>1. pc = "scan" /\ f \in pending /\ FileRoot[f] = root /\ f \in NonTestFiles
    BY <1>2 DEF ScanFile, CollectInv
  <2>2. src[f] \in Seq(MetricInfo)
    BY <1>2, ContentType DEF ScanFile, TypeOK
  <2>3. Range(allMetrics') = Range(allMetrics) \cup Range(src[f])
    BY <1>2, <2>2, RangeConcat DEF ScanFile, TypeOK
  <2>4. ScannedFiles' = ScannedFiles \cup {f}
    BY <1>2, <2>1 DEF ScanFile, ScannedFiles
  <2>5. RecordsOf(ScannedFiles)' = RecordsOf(ScannedFiles) \cup Range(src[f])
    <3>1. RecordsOf(ScannedFiles)' = RecordsOf(ScannedFiles \cup {f})
      BY <1>2, <2>4 DEF ScanFile, RecordsOf
    <3>. QED  BY <3>1, RecordsOfAdd
  <2>6. pending' \subseteq {g \in NonTestFiles : FileRoot[g] = root'}
    BY <1>2, <2>1 DEF ScanFile, CollectInv
  <2>. QED  BY <1>2, <2>1, <2>3, <2>5, <2>6 DEF ScanFile, CollectInv, Merged
<1>3. CASE NextRoot
  <2>1. ScannedFiles' = ScannedFiles
    <3>1. \A f \in Files : FileRoot[f] < root + 1 <=> FileRoot[f] < root \/ FileRoot[f] = root
      BY <1>0
    <3>. QED  BY <1>3, <3>1 DEF NextRoot, ScannedFiles, NonTestFiles
  <2>2. RecordsOf(ScannedFiles)' = RecordsOf(ScannedFiles)
    BY <1>3, <2>1 DEF NextRoot, RecordsOf
  <2>. QED  BY <1>3, <2>2 DEF NextRoot, CollectInv, Merged
<1>4. CASE StartPatterns
  <2>1. ScannedFiles = NonTestFiles
    BY <1>0, <1>4 DEF StartPatterns, ScannedFiles, NonTestFiles
  <2>2. CatalogueRecords(idx' - 1) = {}
    BY <1>4 DEF StartPatterns, CatalogueRecords
  <2>3. RecordsOf(NonTestFiles)' = RecordsOf(NonTestFiles)
    BY <1>4 DEF StartPatterns, RecordsOf, NonTestFiles
  <2>4. idx' <= Len(CRDKinds) + 1
    BY <1>0, <1>4 DEF StartPatterns
  <2>. QED  BY <1>4, <2>1, <2>2, <2>3, <2>4, SMTT(30) DEF StartPatterns, CollectInv, Merged
<1>5. CASE AddKindMetrics
  <2>1. CRDKinds[idx] \in Str
    BY <1>0, <1>5, CatalogAssumption DEF AddKindMetrics
  <2>2. Range(allMetrics') = Range(allMetrics) \cup Range(KindMetrics(CRDKinds[idx]))
    BY <1>5, <2>1, KindMetricsType, RangeConcat DEF AddKindMetrics, TypeOK
  <2>3. CatalogueRecords(idx' - 1)
          = CatalogueRecords(idx - 1) \cup Range(KindMetrics(CRDKinds[idx]))
    BY <1>0, <1>5, CatalogueAdd DEF AddKindMetrics
  <2>4. RecordsOf(NonTestFiles)' = RecordsOf(NonTestFiles)
    BY <1>5 DEF AddKindMetrics, RecordsOf, NonTestFiles
  <2>5. Range(allMetrics) = RecordsOf(NonTestFiles) \cup CatalogueRecords(idx - 1)
    BY <1>5 DEF AddKindMetrics, CollectInv
  <2>6. idx' <= Len(CRDKinds) + 1 /\ pc' = "kinds"
    BY <1>0, <1>5 DEF AddKindMetrics
  <2>. QED  BY <2>2, <2>3, <2>4, <2>5, <2>6 DEF CollectInv, Merged, CatalogueRecords
<1>6. CASE AddLegacyMetrics
  <2>1. idx - 1 = Len(CRDKinds)
    BY <1>0, <1>6 DEF AddLegacyMetrics, CollectInv
  <2>2. CatalogueRecords(idx - 1)
          = UNION {Range(KindMetrics(CRDKinds[k])) : k \in DOMAIN CRDKinds}
    BY <1>0, <2>1 DEF CatalogueRecords
  <2>3. Range(merged') = Range(allMetrics) \cup Range(LegacyAndClientGoMetrics)
    BY <1>6, LegacyType, RangeConcat DEF AddLegacyMetrics, TypeOK
  <2>4. SourceRecords' = SourceRecords
    BY <1>6 DEF AddLegacyMetrics, SourceRecords
  <2>5. Range(allMetrics) = RecordsOf(NonTestFiles) \cup CatalogueRecords(idx - 1)
    BY <1>6 DEF AddLegacyMetrics, CollectInv
  <2>6. RecordsOf(NonTestFiles) \cup CatalogueRecords(idx - 1) \cup Range(LegacyAndClientGoMetrics)
          = SourceRecords
    BY <2>2 DEF RecordsOf, NonTestFiles, SourceRecords
  <2>7. Range(merged') = SourceRecords'
    BY <2>3, <2>4, <2>5, <2>6
  <2>8. pc' = "dedupe"
    BY <1>6 DEF AddLegacyMetrics
  <2>. QED  BY <2>7, <2>8 DEF CollectInv, Merged
<1>7. CASE ParseFailure \/ CreateFails \/ \E f \in Files : ScanFileFatal(f)
  BY <1>7, CollectKept, SMTT(30) DEF ParseFailure, CreateFails, ScanFileFatal
<1>8. CASE \/ Dedupe \/ DropMetrics \/ EndDrop \/ FoldSubsystem \/ EndFold \/ SortMetrics
           \/ CreateOutput \/ RenderMetric \/ RenderPanic \/ Finish
  BY <1>8, CollectKept, ZenonT(40) DEF Dedupe, DropMetrics, EndDrop, FoldSubsystem, EndFold,
                           SortMetrics, CreateOutput, RenderMetric, RenderPanic,
                           Finish, Merged
<1>9. CASE Terminated \/ UNCHANGED vars
  BY <1>9 DEF Terminated, vars, CollectInv, Merged, SourceRecords, ScannedFiles,
              RecordsOf, NonTestFiles
<1>. QED  BY <1>1, <1>2, <1>3, <1>4, <1>5, <1>6, <1>7, <1>8, <1>9, SMTT(30) DEF Next
-----------------------------------------------------------------------------
(* The render loop: main.go:101-166.                                       *)

\* the metric blocks among the lines s
BlocksOf(s) == {s[k] : k \in {k \in DOMAIN s : s[k].kind = "metric"}}

\* the blocks of a concatenation are those of its two parts
LEMMA BlocksOfConcat ==
    ASSUME NEW s \in Seq(Line), NEW t \in Seq(Line)
    PROVE  BlocksOf(s \o t) = BlocksOf(s) \cup BlocksOf(t)
<1>1. /\ Len(s \o t) = Len(s) + Len(t) /\ Len(s) \in Nat /\ Len(t) \in Nat
      /\ \A i \in 1..(Len(s) + Len(t)) :
            (s \o t)[i] = IF i <= Len(s) THEN s[i] ELSE t[i - Len(s)]
  BY ConcatProperties
<1>2. DOMAIN (s \o t) = 1..(Len(s) + Len(t)) /\ DOMAIN s = 1..Len(s) /\ DOMAIN t = 1..Len(t)
  BY <1>1, ConcatProperties, LenProperties
<1>3. BlocksOf(s \o t) \subseteq BlocksOf(s) \cup BlocksOf(t)
  BY <1>1, <1>2 DEF BlocksOf
<1>4. BlocksOf(s) \subseteq BlocksOf(s \o t)
  BY <1>1, <1>2 DEF BlocksOf
<1>5. ASSUME NEW j \in 1..Len(t), t[j].kind = "metric" PROVE t[j] \in BlocksOf(s \o t)
  <2>1. Len(s) + j \in 1..(Len(s) + Len(t)) /\ ~(Len(s) + j <= Len(s))
    BY <1>1
  <2>2. (s \o t)[Len(s) + j] = t[j]
    BY <1>1, <2>1
  <2>. QED  BY <1>5, <2>1, <2>2, <1>2 DEF BlocksOf
<1>. QED  BY <1>3, <1>4, <1>5, <1>2, SMTT(30) DEF BlocksOf

LEMMA RenderStep ==
    ASSUME TypeOK, RenderInv, [Next]_vars
    PROVE  RenderInv'
<1>1. CASE RenderMetric
  <2> DEFINE m == Current
             title == SubsystemTitle(m.subsystem)
             newHeading == m.subsystem # << >> /\ title # previousTitle
             H == IF newHeading THEN <<[kind |-> "heading", title |-> title]>> ELSE << >>
             B == IF qualifiedName(m) # << >> THEN <<Block(m)>> ELSE << >>
  <2>1. m \in MetricInfo /\ pc = "render" /\ idx \in 1..Len(order)
    BY <1>1, CurrentType, SMTT(30) DEF RenderMetric, TypeOK
  <2>2. H \in Seq(Line) /\ B \in Seq(Line)
    <3>1. title \in Seq(TitleChars)
      BY <2>1, TitleType DEF MetricInfo
    <3>2. qualifiedName(m) \in Str /\ Stability(m) \in {"DEPRECATED", "STABLE", "BETA", "ALPHA"}
      BY <2>1, QualifiedNameType, StabilityType
    <3>3. <<[kind |-> "heading", title |-> title]>> \in Seq(Line) /\ << >> \in Seq(Line)
      BY <3>1 DEF Line
    <3>4. Block(m) \in Line
      BY <2>1, <3>2 DEF Line, Block, MetricInfo
    <3>5. <<Block(m)>> \in Seq(Line)
      BY <3>4
    <3>. QED  BY <3>3, <3>5
  <2>3. out' = (out \o H) \o B
    BY <1>1 DEF RenderMetric, Block
  <2>4. BlocksOf(out') = BlocksOf(out) \cup BlocksOf(H) \cup BlocksOf(B)
    <3>0. out \in Seq(Line)
      BY DEF TypeOK
    <3>1. out \o H \in Seq(Line)
      BY <2>2, <3>0, ConcatProperties
    <3>2. BlocksOf(out \o H) = BlocksOf(out) \cup BlocksOf(H)
      BY <2>2, <3>0, BlocksOfConcat
    <3>3. BlocksOf((out \o H) \o B) = BlocksOf(out \o H) \cup BlocksOf(B)
      BY <2>2, <3>1, BlocksOfConcat
    <3>. QED  BY <2>3, <3>2, <3>3
  <2>5. BlocksOf(H) = {}
    BY DEF BlocksOf
  <2>6. BlocksOf(B) = IF qualifiedName(m) # << >> THEN {Block(m)} ELSE {}
    BY DEF BlocksOf, Block
  <2>7. RenderedBlocks(idx) =
          RenderedBlocks(idx - 1) \cup (IF qualifiedName(m) # << >> THEN {Block(m)} ELSE {})
    <3>1. 1..idx = 1..(idx - 1) \cup {idx}
      BY <2>1, SMTT(30)
    <3>. QED  BY <3>1 DEF RenderedBlocks, Current
  <2>8. RenderedBlocks(idx - 1)' = RenderedBlocks(idx)
    BY <1>1, <2>1 DEF RenderMetric, RenderedBlocks
  <2>. QED  BY <1>1, <2>4, <2>5, <2>6, <2>7, <2>8 DEF RenderInv, RenderMetric, MetricBlocks, BlocksOf
<1>2. CASE CreateOutput
  <2>1. MetricBlocks' = {} /\ RenderedBlocks(idx - 1)' = {}
    BY <1>2 DEF CreateOutput, RenderInv, MetricBlocks, RenderedBlocks
  <2>. QED  BY <1>2, <2>1 DEF CreateOutput, RenderInv
<1>3. CASE Finish
  <2>1. idx = Len(order) + 1
    <3>1. Len(order) \in Nat /\ idx \in Nat /\ idx > Len(order) /\ idx <= Len(order) + 1
      BY <1>3, LenProperties DEF Finish, TypeOK
    <3>. QED  BY <3>1
  <2>. QED  BY <1>3, <2>1, SMTT(30) DEF Finish, RenderInv, MetricBlocks, RenderedBlocks
<1>4. CASE RenderPanic
  BY <1>4, SMTT(30) DEF RenderPanic, RenderInv, MetricBlocks, RenderedBlocks
<1>5. CASE \/ ParseFailure \/ getPackages \/ NextRoot \/ StartPatterns
           \/ AddKindMetrics \/ AddLegacyMetrics \/ Dedupe \/ DropMetrics
           \/ EndDrop \/ FoldSubsystem \/ EndFold \/ SortMetrics \/ CreateFails
  BY <1>5 DEF ParseFailure, getPackages, NextRoot, StartPatterns, AddKindMetrics,
              AddLegacyMetrics, Dedupe, DropMetrics, EndDrop, FoldSubsystem, EndFold,
              SortMetrics, CreateFails, RenderInv
<1>6. ASSUME NEW f \in Files, ScanFile(f) \/ ScanFileFatal(f)
      PROVE  RenderInv'
  BY <1>6 DEF ScanFile, ScanFileFatal, RenderInv
<1>7. CASE Terminated \/ UNCHANGED vars
  BY <1>7 DEF Terminated, vars, RenderInv, MetricBlocks, RenderedBlocks
<1>. QED  BY <1>1, <1>2, <1>3, <1>4, <1>5, <1>6, <1>7, SMTT(30) DEF Next
-----------------------------------------------------------------------------
(* The records of the document: FoldedOnce is the Normalizer's FoldOnce, *)
(* and what it documents of a record depends on its identity alone.       *)

\* a non-empty set of naturals has a least element
LEMMA NatMinimum ==
    ASSUME NEW T \in SUBSET Nat, T # {}
    PROVE  \E m \in T : \A j \in T : m <= j
<1>1. PICK m \in T : \A j \in T : ~(<<j, m>> \in NatLess)
  BY WFMin, NatLessWellFounded
<1>2. ASSUME NEW j \in T PROVE m <= j
  <2>1. ~(j < m)
    BY <1>1, NatLessMember
  <2>. QED  BY <2>1
<1>. QED  BY <1>2

\* the fold prefixes a name starts with, and the first of them
FoldSet(nm) == {k \in DOMAIN FoldSubsystems : HasPrefix(nm, FoldPrefix(k))}
FoldIdx(nm) == CHOOSE k \in FoldSet(nm) : \A j \in FoldSet(nm) : k <= j

LEMMA FoldedOnceForm ==
    ASSUME NEW m
    PROVE  FoldedOnce(m) = IF m.subsystem = << >> /\ FoldSet(m.name) # {}
                           THEN FoldedBy(m, FoldIdx(m.name)) ELSE m
BY Zenon DEF FoldedOnce, FoldSet, FoldIdx, FoldedBy, FoldPrefix

\* FoldedOnce leaves a record in the state the fold loop leaves it in
LEMMA FoldedOnceBefore ==
    ASSUME NEW m \in MetricInfo
    PROVE  FoldedBefore(m, FoldedOnce(m), Len(FoldSubsystems) + 1)
<1> DEFINE F == FoldSubsystems
           K == FoldSet(m.name)
<1>0. /\ F \in Seq(Str) /\ Len(F) \in Nat /\ DOMAIN F = 1..Len(F)
      /\ Len(F) + 1 - 1 = Len(F)
  BY TableAssumption, LenProperties
<1>1. CASE m.subsystem = << >> /\ K # {}
  <2>0. K \in SUBSET Nat /\ K # {}
    BY <1>0, <1>1 DEF FoldSet
  <2>1. PICK k0 \in K : \A j \in K : k0 <= j
    BY <2>0, NatMinimum
  <2>2. FoldIdx(m.name) = k0
    BY <1>0, <2>1, ChooseLeast DEF FoldIdx, FoldSet
  <2>3. FirstFold(m, k0)
    <3>1. ASSUME NEW j \in 1..(k0 - 1) PROVE ~HasPrefix(m.name, FoldPrefix(j))
      BY <1>0, <2>1, <3>1 DEF FoldSet
    <3>. QED  BY <1>1, <2>1, <3>1 DEF FirstFold, FoldSet
  <2>4. k0 \in 1..(Len(F) + 1 - 1)
    BY <1>0, <2>1 DEF FoldSet
  <2>. QED  BY <1>1, <2>2, <2>3, <2>4, FoldedOnceForm, SMTT(30) DEF FoldedBefore
<1>2. CASE ~(m.subsystem = << >> /\ K # {})
  <2>1. UnfoldedBefore(m, Len(F) + 1)
    BY <1>0, <1>2 DEF UnfoldedBefore, FoldSet
  <2>. QED  BY <1>2, <2>1, FoldedOnceForm DEF FoldedBefore
<1>. QED  BY <1>1, <1>2

\* the fold the documentation describes is the one the Normalizer does
LEMMA FoldedOnceIsFoldOnce ==
    ASSUME NEW m \in MetricInfo
    PROVE  FoldedOnce(m) = Abs!FoldOnce(m)
BY FoldedOnceBefore, FoldOnceMatches

\* the help text survives the fold's record update
LEMMA FoldedByHelp ==
    ASSUME NEW m \in MetricInfo, NEW k
    PROVE  FoldedBy(m, k).help = m.help
BY Zenon DEF FoldedBy, MetricInfo

\* two records of one identity are documented under one qualified name and
\* one stability level, and each keeps its help text
LEMMA FoldOnceIdentity ==
    ASSUME NEW a \in MetricInfo, NEW b \in MetricInfo,
           Abs!Identity(a) = Abs!Identity(b)
    PROVE  /\ qualifiedName(FoldedOnce(a)) = qualifiedName(FoldedOnce(b))
           /\ Stability(FoldedOnce(a)) = Stability(FoldedOnce(b))
           /\ FoldedOnce(a).help = a.help
<1>1. a.namespace = b.namespace /\ a.subsystem = b.subsystem /\ a.name = b.name
  BY DEF Abs!Identity
<1>2. /\ FoldedOnce(a).namespace = FoldedOnce(b).namespace
      /\ FoldedOnce(a).subsystem = FoldedOnce(b).subsystem
      /\ FoldedOnce(a).name = FoldedOnce(b).name
      /\ FoldedOnce(a).help = a.help
  <2>1. CASE a.subsystem = << >> /\ FoldSet(a.name) # {}
    <3> DEFINE k == FoldIdx(a.name)
    <3>1. FoldedOnce(a) = FoldedBy(a, k) /\ FoldedOnce(b) = FoldedBy(b, k)
      BY <1>1, <2>1, FoldedOnceForm
    <3>2. /\ FoldedBy(a, k).namespace = FoldedBy(b, k).namespace
          /\ FoldedBy(a, k).subsystem = FoldedBy(b, k).subsystem
          /\ FoldedBy(a, k).name = FoldedBy(b, k).name
      BY <1>1, FoldedByFields
    <3>3. FoldedBy(a, k).help = a.help
      BY FoldedByHelp
    <3>. QED  BY <3>1, <3>2, <3>3, SMTT(30)
  <2>2. CASE ~(a.subsystem = << >> /\ FoldSet(a.name) # {})
    <3>1. FoldedOnce(a) = a /\ FoldedOnce(b) = b
      BY <1>1, <2>2, FoldedOnceForm, SMTT(30)
    <3>. QED  BY <1>1, <3>1
  <2>. QED  BY <2>1, <2>2
<1>3. qualifiedName(FoldedOnce(a)) = qualifiedName(FoldedOnce(b))
  BY <1>2 DEF qualifiedName
<1>4. Stability(FoldedOnce(a)) = Stability(FoldedOnce(b))
  BY <1>2, <1>3, SMTT(30) DEF Stability
<1>. QED  BY <1>2, <1>3, <1>4
-----------------------------------------------------------------------------
(* The finished document.                                                  *)

\* In a finished run the blocks are the normalized merged records that
\* have a qualified name, and the merged records are the sources: what
\* DocumentMatchesSources asks for.
LEMMA DocumentAtDone ==
    ASSUME TypeOK, CollectInv, RenderInv, SortedPermutation, NormalizationInv,
           pc = "done"
    PROVE  DocumentMatchesSources
<1> DEFINE c == merged
           D == {i \in Abs!FirstOfIdentity(c) : ~Abs!NoiseName(c[i])}
<1>1. c \in Seq(MetricInfo) /\ DOMAIN c = 1..Len(c)
  BY LenProperties DEF TypeOK
<1>2. Range(c) = SourceRecords
  BY DEF CollectInv, Merged
<1>3. live = D /\ \A i \in live : allMetrics[i] = FoldedOnce(c[i])
  <2>1. [i \in live |-> allMetrics[i]] = Abs!Normalized(c)
    BY DEF NormalizationInv
  <2>2. live = D
    BY <2>1, Zenon DEF Abs!Normalized
  <2>3. ASSUME NEW i \in live PROVE allMetrics[i] = FoldedOnce(c[i])
    <3>1. allMetrics[i] = Abs!FoldOnce(c[i])
      BY <2>1, <2>2, Zenon DEF Abs!Normalized
    <3>2. c[i] \in MetricInfo
      BY <1>1, <2>2 DEF Abs!FirstOfIdentity
    <3>. QED  BY <3>1, <3>2, FoldedOnceIsFoldOnce
  <2>. QED  BY <2>2, <2>3
<1>4. MetricBlocks = {Block(allMetrics[i]) :
                        i \in {i \in live : qualifiedName(allMetrics[i]) # << >>}}
  <2>1. MetricBlocks = RenderedBlocks(Len(order))
    BY SMTT(30) DEF RenderInv
  <2>2. Range(order) = live /\ DOMAIN order = 1..Len(order)
    BY LenProperties DEF SortedPermutation, TypeOK
  <2>. QED  BY <2>1, <2>2 DEF RenderedBlocks, Range
<1>5. ASSUME NEW m \in SourceRecords, ~Noise(m), qualifiedName(FoldedOnce(m)) # << >>
      PROVE  \E b \in MetricBlocks :
                /\ b.qn = qualifiedName(FoldedOnce(m))
                /\ b.help \in FirstHelps(m)
                /\ b.stability = Stability(FoldedOnce(m))
  <2> DEFINE T == {i \in DOMAIN c : Abs!Identity(c[i]) = Abs!Identity(m)}
  <2>1. PICK j \in DOMAIN c : c[j] = m
    BY <1>2 DEF Range
  <2>2. m \in MetricInfo /\ T \in SUBSET Nat /\ T # {}
    BY <1>1, <2>1
  <2>3. PICK i \in T : \A k \in T : i <= k
    BY <2>2, NatMinimum
  <2>4. c[i] \in MetricInfo /\ Abs!Identity(c[i]) = Abs!Identity(m)
    BY <1>1, <2>3
  <2>5. \A k \in 1..(i - 1) : Abs!Identity(c[k]) # Abs!Identity(m)
    BY <1>1, <2>3
  <2>6. i \in Abs!FirstOfIdentity(c)
    BY <2>4, <2>5 DEF Abs!FirstOfIdentity
  <2>7. ~Abs!NoiseName(c[i])
    <3>1. c[i].name = m.name
      BY <2>4 DEF Abs!Identity
    <3>2. ~Abs!NoiseName(m)
      BY <1>5, NoiseIsNoiseName
    <3>. QED  BY <3>1, <3>2, SMTT(30) DEF Abs!NoiseName
  <2>8. i \in live
    BY <1>3, <2>6, <2>7, SMTT(30)
  <2>9. /\ qualifiedName(FoldedOnce(c[i])) = qualifiedName(FoldedOnce(m))
        /\ Stability(FoldedOnce(c[i])) = Stability(FoldedOnce(m))
        /\ FoldedOnce(c[i]).help = c[i].help
    BY <2>2, <2>4, FoldOnceIdentity, SMTT(30)
  <2>10. c[i].help \in FirstHelps(m)
    <3>1. DedupeKey(c[i]) = DedupeKey(m)
      BY <2>2, <2>4, KeyInjective
    <3>2. ASSUME NEW k \in 1..(i - 1) PROVE DedupeKey(c[k]) # DedupeKey(m)
      <4>1. c[k] \in MetricInfo
        BY <1>1, <2>3
      <4>. QED  BY <2>2, <2>5, <4>1, KeyInjective
    <3>. QED  BY <2>3, <3>1, <3>2, SMTT(30) DEF FirstHelps
  <2>11. allMetrics[i] = FoldedOnce(c[i])
    BY <1>3, <2>8
  <2>12. Block(allMetrics[i]) \in MetricBlocks
    BY <1>4, <1>5, <2>8, <2>9, <2>11, SMTT(30)
  <2>13. /\ Block(allMetrics[i]).qn = qualifiedName(FoldedOnce(m))
         /\ Block(allMetrics[i]).help \in FirstHelps(m)
         /\ Block(allMetrics[i]).stability = Stability(FoldedOnce(m))
    BY <2>9, <2>10, <2>11, SMTT(30) DEF Block
  <2>. QED  BY <2>12, <2>13
<1>6. ASSUME NEW b \in MetricBlocks
      PROVE  \E m \in SourceRecords :
                /\ ~Noise(m)
                /\ qualifiedName(FoldedOnce(m)) # << >>
                /\ b.qn = qualifiedName(FoldedOnce(m))
                /\ b.stability = Stability(FoldedOnce(m))
  <2>1. PICK i \in live : qualifiedName(allMetrics[i]) # << >> /\ b = Block(allMetrics[i])
    BY <1>4, SMTT(30)
  <2>2. c[i] \in SourceRecords /\ ~Abs!NoiseName(c[i])
    BY <1>1, <1>2, <1>3, <2>1 DEF Range, Abs!FirstOfIdentity
  <2>3. ~Noise(c[i])
    BY <2>2, NoiseIsNoiseName
  <2>. QED  BY <1>3, <2>1, <2>2, <2>3 DEF Block
<1>. QED  BY <1>5, <1>6 DEF DocumentMatchesSources

\* A finished run writes exactly the documentation of its sources: every
\* non-noise declaration of a non-test package and every catalogue metric
\* with a qualified name gets a block under its folded name with the help
\* of its first declaration and its stability, and every block is one of
\* them (main.go:69-166), for every value of the constants.
THEOREM DocumentCorrect == Spec => []DocumentMatchesSources
<1>1. Init => CollectInv /\ RenderInv
  <2> SUFFICES ASSUME Init PROVE CollectInv /\ RenderInv
    OBVIOUS
  <2>1. ScannedFiles = {}
    BY InputAssumption DEF Init, ScannedFiles, NonTestFiles
  <2>2. Range(allMetrics) = {}
    BY DEF Init, Range
  <2>. QED  BY <2>1, <2>2 DEF Init, CollectInv, RenderInv, RecordsOf, Merged
<1>2. TypeOK /\ CollectInv /\ [Next]_vars => CollectInv'
  BY CollectStep
<1>3. TypeOK /\ RenderInv /\ [Next]_vars => RenderInv'
  BY RenderStep
<1>4. TypeOK /\ CollectInv /\ RenderInv /\ SortedPermutation /\ NormalizationInv
        => DocumentMatchesSources
  BY DocumentAtDone DEF DocumentMatchesSources
<1>. QED  BY <1>1, <1>2, <1>3, <1>4, TypeCorrect, SortCorrect, NormalizationInvariant,
             PTL DEF Spec

=============================================================================
