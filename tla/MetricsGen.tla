----------------------------- MODULE MetricsGen -----------------------------
(***************************************************************************)
(* The metrics documentation generator hack/docs/metrics_gen/main.go: the  *)
(* run of main() from the scan of the source roots to the last line of     *)
(* the markdown document.  main() is a single-threaded batch; each stage   *)
(* (and each iteration of its outer loops) is one step here, so the model  *)
(* can relate the state between stages.  The only nondeterminism of a run  *)
(* is Go's randomised map iteration (parser.ParseDir returns the files of  *)
(* a package as a map), the order sort.Slice leaves equal elements in,     *)
(* and whether os.Create succeeds.                                         *)
(*                                                                         *)
(* Strings are sequences of characters drawn from Chars.  The slices that  *)
(* lo.UniqBy and lo.Reject rebuild are represented by the original slice   *)
(* allMetrics and the set live of the positions that survive; sort.Slice   *)
(* produces order, the permutation of live it leaves the slice in.         *)
(***************************************************************************)
EXTENDS Integers, Sequences, FiniteSets, Functions

CONSTANTS
    Chars,          \* the characters strings are made of
    Underscore,     \* "_"
    Slash,          \* "/", the separator of the dedupe key
    Space,          \* " ", the separator of a subsystem title
    ByteOf,         \* byte value of a character, for Go's string order
    UpperOf,        \* strings.ToUpper on one character
    Helps,          \* help texts of scanned declarations (compared only)
    NRoots,         \* number of source roots given on the command line
    Files,          \* the .go files under the roots
    FileRoot,       \* root the file lies under
    FileDir,        \* position of the file's directory in WalkDir order
    FileTest,       \* the file belongs to a package named *_test
    FatalDecl,      \* a declaration the scanner aborts on (log.Fatal)
    FileContents,   \* possible contents: sequences of scanned records
    StableMetrics, BetaMetrics, DeprecatedMetrics,
    DropSubsystems, \* prefixes of metric names that are not documented
    FoldSubsystems, \* library prefixes folded into the subsystem
    SubSystemSortOrder,  \* bySubsystem's priority table
    SubsystemMap,   \* the alias table of subsystem titles
    Acronyms,       \* segments written in upper case ("sdk", "aws")
    CRDKinds, NodeKind, OperatorNamespace,
    StatusConditionNames, TerminationNames, EventTotalName,
    StatusConditionSubsystem, LegacyStatusNames,
    TerminationSubsystem, LegacyTerminationNames, ClientGoNames

Str == Seq(Chars)
TitleChars == Chars \cup {UpperOf[c] : c \in Chars} \cup {Space}
HelpText == Helps \cup (Str \X Str)

\* metricInfo, main.go:37-42
MetricInfo == [namespace : Str, subsystem : Str, name : Str, help : HelpText]

ASSUME CharsAssumption ==
    /\ Underscore \in Chars
    /\ Chars \cup {Slash} \subseteq DOMAIN ByteOf /\ ByteOf \in [DOMAIN ByteOf -> Nat]
    /\ DOMAIN UpperOf = Chars
\* "/" occurs in no namespace, subsystem or name: Prometheus names are made
\* of [a-zA-Z0-9_:], which the "%s/%s/%s" dedupe key at main.go:79 relies on
ASSUME KeyAssumption == Slash \notin Chars
ASSUME InputAssumption ==
    /\ NRoots \in Nat \ {0}
    /\ FileRoot \in [Files -> 1..NRoots] /\ FileDir \in [Files -> Nat]
    /\ FileTest \in [Files -> BOOLEAN]
    /\ FatalDecl \notin MetricInfo
    /\ FileContents \subseteq Seq(MetricInfo \cup {FatalDecl})
ASSUME TableAssumption ==
    /\ DropSubsystems \in Seq(Str) /\ FoldSubsystems \in Seq(Str)
    /\ SubSystemSortOrder \in [DOMAIN SubSystemSortOrder -> Int]
    /\ SubsystemMap \in [DOMAIN SubsystemMap -> Seq(TitleChars)]
\* the library prefixes of the fold loop (main.go:91) are not empty
\* bySubsystem's table (main.go:225-239) ranks the empty subsystem above
\* every other one, and above the default 0 of a subsystem it does not list
ASSUME SortOrderAssumption ==
    /\ << >> \in DOMAIN SubSystemSortOrder
    /\ SubSystemSortOrder[<< >>] > 0
    /\ \A sub \in DOMAIN SubSystemSortOrder \ {<< >>} :
          SubSystemSortOrder[sub] < SubSystemSortOrder[<< >>]
ASSUME FoldPrefixAssumption == \A k \in DOMAIN FoldSubsystems : FoldSubsystems[k] # << >>
ASSUME CatalogAssumption ==
    /\ CRDKinds \in Seq(Str)
    /\ {NodeKind, OperatorNamespace, EventTotalName,
        StatusConditionSubsystem, TerminationSubsystem} \subseteq Str
    /\ {StatusConditionNames, TerminationNames, LegacyStatusNames,
        LegacyTerminationNames, ClientGoNames} \subseteq Seq(Str)

-----------------------------------------------------------------------------
(* String helpers: strings.HasPrefix, strings.TrimPrefix, Go's < on       *)
(* strings, and metricInfo.qualifiedName.                                  *)

HasPrefix(s, p) == Len(p) <= Len(s) /\ SubSeq(s, 1, Len(p)) = p

TrimPrefix(s, p) == IF HasPrefix(s, p) THEN SubSeq(s, Len(p) + 1, Len(s)) ELSE s

\* a < b in Go: bytewise lexicographic order
GoLess(a, b) ==
    \E i \in 0..Len(a) :
        /\ i <= Len(b)
        /\ SubSeq(a, 1, i) = SubSeq(b, 1, i)
        /\ \/ i = Len(a) /\ i < Len(b)
           \/ i < Len(a) /\ i < Len(b) /\ ByteOf[a[i + 1]] < ByteOf[b[i + 1]]

\* mutant: the parts joined with the dedupe key's "/"
JoinNonEmptySlash(a, b) ==
    IF a = << >> THEN b ELSE IF b = << >> THEN a ELSE a \o <<Slash>> \o b

\* strings.Join of the non-empty parts (lo.Compact) with "_"
JoinNonEmpty(a, b) ==
    IF a = << >> THEN b ELSE IF b = << >> THEN a ELSE a \o <<Underscore>> \o b

qualifiedName(m) == JoinNonEmpty(JoinNonEmpty(m.namespace, m.subsystem), m.name)

\* mutant: a key that leaves out the subsystem
DedupeKeyNoSubsystem(m) == m.namespace \o <<Slash>> \o m.name

\* the lo.UniqBy key fmt.Sprintf("%s/%s/%s", namespace, subsystem, name)
DedupeKey(m) == m.namespace \o <<Slash>> \o m.subsystem \o <<Slash>> \o m.name

-----------------------------------------------------------------------------
(* addPatternBasedMetrics: the catalogue of metrics created at run time.   *)
(* Help texts are kept as <<metric name, kind>>: all the model compares.   *)

Operator(sub, name, kind) ==
    [namespace |-> OperatorNamespace, subsystem |-> sub, name |-> name,
     help |-> <<name, kind>>]

KindMetrics(kind) ==
    [i \in 1..Len(StatusConditionNames) |->
        Operator(kind, StatusConditionNames[i], kind)]
    \o [i \in 1..Len(TerminationNames) |-> Operator(kind, TerminationNames[i], kind)]
    \o (IF kind = NodeKind THEN <<Operator(NodeKind, EventTotalName, kind)>> ELSE << >>)

LegacyAndClientGoMetrics ==
    [i \in 1..Len(LegacyStatusNames) |->
        Operator(StatusConditionSubsystem, LegacyStatusNames[i], << >>)]
    \o [i \in 1..Len(LegacyTerminationNames) |->
        Operator(TerminationSubsystem, LegacyTerminationNames[i], << >>)]
    \o [i \in 1..Len(ClientGoNames) |->
        [namespace |-> << >>, subsystem |-> << >>, name |-> ClientGoNames[i],
         help |-> <<ClientGoNames[i], << >>>>]]

-----------------------------------------------------------------------------
(* bySubsystem, the stability switch and the subsystem title.             *)

Priority(sub) == IF sub \in DOMAIN SubSystemSortOrder THEN SubSystemSortOrder[sub] ELSE 0

\* mutant: the priorities compared the wrong way round
bySubsystemAscending(l, r) ==
    IF Priority(l.subsystem) # Priority(r.subsystem)
    THEN Priority(l.subsystem) < Priority(r.subsystem)
    ELSE GoLess(qualifiedName(r), qualifiedName(l))

\* the less function of sort.Slice(allMetrics, bySubsystem(allMetrics))
bySubsystem(l, r) ==
    IF Priority(l.subsystem) # Priority(r.subsystem)
    THEN Priority(l.subsystem) > Priority(r.subsystem)
    ELSE GoLess(qualifiedName(r), qualifiedName(l))

Stability(m) ==
    LET Listed(S) == m.subsystem \in S \/ qualifiedName(m) \in S
    IN  IF Listed(DeprecatedMetrics) THEN "DEPRECATED"
        ELSE IF Listed(StableMetrics) THEN "STABLE"
        ELSE IF Listed(BetaMetrics) THEN "BETA"
        ELSE "ALPHA"

SegmentStart(s, i) == i = 1 \/ s[i - 1] = Underscore
SegmentEnd(s, i) == i = Len(s) \/ s[i + 1] = Underscore

\* the "_"-separated segment of s that position i lies in
SegmentAt(s, i) ==
    LET b == CHOOSE j \in 1..i : SegmentStart(s, j) /\ \A k \in j..i : s[k] # Underscore
        e == CHOOSE j \in i..Len(s) : SegmentEnd(s, j) /\ \A k \in i..j : s[k] # Underscore
    IN  SubSeq(s, b, e)

\* strings.Split(s, "_") yields an empty segment: s[0:1] then panics
HasEmptySegment(s) ==
    \/ s[1] = Underscore \/ s[Len(s)] = Underscore
    \/ \E i \in 1..Len(s) - 1 : s[i] = Underscore /\ s[i + 1] = Underscore

\* split on "_", upper-case acronyms, capitalise other segments, join with " "
DerivedTitle(s) ==
    [i \in 1..Len(s) |->
        IF s[i] = Underscore THEN Space
        ELSE IF SegmentStart(s, i) \/ SegmentAt(s, i) \in Acronyms
             THEN UpperOf[s[i]] ELSE s[i]]

SubsystemTitle(s) == IF s \in DOMAIN SubsystemMap THEN SubsystemMap[s] ELSE DerivedTitle(s)

TitlePanics(s) == s \notin DOMAIN SubsystemMap /\ HasEmptySegment(s)

\* the positions of L that o has not placed yet and that no other such
\* position must precede: the ones sort.Slice may put next
SortCandidates(s, L, o) ==
    LET Rest == L \ Range(o)
    IN  {i \in Rest : \A j \in Rest : ~bySubsystem(s[j], s[i])}

\* the orders sort.Slice may give the first k positions, k \in 0..|L|
SortedPrefixes(s, L) ==
    LET C[k \in 0..Cardinality(L)] ==
          IF k = 0 THEN {<< >>}
          ELSE UNION {{Append(o, i) : i \in SortCandidates(s, L, o)} : o \in C[k - 1]}
    IN  C

\* the orders sort.Slice may leave the positions L of s in
SortedOrders(s, L) ==
    {o \in SortedPrefixes(s, L)[Cardinality(L)] : o \in [1..Cardinality(L) -> L]}

-----------------------------------------------------------------------------
VARIABLES
    src,            \* contents of each file (input, fixed)
    broken,         \* files parser.ParseDir fails on (input, fixed)
    pc,             \* the stage of main() the run is in
    root,           \* index of the root being scanned (flag.Arg(root - 1))
    pending,        \* files of the current root's packages not scanned yet
    allMetrics,     \* main's allMetrics slice
    live,           \* positions of allMetrics that survive UniqBy and Reject
    order,          \* the permutation of live that sort.Slice produced
    idx,            \* index of the loop being run (kind, prefix or metric)
    previousTitle,  \* the title of the last "## ... Metrics" heading
    created,        \* os.Create has created the output file
    out,            \* the lines written to it, abstracted to headings and blocks
    merged          \* history: allMetrics once the catalogue is appended

vars == <<src, broken, pc, root, pending, allMetrics, live, order, idx,
          previousTitle, created, out, merged>>

Stages == {"walk", "scan", "kinds", "dedupe", "drop", "fold", "sort",
           "create", "render", "done", "fatal", "panic"}

Line == [kind : {"heading"}, title : Seq(TitleChars)]
   \cup [kind : {"metric"}, qn : Str, help : HelpText,
         stability : {"DEPRECATED", "STABLE", "BETA", "ALPHA"}]

RootFiles(r) == {f \in Files : FileRoot[f] = r}

\* the metric the render loop is at
Current == allMetrics[order[idx]]

Init ==
    /\ src \in [Files -> FileContents]
    /\ broken \in {{}} \cup {{f} : f \in Files}     \* at most one unparsable file
    /\ pc = "walk" /\ root = 1 /\ pending = {}
    /\ allMetrics = << >> /\ live = {} /\ order = << >> /\ idx = 1
    /\ previousTitle = << >> /\ created = FALSE /\ out = << >> /\ merged = << >>

-----------------------------------------------------------------------------
(* main.go:69-72, getPackages and getMetricsFromPackages for one root.     *)

\* getPackages: ParseDir fails on some file under the root: log.Fatalf
ParseFailure ==
    /\ pc = "walk" /\ RootFiles(root) \cap broken # {}
    /\ pc' = "fatal"
    /\ UNCHANGED <<src, broken, root, pending, allMetrics, live, order, idx,
                   previousTitle, created, out, merged>>

\* getPackages: every directory parses; packages named *_test are skipped
getPackages ==
    /\ pc = "walk" /\ RootFiles(root) \cap broken = {}
    /\ pending' = {f \in RootFiles(root) : ~FileTest[f]}
    /\ pc' = "scan"
    /\ UNCHANGED <<src, broken, root, allMetrics, live, order, idx,
                   previousTitle, created, out, merged>>

\* getMetricsFromPackages on one file: directories come in WalkDir order,
\* the files of a package in map order; its declarations in source order
ScanFile(f) ==
    /\ pc = "scan" /\ f \in pending
    /\ \A g \in pending : FileDir[f] <= FileDir[g]
    /\ FatalDecl \notin Range(src[f])
    /\ allMetrics' = allMetrics \o src[f]
    /\ pending' = pending \ {f}
    /\ UNCHANGED <<src, broken, pc, root, live, order, idx, previousTitle,
                   created, out, merged>>

\* handleVariableDeclaration hits an unresolvable value: log.Fatal
ScanFileFatal(f) ==
    /\ pc = "scan" /\ f \in pending
    /\ \A g \in pending : FileDir[f] <= FileDir[g]
    /\ FatalDecl \in Range(src[f])
    /\ pc' = "fatal"
    /\ UNCHANGED <<src, broken, root, pending, allMetrics, live, order, idx,
                   previousTitle, created, out, merged>>

NextRoot ==
    /\ pc = "scan" /\ pending = {} /\ root < NRoots
    /\ root' = root + 1 /\ pc' = "walk"
    /\ UNCHANGED <<src, broken, pending, allMetrics, live, order, idx,
                   previousTitle, created, out, merged>>

-----------------------------------------------------------------------------
(* main.go:75, addPatternBasedMetrics: one step per CRD kind, then the     *)
(* legacy and client-go metrics.                                           *)

StartPatterns ==
    /\ pc = "scan" /\ pending = {} /\ root = NRoots
    /\ pc' = "kinds" /\ idx' = 1
    /\ UNCHANGED <<src, broken, root, pending, allMetrics, live, order,
                   previousTitle, created, out, merged>>

AddKindMetrics ==
    /\ pc = "kinds" /\ idx <= Len(CRDKinds)
    /\ allMetrics' = allMetrics \o KindMetrics(CRDKinds[idx])
    /\ idx' = idx + 1
    /\ UNCHANGED <<src, broken, pc, root, pending, live, order, previousTitle,
                   created, out, merged>>

AddLegacyMetrics ==
    /\ pc = "kinds" /\ idx > Len(CRDKinds)
    /\ allMetrics' = allMetrics \o LegacyAndClientGoMetrics
    /\ merged' = allMetrics'
    /\ pc' = "dedupe"
    /\ UNCHANGED <<src, broken, root, pending, live, order, idx, previousTitle,
                   created, out>>

-----------------------------------------------------------------------------
(* main.go:77-99: dedupe, drop, fold and sort.                             *)

\* mutant: the last metric of each key kept
DedupeKeepLast ==
    /\ pc = "dedupe"
    /\ live' = {i \in DOMAIN allMetrics :
                  \A j \in (i + 1)..Len(allMetrics) :
                     DedupeKey(allMetrics[j]) # DedupeKey(allMetrics[i])}
    /\ pc' = "drop" /\ idx' = 1
    /\ UNCHANGED <<src, broken, root, pending, allMetrics, order, previousTitle,
                   created, out, merged>>

\* lo.UniqBy keeps the first metric of each key
Dedupe ==
    /\ pc = "dedupe"
    /\ live' = {i \in DOMAIN allMetrics :
                  \A j \in 1..(i - 1) : DedupeKey(allMetrics[j]) # DedupeKey(allMetrics[i])}
    /\ pc' = "drop" /\ idx' = 1
    /\ UNCHANGED <<src, broken, root, pending, allMetrics, order, previousTitle,
                   created, out, merged>>

\* one iteration of the lo.Reject loop over the dropped prefixes
DropMetrics ==
    /\ pc = "drop" /\ idx <= Len(DropSubsystems)
    /\ live' = {i \in live : ~HasPrefix(allMetrics[i].name, DropSubsystems[idx])}
    /\ idx' = idx + 1
    /\ UNCHANGED <<src, broken, pc, root, pending, allMetrics, order,
                   previousTitle, created, out, merged>>

EndDrop ==
    /\ pc = "drop" /\ idx > Len(DropSubsystems)
    /\ pc' = "fold" /\ idx' = 1
    /\ UNCHANGED <<src, broken, root, pending, allMetrics, live, order,
                   previousTitle, created, out, merged>>

\* mutant: the prefix trimmed without its "_"
FoldSubsystemKeepUnderscore ==
    /\ pc = "fold" /\ idx <= Len(FoldSubsystems)
    /\ LET p == FoldSubsystems[idx] \o <<Underscore>>
       IN  allMetrics' =
             [i \in DOMAIN allMetrics |->
                IF i \in live /\ allMetrics[i].subsystem = << >>
                   /\ HasPrefix(allMetrics[i].name, p)
                THEN [allMetrics[i] EXCEPT !.subsystem = FoldSubsystems[idx],
                                           !.name = TrimPrefix(@, FoldSubsystems[idx])]
                ELSE allMetrics[i]]
    /\ idx' = idx + 1
    /\ UNCHANGED <<src, broken, pc, root, pending, live, order, previousTitle,
                   created, out, merged>>

\* one iteration of the outer loop over the library prefixes: every metric
\* without a subsystem whose name starts with "<prefix>_" is moved into it
FoldSubsystem ==
    /\ pc = "fold" /\ idx <= Len(FoldSubsystems)
    /\ LET p == FoldSubsystems[idx] \o <<Underscore>>
       IN  allMetrics' =
             [i \in DOMAIN allMetrics |->
                IF i \in live /\ allMetrics[i].subsystem = << >>
                   /\ HasPrefix(allMetrics[i].name, p)
                THEN [allMetrics[i] EXCEPT !.subsystem = FoldSubsystems[idx],
                                           !.name = TrimPrefix(@, p)]
                ELSE allMetrics[i]]
    /\ idx' = idx + 1
    /\ UNCHANGED <<src, broken, pc, root, pending, live, order, previousTitle,
                   created, out, merged>>

EndFold ==
    /\ pc = "fold" /\ idx > Len(FoldSubsystems)
    /\ pc' = "sort"
    /\ UNCHANGED <<src, broken, root, pending, allMetrics, live, order, idx,
                   previousTitle, created, out, merged>>

SortMetrics ==
    /\ pc = "sort"
    /\ \E o \in SortedOrders(allMetrics, live) : order' = o
    /\ pc' = "create"
    /\ UNCHANGED <<src, broken, root, pending, allMetrics, live, idx,
                   previousTitle, created, out, merged>>

-----------------------------------------------------------------------------
(* main.go:101-166: create the file and render the metrics in order.       *)

CreateOutput ==
    /\ pc = "create"
    /\ created' = TRUE /\ pc' = "render" /\ idx' = 1
    /\ UNCHANGED <<src, broken, root, pending, allMetrics, live, order,
                   previousTitle, out, merged>>

\* os.Create fails: log.Fatalf before anything is written
CreateFails ==
    /\ pc = "create"
    /\ pc' = "fatal"
    /\ UNCHANGED <<src, broken, root, pending, allMetrics, live, order, idx,
                   previousTitle, created, out, merged>>

\* one iteration of the render loop: a heading when the title changes, then
\* the metric's block when its qualified name is not empty
RenderMetric ==
    /\ pc = "render" /\ idx <= Len(order)
    /\ LET m == Current
           titled == m.subsystem # << >>
           title == SubsystemTitle(m.subsystem)
           newHeading == titled /\ title # previousTitle
       IN  /\ ~(titled /\ TitlePanics(m.subsystem))
           /\ out' = out
                \o (IF newHeading THEN <<[kind |-> "heading", title |-> title]>>
                    ELSE << >>)
                \o (IF qualifiedName(m) # << >>
                    THEN <<[kind |-> "metric", qn |-> qualifiedName(m),
                            help |-> m.help, stability |-> Stability(m)]>>
                    ELSE << >>)
           /\ previousTitle' = IF newHeading THEN title ELSE previousTitle
    /\ idx' = idx + 1
    /\ UNCHANGED <<src, broken, pc, root, pending, allMetrics, live, order,
                   created, merged>>

\* s[0:1] on an empty segment of the subsystem: a run-time panic mid-file
RenderPanic ==
    /\ pc = "render" /\ idx <= Len(order)
    /\ Current.subsystem # << >> /\ TitlePanics(Current.subsystem)
    /\ pc' = "panic"
    /\ UNCHANGED <<src, broken, root, pending, allMetrics, live, order, idx,
                   previousTitle, created, out, merged>>

Finish ==
    /\ pc = "render" /\ idx > Len(order)
    /\ pc' = "done"
    /\ UNCHANGED <<src, broken, root, pending, allMetrics, live, order, idx,
                   previousTitle, created, out, merged>>

\* the process has exited
Terminated == pc \in {"done", "fatal", "panic"} /\ UNCHANGED vars

Next ==
    \/ ParseFailure \/ getPackages
    \/ \E f \in Files : ScanFile(f) \/ ScanFileFatal(f)
    \/ NextRoot \/ StartPatterns \/ AddKindMetrics \/ AddLegacyMetrics
    \/ Dedupe \/ DropMetrics \/ EndDrop \/ FoldSubsystem \/ EndFold \/ SortMetrics
    \/ CreateOutput \/ CreateFails \/ RenderMetric \/ RenderPanic \/ Finish
    \/ Terminated

Spec == Init /\ [][Next]_vars

-----------------------------------------------------------------------------
(* Properties.                                                             *)

TypeOK ==
    /\ src \in [Files -> FileContents]
    /\ broken \subseteq Files
    /\ pc \in Stages
    /\ root \in 1..NRoots
    /\ pending \subseteq Files
    /\ allMetrics \in Seq(MetricInfo)
    /\ live \subseteq DOMAIN allMetrics
    /\ order \in Seq(DOMAIN allMetrics)
    /\ idx \in Nat \ {0}
    /\ pc = "render" => idx <= Len(order) + 1
    /\ previousTitle \in Seq(TitleChars)
    /\ created \in BOOLEAN
    /\ out \in Seq(Line)
    /\ merged \in Seq(MetricInfo)

\* What the documentation promises of the records of the scanned packages
\* and of the catalogue: the name is dropped when it starts with a noise
\* prefix, folded once by the first library prefix it starts with, and the
\* first record of each identity gives the help text.
Noise(m) == \E k \in DOMAIN DropSubsystems : HasPrefix(m.name, DropSubsystems[k])

FoldedOnce(m) ==
    LET K == {k \in DOMAIN FoldSubsystems :
                HasPrefix(m.name, FoldSubsystems[k] \o <<Underscore>>)}
        k == CHOOSE k \in K : \A j \in K : k <= j
    IN  IF m.subsystem = << >> /\ K # {}
        THEN [m EXCEPT !.subsystem = FoldSubsystems[k],
                       !.name = TrimPrefix(m.name, FoldSubsystems[k] \o <<Underscore>>)]
        ELSE m

SourceRecords ==
    (UNION {Range(src[f]) : f \in {f \in Files : ~FileTest[f]}})
    \cup (UNION {Range(KindMetrics(CRDKinds[k])) : k \in DOMAIN CRDKinds})
    \cup Range(LegacyAndClientGoMetrics)

FirstHelps(m) ==
    {merged[j].help : j \in {j \in DOMAIN merged :
        /\ DedupeKey(merged[j]) = DedupeKey(m)
        /\ \A i \in 1..(j - 1) : DedupeKey(merged[i]) # DedupeKey(m)}}

MetricBlocks == {out[k] : k \in {k \in DOMAIN out : out[k].kind = "metric"}}

\* A finished run documents exactly the non-noise declarations of non-test
\* packages and the catalogue: every one under its folded qualified name,
\* with the help of its first declaration and its stability level, and
\* nothing else (the dedupe key, the drop and fold loops, the render loop).
DocumentMatchesSources ==
    pc = "done" =>
      /\ \A m \in SourceRecords :
           ~Noise(m) /\ qualifiedName(FoldedOnce(m)) # << >> =>
             \E b \in MetricBlocks :
                /\ b.qn = qualifiedName(FoldedOnce(m))
                /\ b.help \in FirstHelps(m)
                /\ b.stability = Stability(FoldedOnce(m))
      /\ \A b \in MetricBlocks :
           \E m \in SourceRecords :
              /\ ~Noise(m)
              /\ qualifiedName(FoldedOnce(m)) # << >>
              /\ b.qn = qualifiedName(FoldedOnce(m))
              /\ b.stability = Stability(FoldedOnce(m))

\* Metrics without a subsystem are documented before every "##" heading
\* (bySubsystem ranks the empty subsystem first), so none of them appears
\* inside the section of another subsystem.
UngroupedFirst ==
    pc \in {"render", "done", "panic"} =>
      \A a, b \in 1..(idx - 1) :
         a < b /\ allMetrics[order[a]].subsystem # << >> =>
           allMetrics[order[b]].subsystem # << >>

\* What the render loop writes for one record: the title of its section
\* (none without a subsystem) and its block (none for an empty name).
RenderedAs(m) ==
    << IF m.subsystem = << >> \/ TitlePanics(m.subsystem) THEN << >>
       ELSE SubsystemTitle(m.subsystem),
       IF qualifiedName(m) = << >> THEN << >>
       ELSE << qualifiedName(m), m.help, Stability(m) >> >>

\* Spec section 5: the final sort makes the document independent of the
\* order the packages and files were walked in; section 4.6 ranks ties by
\* descending qualified name "for deterministic ties".  So two surviving
\* records that bySubsystem (main.go:241-248) leaves unordered, and that
\* sort.Slice (main.go:99) may therefore place either way, must render
\* the same.
SortDecidesOrder ==
    pc \in {"create", "render", "done", "panic"} =>
      \A a, b \in DOMAIN order :
         /\ a # b
         /\ ~bySubsystem(allMetrics[order[a]], allMetrics[order[b]])
         /\ ~bySubsystem(allMetrics[order[b]], allMetrics[order[a]])
         => RenderedAs(allMetrics[order[a]]) = RenderedAs(allMetrics[order[b]])

\* sort.Slice leaves the surviving records in an order the render loop
\* walks from first to last: every surviving position exactly once, and
\* no record after one that bySubsystem says it must precede.
SortedPermutation ==
    pc \in {"create", "render", "done", "panic"} =>
      /\ Len(order) = Cardinality(live) /\ Range(order) = live
      /\ \A a, b \in 1..Len(order) :
            a < b => ~bySubsystem(allMetrics[order[b]], allMetrics[order[a]])

\* Spec section 8: no two records of the output share an identity
\* (namespace, subsystem, name).
NoDuplicateIdentity ==
    pc \in {"sort", "create", "render", "done"} =>
      \A i, j \in live : i # j => DedupeKey(allMetrics[i]) # DedupeKey(allMetrics[j])

\* Spec section 4.6: one "##" heading per distinct subsystem title.
OneHeadingPerTitle ==
    \A k1, k2 \in DOMAIN out :
       /\ k1 < k2 /\ out[k1].kind = "heading" /\ out[k2].kind = "heading"
       => out[k1].title # out[k2].title

\* Spec section 7: a run that fails writes no output file.
NoPartialOutput == pc \in {"fatal", "panic"} => ~created

\* Folding a prefix into the subsystem never changes the documented
\* qualified name of a metric whose name keeps a remainder: the fold loop
\* only regroups the metric, the exposed name stays the one Prometheus
\* builds from namespace, subsystem and name.
FoldKeepsQualifiedName ==
    [][\A i \in live \cap DOMAIN allMetrics' :
          allMetrics'[i].name # << >> =>
             qualifiedName(allMetrics'[i]) = qualifiedName(allMetrics[i])]_allMetrics

-----------------------------------------------------------------------------
(* Refinement: the dedupe, drop and fold loops implement the Normalizer's  *)
(* one-step contract of spec.md 4.5.  Before the catalogue is merged the   *)
(* collection is allMetrics, afterwards the history variable merged; the   *)
(* kept records are the live positions once the fold loop has ended.       *)

NormalizationStage ==
    CASE pc \in {"walk", "scan", "kinds"}  -> "collect"
      [] pc \in {"dedupe", "drop", "fold"} -> "normalize"
      [] pc = "fatal"                     -> "failed"
      [] OTHER                            -> "normalized"

Abs == INSTANCE Normalization WITH
         stage <- NormalizationStage,
         collected <- IF pc \in {"walk", "scan", "kinds"} THEN allMetrics ELSE merged,
         kept <- IF pc \in {"dedupe", "drop", "fold"}
                 THEN [i \in {} |-> << >>]
                 ELSE [i \in live |-> allMetrics[i]]

\* The pipeline implements the abstract Normalizer: the records it keeps
\* once the fold loop ends are exactly the first of each identity among
\* the merged records, minus noise names, each folded once.
NormalizationRefined == Abs!ASpec

-----------------------------------------------------------------------------
(* The state of the normalization loops, as the refinement needs it: what *)
(* dedupe, the first idx - 1 drop prefixes and the first idx - 1 fold     *)
(* prefixes have made of the merged records.                               *)

\* the positions lo.UniqBy keeps: the first of each dedupe key
FirstPositions(s) ==
    {i \in DOMAIN s : \A j \in 1..(i - 1) : DedupeKey(s[j]) # DedupeKey(s[i])}

FoldPrefix(k) == FoldSubsystems[k] \o <<Underscore>>

\* no fold prefix before the n-th has taken m
UnfoldedBefore(m, n) ==
    m.subsystem = << >> => \A k \in 1..(n - 1) : ~HasPrefix(m.name, FoldPrefix(k))

\* the k-th fold prefix is the first that takes m
FirstFold(m, k) ==
    /\ m.subsystem = << >> /\ HasPrefix(m.name, FoldPrefix(k))
    /\ \A j \in 1..(k - 1) : ~HasPrefix(m.name, FoldPrefix(j))

\* m moved into the k-th fold subsystem
FoldedBy(m, k) ==
    [m EXCEPT !.subsystem = FoldSubsystems[k], !.name = TrimPrefix(m.name, FoldPrefix(k))]

\* a merged record after the first n - 1 iterations of the fold loop: left
\* alone, or folded by the first prefix among them its name starts with
FoldedBefore(m, r, n) ==
    \/ r = m /\ UnfoldedBefore(m, n)
    \/ \E k \in 1..(n - 1) : FirstFold(m, k) /\ r = FoldedBy(m, k)

\* The loops of main.go:77-98 compute the Normalizer's result in stages:
\* dedupe keeps the first position of each key, each drop iteration removes
\* one prefix's names, each fold iteration folds the names of one prefix
\* that no earlier prefix took, and what survives the last fold is the
\* abstract Normalized of the merged records.  (Inductive invariant of the
\* refinement NormalizationRefined.)
NormalizationInv ==
    /\ pc \in {"walk", "scan", "kinds"} => live = {}
    /\ pc \in {"dedupe", "drop"} => allMetrics = merged
    /\ pc = "drop" =>
         /\ idx <= Len(DropSubsystems) + 1
         /\ live = {i \in FirstPositions(merged) :
                      \A k \in 1..(idx - 1) : ~HasPrefix(merged[i].name, DropSubsystems[k])}
    /\ pc = "fold" =>
         /\ idx <= Len(FoldSubsystems) + 1
         /\ DOMAIN allMetrics = DOMAIN merged
         /\ live = {i \in FirstPositions(merged) : ~Noise(merged[i])}
         /\ \A i \in live : FoldedBefore(merged[i], allMetrics[i], idx)
    /\ pc \in {"sort", "create", "render", "done", "panic"} =>
         [i \in live |-> allMetrics[i]] = Abs!Normalized(merged)

=============================================================================
