# Verification of the metrics documentation generator

This directory models `src/hack/docs/metrics_gen/main.go` in TLA+. That
program scans Go source trees for Prometheus metric declarations and writes
the Karpenter `metrics.md` page. The TLA+ modules are model-checked with TLC.
TLAPS proves, for every value of the constants, the type invariant and every
safety property of the pipeline run, the action property of the fold, and
the refinement of the Normalizer.

## The system

`main()` is one single-threaded batch. The model follows it in stages
(spec.md sections 2 and 4):

| Part (spec.md) | Code | What it does |
|---|---|---|
| Tree Walker (4.1) | `getPackages` 169-198 | Walks each root with `filepath.WalkDir` and runs `parser.ParseDir` on every directory. A parse error is `log.Fatalf`. Packages named `*_test` are skipped. |
| Declaration Scanner (4.2) | `getMetricsFromPackages` 200-220 | Visits each package, and within it each file in Go map order. Each `var` declaration goes to the resolver. |
| Value Resolver (4.3) | `handleVariableDeclaration`, `getFuncPackage`, `getBinaryExpr`, `getIdentMapping` 251-412 | Turns `prometheus.*`/`opmetrics.*` constructor literals into `metricInfo` records. An unknown shape or symbol is `log.Fatal`. |
| Pattern Synthesizer (4.4) | `addPatternBasedMetrics` 418-510 | Appends per-CRD-kind status-condition and termination metrics, then the legacy metrics and the client-go metrics. |
| Normalizer & Classifier (4.5) | `main` 77-99, 153-162 | Runs `lo.UniqBy` on `ns/sub/name`, drops the noise prefixes, folds library prefixes into the subsystem, and sorts with `sort.Slice(bySubsystem)`. The stability switch is part of this stage. |
| Renderer (4.6) | `main` 101-166 | Calls `os.Create`, then for each metric writes a `##` heading when the subsystem title changes and a `###` block when the qualified name is not empty. |

Data moves left to right through a single `allMetrics` slice. Nothing runs
concurrently. The nondeterminism the program really has comes from three
sources:
- the order of the files of a package (`pkg.Files` is a map, line 204);
- the order `sort.Slice` leaves ties in (it is not stable);
- the environment: which files fail to parse, whether a declaration cannot be resolved, and whether `os.Create` fails.

## Modules

- **`MetricsGen.tla`**: the whole pipeline.
  - **Constants:**
    - the alphabet and byte order of strings;
    - the code's tables: noise prefixes, fold prefixes, sort priorities, title aliases, acronyms, the stability lists, and the CRD kinds and metric name lists of the catalogue;
    - the input: the files, each with its root, its directory rank and whether it is a test package, plus the set of contents a file may have.
  - **Strings** are sequences over `Chars`, so prefixes, trimming, `_`-joining, title derivation and Go's bytewise `<` are modelled by what they do.
  - **State:**
    - `allMetrics` is main's slice;
    - `live` is the set of positions that survive `lo.UniqBy` and the `lo.Reject` loop;
    - `order` is the permutation `sort.Slice` produced;
    - `idx` is the index of whichever loop is running;
    - `previousTitle` is the last heading written;
    - `created` records whether the output file has been created;
    - `out` holds the headings and metric blocks written;
    - `pc` is the stage.

  `merged` is a history variable. It keeps `allMetrics` as it was before deduplication, for the properties.
- **`Normalization.tla`**: the abstract specification of the Normalizer (spec §4.5). Records are collected by appending. Then, in one step, the first record of each identity is kept, noise names are excluded and subsystem-less names are folded once. A run may fail instead. `MetricsGen` INSTANCEs it with a refinement mapping (see "Refinement").
- **`ValueResolver.tla`**: the Declaration Scanner's loop over one file's declarations, and the Value Resolver.
  - Syntax trees are records tagged with their `go/ast` type.
  - Token texts keep their quotes; `"`, `` ` `` and `\` are the model values `DQ`, `BQ` and `BS`.
  - Every `log.Fatal` is the value `Fatal`.
  - `getFuncPackage`, `getBinaryExpr` and `handleVariableDeclaration` are translated case by case. They use `RECURSIVE` operators, so this module is for TLC only.
  - The module also holds the contract of spec §4.2/§4.3, written from the spec (`SpecScan`), so that a run can compare the two.
- **`MCMetricsGen.tla`** / **`MCValueResolver.tla`**: the instances TLC checks. `MCValueResolver` builds declarations of the shapes the scanned packages use.
- **`MetricsGenProofs.tla`**: the TLAPS proofs of type correctness and of the fold's action property.
- **`MetricsGenRefinement.tla`**: the TLAPS proof that the normalization loops implement `Normalization`, with the lemmas on the dedupe key and the fold it needs.
- **`MetricsGenSorting.tla`**: the TLAPS proofs about the sort stage: what the recursive function behind `SortedOrders` computes, and `UngroupedFirst`.
- **`MetricsGenDocument.tla`**: the TLAPS proof of `DocumentMatchesSources`, which joins the collection, normalization, sort and render stages.

### Actions and the code they model

| Action | Code |
|---|---|
| `ParseFailure`, `getPackages` | one root's `getPackages`: fatal, or the non-test files become `pending` |
| `ScanFile(f)`, `ScanFileFatal(f)` | one file of `getMetricsFromPackages`: its records are appended, or the resolver hits `log.Fatal`. The guard on `FileDir` makes directories go in walk order; files of one directory go in any order. |
| `NextRoot`, `StartPatterns` | the loop over the roots (69-72), then the call to `addPatternBasedMetrics` (75) |
| `AddKindMetrics`, `AddLegacyMetrics` | one CRD kind; then the legacy and client-go metrics |
| `Dedupe` | `lo.UniqBy`, which keeps the first position of each `DedupeKey` |
| `DropMetrics`, `EndDrop` | one noise prefix of the `lo.Reject` loop |
| `FoldSubsystem`, `EndFold` | one library prefix of the fold loop, over all positions |
| `SortMetrics` | `sort.Slice`: any order of `live` in which each element is one that no remaining element must precede under `bySubsystem` |
| `CreateOutput`, `CreateFails` | `os.Create` succeeding or failing (`log.Fatalf`) |
| `RenderMetric`, `RenderPanic`, `Finish` | one iteration of the render loop, or the `s[0:1]` panic at line 140 |
| `Terminated` | the process has exited (`done`, `fatal`, `panic`) |
| `ScanDecl`, `ScanDeclFatal`, `EndScan` (`ValueResolver`) | one declaration of `file.Decls` (205-216): a `var` declaration's records are appended, or the scan aborts |

In `MetricsGen`, what `handleVariableDeclaration` yields for a file is an
input: a sequence of records, or a sequence holding `FatalDecl`.
`ValueResolver` computes that outcome from the syntax tree, in these
operators:
- `DeclMetrics`: the type switch at 206;
- `CallMetrics`: the call check and the constructor-package check at 259-269;
- `FieldElts` and `MetricOf`: the four keys, with the last value given winning (275-320);
- `ResolveValue`: the value switch (290-310);
- `TrimQuotes`: `TrimFunc`/`Trim` of `"` runes (311, 355, 363);
- `getIdentMapping`: the table lookup, where a miss is fatal.

## Runs

| Run | cfg | Result | What it shows |
|---|---|---|---|
| `pipeline` | `MCMetricsGen.cfg` | pass, 100,368 distinct states | `TypeOK`; `DocumentMatchesSources`: a finished document has one block for every non-noise record of non-test packages and of the catalogue, under its folded name, with the first declaration's help and the right stability, and no other blocks. A block for a record with an empty qualified name counts as an extra block. `UngroupedFirst`: metrics without a subsystem come before every section |
| `normalizer_refinement` | `MC_Refinement.cfg` | pass, 100,368 | `NormalizationRefined`: the dedupe, drop and fold loops implement `Normalization`; `FoldKeepsQualifiedName`: no step changes the qualified name of a surviving metric whose name stays non-empty |
| `resolver` | `MCValueResolver.cfg` | pass, 234 | `ScanMatchesSpec`: for every file of one or two of eight declarations, the scan yields the records spec §4.2/§4.3 gives, and aborts exactly when the spec says it must |
| `dedupe_before_fold` | `MC_NoDuplicateIdentity.cfg` | violation | dedupe runs before the fold, so `client_go_request_total` style names can collide after folding (spec §8) |
| `split_sections` | `MC_OneHeadingPerTitle.cfg` | violation | equal-priority subsystems interleave by qualified name, so one `##` title is written twice (spec §4.6) |
| `tie_order` | `MC_TieOrder.cfg` | violation | `SortDecidesOrder`: two surviving records that `bySubsystem` leaves unordered render differently, so the document depends on where the unstable `sort.Slice` leaves them (spec §5, §4.6) |
| `partial_output` | `MC_NoPartialOutput.cfg` | violation | the `s[0:1]` panic happens after `os.Create`, which leaves a partial file (spec §7) |
| `literal_quoting` | `MC_LiteralQuoting.cfg` | violation | a raw string keeps its backquotes and an escaped quote its backslash (spec §4.3 says the quoting is stripped) |
| `concat_identifier` | `MC_ConcatIdentifier.cfg` | violation | `metrics.Namespace + "b"` is fatal in `getBinaryExpr`, although spec §4.3 allows any resolvable operand |
| `unsupported_callee` | `MC_UnsupportedCallee.cfg` | violation | a `var` initialised by `f()()` or by a two-parameter generic `F[A, B]()` aborts the run in `getFuncPackage`, although spec §4.2 says calls that are not constructors are skipped |

The seven violations are listed as findings in `PROJECT.json`.
`tie_order`'s trace ends with a scanned record `("", a, b)` and the catalogue
record `a_b`, which is folded into the same identity after `lo.UniqBy`. The two have
equal priority and qualified name but different help. `bySubsystem` has no
further key, and `sort.Slice` is not stable, so either help can be
documented. The order `sort.Slice` leaves them in depends on where every other record sits, which
depends on the map order of `pkg.Files`. `SortDecidesOrder` is the one-run form
of "two runs give the same document": every order the sort may produce must
render the same.
`split_sections` is the real `cloudprovider` / `cloudprovider_batcher` pair,
both at the default priority 0. The code avoids the bug today only because
every `cloudprovider` metric name sorts after `batcher`.

Each property of a passing run has a mutant that breaks it:
- joining with `/` breaks `TypeOK`;
- a dedupe key without the subsystem breaks `DocumentMatchesSources`;
- an ascending priority order breaks `UngroupedFirst`;
- keeping the last duplicate instead of the first breaks `NormalizationRefined`;
- trimming the fold prefix without its `_` breaks `FoldKeepsQualifiedName`;
- resolving the values of every key, the skipped ones included, breaks `ScanMatchesSpec`, on the `Buckets: prometheus.DefBuckets()` element.

### Bounds

The `MetricsGen` instance has the characters `a`, `b` and `_`, two roots and
three files. `f3` is a test package in root 2. Each file holds nothing, a
fatal declaration, or one of ten declarations. Those ten are chosen so
that each interesting case happens:
- a name that folds (`a_b`);
- two records with one identity and different help;
- a noise name;
- a record with an empty qualified name;
- a subsystem with an empty `_` segment;
- a catalogue entry that collides after folding;
- subsystems with an alias title and with a derived title;
- a priority above and below the default;
- a name `a_b_a` whose remainder after the fold by `a` starts with the other library prefix `b`, so folding twice would change its documented name;
- a name `a_bb` that is not noise but would be if the drop loop ran after the fold.

Every action fires, including `ParseFailure`, `ScanFileFatal`,
`CreateFails` and `RenderPanic`. Files of one directory may be scanned in
any order; this is sound because, in the instance, they are taken to be one
package. Larger alphabets add no new control path. Every branch of the fold,
drop, title and render code is already reached with strings of length at
most 5. With these two declarations, a fold without the empty-subsystem
guard (a second fold of `a_b_a`) breaks `DocumentMatchesSources`, and so does a
render loop that writes a block for the empty record.

The `ValueResolver` instance scans every sequence of one or two of eight
declarations. Between them they reach every branch of `getFuncPackage` but
the fatal one (which `unsupported_callee` reaches), and every branch of the value switch and of `getBinaryExpr`:
- a constructor called through `prometheus.`, and a generic `opmetrics` constructor wrapped in `(*...[T])`;
- a label slice, which yields an empty record;
- a skipped `Buckets` key whose value is a call;
- nested concatenations on both sides;
- table symbols, qualified and bare;
- a closure call, `fmt.Sprintf`, and a call of a local function with a record argument;
- a `func` and a `const` declaration;
- an unknown symbol and an unsupported value shape.

The violation runs add the quoting, identifier-operand and callee shapes.

### Fairness

No run assumes fairness. `main()` is a single goroutine and every loop in it
is bounded by a slice, map or list it walks, so its termination holds by the
shape of the code; the project states no liveness property. `Terminated` is the
stuttering step of an exited process, and the deadlock check in every run
reports any stage that is stuck without having exited.

### Refinement

`MetricsGen` defines `Abs == INSTANCE Normalization WITH ...`, which maps:
- the stages `walk`, `scan` and `kinds` to `collect`, where `collected` is `allMetrics`;
- `dedupe`, `drop` and `fold` to `normalize`;
- `sort`, `create`, `render`, `done` and `panic` to `normalized`, where `collected` is the history `merged`, and `kept` is `allMetrics` restricted to `live`;
- `fatal` to `failed`.

The three loops of main are one abstract `Normalize` step at `EndFold`,
because the abstract `kept` is empty until then. TLC checks `Abs!ASpec` as a
property, so the abstract specification's first-wins dedupe, noise drop and
single fold are what the loops compute, for every file order.
`MetricsGenRefinement.tla` proves the same for every value of the constants
(see "Proofs").

## Proofs

Four modules prove five theorems for every value of the constants that
meets the `ASSUME`s of `MetricsGen`. The
assumptions are:
- `CharsAssumption`: `_` is a character, and bytes are defined on the alphabet and `/`;
- `InputAssumption`: there is at least one root, and file contents are sequences of records or the fatal marker;
- `TableAssumption`: the fold and drop lists are strings, priorities are integers, and aliases are titles;
- `FoldPrefixAssumption`: the fold prefixes are not empty, as in the list at line 91;
- `SortOrderAssumption`: `bySubsystem`'s table ranks the empty subsystem above every subsystem it lists, and above the default 0. The code gives `""` 100 and no other entry more than 10;
- `CatalogAssumption`: kinds and names are strings;
- `KeyAssumption`: `/` is not a character of names. Prometheus names are made of `[a-zA-Z0-9_:]`, and the `"%s/%s/%s"` dedupe key at line 79 relies on this.

**`TypeCorrect == Spec => []TypeOK`.** `TypeOK` is inductive as it stands.
The proof has one step per action. It rests on these lemmas:
- what the string helpers return: `TrimPrefixType`, `JoinType`, `TitleType`;
- that the catalogue steps append records: `OperatorType`, `KindMetricsType`, `LegacyType`;
- that a file without the fatal marker holds only records: `ContentType`;
- that every order `SortedOrders` admits is a sequence of positions: `SortedOrdersType`;
- that the fold's record update keeps a `metricInfo`: `FoldRecordType`.

**`FoldQualifiedName == Spec => FoldKeepsQualifiedName`.** The action
property follows from `TypeOK`, which `TypeCorrect` makes an invariant, and
needs no other strengthening:
- the appending steps leave every position of `live` alone, because `live` lies within the old domain (`AppendKeeps`);
- the fold step is split on whether a position is folded;
- for a folded one, `TrimPrefixSplit` shows the name is `p_` followed by its remainder;
- `FoldJoin` then shows that moving a non-empty `p` into the empty subsystem keeps the `_`-join, by associativity of `\o`;
- the other steps leave `allMetrics` unchanged.

The condition that the remaining name is not empty is needed: a name
`client_go_` would be documented as `client_go` after the fold.

The deduplication and drop steps are modelled by the set `live`, so the
proofs about them need no induction over data. `sort.Slice` is modelled by
`SortedOrders`, built from the recursive function `SortedPrefixes`. It is a
recursive function rather than a `RECURSIVE` operator, so the modules that
use it stay open to the prover.

**`Refinement == Spec => NormalizationRefined`** (in `MetricsGenRefinement.tla`).
`NormalizationRefined` is not inductive by itself. Two things are invisible to the abstract state while the loops run:
- which positions the drop loop has kept;
- what the fold loop has done so far.

The lemma `NormalizationInvariant == Spec => []NormalizationInv` adds that account, stage by stage:
- before the catalogue is merged, `live` is empty;
- during `drop`, `allMetrics = merged`, and `live` is the first position of each dedupe key (`FirstPositions`) minus the names of the first `idx - 1` drop prefixes;
- during `fold`, `live` is the non-noise first positions, and each live record is in a `FoldedBefore` state. Either no earlier prefix took it (`UnfoldedBefore`), or the first prefix its name starts with took it (`FirstFold`, `FoldedBy`);
- from `sort` on, the live records are `Normalized(merged)`.

The induction rests on these lemmas:
- `SlashSplit`, `KeyRegroup` and `KeyInjective`: by `KeyAssumption`, two dedupe keys are equal exactly when the triples are, so `FirstPositions` is the abstract `FirstOfIdentity` (`FirstPositionsIdentity`);
- `NoiseIsNoiseName`: the drop test is the abstract noise test;
- `FoldStep`: one fold iteration moves a `FoldedBefore` state to the next index. A record already folded has a non-empty subsystem (`FoldPrefixAssumption`), so a later prefix never takes it again;
- `FoldOnceMatches` (with `ChooseLeast`): after the last prefix, the state is the abstract `FoldOnce`, whose `CHOOSE` picks the least matching prefix.

The refinement proof then follows `TypeOK`, `NormalizationInv` and `NormalizationInv'`, one step per action:
- `ScanFile`, `AddKindMetrics` and `AddLegacyMetrics` are `Collect` steps: appending keeps the old records as a prefix (`AppendPrefix`), and the abstract `kept` is empty on both sides;
- `EndFold` is the `Normalize` step;
- `ParseFailure`, `ScanFileFatal` and `CreateFails` are `Fail` steps;
- every other step leaves the mapped variables unchanged (`StageStutter`).

**`UngroupedBeforeSections == Spec => []UngroupedFirst`** (in `MetricsGenSorting.tla`).
The library's induction theorems take an operator parameter, which the
provers cannot instantiate. So the proof never inducts over the recursive
function `SortedPrefixes` directly. Instead:
- `SortedPrefix(s, L, k)` is a closed form: the functions on `1..k` whose every element is a `SortCandidates` choice after the elements before it;
- `SortedPrefixZero` and `SortedPrefixStep` show that the closed form satisfies the recursive equation;
- `SortedPrefixesClosedForm` shows that the two agree at every length. A least length at which they differed would contradict the equation one length below. The least element comes from `WFMin` of `WellFoundedInduction` on `NatLess`, the `<` of the naturals as a relation (`NatLessWellFounded`);
- `SortedOrderProperties` reads off every order `SortedOrders` admits: a sequence of length `|live|` whose range is `live` (so it is a permutation, by `FS_Injection`), with no element after one that `bySubsystem` says must follow it.

The lemma `SortCorrect == Spec => []SortedPermutation` states that the render loop walks a permutation of the surviving records consistent with `bySubsystem`. `SortInv` adds to `SortedPermutation` that the render index stays within
`Len(order) + 1` after the loop has ended or panicked. This is what
`UngroupedFirst` needs of the `done` and `panic` states. `SortInv` is
inductive (`SortInvStep`). `UngroupedPrecedes` uses `SortOrderAssumption` to
show that `bySubsystem` puts a record without subsystem before one with a
subsystem; with the sortedness of the order, `UngroupedFirst` follows.

**`DocumentCorrect == Spec => []DocumentMatchesSources`** (in `MetricsGenDocument.tla`).
The property speaks of the last state only, so the proof joins an account
of each stage:
- `CollectInv` says what `allMetrics` holds while the roots are walked:
  - the records of the non-test files of earlier roots, and those of the current root's files already taken out of `pending` (`ScannedFiles`);
  - then, while the catalogue is added, those of the first `idx - 1` CRD kinds;
  - from the merge on, `Range(merged) = SourceRecords`.

  It is inductive with `TypeOK` (`CollectStep`, with `RangeConcat`).
- `NormalizationInv` (above) gives the live records as `Normalized(merged)`.
- `SortedPermutation` gives that the render loop walks exactly the live positions.
- `RenderInv` says the metric blocks written are those of the first `idx - 1` metrics of the order that have a qualified name. Nothing is written before the loop, and the loop ended at `Len(order) + 1`. It is inductive with `TypeOK` (`RenderStep`, with `BlocksOfConcat`).

At `done`, `DocumentAtDone` joins these accounts. For a source record `m`, the least
position of its identity in `merged` (`NatMinimum`) is a live one. Its block
has `m`'s folded name and stability, because they depend on the identity
alone (`FoldOnceIdentity`), and its help is among `FirstHelps(m)`, by
`KeyInjective`. `FoldedOnce`, the fold the property states, is the
Normalizer's `FoldOnce` (`FoldedOnceIsFoldOnce`, through `FoldedOnceBefore`
and `FoldOnceMatches`). Every block comes from a live position, whose merged
record is a non-noise source record.

A leaf that takes the SMT solver more than a few seconds names its backend and
its time limit (`SMTT(30)`, `ZenonT(40)`), so that the proofs also pass on a
loaded machine. A leaf that instantiates `SlashSplit` goes through its opaque
conclusion `SameParts`. Otherwise Zenon would try extensionality on the
sequence equality before it used the lemma.

Only TLC checks these:
- everything about `ValueResolver`, whose operators are `RECURSIVE`. This puts what they compute for every syntax tree beyond the prover.
- the seven properties the violation runs break. Each is a disagreement between the code and spec.md, so no theorem can state it.

## Not modelled

- Command-line parsing and the usage check (64-67): a guard before any state exists.
- The preamble text, and formatting: the text written is reduced to heading and block records.
- The table of `getIdentMapping` is a constant of the instance, not the 30 entries of the code. Only hits and misses matter to the control.
- A root that does not exist (line 176) is treated as a root with no files. The code gives no signal, so no property can tell it from an empty package.
- Idempotence across two runs (spec §8): no run composes two executions. `NormalizationRefined` shows first-wins for every file order, but which duplicate's help text comes first still depends on the map order at line 204. Spec §5 allows that. The other source of run-to-run difference, the unstable sort, is the `tie_order` finding.
