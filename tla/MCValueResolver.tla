-------------------------- MODULE MCValueResolver --------------------------
(***************************************************************************)
(* Declarations of the shapes the scanned packages use, for TLC.           *)
(***************************************************************************)
EXTENDS ValueResolver, TLC

\* token texts: "a", "b", "ab", "" with double quotes, a raw `b`, "a\"" escaped
DQa == <<DQ, "a", DQ>>
DQb == <<DQ, "b", DQ>>
DQab == <<DQ, "a", "b", DQ>>
DQe == <<DQ, DQ>>
RawB == <<BQ, "b", BQ>>
EscA == <<DQ, "a", BS, DQ, DQ>>

Lit(t) == [kind |-> "BasicLit", value |-> t]
Id(n) == [kind |-> "Ident", name |-> n]
Sel(x, n) == [kind |-> "SelectorExpr", x |-> Id(x), sel |-> n]
Bin(x, y) == [kind |-> "BinaryExpr", x |-> x, y |-> y]
Wrap(k, x) == [kind |-> k, x |-> x]
Call(fun, args) == [kind |-> "CallExpr", fun |-> fun, args |-> args]
Comp(elts) == [kind |-> "CompositeLit", elts |-> elts]
KV(k, v) == [kind |-> "KeyValueExpr", key |-> Id(k), value |-> v]
Var(values) == [kind |-> "GenDecl", tok |-> "VAR",
                specs |-> <<[kind |-> "ValueSpec", values |-> values]>>]

MCIdentMapping ==
    (<<"metrics", "Namespace">> :> <<"a">>) @@ (<<"Namespace">> :> <<"a">>)
    @@ (<<"batcherSubsystem">> :> <<"b", "a">>)

\* prometheus.NewCounterVec(prometheus.CounterOpts{Namespace: metrics.Namespace,
\*   Subsystem: batcherSubsystem, Name: "a" + ("b" + ""), Help: "b"}, []string{"a"})
DCounter ==
    Var(<<Call(Sel("prometheus", "NewCounterVec"),
               <<Comp(<<KV("Namespace", Sel("metrics", "Namespace")),
                        KV("Subsystem", Id("batcherSubsystem")),
                        KV("Name", Bin(Lit(DQa), Bin(Lit(DQb), Lit(DQe)))),
                        KV("Help", Lit(DQb))>>),
                 Comp(<<Lit(DQa)>>)>>)>>)

\* (*opmetrics.NewPrometheusGauge[T])(opts{Name: "ab", Buckets: prometheus.DefBuckets(),
\*   Help: "a" + "b"}) -- a generic constructor, a key that is skipped
DGauge ==
    Var(<<Call(Wrap("ParenExpr", Wrap("StarExpr",
                    Wrap("IndexExpr", Sel("opmetrics", "NewPrometheusGauge")))),
               <<Comp(<<KV("Name", Lit(DQab)),
                        KV("Buckets", Call(Sel("prometheus", "DefBuckets"), << >>)),
                        KV("Help", Bin(Lit(DQa), Lit(DQb)))>>)>>)>>)

\* var x = func() int { ... }(), fmt.Sprintf(...), "a": none is a constructor
DOther ==
    Var(<<Call([kind |-> "FuncLit"], << >>),
          Call(Sel("fmt", "Sprintf"), <<Comp(<<KV("Name", [kind |-> "UnaryExpr"])>>)>>),
          Lit(DQa)>>)

\* var cache = newCache(opts{Name: "a"}): a local function, not a constructor
DLocal == Var(<<Call(Id("newCache"), <<Comp(<<KV("Name", Lit(DQa))>>)>>)>>)

\* a function and a const declaration
DFunc == [kind |-> "FuncDecl"]
DConst == [kind |-> "GenDecl", tok |-> "CONST", specs |-> << >>]

\* Name: unknownSubsystem -- not in the table
DUnresolved ==
    Var(<<Call(Sel("prometheus", "NewGauge"), <<Comp(<<KV("Name", Id("unknown"))>>)>>)>>)

\* Name: -1 style expression -- an unsupported shape
DUnsupported ==
    Var(<<Call(Sel("prometheus", "NewGauge"), <<Comp(<<KV("Name", [kind |-> "UnaryExpr"])>>)>>)>>)

Decls == {DCounter, DGauge, DOther, DLocal, DFunc, DConst, DUnresolved, DUnsupported}

MCInputFiles == {<<d>> : d \in Decls} \cup {<<d, e>> : d, e \in Decls}

\* Help: `b` and Help: "a\"" -- a raw string and an escaped quote
DQuoting ==
    Var(<<Call(Sel("prometheus", "NewCounter"),
               <<Comp(<<KV("Name", Lit(DQa)), KV("Help", Lit(RawB))>>)>>),
          Call(Sel("prometheus", "NewCounter"),
               <<Comp(<<KV("Name", Lit(DQb)), KV("Help", Lit(EscA))>>)>>)>>)

QuotingFiles == {<<DQuoting>>, <<DCounter, DQuoting>>}

\* Name: metrics.Namespace + "b" -- a symbol inside a concatenation
DConcatIdent ==
    Var(<<Call(Sel("prometheus", "NewCounter"),
               <<Comp(<<KV("Name", Bin(Sel("metrics", "Namespace"), Lit(DQb)))>>)>>)>>)

ConcatIdentFiles == {<<DConcatIdent>>, <<DGauge, DConcatIdent>>}

\* var x = newCache()() and var y = lo.Map[A, B](...): calls that are not
\* constructors, through a callee getFuncPackage has no case for
DCalleeCall == Var(<<Call(Call(Id("newCache"), << >>), << >>)>>)
DCalleeIndexList ==
    Var(<<Call([kind |-> "IndexListExpr", x |-> Sel("lo", "Map")], << >>)>>)

CalleeFiles == {<<DCalleeCall>>, <<DCounter, DCalleeIndexList>>}

=============================================================================
