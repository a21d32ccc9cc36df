--------------------------- MODULE ValueResolver ---------------------------
(***************************************************************************)
(* The Declaration Scanner and the Value Resolver of main.go: the scan of  *)
(* one file's top-level declarations (getMetricsFromPackages 205-216),     *)
(* handleVariableDeclaration, getFuncPackage, getBinaryExpr and            *)
(* getIdentMapping.  Syntax trees are records tagged with their go/ast     *)
(* type; strings are sequences of characters, token texts keep their      *)
(* quotes.  A log.Fatal anywhere is the value Fatal.                       *)
(***************************************************************************)
EXTENDS Integers, Sequences

CONSTANTS
    DQ, BQ, BS,        \* the characters ", ` and \
    IdentMapping,      \* getIdentMapping's table: <<name>> or <<pkg, name>> to a string
    ConstructorPkgs,   \* {"prometheus", "opmetrics"}
    Fatal,             \* log.Fatal / log.Fatalf: the process exits
    Unprintable        \* what %s makes of an expression that is not an identifier

ASSUME ResolverAssumption ==
    /\ {DQ, BQ, BS} \cap {Fatal, Unprintable} = {}
    /\ Fatal # Unprintable

Keys == {"Namespace", "Subsystem", "Name", "Help"}

\* strings.TrimFunc(s, func(r rune) bool { return r == '"' }), and
\* strings.Trim(s, `"`): leading and trailing runs of " removed
TrimQuotes(s) ==
    LET keep == {i \in DOMAIN s : s[i] # DQ}
        b == CHOOSE i \in keep : \A j \in keep : i <= j
        e == CHOOSE i \in keep : \A j \in keep : j <= i
    IN  IF keep = {} THEN << >> ELSE SubSeq(s, b, e)

\* fmt.Sprintf("%s", x) of an expression used as a name
Printed(x) == IF x.kind = "Ident" THEN x.name ELSE Unprintable

\* the key fmt.Sprintf("%s.%s", val.X, val.Sel) or val.String() is looked up by
SymbolOf(v) == IF v.kind = "Ident" THEN <<v.name>> ELSE <<Printed(v.x), v.sel>>

getIdentMapping(v) ==
    IF SymbolOf(v) \in DOMAIN IdentMapping THEN IdentMapping[SymbolOf(v)] ELSE Fatal

RECURSIVE getFuncPackage(_)
getFuncPackage(fun) ==
    CASE fun.kind \in {"ParenExpr", "StarExpr", "IndexExpr"} -> getFuncPackage(fun.x)
      [] fun.kind = "SelectorExpr" -> Printed(fun.x)
      [] fun.kind = "Ident"        -> fun.name
      [] fun.kind = "FuncLit"      -> ""
      [] OTHER                     -> Fatal

RECURSIVE getBinaryExpr(_)

\* one operand: a literal with its quotes trimmed or a nested concatenation
Operand(v) ==
    CASE v.kind = "BasicLit"   -> TrimQuotes(v.value)
      [] v.kind = "BinaryExpr" -> getBinaryExpr(v)
      [] OTHER                 -> Fatal

getBinaryExpr(b) ==
    LET x == Operand(b.x)
        y == Operand(b.y)
    IN  IF x = Fatal \/ y = Fatal THEN Fatal ELSE x \o y

\* the switch on kv.Value's type, then the TrimFunc of quotes
ResolveValue(v) ==
    LET r == CASE v.kind = "BasicLit"                       -> v.value
               [] v.kind \in {"SelectorExpr", "Ident"}      -> getIdentMapping(v)
               [] v.kind = "BinaryExpr"                     -> getBinaryExpr(v)
               [] OTHER                                     -> Fatal
    IN  IF r = Fatal THEN Fatal ELSE TrimQuotes(r)

\* mutant: the values of every key resolved, the ones skipped included
FieldEltsAllKeys(lit) ==
    SelectSeq(lit.elts, LAMBDA el : el.kind = "KeyValueExpr")

\* the elements of a composite literal that are KeyValueExprs with one of
\* the four keys, in order
FieldElts(lit) ==
    SelectSeq(lit.elts, LAMBDA el : el.kind = "KeyValueExpr" /\ Printed(el.key) \in Keys)

\* keyValuePairs after the loop: the last element with a key wins, a
\* missing key is ""; Fatal when any value cannot be resolved
MetricOf(lit) ==
    LET els == FieldElts(lit)
        vals == [i \in DOMAIN els |-> ResolveValue(els[i].value)]
        Field(k) ==
            LET I == {i \in DOMAIN els : Printed(els[i].key) = k}
            IN  IF I = {} THEN << >>
                ELSE vals[CHOOSE i \in I : \A j \in I : j <= i]
    IN  IF \E i \in DOMAIN vals : vals[i] = Fatal THEN Fatal
        ELSE [namespace |-> Field("Namespace"), subsystem |-> Field("Subsystem"),
              name |-> Field("Name"), help |-> Field("Help")]

RECURSIVE Flatten(_)
\* the results of a sequence of steps in order, or Fatal at the first Fatal
Flatten(rs) ==
    IF rs = << >> THEN << >>
    ELSE IF Head(rs) = Fatal THEN Fatal
    ELSE LET rest == Flatten(Tail(rs)) IN IF rest = Fatal THEN Fatal ELSE Head(rs) \o rest

\* one initializer: skipped unless a call whose function's package is a
\* constructor package; then one metric per composite-literal argument
CallMetrics(v) ==
    IF v.kind # "CallExpr" THEN << >>
    ELSE LET pkg == getFuncPackage(v.fun)
             lits == SelectSeq(v.args, LAMBDA a : a.kind = "CompositeLit")
         IN  IF pkg = Fatal THEN Fatal
             ELSE IF pkg \notin ConstructorPkgs THEN << >>
             ELSE Flatten([i \in DOMAIN lits |->
                             IF MetricOf(lits[i]) = Fatal THEN Fatal
                             ELSE <<MetricOf(lits[i])>>])

handleVariableDeclaration(d) ==
    LET vspecs == SelectSeq(d.specs, LAMBDA sp : sp.kind = "ValueSpec")
        perSpec == [i \in DOMAIN vspecs |->
                      Flatten([k \in DOMAIN vspecs[i].values |->
                                 CallMetrics(vspecs[i].values[k])])]
    IN  Flatten(perSpec)

\* a declaration of a file: only var declarations are handled
DeclMetrics(d) ==
    IF d.kind = "GenDecl" /\ d.tok = "VAR" THEN handleVariableDeclaration(d) ELSE << >>

-----------------------------------------------------------------------------
(* The scan of one file: getMetricsFromPackages' loop over file.Decls.     *)

CONSTANT InputFiles   \* the files to scan: sequences of declarations

VARIABLES
    decls,     \* file.Decls
    next,      \* the declaration the loop is at
    records,   \* the metrics appended so far
    status     \* "scan", "done" or "fatal"

rvars == <<decls, next, records, status>>

RInit ==
    /\ decls \in InputFiles
    /\ next = 1 /\ records = << >> /\ status = "scan"

ScanDecl ==
    /\ status = "scan" /\ next <= Len(decls)
    /\ DeclMetrics(decls[next]) # Fatal
    /\ records' = records \o DeclMetrics(decls[next])
    /\ next' = next + 1
    /\ UNCHANGED <<decls, status>>

\* a value that cannot be resolved, or an unsupported function expression
ScanDeclFatal ==
    /\ status = "scan" /\ next <= Len(decls)
    /\ DeclMetrics(decls[next]) = Fatal
    /\ status' = "fatal"
    /\ UNCHANGED <<decls, next, records>>

EndScan ==
    /\ status = "scan" /\ next > Len(decls)
    /\ status' = "done"
    /\ UNCHANGED <<decls, next, records>>

\* the process has exited or the file is scanned
Scanned == status \in {"done", "fatal"} /\ UNCHANGED rvars

RNext == ScanDecl \/ ScanDeclFatal \/ EndScan \/ Scanned

RSpec == RInit /\ [][RNext]_rvars

-----------------------------------------------------------------------------
(* The contract of spec.md 4.2 and 4.3, written from the spec: a literal   *)
(* resolves to its unquoted text, an identifier to its table entry, a     *)
(* concatenation of two resolvable values (of any shape) to their          *)
(* concatenation; an unknown symbol or shape is fatal.                     *)

RECURSIVE Unescape(_)
Unescape(s) ==
    IF s = << >> THEN << >>
    ELSE IF Head(s) = BS /\ Len(s) >= 2 THEN <<s[2]>> \o Unescape(SubSeq(s, 3, Len(s)))
    ELSE <<Head(s)>> \o Unescape(Tail(s))

Unquoted(t) ==
    LET body == SubSeq(t, 2, Len(t) - 1)
    IN  IF t[1] = BQ THEN body ELSE Unescape(body)

RECURSIVE SpecValue(_)
SpecValue(v) ==
    CASE v.kind = "BasicLit" -> Unquoted(v.value)
      [] v.kind \in {"Ident", "SelectorExpr"} ->
            IF SymbolOf(v) \in DOMAIN IdentMapping THEN IdentMapping[SymbolOf(v)] ELSE Fatal
      [] v.kind = "BinaryExpr" ->
            IF SpecValue(v.x) = Fatal \/ SpecValue(v.y) = Fatal THEN Fatal
            ELSE SpecValue(v.x) \o SpecValue(v.y)
      [] OTHER -> Fatal

\* the called function's qualifier, through parentheses, * and [T]
RECURSIVE Qualifier(_)
Qualifier(fun) ==
    CASE fun.kind \in {"ParenExpr", "StarExpr", "IndexExpr"} -> Qualifier(fun.x)
      [] fun.kind = "SelectorExpr" -> Printed(fun.x)
      [] fun.kind = "Ident"        -> fun.name
      [] OTHER                     -> ""

SpecRecord(lit) ==
    LET kvs == SelectSeq(lit.elts, LAMBDA el : el.kind = "KeyValueExpr")
        Last(k) == {i \in DOMAIN kvs : Printed(kvs[i].key) = k
                                       /\ \A j \in (i + 1)..Len(kvs) : Printed(kvs[j].key) # k}
        F(k) == IF Last(k) = {} THEN << >> ELSE SpecValue(kvs[CHOOSE i \in Last(k) : TRUE].value)
    IN  IF \E k \in Keys : F(k) = Fatal THEN Fatal
        ELSE [namespace |-> F("Namespace"), subsystem |-> F("Subsystem"),
              name |-> F("Name"), help |-> F("Help")]

\* the records a file declares, in order, or Fatal
SpecScan(ds) ==
    LET calls == [i \in DOMAIN ds |->
          IF ds[i].kind # "GenDecl" \/ ds[i].tok # "VAR" THEN << >>
          ELSE Flatten([j \in DOMAIN ds[i].specs |->
                 IF ds[i].specs[j].kind # "ValueSpec" THEN << >>
                 ELSE LET vs == SelectSeq(ds[i].specs[j].values,
                                  LAMBDA v : v.kind = "CallExpr"
                                             /\ Qualifier(v.fun) \in ConstructorPkgs)
                      IN  Flatten([k \in DOMAIN vs |->
                            LET lits == SelectSeq(vs[k].args, LAMBDA a : a.kind = "CompositeLit")
                            IN  Flatten([l \in DOMAIN lits |->
                                  IF SpecRecord(lits[l]) = Fatal THEN Fatal
                                  ELSE <<SpecRecord(lits[l])>>])])])]
    IN  Flatten(calls)

-----------------------------------------------------------------------------
(* Properties.                                                             *)

\* A scanned file yields exactly the records the spec's scanner and
\* resolver contract gives, and the run aborts exactly when the contract
\* says it must (handleVariableDeclaration and the resolver functions).
ScanMatchesSpec ==
    /\ status = "done" => records = SpecScan(decls)
    /\ status = "fatal" => SpecScan(decls) = Fatal

=============================================================================
