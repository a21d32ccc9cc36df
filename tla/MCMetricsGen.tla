---------------------------- MODULE MCMetricsGen ----------------------------
(***************************************************************************)
(* A small instance of MetricsGen.  The alphabet is {a, b, _}; the tables *)
(* of main.go are shrunk to strings over it but keep their shape: a noise *)
(* prefix, two library prefixes, an empty subsystem ranked first, a       *)
(* subsystem ranked last, a singular/plural alias pair, and a catalogue   *)
(* of two CRD kinds (one of them the node kind) in the "operator"          *)
(* namespace b, which sorts after the scanned namespace a as "operator"    *)
(* sorts after "karpenter".                                                *)
(***************************************************************************)
EXTENDS MetricsGen, TLC

CONSTANTS H1, H2, H0   \* help texts, model values

E == << >>
A == <<"a">>
B == <<"b">>
AA == <<"a", "a">>
BB == <<"b", "b">>
A_B == <<"a", "_", "b">>
B_A == <<"b", "_", "a">>
A_A == <<"a", "_", "a">>

MCChars == {"a", "b", "_"}
MCByteOf == ("/" :> 47) @@ ("_" :> 95) @@ ("a" :> 97) @@ ("b" :> 98)
MCUpperOf == [c \in MCChars |-> IF c = "a" THEN "A" ELSE IF c = "b" THEN "B" ELSE c]

Rec(ns, sub, name, help) == [namespace |-> ns, subsystem |-> sub, name |-> name, help |-> help]

\* the scanned declarations the files are made of
Decls ==
    { Rec(E, E, A_B, H1),          \* folded into subsystem a by prefix "a"
      Rec(E, A, B, H2),            \* the identity that fold produces
      Rec(A, B, B, H1),
      Rec(A, B, B, H2),            \* same identity, other help
      Rec(E, <<"b", "_">>, A, H1), \* a subsystem with an empty segment
      Rec(E, E, E, H0),              \* a label slice: composite literal without keys
      Rec(E, E, BB, H1),           \* a noise name
      Rec(A, A, A, H1),
      Rec(E, E, <<"a", "_", "b", "_", "a">>, H1),  \* "b_a" is left after the fold by a
      Rec(E, E, <<"a", "_", "b", "b">>, H2) }      \* noise only once folded

MCFiles == {"f1", "f2", "f3"}
MCFileRoot == [f \in MCFiles |-> IF f = "f3" THEN 2 ELSE 1]
MCFileDir == [f \in MCFiles |-> 1]
MCFileTest == [f \in MCFiles |-> f = "f3"]
MCFileContents == {<< >>, <<FatalDecl>>} \cup {<<d>> : d \in Decls}

MCStable == {A}
MCBeta == {B, <<"b", "_", "b", "_", "b">>}
MCDeprecated == {<<"b", "_", "b", "_", "a">>}
MCDrop == <<BB>>
MCFold == <<A, B>>
MCAcronyms == {<<"a", "b">>}
MCKinds == <<A, B>>
MCStatusNames == <<A>>
MCTermNames == <<B>>
MCClientGo == <<A_B>>

MCSortOrder == (E :> 100) @@ (B_A :> -1)
MCSubsystemMap == (B :> <<"B">>) @@ (BB :> <<"B">>)
=============================================================================
