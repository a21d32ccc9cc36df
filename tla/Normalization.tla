--------------------------- MODULE Normalization ---------------------------
(***************************************************************************)
(* What the Normalizer promises (spec.md 4.5), as an abstract batch: the   *)
(* scanned and synthesized records are collected by appending, then in    *)
(* one step the first record of each identity is kept, noise names are     *)
(* excluded and subsystem-less names are folded once.  A run may instead   *)
(* fail, while collecting or after normalizing.                            *)
(***************************************************************************)
EXTENDS Integers, Sequences

CONSTANTS Underscore, DropSubsystems, FoldSubsystems

VARIABLES
    stage,      \* "collect", "normalize", "normalized" or "failed"
    collected,  \* the merged collection, in the order it was appended
    kept        \* the normalized records, by their position in collected

avars == <<stage, collected, kept>>

StartsWith(s, p) == Len(p) <= Len(s) /\ SubSeq(s, 1, Len(p)) = p

\* identity for deduplication: the triple, help text left out
Identity(r) == <<r.namespace, r.subsystem, r.name>>

FirstOfIdentity(c) ==
    {i \in DOMAIN c : \A j \in 1..(i - 1) : Identity(c[j]) # Identity(c[i])}

NoiseName(r) == \E k \in DOMAIN DropSubsystems : StartsWith(r.name, DropSubsystems[k])

\* the first known prefix the name starts with, followed by "_", moves into
\* the empty subsystem
FoldOnce(r) ==
    LET K == {k \in DOMAIN FoldSubsystems :
                StartsWith(r.name, FoldSubsystems[k] \o <<Underscore>>)}
        k == CHOOSE k \in K : \A j \in K : k <= j
        n == Len(FoldSubsystems[k]) + 1
    IN  IF r.subsystem = << >> /\ K # {}
        THEN [r EXCEPT !.subsystem = FoldSubsystems[k],
                       !.name = SubSeq(r.name, n + 1, Len(r.name))]
        ELSE r

Normalized(c) ==
    [i \in {i \in FirstOfIdentity(c) : ~NoiseName(c[i])} |-> FoldOnce(c[i])]

NoRecords == [i \in {} |-> << >>]

AInit == stage = "collect" /\ collected = << >> /\ kept = NoRecords

\* records are only ever appended while collecting; the last append ends it
Collect ==
    /\ stage = "collect"
    /\ Len(collected) <= Len(collected')
    /\ SubSeq(collected', 1, Len(collected)) = collected
    /\ stage' \in {"collect", "normalize"}
    /\ UNCHANGED kept

Normalize ==
    /\ stage = "normalize"
    /\ kept' = Normalized(collected)
    /\ stage' = "normalized"
    /\ UNCHANGED collected

\* a fatal error; what was collected is discarded with the process
Fail ==
    /\ stage \in {"collect", "normalized"}
    /\ stage' = "failed"
    /\ UNCHANGED kept

ANext == Collect \/ Normalize \/ Fail

ASpec == AInit /\ [][ANext]_avars

=============================================================================
