------------------------------- MODULE MCParity -------------------------------
(* Instances of Parity for TLC. *)
EXTENDS Parity, TLC

F(root, source, order, name) ==
    [root |-> root, source |-> source, order |-> order, name |-> name]

\* Two sources, one with a subdirectory that repeats a name, and a
\* synthetic payload named like a captured one.
Corpus == {F("captured", "fleet", 1, "a"), F("captured", "fleet", 2, "a"),
           F("captured", "sl1", 1, "a"), F("synthetic", "sl1", 1, "a")}

\* Nothing tells one projection, or one error type, from another.
Symmetry == Permutations(Projections) \union Permutations(ErrorTypes)
=============================================================================
