--------------------------- MODULE MCMemoryEngine ---------------------------
(* Instances of the memory engine for TLC.  The addresses are interchangeable. *)
EXTENDS MemoryEngine, TLC

CONSTANTS h1, h2, red, blue, a1, a2

\* Two sizes of one hash, a rename of the first, and a second hash.
MCOffer == {[hash |-> h1, size |-> 1, name |-> {red}],
            [hash |-> h1, size |-> 1, name |-> {blue}],
            [hash |-> h1, size |-> 2, name |-> {red}],
            [hash |-> h2, size |-> 1, name |-> {red, blue}]}

Symmetry == Permutations(Addr)
=============================================================================
