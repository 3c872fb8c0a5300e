--------------------------- MODULE MCConfigFlow ---------------------------
(***************************************************************************)
(* Instance of ConfigFlow for TLC: two servers, two host keys, two entries *)
(* and two dialogs, each used again and again.                             *)
(***************************************************************************)
EXTENDS ConfigFlow, TLC

CONSTANTS a1, a2, k1, k2, e1, e2, f1, f2

MCAddress == {a1, a2}
MCHostKey == {k1, k2}
MCEntry   == {e1, e2}
MCFlow    == {f1, f2}

\* Addresses, keys, entries and dialogs are interchangeable.
Symmetry == Permutations(MCAddress) \cup Permutations(MCHostKey)
            \cup Permutations(MCEntry) \cup Permutations(MCFlow)

=============================================================================
