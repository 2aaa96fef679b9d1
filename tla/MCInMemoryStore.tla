-------------------------- MODULE MCInMemoryStore --------------------------
(* Instances of InMemoryStore for TLC.                                     *)
EXTENDS InMemoryStore, TLC

CONSTANTS c1, c2, l1, r1, r2

Symmetry == Permutations(Clients) \cup Permutations(Requests)
=============================================================================
