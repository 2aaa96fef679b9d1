----------------------------- MODULE MCNodeIds -----------------------------
(* NodeIds on small instances. *)
EXTENDS NodeIds, TLC

CONSTANTS n1, n2, n3   \* model values

Symmetry == Permutations(Nodes)
=============================================================================
