--------------------------- MODULE MCTaskManager ---------------------------
(* Small instances of TaskManager.                                         *)
EXTENDS TaskManager, TLC

CONSTANTS n1, n2

NodeSymmetry == Permutations(Nodes)
=============================================================================
