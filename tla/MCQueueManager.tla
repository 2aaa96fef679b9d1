------------------------- MODULE MCQueueManager -------------------------
(* Instances of QueueManager for TLC.                                    *)
EXTENDS QueueManager, TLC

CONSTANTS e1, e2, q1, s1, s2

MCQueueOf == [e \in Events |-> q1]

Symmetry == Permutations(Slots) \cup Permutations(Events)
=============================================================================
