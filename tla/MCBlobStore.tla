---------------------------- MODULE MCBlobStore ----------------------------
(* BlobStore on a small instance. *)
EXTENDS BlobStore

CONSTANTS h1, d1, d2, w1, w2   \* model values

\* Temporary links expire after one tick, whoever made them.
MCHold == [k \in Kinds |-> 1]
=============================================================================
