--------------------------- MODULE MCPushManager ---------------------------
(* PushManager on small instances. *)
EXTENDS PushManager

CONSTANTS account, group, l1, n1, n2   \* model values
=============================================================================
