------------------------- MODULE MCReplicaSyncGate --------------------------
(* Three coroutines acting for two operations. *)
EXTENDS ReplicaSyncGate

CONSTANTS p1, p2, p3, a, b
=============================================================================
