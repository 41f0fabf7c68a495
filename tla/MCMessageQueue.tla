--------------------------- MODULE MCMessageQueue ---------------------------
(* Two producers that may send the same sample, and a queue of two. *)
EXTENDS MessageQueue, TLC

Symmetry == Permutations(Producers) \cup Permutations(Samples) \cup Permutations(Digests)
=============================================================================
