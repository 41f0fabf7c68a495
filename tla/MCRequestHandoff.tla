-------------------------- MODULE MCRequestHandoff --------------------------
(* One native and one borrowed replica, two or three requests. *)
EXTENDS RequestHandoff, TLC

CONSTANTS n, b, sn, sb

MCServerOf == n :> sn @@ b :> sb

Symmetry == Permutations(Requests) \cup Permutations(OpIds)
=============================================================================
