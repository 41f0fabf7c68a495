-------------------------- MODULE MCParameterAudit --------------------------
(* Two receivers, and two training ranks that may own the stream. *)
EXTENDS ParameterAudit, TLC

Symmetry == Permutations(Workers) \cup Permutations(Ranks)
=============================================================================
