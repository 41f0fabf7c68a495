---------------------------- MODULE MCTaskSession ---------------------------
(* Three replicas of which production needs two, with the real periods of    *)
(* five and ten seconds.                                                     *)
EXTENDS TaskSession

CONSTANTS n1, n2, n3

MCOrder == <<n1, n2, n3>>
=============================================================================
