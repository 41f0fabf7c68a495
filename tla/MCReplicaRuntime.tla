-------------------------- MODULE MCReplicaRuntime --------------------------
(* One replica of either kind, two requests at a time, and failures enough   *)
(* for a second one to meet the clean-up of the first.                       *)
EXTENDS ReplicaRuntime

MCKinds == {"NATIVE", "BORROWED"}
=============================================================================
