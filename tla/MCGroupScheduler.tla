-------------------------- MODULE MCGroupScheduler --------------------------
(* A small ledger: one donor replica n with two GPUs, one borrower, two      *)
(* leases that overlap on GPU g1, and callers that may say anything about    *)
(* the operations of both leases.                                            *)
EXTENDS GroupScheduler

CONSTANTS d, b, h1, h2, n, r, l1, l2, o1, o2, o3, o4, o5, g1, g2, b1, b2

MCSessionOf == [x \in {n, r} |-> IF x = n THEN d ELSE b]

MCLeaseForms ==
  { [lease_id |-> l1, donor |-> n, expires |-> TRUE,
     claims |-> {[claim_id |-> 1, bundle |-> b1, gpu |-> g1]}],
    [lease_id |-> l2, donor |-> n, expires |-> FALSE,
     claims |-> {[claim_id |-> 2, bundle |-> b1, gpu |-> g1],
                 [claim_id |-> 3, bundle |-> b2, gpu |-> g2]}],
    [lease_id |-> l2, donor |-> n, expires |-> FALSE,
     claims |-> {[claim_id |-> 1, bundle |-> b2, gpu |-> g2]}] }

MCCommandForms ==
  { [operation_id |-> o1, kind |-> "DONATE", lease_id |-> l1, target |-> n],
    [operation_id |-> o2, kind |-> "ADD", lease_id |-> l1, target |-> r],
    [operation_id |-> o3, kind |-> "REMOVE", lease_id |-> l1, target |-> r],
    [operation_id |-> o4, kind |-> "RESTORE", lease_id |-> l1, target |-> n],
    [operation_id |-> o5, kind |-> "RESTORE", lease_id |-> l2, target |-> n],
    [operation_id |-> o5, kind |-> "ADD", lease_id |-> l1, target |-> r],
    [operation_id |-> o5, kind |-> "DONATE", lease_id |-> l1, target |-> n] }

MCEvidenceForms ==
  {e \in [operation_id : OpIds, type : {"SERVICE_COMMITTED", "RELEASED"},
          gpus : {{}, {g1}, {g1, g2}}, stamp : {0, 1}] :
     /\ (e.type = "RELEASED") <=> (e.gpus # {})
     /\ e.stamp = 1 => e.operation_id = o1}
=============================================================================
