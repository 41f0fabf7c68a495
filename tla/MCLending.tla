----------------------------- MODULE MCLending ------------------------------
(* One native replica n of task d, lent under two leases to replica rb of    *)
(* task b and replica re of task e, with a second attempt at the operations   *)
(* that may be retried.                                                      *)
EXTENDS Lending, TLC

CONSTANTS d, b, e, h, n, rb, re, l1, l2, o1, o2, o3, o4, o5, o6, o7, g1, b1

MCSessionOf == n :> d @@ rb :> b @@ re :> e

MCNativeGpus == n :> {g1}

LeaseForm(l, c) ==
  [lease_id |-> l, donor |-> n, expires |-> l = l1,
   claims |-> {[claim_id |-> c, bundle |-> b1, gpu |-> g1]}]

MCLeaseForms == {LeaseForm(l1, 1), LeaseForm(l2, 2)}

MCOneLease == {LeaseForm(l1, 1)}

Form(o, k, l, x) == [operation_id |-> o, kind |-> k, lease_id |-> l, target |-> x]

(* A lending cycle of each lease, with a second DONATE and RESTORE of l1. *)
MCCommandForms ==
  { Form(o1, "DONATE", l1, n), Form(o2, "ADD", l1, rb),
    Form(o3, "REMOVE", l1, rb), Form(o4, "RESTORE", l1, n),
    Form(o5, "DONATE", l2, n), Form(o5, "DONATE", l1, n),
    Form(o6, "ADD", l2, re), Form(o6, "REMOVE", l1, rb),
    Form(o7, "RESTORE", l1, n), Form(o7, "RESTORE", l2, n) }

(* Two DONATE operations of one lease, and what may follow the second. *)
MCRestagedForms ==
  { Form(o1, "DONATE", l1, n), Form(o2, "ADD", l1, rb),
    Form(o3, "RESTORE", l1, n), Form(o4, "DONATE", l1, n),
    Form(o5, "ADD", l1, re), Form(o6, "RESTORE", l1, n) }

MCEvidenceForms ==
  {x \in [operation_id : OpIds, type : {"SERVICE_COMMITTED", "RELEASED"},
          gpus : {{}, {g1}}, stamp : {0}] :
     (x.type = "RELEASED") <=> (x.gpus # {})}
=============================================================================
