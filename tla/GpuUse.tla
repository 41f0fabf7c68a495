------------------------------- MODULE GpuUse -------------------------------
(***************************************************************************)
(* What lending promises: a GPU is occupied by at most one runtime at a    *)
(* time.  A runtime takes GPUs that nobody occupies and gives up all of    *)
(* its GPUs at once ("Physical whole-GPU exclusivity").                    *)
(***************************************************************************)
CONSTANTS Gpus, Runtimes

VARIABLE users   \* users[g] is the set of runtimes that occupy g

Init ==
  /\ users \in [Gpus -> SUBSET Runtimes]
  /\ \A g \in Gpus : \A p, q \in users[g] : p = q

Occupy(p, gpus) ==
  /\ \A g \in gpus : users[g] = {}
  /\ users' = [g \in Gpus |-> IF g \in gpus THEN {p} ELSE users[g]]

Vacate(p) == users' = [g \in Gpus |-> users[g] \ {p}]

Next == \E p \in Runtimes : Vacate(p) \/ \E gpus \in SUBSET Gpus : Occupy(p, gpus)

Spec == Init /\ [][Next]_users
=============================================================================
