---------------------------- MODULE LoadBalancer ----------------------------
(***************************************************************************)
(* MultiTaskGlobalRequestLoadBalancer: the routing view R of one task.     *)
(*                                                                         *)
(* The load balancer is an actor, so each call below is one step.  It      *)
(* extends a native pool (servers, inflight) that it reaches only through  *)
(* acquire, release, add and remove, with the facts about requests and     *)
(* lifecycle operations that a drain, a hand-off and a lost reply need.    *)
(***************************************************************************)
EXTENDS Integers, FiniteSets, FiniteSetsExt

CONSTANTS
  Requests,          \* request ids; a request may be admitted many times
  Keys,              \* ReplicaKeys that may be routed
  Servers,           \* server ids
  ServerOf,          \* server id of a key's runtime (_service_identity)
  InitialKeys,       \* keys routed when the task starts (initial_routes)
  OpIds,             \* lifecycle operation ids
  SettledRetention,  \* _settled_retention
  GcBatch,           \* _settled_retention // 8
  None

AttemptStates == {"ADMITTED", "TERMINATED", "SETTLED"}

(* A server belongs to one replica, and the native pool starts with servers. *)
ASSUME LBAssumption ==
  /\ ServerOf \in [Keys -> Servers]
  /\ \A k, m \in Keys : ServerOf[k] = ServerOf[m] => k = m
  /\ InitialKeys \subseteq Keys /\ InitialKeys # {}
  /\ SettledRetention \in Nat
  /\ GcBatch \in Nat
  /\ None \notin OpIds
  /\ None \notin Servers
  /\ None \notin [key : Keys, server : Servers]
  /\ None \notin AttemptStates

VARIABLES
  servers,                \* native pool: servers that may be chosen
  inflight,               \* native counters, 0 for a server outside the pool
  routes,                 \* key -> server id, or None
  active_request_server,  \* request -> server of its unsettled attempt, or None
  attempt_state,          \* request -> AttemptState, or None
  settled_count,          \* _settled_count
  continuation_proofs,    \* request -> operation of its proof, or None
  continuation_handoffs,  \* operation -> requests whose prefix was handed off
  draining_operations,    \* server -> operation that drains it, or None
  ready_operations,       \* operation -> what it published, or None
  awaiting                \* _awaiting_service_restore

lbVars == <<servers, inflight, routes, active_request_server, attempt_state,
            settled_count, continuation_proofs, continuation_handoffs,
            draining_operations, ready_operations, awaiting>>

requestFacts == <<active_request_server, attempt_state, settled_count,
                  continuation_proofs, continuation_handoffs>>

LBTypeOK ==
  /\ servers \subseteq Servers
  /\ inflight \in [Servers -> Int]
  /\ routes \in [Keys -> Servers \cup {None}]
  /\ active_request_server \in [Requests -> Servers \cup {None}]
  /\ attempt_state \in [Requests -> AttemptStates \cup {None}]
  /\ settled_count \in Int
  /\ continuation_proofs \in [Requests -> OpIds \cup {None}]
  /\ continuation_handoffs \in [OpIds -> SUBSET Requests]
  /\ draining_operations \in [Servers -> OpIds \cup {None}]
  /\ ready_operations \in [OpIds -> [key : Keys, server : Servers] \cup {None}]
  /\ awaiting \in BOOLEAN

LBInit ==
  /\ servers = {ServerOf[k] : k \in InitialKeys}
  /\ inflight = [s \in Servers |-> 0]
  /\ routes = [k \in Keys |-> IF k \in InitialKeys THEN ServerOf[k] ELSE None]
  /\ active_request_server = [r \in Requests |-> None]
  /\ attempt_state = [r \in Requests |-> None]
  /\ settled_count = 0
  /\ continuation_proofs = [r \in Requests |-> None]
  /\ continuation_handoffs = [o \in OpIds |-> {}]
  /\ draining_operations = [s \in Servers |-> None]
  /\ ready_operations = [o \in OpIds |-> None]
  /\ awaiting = FALSE

requests_for_server(s) == {r \in Requests : active_request_server[r] = s}

(* Faulty variant: only attempts that were handed off count as unsettled. *)
has_terminated_requests(s) ==
  \E r \in requests_for_server(s) : attempt_state[r] = "TERMINATED"

has_unsettled_requests(s) ==
  \E r \in requests_for_server(s) : attempt_state[r] = "ADMITTED"

Settled(state) == {r \in DOMAIN state : state[r] = "SETTLED"}

(* The sets _gc_settled_requests may evict once `count` attempts are settled: *)
(* which of them are the oldest is left open.                                 *)
Evictions(settled, count) ==
  IF count <= SettledRetention THEN {{}}
  ELSE LET target == Max({count - SettledRetention, GcBatch})
       IN  kSubset(Min({target, Cardinality(settled)}), settled)

(* The requests in R become SETTLED, then the garbage collector runs. *)
Settle(R) ==
  LET state == [r \in Requests |-> IF r \in R THEN "SETTLED" ELSE attempt_state[r]]
      count == settled_count + Cardinality(R)
  IN  /\ active_request_server' =
           [r \in Requests |-> IF r \in R THEN None ELSE active_request_server[r]]
      /\ \E expired \in Evictions(Settled(state), count) :
           /\ attempt_state' =
                [r \in Requests |-> IF r \in expired THEN None ELSE state[r]]
           /\ continuation_proofs' =
                [r \in Requests |-> IF r \in expired THEN None
                                    ELSE continuation_proofs[r]]
           /\ settled_count' = count - Cardinality(expired)

-----------------------------------------------------------------------------
(* Requests *)

(* acquire_server; which server of the pool the native router picks is open. *)
acquire_server(r, s) ==
  /\ attempt_state[r] \notin {"ADMITTED", "TERMINATED"}
  /\ s \in servers
  /\ inflight' = [inflight EXCEPT ![s] = @ + 1]
  /\ IF attempt_state[r] = "SETTLED"
     THEN /\ continuation_proofs' = [continuation_proofs EXCEPT ![r] = None]
          /\ settled_count' = settled_count - 1
     ELSE UNCHANGED <<continuation_proofs, settled_count>>
  /\ active_request_server' = [active_request_server EXCEPT ![r] = s]
  /\ attempt_state' = [attempt_state EXCEPT ![r] = "ADMITTED"]
  /\ UNCHANGED <<servers, routes, continuation_handoffs, draining_operations,
                 ready_operations, awaiting>>

(* The release of an attempt that is settled or forgotten changes nothing. *)
ReleaseIgnored(r) == attempt_state[r] \in {"SETTLED", None}

(* release_server, by the server that owns the attempt. *)
release_server(r, s) ==
  /\ active_request_server[r] \in {None, s}
  /\ IF ReleaseIgnored(r)
     THEN UNCHANGED lbVars
     ELSE /\ inflight' = IF s \in servers
                         THEN [inflight EXCEPT ![s] = @ - 1] ELSE inflight
          /\ Settle({r})
          /\ UNCHANGED <<servers, routes, continuation_handoffs,
                         draining_operations, ready_operations, awaiting>>

(* confirm_continuation by the client of r: an exact replay returns the      *)
(* recorded proof, a request outside a drain is refused with a KeyError.     *)
confirm_continuation(r) ==
  LET o == draining_operations[active_request_server[r]]
  IN  IF \/ continuation_proofs[r] # None
         \/ attempt_state[r] # "ADMITTED"
         \/ o = None
      THEN UNCHANGED lbVars
      ELSE /\ continuation_proofs' = [continuation_proofs EXCEPT ![r] = o]
           /\ continuation_handoffs' = [continuation_handoffs EXCEPT ![o] = @ \cup {r}]
           /\ attempt_state' = [attempt_state EXCEPT ![r] = "TERMINATED"]
           /\ UNCHANGED <<servers, inflight, routes, active_request_server,
                          settled_count, draining_operations, ready_operations,
                          awaiting>>

-----------------------------------------------------------------------------
(* Lifecycle *)

(* Faulty variant: the counter of the removed server survives. *)
RemoveServerOnly(s) ==
  /\ servers' = servers \ {s}
  /\ UNCHANGED inflight

(* remove_servers of the native pool, which drops the counter as well. *)
RemoveServer(s) ==
  /\ servers' = servers \ {s}
  /\ inflight' = [inflight EXCEPT ![s] = 0]

(* commit_ready under a new operation id. *)
commit_ready(k, o) ==
  LET s == ServerOf[k]
  IN  /\ ready_operations[o] = None
      /\ routes[k] \in {None, s}
      /\ \A p \in OpIds : ready_operations[p] # None =>
           ready_operations[p].key # k /\ ready_operations[p].server # s
      /\ servers' = servers \cup {s}
      /\ awaiting' = FALSE
      /\ routes' = [routes EXCEPT ![k] = s]
      /\ ready_operations' =
           [ready_operations EXCEPT ![o] = [key |-> k, server |-> s]]
      /\ UNCHANGED <<inflight, draining_operations, requestFacts>>

(* begin_drain, again by the same operation included. *)
begin_drain(k, o) ==
  LET s == routes[k]
  IN  /\ s # None
      /\ draining_operations[s] \in {None, o}
      /\ draining_operations' = [draining_operations EXCEPT ![s] = o]
      /\ RemoveServer(s)
      /\ awaiting' = (awaiting \/ servers' = {})
      /\ UNCHANGED <<routes, ready_operations, requestFacts>>

(* A route may go once no attempt on its server is ADMITTED. *)
RemoveAllowed(k) == ~ has_unsettled_requests(routes[k])

(* finish_remove; without a route it returns at once. *)
finish_remove(k) ==
  LET s == routes[k]
      o == draining_operations[s]
  IN  IF s = None THEN UNCHANGED lbVars
      ELSE /\ RemoveAllowed(k)
           /\ Settle({r \in requests_for_server(s) : attempt_state[r] = "TERMINATED"})
           /\ RemoveServer(s)
           /\ draining_operations' = [draining_operations EXCEPT ![s] = None]
           /\ continuation_handoffs' =
                [p \in OpIds |-> IF p = o THEN {} ELSE continuation_handoffs[p]]
           /\ routes' = [routes EXCEPT ![k] = None]
           /\ ready_operations' =
                [p \in OpIds |-> IF ready_operations[p] # None
                                    /\ ready_operations[p].key = k
                                 THEN None ELSE ready_operations[p]]
           /\ UNCHANGED awaiting
=============================================================================
