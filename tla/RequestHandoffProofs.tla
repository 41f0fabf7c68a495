------------------------ MODULE RequestHandoffProofs ------------------------
(***************************************************************************)
(* Proofs about the load balancer among its callers, for any number of     *)
(* requests, replicas and operations.                                      *)
(***************************************************************************)
EXTENDS RequestHandoff, FiniteSetTheorems, TLAPS

Out == {"absent", "released"}
Exiting == {"draining", "aborting", "handoff", "ready"}

(* The requests the load balancer remembers. *)
Known == {r \in Requests : attempt_state[r] # None}

(* Counting needs that only finitely many requests are remembered. *)
KnownIsFinite == IsFiniteSet(Known)

(* An attempt, its server, its proof and its client agree, and the server of *)
(* an unsettled attempt is one of a replica in service.                      *)
AttemptInv ==
  \A r \in Requests :
    /\ active_request_server[r] # None <=> attempt_state[r] \in {"ADMITTED", "TERMINATED"}
    /\ continuation_proofs[r] # None => attempt_state[r] \in {"TERMINATED", "SETTLED"}
    /\ pc[r] # "idle" => active_request_server[r] = at[r] /\ attempt_state[r] = "ADMITTED"
    /\ fence[r] # None => pc[r] = "idle"
    /\ active_request_server[r] # None =>
         \E k \in Keys : ServerOf[k] = active_request_server[r] /\ phase[k] \notin Out

(* A replica is routed while it is in service, and its server is in the pool *)
(* while no operation takes it out.                                          *)
RouteInv ==
  /\ \A k \in Keys : routes[k] = IF phase[k] \in Out THEN None ELSE ServerOf[k]
  /\ \A s \in Servers : s \in servers <=> \E k \in Keys : ServerOf[k] = s /\ phase[k] = "active"
  /\ \A s \in Servers : s \notin servers => inflight[s] = 0
  /\ servers = {} => awaiting

(* A drain has an operation of its own, under which its proofs are filed. *)
DrainInv ==
  /\ \A k \in Keys : phase[k] \in Exiting =>
       exit_op[k] \in used /\ draining_operations[ServerOf[k]] = exit_op[k]
  /\ \A k, m \in Keys : phase[k] \in Exiting /\ phase[m] \in Exiting
       /\ exit_op[k] = exit_op[m] => k = m
  /\ \A k \in Keys : phase[k] = "aborting" => recovery[k] # None

(* Until its drain is over, a request that a FORCE aborted has proved its    *)
(* hand-off or still holds the aborted output.                               *)
HandoffInv ==
  \A k \in Keys : phase[k] = "handoff" =>
    \A r \in aborted[k] :
      \/ r \in continuation_handoffs[exit_op[k]]
      \/ pc[r] = "aborted" /\ at[r] = ServerOf[k]

HandoffsKept ==
  \A k \in Keys : phase[k] = "ready" /\ force[k] =>
    aborted[k] \subseteq continuation_handoffs[exit_op[k]]

PoolCounted == \A s \in servers : inflight[s] = Cardinality(requests_for_server(s))

SettledCounted ==
  /\ settled_count = Cardinality(Settled(attempt_state))
  /\ settled_count <= SettledRetention

HandoffsInv ==
  /\ TypeOK
  /\ KnownIsFinite
  /\ AttemptInv
  /\ RouteInv
  /\ DrainInv
  /\ HandoffInv
  /\ HandoffsKept
  /\ PoolCounted
  /\ SettledCounted

-----------------------------------------------------------------------------
(* The greater and the smaller of two numbers. *)
LEMMA ExtremesOfTwo ==
  ASSUME NEW a \in Int, NEW b \in Int
  PROVE  /\ Max({a, b}) = IF a >= b THEN a ELSE b
         /\ Min({a, b}) = IF a <= b THEN a ELSE b
<1>1. Max({a, b}) \in {a, b} /\ \A y \in {a, b} : Max({a, b}) >= y
  <2> DEFINE P(x) == x \in {a, b} /\ \A y \in {a, b} : x >= y
  <2>1. \E x : P(x)
    BY DEF P
  <2>2. P(CHOOSE x : P(x))
    BY <2>1, Zenon
  <2>3. Max({a, b}) = CHOOSE x : P(x)
    BY Zenon DEF Max, P
  <2> QED
    BY <2>2, <2>3 DEF P
<1>2. Min({a, b}) \in {a, b} /\ \A y \in {a, b} : Min({a, b}) <= y
  <2> DEFINE P(x) == x \in {a, b} /\ \A y \in {a, b} : x <= y
  <2>1. \E x : P(x)
    BY DEF P
  <2>2. P(CHOOSE x : P(x))
    BY <2>1, Zenon
  <2>3. Min({a, b}) = CHOOSE x : P(x)
    BY Zenon DEF Min, P
  <2> QED
    BY <2>2, <2>3 DEF P
<1> QED
  BY <1>1, <1>2

(* The collector brings any number of settled attempts within the retention. *)
LEMMA EvictionsSuffice ==
  ASSUME NEW S, IsFiniteSet(S), NEW X \in Evictions(S, Cardinality(S))
  PROVE  /\ X \subseteq S
         /\ Cardinality(X) \in Nat
         /\ Cardinality(S \ X) = Cardinality(S) - Cardinality(X)
         /\ Cardinality(S) - Cardinality(X) <= SettledRetention
<1> DEFINE n == Cardinality(S)
           target == Max({n - SettledRetention, GcBatch})
<1>1. n \in Nat /\ SettledRetention \in Nat /\ GcBatch \in Nat
  BY FS_CardinalityType, LBAssumption
<1>2. X \subseteq S => /\ Cardinality(X) \in Nat
                       /\ Cardinality(S \ X) = n - Cardinality(X)
  <2> SUFFICES ASSUME X \subseteq S
               PROVE  /\ Cardinality(X) \in Nat
                      /\ Cardinality(S \ X) = n - Cardinality(X)
    OBVIOUS
  <2>1. IsFiniteSet(X) /\ S \cap X = X
    BY FS_Subset
  <2> QED
    BY <2>1, FS_CardinalityType, FS_Difference
<1>3. CASE n <= SettledRetention
  <2>1. X = {}
    BY <1>3 DEF Evictions
  <2> QED
    BY <1>1, <1>2, <1>3, <2>1, FS_EmptySet
<1>4. CASE ~ (n <= SettledRetention)
  <2>1. X \subseteq S /\ Cardinality(X) = Min({target, n})
    BY <1>4 DEF Evictions, kSubset
  <2>2. target \in Nat /\ target >= n - SettledRetention
    BY <1>1, <1>4, ExtremesOfTwo
  <2>3. Min({target, n}) = IF target <= n THEN target ELSE n
    <3> HIDE DEF target, n
    <3>1. target \in Int /\ n \in Int
      BY <1>1, <2>2
    <3> QED
      BY <3>1, ExtremesOfTwo
  <2> HIDE DEF target, n
  <2>4. n - Cardinality(X) <= SettledRetention
    BY <1>1, <2>1, <2>2, <2>3
  <2> QED
    BY <1>2, <2>1, <2>4 DEF n
<1> QED
  BY <1>3, <1>4

(* What it means to settle the attempts R, whichever attempts are evicted. *)
LEMMA SettleEffect ==
  ASSUME LBTypeOK, KnownIsFinite, SettledCounted, NEW R \in SUBSET Requests,
         \A r \in R : attempt_state[r] \in {"ADMITTED", "TERMINATED"},
         Settle(R)
  PROVE  /\ active_request_server' \in [Requests -> Servers \cup {None}]
         /\ attempt_state' \in [Requests -> AttemptStates \cup {None}]
         /\ continuation_proofs' \in [Requests -> OpIds \cup {None}]
         /\ settled_count' \in Int
         /\ KnownIsFinite'
         /\ SettledCounted'
         /\ \A r \in Requests :
              /\ active_request_server'[r] =
                   IF r \in R THEN None ELSE active_request_server[r]
              /\ r \in R => attempt_state'[r] \in {"SETTLED", None}
              /\ r \notin R => \/ attempt_state'[r] = attempt_state[r]
                               \/ attempt_state[r] = "SETTLED" /\ attempt_state'[r] = None
              /\ \/ attempt_state'[r] = None /\ continuation_proofs'[r] = None
                 \/ attempt_state'[r] # None /\ continuation_proofs'[r] = continuation_proofs[r]
                 \/ attempt_state'[r] = attempt_state[r]
                    /\ continuation_proofs'[r] = continuation_proofs[r]
<1> DEFINE state == [r \in Requests |-> IF r \in R THEN "SETTLED" ELSE attempt_state[r]]
           count == settled_count + Cardinality(R)
           S == Settled(state)
<1>1. active_request_server' =
        [r \in Requests |-> IF r \in R THEN None ELSE active_request_server[r]]
  BY DEF Settle
<1>2. PICK X \in Evictions(S, count) :
        /\ attempt_state' = [r \in Requests |-> IF r \in X THEN None ELSE state[r]]
        /\ continuation_proofs' =
             [r \in Requests |-> IF r \in X THEN None ELSE continuation_proofs[r]]
        /\ settled_count' = count - Cardinality(X)
  BY DEF Settle
<1>3. attempt_state \in [Requests -> AttemptStates \cup {None}] /\ None \notin AttemptStates
  BY LBAssumption DEF LBTypeOK
<1>4. state \in [Requests -> AttemptStates \cup {None}]
  BY <1>3 DEF AttemptStates
<1>5. S = {r \in Requests : state[r] = "SETTLED"}
  BY DEF Settled
<1>6. S = Settled(attempt_state) \cup R /\ Settled(attempt_state) \cap R = {}
  BY <1>3, <1>5 DEF Settled
<1>7. IsFiniteSet(R) /\ IsFiniteSet(Settled(attempt_state))
  <2>1. R \subseteq Known /\ Settled(attempt_state) \subseteq Known
    BY <1>3 DEF Known, Settled, AttemptStates
  <2> QED
    BY <2>1, FS_Subset DEF KnownIsFinite
<1>8. IsFiniteSet(S) /\ Cardinality(S) = count
  <2> DEFINE T == Settled(attempt_state)
  <2> HIDE DEF T, S
  <2>1. IsFiniteSet(T \cup R)
        /\ Cardinality(T \cup R) = Cardinality(T) + Cardinality(R) - Cardinality(T \cap R)
    BY <1>7, FS_Union DEF T
  <2>2. Cardinality(T \cap R) = 0 /\ Cardinality(T) \in Nat /\ Cardinality(R) \in Nat
    BY <1>6, <1>7, FS_EmptySet, FS_CardinalityType DEF T
  <2>3. S = T \cup R /\ settled_count = Cardinality(T)
    BY <1>6 DEF T, SettledCounted
  <2> QED
    BY <2>1, <2>2, <2>3
<1> HIDE DEF state, count, S
<1>9. /\ X \subseteq S /\ Cardinality(X) \in Nat
      /\ Cardinality(S \ X) = count - Cardinality(X)
      /\ count - Cardinality(X) <= SettledRetention
  BY <1>2, <1>8, EvictionsSuffice
<1>10. settled_count' \in Int
  BY <1>2, <1>8, <1>9, FS_CardinalityType
<1>11. SettledCounted'
  <2>1. Settled(attempt_state') = S \ X
    BY <1>2, <1>3, <1>5, <1>9 DEF Settled, AttemptStates
  <2> QED
    BY <1>2, <1>9, <2>1 DEF SettledCounted
<1>12. KnownIsFinite'
  <2>1. Known' \subseteq Known
    BY <1>2, <1>3 DEF Known, state, AttemptStates
  <2> QED
    BY <2>1, FS_Subset DEF KnownIsFinite
<1>13. \A r \in X : r \in Requests /\ (r \in R \/ attempt_state[r] = "SETTLED")
  BY <1>5, <1>9 DEF state
<1>14. /\ active_request_server' \in [Requests -> Servers \cup {None}]
       /\ attempt_state' \in [Requests -> AttemptStates \cup {None}]
       /\ continuation_proofs' \in [Requests -> OpIds \cup {None}]
  BY <1>1, <1>2, <1>4 DEF LBTypeOK
<1>15. ASSUME NEW r \in Requests
       PROVE  /\ active_request_server'[r] =
                   IF r \in R THEN None ELSE active_request_server[r]
              /\ r \in R => attempt_state'[r] \in {"SETTLED", None}
              /\ r \notin R => \/ attempt_state'[r] = attempt_state[r]
                               \/ attempt_state[r] = "SETTLED" /\ attempt_state'[r] = None
              /\ \/ attempt_state'[r] = None /\ continuation_proofs'[r] = None
                 \/ attempt_state'[r] # None /\ continuation_proofs'[r] = continuation_proofs[r]
                 \/ attempt_state'[r] = attempt_state[r]
                    /\ continuation_proofs'[r] = continuation_proofs[r]
  <2>1. CASE r \in X
    BY <1>1, <1>2, <1>13, <2>1
  <2>2. CASE r \notin X
    BY <1>1, <1>2, <1>3, <2>2 DEF state, AttemptStates
  <2> QED
    BY <2>1, <2>2
<1> QED
  BY <1>10, <1>11, <1>12, <1>14, <1>15

-----------------------------------------------------------------------------
(* Steps of the clients and of the Rollouter *)

(* A step that does not reach the load balancer. *)
LEMMA LoadBalancerKept ==
  ASSUME HandoffsInv, UNCHANGED lbVars
  PROVE  LBTypeOK' /\ KnownIsFinite' /\ PoolCounted' /\ SettledCounted'
<1>1. /\ servers' = servers /\ inflight' = inflight /\ routes' = routes
      /\ active_request_server' = active_request_server
      /\ attempt_state' = attempt_state /\ settled_count' = settled_count
      /\ continuation_proofs' = continuation_proofs
      /\ continuation_handoffs' = continuation_handoffs
      /\ draining_operations' = draining_operations
      /\ ready_operations' = ready_operations /\ awaiting' = awaiting
  BY DEF lbVars
<1>2. LBTypeOK'
  BY <1>1 DEF HandoffsInv, TypeOK, LBTypeOK
<1>3. KnownIsFinite'
  BY <1>1 DEF HandoffsInv, KnownIsFinite, Known
<1>4. PoolCounted'
  BY <1>1 DEF HandoffsInv, PoolCounted, requests_for_server
<1>5. SettledCounted'
  BY <1>1 DEF HandoffsInv, SettledCounted
<1> QED
  BY <1>2, <1>3, <1>4, <1>5

LEMMA GenerationEndsKeeps ==
  ASSUME HandoffsInv, NEW r \in Requests, GenerationEnds(r)
  PROVE  HandoffsInv'
<1>1. UNCHANGED lbVars
  BY DEF GenerationEnds
<1>2. LBTypeOK' /\ KnownIsFinite' /\ PoolCounted' /\ SettledCounted'
  BY <1>1, LoadBalancerKept
<1>3. TypeOK'
  BY <1>2 DEF HandoffsInv, TypeOK, GenerationEnds, AttemptOver, exitVars
<1>4. AttemptInv'
  BY DEF HandoffsInv, TypeOK, AttemptInv, GenerationEnds, AttemptOver, exitVars, lbVars
<1>5. RouteInv' /\ DrainInv' /\ HandoffsKept'
  BY DEF HandoffsInv, RouteInv, DrainInv, HandoffsKept, GenerationEnds, exitVars, lbVars
<1>6. HandoffInv'
  BY DEF HandoffsInv, TypeOK, HandoffInv, GenerationEnds, AttemptOver, exitVars, lbVars
<1> QED
  BY <1>2, <1>3, <1>4, <1>5, <1>6 DEF HandoffsInv

(* An abort turns generating clients of a server into ones with an output. *)
LEMMA AbortKeeps ==
  ASSUME HandoffsInv, UNCHANGED <<lbVars, at, fence>>, NEW R \in SUBSET Requests, Abort(R),
         \A r \in R : pc[r] = "generating", phase' \in [Keys -> Phases],
         \A k \in Keys : phase[k] \notin Out => phase'[k] \notin Out
  PROVE  /\ pc' \in [Requests -> {"idle", "generating", "aborted"}]
         /\ AttemptInv'
         /\ \A r \in Requests : pc[r] = "aborted" => pc'[r] = "aborted"
<1>1. pc' = [r \in Requests |-> IF r \in R THEN "aborted" ELSE pc[r]]
  BY DEF Abort
<1>2. pc \in [Requests -> {"idle", "generating", "aborted"}]
  BY DEF HandoffsInv, TypeOK
<1>3. AttemptInv'
  BY <1>1, <1>2 DEF HandoffsInv, AttemptInv, lbVars
<1> QED
  BY <1>1, <1>2, <1>3

LEMMA SyncAbortsKeeps ==
  ASSUME HandoffsInv, NEW s \in Servers, SyncAborts(s)
  PROVE  HandoffsInv'
<1>1. UNCHANGED lbVars
  BY DEF SyncAborts
<1>2. LBTypeOK' /\ KnownIsFinite' /\ PoolCounted' /\ SettledCounted'
  BY <1>1, LoadBalancerKept
<1>3. /\ pc' \in [Requests -> {"idle", "generating", "aborted"}] /\ AttemptInv'
      /\ \A r \in Requests : pc[r] = "aborted" => pc'[r] = "aborted"
  <2>1. GeneratingOn(s) \in SUBSET Requests /\ \A r \in GeneratingOn(s) : pc[r] = "generating"
    BY DEF GeneratingOn
  <2>2. UNCHANGED <<lbVars, at, fence>> /\ Abort(GeneratingOn(s)) /\ phase' = phase
    BY DEF SyncAborts, exitVars
  <2>3. phase' \in [Keys -> Phases]
    BY <2>2 DEF HandoffsInv, TypeOK
  <2> HIDE DEF Abort, GeneratingOn
  <2> QED
    BY <2>1, <2>2, <2>3, AbortKeeps
<1>4. TypeOK'
  BY <1>2, <1>3 DEF HandoffsInv, TypeOK, SyncAborts, exitVars
<1>5. RouteInv' /\ DrainInv' /\ HandoffsKept'
  BY DEF HandoffsInv, RouteInv, DrainInv, HandoffsKept, SyncAborts, exitVars, lbVars
<1>6. HandoffInv'
  BY <1>3 DEF HandoffsInv, TypeOK, HandoffInv, SyncAborts, exitVars, lbVars
<1> QED
  BY <1>2, <1>3, <1>4, <1>5, <1>6 DEF HandoffsInv

LEMMA ForceSnapshotKeeps ==
  ASSUME HandoffsInv, NEW k \in Keys, ForceSnapshot(k)
  PROVE  HandoffsInv'
<1>1. UNCHANGED lbVars /\ UNCHANGED clientVars
      /\ UNCHANGED <<exit_op, force, aborted, used>>
  BY DEF ForceSnapshot
<1>2. LBTypeOK' /\ KnownIsFinite' /\ PoolCounted' /\ SettledCounted'
  BY <1>1, LoadBalancerKept
<1>3. /\ phase' = [phase EXCEPT ![k] = "aborting"] /\ phase[k] = "draining"
      /\ phase \in [Keys -> Phases]
  BY DEF ForceSnapshot, HandoffsInv, TypeOK
<1>4. /\ recovery' \in [Keys -> Recovery \cup {None}] /\ recovery'[k] # None
      /\ \A m \in Keys : m # k => recovery'[m] = recovery[m]
  <2> DEFINE e == [admitted |-> Admitted(routes[k]), count |-> None]
  <2>1. e \in Recovery
    BY DEF Recovery, Admitted, requests_for_server
  <2>2. recovery' = [recovery EXCEPT ![k] = e] /\ recovery \in [Keys -> Recovery \cup {None}]
    BY DEF ForceSnapshot, HandoffsInv, TypeOK
  <2> HIDE DEF e
  <2> QED
    BY <2>1, <2>2, HandoffAssumption
<1>5. TypeOK'
  BY <1>1, <1>2, <1>3, <1>4 DEF HandoffsInv, TypeOK, clientVars, Phases
<1>6. AttemptInv'
  BY <1>1, <1>3 DEF HandoffsInv, AttemptInv, Out, clientVars, lbVars
<1>7. RouteInv'
  BY <1>1, <1>3 DEF HandoffsInv, RouteInv, Out, lbVars
<1>8. DrainInv'
  BY <1>1, <1>3, <1>4 DEF HandoffsInv, DrainInv, Exiting, lbVars
<1>9. HandoffInv' /\ HandoffsKept'
  BY <1>1, <1>3 DEF HandoffsInv, HandoffInv, HandoffsKept, clientVars, lbVars
<1> QED
  BY <1>2, <1>5, <1>6, <1>7, <1>8, <1>9 DEF HandoffsInv

(* The abort of a FORCE drain, whatever the Rollouter learns of it. *)
LEMMA ForceAbortKeeps ==
  ASSUME HandoffsInv, NEW k \in Keys, NEW hit, hit \subseteq GeneratingOn(routes[k]),
         phase[k] = "aborting", Abort(hit), aborted' = [aborted EXCEPT ![k] = hit],
         phase' = [phase EXCEPT ![k] = "handoff"],
         recovery' \in [Keys -> Recovery \cup {None}],
         \A m \in Keys : m # k => recovery'[m] = recovery[m],
         UNCHANGED <<lbVars, at, fence, exit_op, force, used>>
  PROVE  HandoffsInv'
<1>1. UNCHANGED lbVars
  OBVIOUS
<1>2. LBTypeOK' /\ KnownIsFinite' /\ PoolCounted' /\ SettledCounted'
  BY <1>1, LoadBalancerKept
<1>3. /\ phase' \in [Keys -> Phases] /\ hit \in SUBSET Requests
      /\ \A r \in hit : pc[r] = "generating" /\ at[r] = ServerOf[k]
  BY DEF HandoffsInv, TypeOK, RouteInv, Out, Phases, GeneratingOn
<1>4. /\ pc' \in [Requests -> {"idle", "generating", "aborted"}] /\ AttemptInv'
      /\ \A r \in Requests : pc[r] = "aborted" => pc'[r] = "aborted"
  <2>1. \A m \in Keys : phase[m] \notin Out => phase'[m] \notin Out
    BY DEF HandoffsInv, TypeOK, Out
  <2> QED
    BY <1>3, <2>1, AbortKeeps
<1>5. TypeOK'
  BY <1>2, <1>3, <1>4 DEF HandoffsInv, TypeOK
<1>6. RouteInv'
  BY DEF HandoffsInv, TypeOK, RouteInv, Out, lbVars
<1>7. DrainInv'
  BY DEF HandoffsInv, TypeOK, DrainInv, Exiting, lbVars
<1>8. HandoffInv'
  <2>1. \A r \in hit : pc'[r] = "aborted" /\ at'[r] = ServerOf[k]
    BY <1>3 DEF Abort
  <2> QED
    BY <1>4, <2>1 DEF HandoffsInv, TypeOK, HandoffInv, lbVars
<1>9. HandoffsKept'
  BY DEF HandoffsInv, TypeOK, HandoffsKept, lbVars
<1> QED
  BY <1>2, <1>4, <1>5, <1>6, <1>7, <1>8, <1>9 DEF HandoffsInv

LEMMA AbortAnsweredKeeps ==
  ASSUME HandoffsInv, NEW k \in Keys, AbortAnswered(k)
  PROVE  HandoffsInv'
<1> DEFINE hit == GeneratingOn(routes[k])
<1>1. Cardinality(hit) \in Nat
  <2>1. hit \subseteq Known
    BY LBAssumption DEF HandoffsInv, AttemptInv, GeneratingOn, Known, AttemptStates
  <2> QED
    BY <2>1, FS_Subset, FS_CardinalityType DEF HandoffsInv, KnownIsFinite
<1>2. /\ recovery' \in [Keys -> Recovery \cup {None}]
      /\ \A m \in Keys : m # k => recovery'[m] = recovery[m]
  <2> HIDE DEF hit
  <2>1. recovery[k] \in Recovery /\ recovery \in [Keys -> Recovery \cup {None}]
    BY DEF HandoffsInv, TypeOK, DrainInv, AbortAnswered
  <2>2. recovery' = [recovery EXCEPT ![k] = [recovery[k] EXCEPT !.count = Cardinality(hit)]]
    BY DEF AbortAnswered, hit
  <2>3. [recovery[k] EXCEPT !.count = Cardinality(hit)] \in Recovery
    BY <1>1, <2>1 DEF Recovery
  <2> QED
    BY <2>1, <2>2, <2>3
<1>3. /\ phase[k] = "aborting" /\ Abort(hit) /\ aborted' = [aborted EXCEPT ![k] = hit]
      /\ phase' = [phase EXCEPT ![k] = "handoff"]
      /\ UNCHANGED <<lbVars, at, fence, exit_op, force, used>>
  BY DEF AbortAnswered
<1> HIDE DEF Abort, GeneratingOn
<1> QED
  BY <1>2, <1>3, ForceAbortKeeps

LEMMA AbortAnswerLostKeeps ==
  ASSUME HandoffsInv, NEW k \in Keys, AbortAnswerLost(k)
  PROVE  HandoffsInv'
<1>1. PICK hit \in {{}, GeneratingOn(routes[k])} :
        Abort(hit) /\ aborted' = [aborted EXCEPT ![k] = hit]
  BY DEF AbortAnswerLost
<1>2. /\ phase[k] = "aborting" /\ phase' = [phase EXCEPT ![k] = "handoff"]
      /\ UNCHANGED <<lbVars, at, fence, exit_op, force, used>> /\ recovery' = recovery
  BY DEF AbortAnswerLost
<1>3. recovery' \in [Keys -> Recovery \cup {None}]
  BY <1>2 DEF HandoffsInv, TypeOK
<1>4. hit \subseteq GeneratingOn(routes[k])
  BY <1>1
<1> HIDE DEF Abort, GeneratingOn
<1> QED
  BY <1>1, <1>2, <1>3, <1>4, ForceAbortKeeps

(* No client holds an aborted output of a server without unsettled attempts. *)
LEMMA ExitReadyKeeps ==
  ASSUME HandoffsInv, NEW k \in Keys, ExitReady(k)
  PROVE  HandoffsInv'
<1>1. UNCHANGED lbVars /\ UNCHANGED clientVars
      /\ UNCHANGED <<exit_op, force, recovery, aborted, used>>
  BY DEF ExitReady
<1>2. LBTypeOK' /\ KnownIsFinite' /\ PoolCounted' /\ SettledCounted'
  BY <1>1, LoadBalancerKept
<1>3. /\ phase' = [phase EXCEPT ![k] = "ready"] /\ phase[k] \in {"draining", "handoff"}
      /\ phase \in [Keys -> Phases] /\ (force[k] => phase[k] = "handoff")
  BY DEF ExitReady, HandoffsInv, TypeOK
<1>4. TypeOK'
  BY <1>1, <1>2, <1>3 DEF HandoffsInv, TypeOK, clientVars, Phases
<1>5. AttemptInv'
  BY <1>1, <1>3 DEF HandoffsInv, AttemptInv, Out, clientVars, lbVars
<1>6. RouteInv'
  BY <1>1, <1>3 DEF HandoffsInv, RouteInv, Out, lbVars
<1>7. DrainInv'
  BY <1>1, <1>3 DEF HandoffsInv, DrainInv, Exiting, lbVars
<1>8. HandoffInv'
  BY <1>1, <1>3 DEF HandoffsInv, HandoffInv, clientVars, lbVars
<1>9. force[k] => aborted[k] \subseteq continuation_handoffs[exit_op[k]]
  <2> SUFFICES ASSUME force[k], NEW r \in aborted[k]
               PROVE  r \in continuation_handoffs[exit_op[k]]
    OBVIOUS
  <2>1. r \in Requests /\ routes[k] = ServerOf[k]
    BY <1>3 DEF HandoffsInv, TypeOK, RouteInv, Out
  <2>2. ~ (pc[r] = "aborted" /\ at[r] = ServerOf[k])
    <3> SUFFICES ASSUME pc[r] = "aborted" /\ at[r] = ServerOf[k]
                 PROVE  FALSE
      OBVIOUS
    <3>1. active_request_server[r] = routes[k] /\ attempt_state[r] = "ADMITTED"
      BY <2>1 DEF HandoffsInv, AttemptInv
    <3> QED
      BY <2>1, <3>1 DEF ExitReady, has_unsettled_requests, requests_for_server
  <2> QED
    BY <1>3, <2>2 DEF HandoffsInv, HandoffInv
<1>10. HandoffsKept'
  BY <1>1, <1>3, <1>9 DEF HandoffsInv, HandoffsKept, lbVars
<1> QED
  BY <1>2, <1>4, <1>5, <1>6, <1>7, <1>8, <1>10 DEF HandoffsInv

-----------------------------------------------------------------------------
(* Steps that reach the load balancer *)

LEMMA ClientAcquiresKeeps ==
  ASSUME HandoffsInv, NEW r \in Requests, NEW s \in Servers, ClientAcquires(r, s)
  PROVE  HandoffsInv'
<1>1. /\ pc[r] = "idle" /\ fence[r] = None /\ s \in servers
      /\ attempt_state[r] \in {"SETTLED", None}
      /\ inflight' = [inflight EXCEPT ![s] = @ + 1]
      /\ active_request_server' = [active_request_server EXCEPT ![r] = s]
      /\ attempt_state' = [attempt_state EXCEPT ![r] = "ADMITTED"]
      /\ pc' = [pc EXCEPT ![r] = "generating"] /\ at' = [at EXCEPT ![r] = s]
  BY DEF ClientAcquires, FenceOpen, acquire_server, HandoffsInv, TypeOK, LBTypeOK, AttemptStates
<1>2. /\ servers' = servers /\ routes' = routes /\ fence' = fence
      /\ continuation_handoffs' = continuation_handoffs
      /\ draining_operations' = draining_operations
      /\ ready_operations' = ready_operations /\ awaiting' = awaiting
      /\ phase' = phase /\ exit_op' = exit_op /\ force' = force
      /\ recovery' = recovery /\ aborted' = aborted /\ used' = used
  BY DEF ClientAcquires, acquire_server, exitVars
<1>3. /\ attempt_state[r] = "SETTLED" =>
           continuation_proofs' = [continuation_proofs EXCEPT ![r] = None]
           /\ settled_count' = settled_count - 1
      /\ attempt_state[r] # "SETTLED" =>
           continuation_proofs' = continuation_proofs /\ settled_count' = settled_count
  BY DEF ClientAcquires, acquire_server
<1>4. LBTypeOK
  BY DEF HandoffsInv, TypeOK
<1>5. /\ continuation_proofs' \in [Requests -> OpIds \cup {None}]
      /\ continuation_proofs'[r] = None
      /\ \A q \in Requests : q # r => continuation_proofs'[q] = continuation_proofs[q]
      /\ settled_count' \in Int
  BY <1>1, <1>3, <1>4, LBAssumption DEF LBTypeOK, HandoffsInv, AttemptInv, AttemptStates
<1>6. LBTypeOK'
  BY <1>1, <1>2, <1>4, <1>5 DEF LBTypeOK, AttemptStates
<1>7. TypeOK'
  BY <1>1, <1>2, <1>6 DEF HandoffsInv, TypeOK
<1>8. Known' = Known \cup {r}
  BY <1>1, <1>4, LBAssumption DEF LBTypeOK, Known, AttemptStates
<1>9. KnownIsFinite'
  BY <1>8, FS_AddElement DEF HandoffsInv, KnownIsFinite
<1>10. AttemptInv'
  <2> SUFFICES ASSUME NEW q \in Requests
               PROVE  /\ active_request_server'[q] # None
                           <=> attempt_state'[q] \in {"ADMITTED", "TERMINATED"}
                      /\ continuation_proofs'[q] # None
                           => attempt_state'[q] \in {"TERMINATED", "SETTLED"}
                      /\ pc'[q] # "idle" => /\ active_request_server'[q] = at'[q]
                                            /\ attempt_state'[q] = "ADMITTED"
                      /\ fence'[q] # None => pc'[q] = "idle"
                      /\ active_request_server'[q] # None =>
                           \E k \in Keys : /\ ServerOf[k] = active_request_server'[q]
                                           /\ phase'[k] \notin Out
    BY DEF AttemptInv
  <2>1. CASE q = r
    <3>1. \E k \in Keys : ServerOf[k] = s /\ phase[k] \notin Out
      BY <1>1 DEF HandoffsInv, RouteInv, Out
    <3> QED
      BY <1>1, <1>2, <1>4, <1>5, <2>1, <3>1, LBAssumption DEF HandoffsInv, TypeOK, LBTypeOK
  <2>2. CASE q # r
    BY <1>1, <1>2, <1>4, <1>5, <2>2 DEF HandoffsInv, TypeOK, LBTypeOK, AttemptInv
  <2> QED
    BY <2>1, <2>2
<1>11. RouteInv'
  BY <1>1, <1>2, <1>4 DEF HandoffsInv, RouteInv, LBTypeOK
<1>12. DrainInv' /\ HandoffsKept'
  BY <1>2 DEF HandoffsInv, DrainInv, HandoffsKept
<1>13. HandoffInv'
  BY <1>1, <1>2 DEF HandoffsInv, TypeOK, HandoffInv
<1>14. PoolCounted'
  <2>1. requests_for_server(s)' = requests_for_server(s) \cup {r}
    BY <1>1, <1>4 DEF LBTypeOK, requests_for_server
  <2>2. r \notin requests_for_server(s)
    BY <1>1, LBAssumption DEF HandoffsInv, AttemptInv, requests_for_server, AttemptStates
  <2>3. requests_for_server(s) \subseteq Known
    BY LBAssumption DEF HandoffsInv, AttemptInv, requests_for_server, Known, AttemptStates
  <2>4. Cardinality(requests_for_server(s)') = Cardinality(requests_for_server(s)) + 1
    BY <2>1, <2>2, <2>3, FS_Subset, FS_AddElement DEF HandoffsInv, KnownIsFinite
  <2>5. \A t \in Servers : t # s => requests_for_server(t)' = requests_for_server(t)
    BY <1>1, <1>4, LBAssumption DEF HandoffsInv, AttemptInv, LBTypeOK, requests_for_server, AttemptStates
  <2> QED
    BY <1>1, <1>2, <1>4, <2>4, <2>5 DEF HandoffsInv, PoolCounted, LBTypeOK
<1>15. SettledCounted'
  <2>1. Settled(attempt_state) \subseteq Known
    BY <1>4, LBAssumption DEF LBTypeOK, Settled, Known, AttemptStates
  <2>2. IsFiniteSet(Settled(attempt_state))
    BY <2>1, FS_Subset DEF HandoffsInv, KnownIsFinite
  <2>3. Settled(attempt_state') = Settled(attempt_state) \ {r}
    BY <1>1, <1>4 DEF LBTypeOK, Settled
  <2>4. r \in Settled(attempt_state) <=> attempt_state[r] = "SETTLED"
    BY <1>4 DEF LBTypeOK, Settled
  <2>5. Cardinality(Settled(attempt_state')) = settled_count'
    BY <1>3, <2>2, <2>3, <2>4, FS_RemoveElement DEF HandoffsInv, SettledCounted
  <2>6. settled_count' <= SettledRetention
    BY <1>3, <1>4, LBAssumption DEF HandoffsInv, SettledCounted, LBTypeOK
  <2> QED
    BY <2>5, <2>6 DEF SettledCounted
<1> QED
  BY <1>7, <1>9, <1>10, <1>11, <1>12, <1>13, <1>14, <1>15 DEF HandoffsInv

(* The finally path: the client is idle again. *)
LEMMA AttemptOverEffect ==
  ASSUME TypeOK, NEW r \in Requests, AttemptOver(r)
  PROVE  /\ pc' \in [Requests -> {"idle", "generating", "aborted"}]
         /\ at' \in [Requests -> Servers \cup {None}]
         /\ fence' \in [Requests -> Servers \cup {None}]
         /\ pc'[r] = "idle"
         /\ \A q \in Requests : q # r =>
              pc'[q] = pc[q] /\ at'[q] = at[q] /\ fence'[q] = fence[q]
BY DEF TypeOK, AttemptOver

(* An aborted client that reports within a drain is recorded as handed off.  *)
LEMMA ClientConfirmsKeeps ==
  ASSUME HandoffsInv, NEW r \in Requests, ClientConfirms(r)
  PROVE  HandoffsInv'
<1> DEFINE s == active_request_server[r]
           o == draining_operations[s]
<1>1. /\ pc[r] = "aborted" /\ UNCHANGED exitVars /\ AttemptOver(r)
      /\ s = at[r] /\ attempt_state[r] = "ADMITTED" /\ continuation_proofs[r] = None
      /\ s # None /\ s \in Servers
  BY LBAssumption
     DEF ClientConfirms, HandoffsInv, TypeOK, LBTypeOK, AttemptInv, AttemptStates
<1>2. /\ pc' \in [Requests -> {"idle", "generating", "aborted"}]
      /\ at' \in [Requests -> Servers \cup {None}]
      /\ fence' \in [Requests -> Servers \cup {None}]
      /\ pc'[r] = "idle"
      /\ \A q \in Requests : q # r =>
           pc'[q] = pc[q] /\ at'[q] = at[q] /\ fence'[q] = fence[q]
  BY <1>1, AttemptOverEffect DEF HandoffsInv
<1>3. CASE o = None
  <2>1. UNCHANGED lbVars
    BY <1>3 DEF ClientConfirms, confirm_continuation
  <2>2. LBTypeOK' /\ KnownIsFinite' /\ PoolCounted' /\ SettledCounted'
    BY <2>1, LoadBalancerKept
  <2>3. TypeOK'
    BY <1>1, <1>2, <2>2 DEF HandoffsInv, TypeOK, exitVars
  <2>4. AttemptInv'
    BY <1>1, <1>2, <2>1 DEF HandoffsInv, AttemptInv, exitVars, lbVars
  <2>5. RouteInv' /\ DrainInv' /\ HandoffsKept'
    BY <1>1, <2>1 DEF HandoffsInv, RouteInv, DrainInv, HandoffsKept, exitVars, lbVars
  <2>6. HandoffInv'
    <3> SUFFICES ASSUME NEW k \in Keys, phase[k] = "handoff", NEW q \in aborted[k]
                 PROVE  \/ q \in continuation_handoffs[exit_op[k]]
                        \/ pc'[q] = "aborted" /\ at'[q] = ServerOf[k]
      BY <1>1, <2>1 DEF HandoffInv, exitVars, lbVars
    <3>1. draining_operations[ServerOf[k]] # None
      BY LBAssumption DEF HandoffsInv, TypeOK, DrainInv, Exiting
    <3>2. q \in Requests /\ ~ (q = r /\ at[q] = ServerOf[k])
      BY <1>1, <1>3, <3>1 DEF HandoffsInv, TypeOK
    <3> QED
      BY <1>2, <3>2 DEF HandoffsInv, HandoffInv
  <2> QED
    BY <2>2, <2>3, <2>4, <2>5, <2>6 DEF HandoffsInv
<1>4. CASE o # None
  <2>1. /\ continuation_proofs' = [continuation_proofs EXCEPT ![r] = o]
        /\ continuation_handoffs' =
             [continuation_handoffs EXCEPT ![o] = continuation_handoffs[o] \cup {r}]
        /\ attempt_state' = [attempt_state EXCEPT ![r] = "TERMINATED"]
        /\ servers' = servers /\ inflight' = inflight /\ routes' = routes
        /\ active_request_server' = active_request_server
        /\ settled_count' = settled_count
        /\ draining_operations' = draining_operations
        /\ ready_operations' = ready_operations /\ awaiting' = awaiting
    BY <1>1, <1>4 DEF ClientConfirms, confirm_continuation
  <2>2. LBTypeOK /\ o \in OpIds
    BY <1>1, <1>4 DEF HandoffsInv, TypeOK, LBTypeOK
  <2> HIDE DEF o
  <2>3. LBTypeOK'
    BY <2>1, <2>2 DEF LBTypeOK, AttemptStates
  <2>4. TypeOK'
    BY <1>1, <1>2, <2>3 DEF HandoffsInv, TypeOK, exitVars
  <2>5. KnownIsFinite'
    <3>1. Known' = Known
      BY <1>1, <2>1, <2>2, LBAssumption DEF LBTypeOK, Known, AttemptStates
    <3> QED
      BY <3>1 DEF HandoffsInv, KnownIsFinite
  <2>6. AttemptInv'
    BY <1>1, <1>2, <2>1, <2>2 DEF HandoffsInv, AttemptInv, LBTypeOK, exitVars
  <2>7. RouteInv' /\ DrainInv'
    BY <1>1, <2>1 DEF HandoffsInv, RouteInv, DrainInv, exitVars
  <2>8. \A p \in OpIds : continuation_handoffs[p] \subseteq continuation_handoffs'[p]
    BY <2>1, <2>2 DEF LBTypeOK
  <2>9. HandoffsKept'
    <3>1. \A k \in Keys : phase[k] = "ready" => exit_op[k] \in OpIds
      BY DEF HandoffsInv, TypeOK, DrainInv, Exiting
    <3> QED
      BY <1>1, <2>8, <3>1 DEF HandoffsInv, HandoffsKept, exitVars
  <2>10. HandoffInv'
    <3> SUFFICES ASSUME NEW k \in Keys, phase[k] = "handoff", NEW q \in aborted[k]
                 PROVE  \/ q \in continuation_handoffs'[exit_op[k]]
                        \/ pc'[q] = "aborted" /\ at'[q] = ServerOf[k]
      BY <1>1 DEF HandoffInv, exitVars
    <3>1. draining_operations[ServerOf[k]] = exit_op[k] /\ exit_op[k] \in OpIds
      BY DEF HandoffsInv, TypeOK, DrainInv, Exiting
    <3>2. q \in Requests
      BY DEF HandoffsInv, TypeOK
    <3>3. CASE q \in continuation_handoffs[exit_op[k]]
      BY <2>8, <3>1, <3>3
    <3>4. CASE pc[q] = "aborted" /\ at[q] = ServerOf[k]
      <4>1. CASE q = r
        <5>1. o = exit_op[k]
          BY <1>1, <3>1, <3>4, <4>1 DEF o
        <5> QED
          BY <2>1, <2>2, <4>1, <5>1 DEF LBTypeOK
      <4>2. CASE q # r
        BY <1>2, <3>2, <3>4, <4>2
      <4> QED
        BY <4>1, <4>2
    <3> QED
      BY <3>3, <3>4 DEF HandoffsInv, HandoffInv
  <2>11. PoolCounted'
    BY <2>1 DEF HandoffsInv, PoolCounted, requests_for_server
  <2>12. SettledCounted'
    <3>1. Settled(attempt_state') = Settled(attempt_state)
      BY <1>1, <2>1, <2>2 DEF LBTypeOK, Settled
    <3> QED
      BY <2>1, <3>1 DEF HandoffsInv, SettledCounted
  <2> QED
    BY <2>4, <2>5, <2>6, <2>7, <2>9, <2>10, <2>11, <2>12 DEF HandoffsInv
<1> QED
  BY <1>3, <1>4

(* A release settles the attempt of its server, or finds it settled. *)
LEMMA ReleaseArrivesKeeps ==
  ASSUME HandoffsInv, NEW r \in Requests, ReleaseArrives(r)
  PROVE  HandoffsInv'
<1>0. PICK s \in Servers : s = fence[r]
  BY DEF ReleaseArrives, HandoffsInv, TypeOK
<1>1. /\ s # None /\ s \in Servers /\ release_server(r, s)
      /\ fence' = [fence EXCEPT ![r] = None]
      /\ pc' = pc /\ at' = at /\ phase' = phase /\ exit_op' = exit_op
      /\ force' = force /\ recovery' = recovery /\ aborted' = aborted /\ used' = used
  BY <1>0 DEF ReleaseArrives, exitVars
<1>2. fence' \in [Requests -> Servers \cup {None}]
  BY <1>1 DEF HandoffsInv, TypeOK
<1>3. CASE ReleaseIgnored(r)
  <2>1. UNCHANGED lbVars
    BY <1>1, <1>3 DEF release_server
  <2>2. LBTypeOK' /\ KnownIsFinite' /\ PoolCounted' /\ SettledCounted'
    BY <2>1, LoadBalancerKept
  <2>3. TypeOK'
    BY <1>1, <1>2, <2>2 DEF HandoffsInv, TypeOK
  <2>4. AttemptInv'
    BY <1>1, <2>1 DEF HandoffsInv, TypeOK, AttemptInv, lbVars
  <2>5. RouteInv' /\ DrainInv' /\ HandoffInv' /\ HandoffsKept'
    BY <1>1, <2>1 DEF HandoffsInv, RouteInv, DrainInv, HandoffInv, HandoffsKept, lbVars
  <2> QED
    BY <2>2, <2>3, <2>4, <2>5 DEF HandoffsInv
<1>4. CASE ~ ReleaseIgnored(r)
  <2>1. /\ inflight' = IF s \in servers THEN [inflight EXCEPT ![s] = @ - 1] ELSE inflight
        /\ Settle({r})
        /\ servers' = servers /\ routes' = routes
        /\ continuation_handoffs' = continuation_handoffs
        /\ draining_operations' = draining_operations
        /\ ready_operations' = ready_operations /\ awaiting' = awaiting
    BY <1>1, <1>4 DEF release_server
  <2>2. /\ LBTypeOK /\ attempt_state[r] \in {"ADMITTED", "TERMINATED"}
        /\ active_request_server[r] = s
    BY <1>1, <1>4
       DEF HandoffsInv, TypeOK, LBTypeOK, AttemptInv, AttemptStates, ReleaseIgnored, release_server
  <2>3. /\ active_request_server' \in [Requests -> Servers \cup {None}]
        /\ attempt_state' \in [Requests -> AttemptStates \cup {None}]
        /\ continuation_proofs' \in [Requests -> OpIds \cup {None}]
        /\ settled_count' \in Int
        /\ KnownIsFinite' /\ SettledCounted'
        /\ \A q \in Requests :
             /\ active_request_server'[q] =
                  IF q \in {r} THEN None ELSE active_request_server[q]
             /\ q \in {r} => attempt_state'[q] \in {"SETTLED", None}
             /\ q \notin {r} => \/ attempt_state'[q] = attempt_state[q]
                                \/ attempt_state[q] = "SETTLED" /\ attempt_state'[q] = None
             /\ \/ attempt_state'[q] = None /\ continuation_proofs'[q] = None
                \/ attempt_state'[q] # None /\ continuation_proofs'[q] = continuation_proofs[q]
                \/ attempt_state'[q] = attempt_state[q]
                   /\ continuation_proofs'[q] = continuation_proofs[q]
    <3> HIDE DEF Settle, SettledCounted, KnownIsFinite, LBTypeOK
    <3>1. {r} \in SUBSET Requests /\ \A q \in {r} : attempt_state[q] \in {"ADMITTED", "TERMINATED"}
      BY <2>2
    <3>2. KnownIsFinite /\ SettledCounted
      BY DEF HandoffsInv
    <3> QED
      BY <2>1, <2>2, <3>1, <3>2, SettleEffect
  <2>4. LBTypeOK'
    BY <1>1, <2>1, <2>2, <2>3 DEF LBTypeOK
  <2>5. TypeOK'
    BY <1>1, <1>2, <2>4 DEF HandoffsInv, TypeOK
  <2>6. pc[r] = "idle"
    BY <1>0, <1>1 DEF HandoffsInv, AttemptInv
  <2>7. AttemptInv'
    BY <1>1, <2>2, <2>3, <2>6, LBAssumption DEF HandoffsInv, TypeOK, AttemptInv, AttemptStates
  <2>8. RouteInv'
    BY <1>1, <2>1, <2>2 DEF HandoffsInv, RouteInv, LBTypeOK
  <2>9. DrainInv' /\ HandoffInv' /\ HandoffsKept'
    BY <1>1, <2>1 DEF HandoffsInv, DrainInv, HandoffInv, HandoffsKept
  <2>10. PoolCounted'
    <3>1. requests_for_server(s)' = requests_for_server(s) \ {r}
      BY <1>1, <2>3 DEF requests_for_server
    <3>2. r \in requests_for_server(s)
      BY <2>2 DEF requests_for_server
    <3>3. requests_for_server(s) \subseteq Known
      BY <1>1, LBAssumption DEF HandoffsInv, AttemptInv, requests_for_server, Known, AttemptStates
    <3>4. /\ Cardinality(requests_for_server(s)') = Cardinality(requests_for_server(s)) - 1
      BY <3>1, <3>2, <3>3, FS_Subset, FS_RemoveElement DEF HandoffsInv, KnownIsFinite
    <3>5. \A t \in Servers : t # s => requests_for_server(t)' = requests_for_server(t)
      BY <2>2, <2>3, LBAssumption DEF requests_for_server
    <3> QED
      BY <1>1, <2>1, <2>2, <3>4, <3>5 DEF HandoffsInv, PoolCounted, LBTypeOK
  <2> QED
    BY <2>3, <2>5, <2>7, <2>8, <2>9, <2>10 DEF HandoffsInv
<1> QED
  BY <1>3, <1>4

-----------------------------------------------------------------------------
(* Lifecycle steps *)

(* No attempt is on the server of a replica that is out of service. *)
LEMMA PublishKeeps ==
  ASSUME HandoffsInv, NEW k \in Keys, NEW o \in OpIds, Publish(k, o)
  PROVE  HandoffsInv'
<1> DEFINE s == ServerOf[k]
<1>1. /\ phase[k] = "absent" /\ phase' = [phase EXCEPT ![k] = "active"]
      /\ servers' = servers \cup {s} /\ awaiting' = FALSE
      /\ routes' = [routes EXCEPT ![k] = s]
      /\ ready_operations' = [ready_operations EXCEPT ![o] = [key |-> k, server |-> s]]
      /\ used' = used \cup {o}
  BY DEF Publish, commit_ready
<1>2. /\ inflight' = inflight /\ draining_operations' = draining_operations
      /\ active_request_server' = active_request_server
      /\ attempt_state' = attempt_state /\ settled_count' = settled_count
      /\ continuation_proofs' = continuation_proofs
      /\ continuation_handoffs' = continuation_handoffs
      /\ pc' = pc /\ at' = at /\ fence' = fence /\ exit_op' = exit_op
      /\ force' = force /\ recovery' = recovery /\ aborted' = aborted
  BY DEF Publish, commit_ready, requestFacts, clientVars
<1>3. LBTypeOK /\ s \in Servers /\ s # None /\ phase \in [Keys -> Phases]
  BY LBAssumption DEF HandoffsInv, TypeOK
<1> HIDE DEF s
<1>4. LBTypeOK'
  <2>1. /\ servers' \subseteq Servers /\ routes' \in [Keys -> Servers \cup {None}]
        /\ awaiting' \in BOOLEAN
    BY <1>1, <1>3 DEF LBTypeOK
  <2>2. ready_operations' \in [OpIds -> [key : Keys, server : Servers] \cup {None}]
    BY <1>1, <1>3 DEF LBTypeOK
  <2> QED
    BY <1>2, <1>3, <2>1, <2>2 DEF LBTypeOK
<1>5. TypeOK'
  BY <1>1, <1>2, <1>3, <1>4 DEF HandoffsInv, TypeOK, Phases
<1>6. KnownIsFinite' /\ SettledCounted'
  BY <1>2 DEF HandoffsInv, KnownIsFinite, Known, SettledCounted
<1>7. AttemptInv'
  BY <1>1, <1>2, <1>3 DEF HandoffsInv, AttemptInv, Out
<1>8. RouteInv'
  <2>1. \A m \in Keys : routes'[m] = IF phase'[m] \in Out THEN None ELSE ServerOf[m]
    BY <1>1, <1>3 DEF HandoffsInv, RouteInv, LBTypeOK, Out, s
  <2>2. \A t \in Servers : t \in servers' <=> \E m \in Keys : ServerOf[m] = t /\ phase'[m] = "active"
    BY <1>1, <1>3 DEF HandoffsInv, RouteInv, s
  <2>3. /\ \A t \in Servers : t \notin servers' => inflight'[t] = 0
        /\ servers' # {}
    BY <1>1, <1>2 DEF HandoffsInv, RouteInv
  <2> QED
    BY <2>1, <2>2, <2>3 DEF RouteInv
<1>9. DrainInv'
  BY <1>1, <1>2, <1>3 DEF HandoffsInv, DrainInv, Exiting
<1>10. HandoffInv' /\ HandoffsKept'
  BY <1>1, <1>2, <1>3 DEF HandoffsInv, HandoffInv, HandoffsKept
<1>11. PoolCounted'
  <2>1. \A t : requests_for_server(t)' = requests_for_server(t)
    BY <1>2 DEF requests_for_server
  <2>2. requests_for_server(s) = {}
    <3>1. \A m \in Keys : ServerOf[m] = s => m = k
      BY LBAssumption DEF s
    <3> QED
      BY <1>1, <1>3, <3>1 DEF HandoffsInv, AttemptInv, Out, requests_for_server
  <2>3. s \notin servers
    BY <1>1, <1>3, LBAssumption DEF HandoffsInv, RouteInv, s
  <2>4. inflight[s] = 0
    BY <1>3, <2>3 DEF HandoffsInv, RouteInv
  <2> QED
    BY <1>1, <1>2, <2>1, <2>2, <2>4, FS_EmptySet DEF HandoffsInv, PoolCounted
<1> QED
  BY <1>5, <1>6, <1>7, <1>8, <1>9, <1>10, <1>11 DEF HandoffsInv

LEMMA PrepareExitKeeps ==
  ASSUME HandoffsInv, NEW k \in Keys, NEW o \in OpIds, NEW f \in BOOLEAN, PrepareExit(k, o, f)
  PROVE  HandoffsInv'
<1> DEFINE s == ServerOf[k]
<1>1. routes[k] = s /\ LBTypeOK /\ s \in Servers /\ s # None /\ phase \in [Keys -> Phases]
      /\ phase[k] = "active"
  <2>1. phase[k] = "active"
    BY DEF PrepareExit
  <2>2. LBTypeOK /\ phase \in [Keys -> Phases] /\ RouteInv
    BY DEF HandoffsInv, TypeOK
  <2> QED
    BY <2>1, <2>2, LBAssumption DEF RouteInv, Out
<1>2. /\ phase' = [phase EXCEPT ![k] = "draining"] /\ o \notin used
      /\ exit_op' = [exit_op EXCEPT ![k] = o] /\ force' = [force EXCEPT ![k] = f]
      /\ used' = used \cup {o}
      /\ draining_operations' = [draining_operations EXCEPT ![s] = o]
      /\ servers' = servers \ {s} /\ inflight' = [inflight EXCEPT ![s] = 0]
      /\ awaiting' = (awaiting \/ servers' = {})
  BY <1>1 DEF PrepareExit, begin_drain, RemoveServer
<1>3. /\ routes' = routes /\ ready_operations' = ready_operations
      /\ active_request_server' = active_request_server
      /\ attempt_state' = attempt_state /\ settled_count' = settled_count
      /\ continuation_proofs' = continuation_proofs
      /\ continuation_handoffs' = continuation_handoffs
      /\ pc' = pc /\ at' = at /\ fence' = fence
      /\ recovery' = recovery /\ aborted' = aborted
  BY DEF PrepareExit, begin_drain, requestFacts, clientVars
<1> HIDE DEF s
<1>4. LBTypeOK'
  <2>1. awaiting' \in BOOLEAN
    BY <1>2
  <2> QED
    BY <1>1, <1>2, <1>3, <2>1 DEF LBTypeOK
<1>5. TypeOK'
  <2>1. force' \in [Keys -> BOOLEAN]
    BY <1>2 DEF HandoffsInv, TypeOK
  <2> QED
    BY <1>1, <1>2, <1>3, <1>4, <2>1 DEF HandoffsInv, TypeOK, Phases
<1>6. KnownIsFinite' /\ SettledCounted'
  BY <1>3 DEF HandoffsInv, KnownIsFinite, Known, SettledCounted
<1>7. AttemptInv'
  BY <1>1, <1>2, <1>3 DEF HandoffsInv, AttemptInv, Out
<1>8. RouteInv'
  <2>1. \A m \in Keys : routes'[m] = IF phase'[m] \in Out THEN None ELSE ServerOf[m]
    BY <1>1, <1>2, <1>3 DEF HandoffsInv, RouteInv, LBTypeOK, Out
  <2>2. \A m \in Keys : ServerOf[m] = s => m = k
    BY LBAssumption DEF s
  <2>3. \A t \in Servers : t \in servers' <=> \E m \in Keys : ServerOf[m] = t /\ phase'[m] = "active"
    BY <1>1, <1>2, <2>2 DEF HandoffsInv, RouteInv, s
  <2>4. \A t \in Servers : t \notin servers' => inflight'[t] = 0
    BY <1>1, <1>2 DEF HandoffsInv, RouteInv, LBTypeOK
  <2>5. servers' = {} => awaiting'
    BY <1>2
  <2> QED
    BY <2>1, <2>3, <2>4, <2>5 DEF RouteInv
<1>9. DrainInv'
  <2>1. \A m \in Keys : m # k => ServerOf[m] # s
    BY LBAssumption DEF s
  <2>2. \A m \in Keys : m # k => draining_operations'[ServerOf[m]] = draining_operations[ServerOf[m]]
    BY <1>1, <1>2, <2>1, LBAssumption DEF LBTypeOK
  <2>3. draining_operations'[ServerOf[k]] = o
    BY <1>1, <1>2 DEF LBTypeOK, s
  <2>4. exit_op'[k] = o /\ \A m \in Keys : m # k => exit_op'[m] = exit_op[m]
    BY <1>2 DEF HandoffsInv, TypeOK
  <2>5. phase'[k] = "draining" /\ \A m \in Keys : m # k => phase'[m] = phase[m]
    BY <1>1, <1>2
  <2> QED
    BY <1>2, <1>3, <2>2, <2>3, <2>4, <2>5 DEF HandoffsInv, DrainInv, Exiting
<1>10. HandoffInv' /\ HandoffsKept'
  BY <1>1, <1>2, <1>3 DEF HandoffsInv, TypeOK, HandoffInv, HandoffsKept
<1>11. PoolCounted'
  <2>1. \A t : requests_for_server(t)' = requests_for_server(t)
    BY <1>3 DEF requests_for_server
  <2> QED
    BY <1>1, <1>2, <2>1 DEF HandoffsInv, PoolCounted, LBTypeOK
<1> QED
  BY <1>5, <1>6, <1>7, <1>8, <1>9, <1>10, <1>11 DEF HandoffsInv

(* A route goes when nothing on its server is admitted: what is left on it   *)
(* was handed off and is settled with it.                                    *)
LEMMA RetireKeeps ==
  ASSUME HandoffsInv, NEW k \in Keys, Retire(k)
  PROVE  HandoffsInv'
<1> DEFINE s == ServerOf[k]
           R == {r \in requests_for_server(s) : attempt_state[r] = "TERMINATED"}
<1>1. routes[k] = s /\ LBTypeOK /\ s \in Servers /\ s # None /\ phase \in [Keys -> Phases]
      /\ phase[k] = "ready" /\ draining_operations[s] = exit_op[k]
  <2>1. phase[k] = "ready"
    BY DEF Retire
  <2>2. LBTypeOK /\ phase \in [Keys -> Phases] /\ RouteInv /\ DrainInv
    BY DEF HandoffsInv, TypeOK
  <2> QED
    BY <2>1, <2>2, LBAssumption DEF RouteInv, DrainInv, Exiting, Out
<1>2. PICK d \in Out : phase' = [phase EXCEPT ![k] = d]
  BY DEF Retire, Out
<1>3. /\ exit_op' = [exit_op EXCEPT ![k] = None] /\ force' = [force EXCEPT ![k] = FALSE]
      /\ recovery' = [recovery EXCEPT ![k] = None] /\ aborted' = [aborted EXCEPT ![k] = {}]
      /\ pc' = pc /\ at' = at /\ fence' = fence /\ used' = used
  BY DEF Retire, clientVars
<1>4. finish_remove(k)
  BY DEF Retire
<1>5. /\ ~ has_unsettled_requests(s)
      /\ Settle(R)
      /\ servers' = servers \ {s} /\ inflight' = [inflight EXCEPT ![s] = 0]
      /\ draining_operations' = [draining_operations EXCEPT ![s] = None]
      /\ continuation_handoffs' =
           [p \in OpIds |-> IF p = draining_operations[s] THEN {} ELSE continuation_handoffs[p]]
      /\ routes' = [routes EXCEPT ![k] = None]
      /\ ready_operations' =
           [p \in OpIds |-> IF ready_operations[p] # None /\ ready_operations[p].key = k
                            THEN None ELSE ready_operations[p]]
      /\ awaiting' = awaiting
  BY <1>1, <1>4 DEF finish_remove, RemoveAllowed, RemoveServer
<1>6. /\ active_request_server' \in [Requests -> Servers \cup {None}]
      /\ attempt_state' \in [Requests -> AttemptStates \cup {None}]
      /\ continuation_proofs' \in [Requests -> OpIds \cup {None}]
      /\ settled_count' \in Int
      /\ KnownIsFinite' /\ SettledCounted'
      /\ \A q \in Requests :
           /\ active_request_server'[q] = IF q \in R THEN None ELSE active_request_server[q]
           /\ q \in R => attempt_state'[q] \in {"SETTLED", None}
           /\ q \notin R => \/ attempt_state'[q] = attempt_state[q]
                            \/ attempt_state[q] = "SETTLED" /\ attempt_state'[q] = None
           /\ \/ attempt_state'[q] = None /\ continuation_proofs'[q] = None
              \/ attempt_state'[q] # None /\ continuation_proofs'[q] = continuation_proofs[q]
              \/ attempt_state'[q] = attempt_state[q]
                 /\ continuation_proofs'[q] = continuation_proofs[q]
  <2>1. R \in SUBSET Requests /\ \A q \in R : attempt_state[q] \in {"ADMITTED", "TERMINATED"}
    BY DEF requests_for_server
  <2>2. KnownIsFinite /\ SettledCounted
    BY DEF HandoffsInv
  <2> HIDE DEF Settle, SettledCounted, KnownIsFinite, LBTypeOK, R
  <2> QED
    BY <1>1, <1>5, <2>1, <2>2, SettleEffect
<1>7. \A q \in Requests : active_request_server[q] = s <=> q \in R
  BY <1>1, <1>5 DEF HandoffsInv, AttemptInv, requests_for_server, has_unsettled_requests
<1>8. \A q \in Requests : q \in R => attempt_state[q] = "TERMINATED"
  OBVIOUS
<1>9. s \notin servers
  BY <1>1, LBAssumption DEF HandoffsInv, RouteInv
<1> HIDE DEF s, R
<1>10. LBTypeOK'
  BY <1>1, <1>5, <1>6 DEF LBTypeOK
<1>11. TypeOK'
  <2>1. force' \in [Keys -> BOOLEAN]
    BY <1>3 DEF HandoffsInv, TypeOK
  <2> QED
    BY <1>1, <1>2, <1>3, <1>10, <2>1 DEF HandoffsInv, TypeOK, Phases, Out
<1>12. \A m \in Keys : m # k => ServerOf[m] # s /\ phase'[m] = phase[m]
  BY <1>1, <1>2, LBAssumption DEF s
<1>13. AttemptInv'
  <2> SUFFICES ASSUME NEW q \in Requests
               PROVE  /\ active_request_server'[q] # None
                           <=> attempt_state'[q] \in {"ADMITTED", "TERMINATED"}
                      /\ continuation_proofs'[q] # None
                           => attempt_state'[q] \in {"TERMINATED", "SETTLED"}
                      /\ pc[q] # "idle" => /\ active_request_server'[q] = at[q]
                                           /\ attempt_state'[q] = "ADMITTED"
                      /\ fence[q] # None => pc[q] = "idle"
                      /\ active_request_server'[q] # None =>
                           \E m \in Keys : /\ ServerOf[m] = active_request_server'[q]
                                           /\ phase'[m] \notin Out
    BY <1>3 DEF AttemptInv
  <2>1. CASE q \in R
    BY <1>6, <1>8, <2>1, LBAssumption DEF HandoffsInv, AttemptInv, AttemptStates
  <2>2. CASE q \notin R
    <3>1. active_request_server'[q] # None =>
            \E m \in Keys : /\ ServerOf[m] = active_request_server'[q]
                            /\ phase'[m] \notin Out
      BY <1>6, <1>7, <1>12, <2>2 DEF HandoffsInv, AttemptInv, s
    <3> QED
      BY <1>6, <2>2, <3>1, LBAssumption DEF HandoffsInv, AttemptInv, AttemptStates
  <2> QED
    BY <2>1, <2>2
<1>14. RouteInv'
  <2>1. \A m \in Keys : routes'[m] = IF phase'[m] \in Out THEN None ELSE ServerOf[m]
    BY <1>1, <1>2, <1>5, <1>12 DEF HandoffsInv, RouteInv, LBTypeOK
  <2>2. servers' = servers
    BY <1>5, <1>9
  <2>3. \A t \in Servers : t \in servers' <=> \E m \in Keys : ServerOf[m] = t /\ phase'[m] = "active"
    <3>1. phase[k] # "active" /\ phase'[k] # "active"
      BY <1>1, <1>2 DEF Out
    <3>2. \A m \in Keys : phase'[m] = "active" <=> phase[m] = "active"
      BY <1>12, <3>1
    <3> QED
      BY <2>2, <3>2 DEF HandoffsInv, RouteInv
  <2>4. \A t \in Servers : t \notin servers' => inflight'[t] = 0
    BY <1>1, <1>5, <2>2 DEF HandoffsInv, RouteInv, LBTypeOK
  <2> QED
    BY <1>5, <2>1, <2>2, <2>3, <2>4 DEF HandoffsInv, RouteInv
<1>15. /\ phase'[k] \notin Exiting
       /\ \A m \in Keys : m # k => /\ exit_op'[m] = exit_op[m] /\ recovery'[m] = recovery[m]
                                   /\ aborted'[m] = aborted[m] /\ force'[m] = force[m]
                                   /\ draining_operations'[ServerOf[m]] = draining_operations[ServerOf[m]]
  <2>1. phase'[k] \notin Exiting
    BY <1>1, <1>2 DEF Out, Exiting
  <2>2. \A m \in Keys : m # k => /\ exit_op'[m] = exit_op[m] /\ recovery'[m] = recovery[m]
                                 /\ aborted'[m] = aborted[m]
    BY <1>3 DEF HandoffsInv, TypeOK
  <2>3. \A m \in Keys : m # k => force'[m] = force[m]
    BY <1>3 DEF HandoffsInv, TypeOK
  <2>4. \A m \in Keys : m # k => draining_operations'[ServerOf[m]] = draining_operations[ServerOf[m]]
    BY <1>1, <1>5, <1>12, LBAssumption DEF LBTypeOK
  <2> QED
    BY <2>1, <2>2, <2>3, <2>4
<1>16. DrainInv'
  BY <1>3, <1>12, <1>15 DEF HandoffsInv, DrainInv, Exiting
<1>17. \A m \in Keys : m # k /\ phase[m] \in Exiting =>
         continuation_handoffs'[exit_op[m]] = continuation_handoffs[exit_op[m]]
  <2> SUFFICES ASSUME NEW m \in Keys, m # k, phase[m] \in Exiting
               PROVE  continuation_handoffs'[exit_op[m]] = continuation_handoffs[exit_op[m]]
    OBVIOUS
  <2>1. exit_op[m] \in OpIds
    BY DEF HandoffsInv, TypeOK, DrainInv
  <2>2. exit_op[m] # exit_op[k]
    BY <1>1 DEF HandoffsInv, DrainInv, Exiting
  <2> QED
    BY <1>1, <1>5, <2>1, <2>2
<1>18. HandoffInv'
  BY <1>3, <1>12, <1>15, <1>17 DEF HandoffsInv, HandoffInv, Exiting
<1>19. HandoffsKept'
  BY <1>3, <1>12, <1>15, <1>17 DEF HandoffsInv, HandoffsKept, Exiting
<1>20. PoolCounted'
  <2>1. \A t \in Servers : t # s => requests_for_server(t)' = requests_for_server(t)
    BY <1>6, <1>7, LBAssumption DEF requests_for_server
  <2> QED
    BY <1>1, <1>5, <2>1 DEF HandoffsInv, PoolCounted, LBTypeOK
<1> QED
  BY <1>6, <1>11, <1>13, <1>14, <1>16, <1>18, <1>19, <1>20 DEF HandoffsInv

LEMMA StutterKeeps ==
  ASSUME HandoffsInv, UNCHANGED vars
  PROVE  HandoffsInv'
<1>1. UNCHANGED lbVars /\ UNCHANGED clientVars /\ UNCHANGED exitVars
  BY DEF vars
<1>2. LBTypeOK' /\ KnownIsFinite' /\ PoolCounted' /\ SettledCounted'
  BY <1>1, LoadBalancerKept
<1>3. TypeOK'
  BY <1>1, <1>2 DEF HandoffsInv, TypeOK, clientVars, exitVars
<1>4. AttemptInv'
  BY <1>1 DEF HandoffsInv, AttemptInv, lbVars, clientVars, exitVars
<1>5. RouteInv' /\ DrainInv' /\ HandoffInv' /\ HandoffsKept'
  BY <1>1 DEF HandoffsInv, RouteInv, DrainInv, HandoffInv, HandoffsKept, lbVars, clientVars, exitVars
<1> QED
  BY <1>2, <1>3, <1>4, <1>5 DEF HandoffsInv

LEMMA InitiallyHandedOver == Init => HandoffsInv
<1> SUFFICES ASSUME Init PROVE HandoffsInv
  OBVIOUS
<1>1. LBInit /\ LBAssumption
  BY LBAssumption DEF Init, LBAssumption
<1>2. LBTypeOK
  <2>1. /\ servers \subseteq Servers /\ routes \in [Keys -> Servers \cup {None}]
        /\ inflight \in [Servers -> Int] /\ settled_count \in Int
    BY <1>1 DEF LBInit, LBAssumption
  <2>2. /\ active_request_server \in [Requests -> Servers \cup {None}]
        /\ attempt_state \in [Requests -> AttemptStates \cup {None}]
        /\ continuation_proofs \in [Requests -> OpIds \cup {None}]
        /\ continuation_handoffs \in [OpIds -> SUBSET Requests]
        /\ draining_operations \in [Servers -> OpIds \cup {None}]
        /\ ready_operations \in [OpIds -> [key : Keys, server : Servers] \cup {None}]
    BY <1>1 DEF LBInit
  <2>3. awaiting \in BOOLEAN
    BY <1>1 DEF LBInit
  <2> QED
    BY <2>1, <2>2, <2>3 DEF LBTypeOK
<1>3. TypeOK
  BY <1>2 DEF Init, TypeOK, Phases
<1>4. KnownIsFinite
  <2>1. Known = {}
    BY <1>1 DEF LBInit, Known
  <2> QED
    BY <2>1, FS_EmptySet DEF KnownIsFinite
<1>5. AttemptInv
  BY <1>1 DEF Init, LBInit, LBAssumption, AttemptInv, AttemptStates
<1>6. RouteInv
  <2>1. phase = [k \in Keys |-> IF k \in InitialKeys THEN "active" ELSE "absent"]
    BY DEF Init
  <2>2. /\ servers = {ServerOf[k] : k \in InitialKeys} /\ inflight = [s \in Servers |-> 0]
        /\ routes = [k \in Keys |-> IF k \in InitialKeys THEN ServerOf[k] ELSE None]
    BY <1>1 DEF LBInit
  <2>3. \A s \in Servers : s \in servers <=> \E k \in Keys : ServerOf[k] = s /\ phase[k] = "active"
    BY <1>1, <2>1, <2>2 DEF LBAssumption
  <2>4. servers # {}
    BY <1>1, <2>2 DEF LBAssumption
  <2> QED
    BY <2>1, <2>2, <2>3, <2>4 DEF RouteInv, Out
<1>7. DrainInv /\ HandoffInv /\ HandoffsKept
  BY DEF Init, DrainInv, HandoffInv, HandoffsKept, Exiting
<1>8. PoolCounted
  <2>1. \A s \in servers : s \in Servers /\ requests_for_server(s) = {}
    BY <1>1, <1>2 DEF LBInit, LBTypeOK, LBAssumption, requests_for_server
  <2> QED
    BY <1>1, <2>1, FS_EmptySet DEF LBInit, PoolCounted
<1>9. SettledCounted
  <2>1. Settled(attempt_state) = {}
    BY <1>1 DEF LBInit, LBAssumption, Settled, AttemptStates
  <2> QED
    BY <1>1, <2>1, FS_EmptySet DEF LBInit, LBAssumption, SettledCounted
<1> QED
  BY <1>3, <1>4, <1>5, <1>6, <1>7, <1>8, <1>9 DEF HandoffsInv

-----------------------------------------------------------------------------
LEMMA HandoffsAlways == Spec => []HandoffsInv
<1>1. Init => HandoffsInv
  BY InitiallyHandedOver
<1>2. HandoffsInv /\ [Next]_vars => HandoffsInv'
  <2> SUFFICES ASSUME HandoffsInv, [Next]_vars PROVE HandoffsInv'
    OBVIOUS
  <2>1. CASE \E r \in Requests, s \in Servers : ClientAcquires(r, s)
    BY <2>1, ClientAcquiresKeeps
  <2>2. CASE \E r \in Requests : GenerationEnds(r)
    BY <2>2, GenerationEndsKeeps
  <2>3. CASE \E r \in Requests : ClientConfirms(r)
    BY <2>3, ClientConfirmsKeeps
  <2>4. CASE \E r \in Requests : ReleaseArrives(r)
    BY <2>4, ReleaseArrivesKeeps
  <2>5. CASE \E s \in Servers : SyncAborts(s)
    BY <2>5, SyncAbortsKeeps
  <2>6. CASE \E k \in Keys, o \in OpIds : Publish(k, o)
    BY <2>6, PublishKeeps
  <2>7. CASE \E k \in Keys, o \in OpIds, f \in BOOLEAN : PrepareExit(k, o, f)
    BY <2>7, PrepareExitKeeps
  <2>8. CASE \E k \in Keys : ForceSnapshot(k)
    BY <2>8, ForceSnapshotKeeps
  <2>9. CASE \E k \in Keys : AbortAnswered(k)
    BY <2>9, AbortAnsweredKeeps
  <2>10. CASE \E k \in Keys : AbortAnswerLost(k)
    BY <2>10, AbortAnswerLostKeeps
  <2>11. CASE \E k \in Keys : ExitReady(k)
    BY <2>11, ExitReadyKeeps
  <2>12. CASE \E k \in Keys : Retire(k)
    BY <2>12, RetireKeeps
  <2>13. CASE UNCHANGED vars
    BY <2>13, StutterKeeps
  <2> QED
    BY <2>1, <2>2, <2>3, <2>4, <2>5, <2>6, <2>7, <2>8, <2>9, <2>10, <2>11, <2>12, <2>13
       DEF Next
<1> QED
  BY <1>1, <1>2, PTL DEF Spec

(* However releases, aborts, drains and re-publications interleave, the      *)
(* native counter of a pooled server is the number of its unsettled          *)
(* attempts, and the collector's counter is exact and within the retention.  *)
THEOREM CountersStayExact == Spec => []CountersExact
<1>1. HandoffsInv => CountersExact
  BY DEF HandoffsInv, CountersExact, PoolCounted, SettledCounted
<1> QED
  BY <1>1, HandoffsAlways, PTL

(* finish_remove never takes the route of a server whose client generates or *)
(* holds an unreported output, and an emptied pool awaits its restore.       *)
THEOREM RequestsKeepTheirServer == Spec => []NoRequestStranded
<1>1. HandoffsInv => NoRequestStranded
  <2> SUFFICES ASSUME HandoffsInv PROVE NoRequestStranded
    OBVIOUS
  <2>1. servers = {} => awaiting
    BY DEF HandoffsInv, RouteInv
  <2>2. ASSUME NEW r \in Requests, pc[r] # "idle"
        PROVE  \E k \in Keys : routes[k] = at[r] /\ phase[k] \notin {"absent", "released"}
    <3>1. active_request_server[r] = at[r] /\ active_request_server[r] # None
      BY <2>2 DEF HandoffsInv, AttemptInv
    <3>2. PICK k \in Keys : ServerOf[k] = active_request_server[r] /\ phase[k] \notin Out
      BY <3>1 DEF HandoffsInv, AttemptInv
    <3> QED
      BY <3>1, <3>2 DEF HandoffsInv, RouteInv, Out
  <2> QED
    BY <2>1, <2>2 DEF NoRequestStranded
<1> QED
  BY <1>1, HandoffsAlways, PTL

(* A FORCE drain is EXIT_READY only when every request it aborted has proved *)
(* its hand-off, and no admitted attempt carries a proof.                    *)
THEOREM ForceAbortsAreHandedOver == Spec => []ForceHandsOverWhatItAborts
<1>1. HandoffsInv => ForceHandsOverWhatItAborts
  <2> SUFFICES ASSUME HandoffsInv PROVE ForceHandsOverWhatItAborts
    OBVIOUS
  <2>1. \A r \in Requests : attempt_state[r] = "ADMITTED" => continuation_proofs[r] = None
    BY DEF HandoffsInv, AttemptInv
  <2> QED
    BY <2>1 DEF HandoffsInv, HandoffsKept, ForceHandsOverWhatItAborts
<1> QED
  BY <1>1, HandoffsAlways, PTL
=============================================================================
