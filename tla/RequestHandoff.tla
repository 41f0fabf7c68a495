--------------------------- MODULE RequestHandoff ---------------------------
(***************************************************************************)
(* The load balancer among the actors that call it: the clients of the     *)
(* generation requests, and the Rollouter that publishes replicas and      *)
(* takes them out of service again, by a natural or by a FORCE drain.      *)
(*                                                                         *)
(* A client sends its release without waiting for it, and fences its next  *)
(* acquire of the same request behind it.  Generations may be aborted by   *)
(* a weight synchronisation at any time, and by a FORCE drain.             *)
(***************************************************************************)
EXTENDS LoadBalancer

CONSTANT BorrowedKeys  \* replicas that are destroyed once they are removed

(* An entry of _force_exit_recovery: the requests admitted at the abort, and *)
(* how many it hit, None while it is not answered.                           *)
Recovery == [admitted : SUBSET Requests, count : Nat \cup {None}]

ASSUME HandoffAssumption ==
  /\ BorrowedKeys \subseteq Keys
  /\ None \notin Recovery

VARIABLES
  pc,        \* client: idle, generating, or holding an aborted output
  at,        \* server of the client's current attempt, or None
  fence,     \* server of the client's release in flight, or None
  phase,     \* Rollouter: where each replica's service is
  exit_op,   \* operation that takes the replica out, or None
  force,     \* that operation is a FORCE REMOVE
  recovery,  \* _force_exit_recovery of that operation, or None
  aborted,   \* requests its abort_all_requests hit (history)
  used       \* operation ids that were issued

clientVars == <<pc, at, fence>>
exitVars == <<phase, exit_op, force, recovery, aborted, used>>
vars == <<lbVars, clientVars, exitVars>>

Phases == {"absent", "active", "draining", "aborting", "handoff", "ready", "released"}

TypeOK ==
  /\ LBTypeOK
  /\ pc \in [Requests -> {"idle", "generating", "aborted"}]
  /\ at \in [Requests -> Servers \cup {None}]
  /\ fence \in [Requests -> Servers \cup {None}]
  /\ phase \in [Keys -> Phases]
  /\ exit_op \in [Keys -> OpIds \cup {None}]
  /\ force \in [Keys -> BOOLEAN]
  /\ recovery \in [Keys -> Recovery \cup {None}]
  /\ aborted \in [Keys -> SUBSET Requests]
  /\ used \subseteq OpIds

Init ==
  /\ LBInit
  /\ pc = [r \in Requests |-> "idle"]
  /\ at = [r \in Requests |-> None]
  /\ fence = [r \in Requests |-> None]
  /\ phase = [k \in Keys |-> IF k \in InitialKeys THEN "active" ELSE "absent"]
  /\ exit_op = [k \in Keys |-> None]
  /\ force = [k \in Keys |-> FALSE]
  /\ recovery = [k \in Keys |-> None]
  /\ aborted = [k \in Keys |-> {}]
  /\ used = {}

-----------------------------------------------------------------------------
(* Clients *)

(* A release in flight holds the next acquire of its request back. *)
FenceOpen(r) == fence[r] = None

(* With an empty pool the client waits for a restore, so it asks again. *)
ClientAcquires(r, s) ==
  /\ pc[r] = "idle"
  /\ FenceOpen(r)
  /\ acquire_server(r, s)
  /\ pc' = [pc EXCEPT ![r] = "generating"]
  /\ at' = [at EXCEPT ![r] = s]
  /\ UNCHANGED <<fence, exitVars>>

(* The finally path of an attempt: the release is sent and not awaited. *)
AttemptOver(r) ==
  /\ fence' = [fence EXCEPT ![r] = at[r]]
  /\ pc' = [pc EXCEPT ![r] = "idle"]
  /\ at' = [at EXCEPT ![r] = None]

GenerationEnds(r) ==
  /\ pc[r] = "generating"
  /\ AttemptOver(r)
  /\ UNCHANGED <<lbVars, exitVars>>

(* An aborted output is reported before it is handed back to the retry loop. *)
ClientConfirms(r) ==
  /\ pc[r] = "aborted"
  /\ confirm_continuation(r)
  /\ AttemptOver(r)
  /\ UNCHANGED exitVars

ReleaseArrives(r) ==
  /\ fence[r] # None
  /\ release_server(r, fence[r])
  /\ fence' = [fence EXCEPT ![r] = None]
  /\ UNCHANGED <<pc, at, exitVars>>

GeneratingOn(s) == {r \in Requests : pc[r] = "generating" /\ at[r] = s}

Abort(R) == pc' = [r \in Requests |-> IF r \in R THEN "aborted" ELSE pc[r]]

(* Weight synchronisation aborts whatever a server generates. *)
SyncAborts(s) ==
  /\ GeneratingOn(s) # {}
  /\ Abort(GeneratingOn(s))
  /\ UNCHANGED <<lbVars, at, fence, exitVars>>

-----------------------------------------------------------------------------
(* The Rollouter *)

(* ADD or RESTORE publishes a replica whose weights are loaded. *)
Publish(k, o) ==
  /\ phase[k] = "absent"
  /\ o \notin used
  /\ commit_ready(k, o)
  /\ phase' = [phase EXCEPT ![k] = "active"]
  /\ used' = used \cup {o}
  /\ UNCHANGED <<clientVars, exit_op, force, recovery, aborted>>

(* FORCE is for borrowed replicas, and only while another server can take   *)
(* over what it aborts.                                                      *)
ForceAllowed(k) == k \in BorrowedKeys /\ servers \ {routes[k]} # {}

PrepareExit(k, o, f) ==
  /\ phase[k] = "active"
  /\ o \notin used
  /\ f => ForceAllowed(k)
  /\ begin_drain(k, o)
  /\ phase' = [phase EXCEPT ![k] = "draining"]
  /\ exit_op' = [exit_op EXCEPT ![k] = o]
  /\ force' = [force EXCEPT ![k] = f]
  /\ used' = used \cup {o}
  /\ UNCHANGED <<clientVars, recovery, aborted>>

Admitted(s) == {r \in requests_for_server(s) : attempt_state[r] = "ADMITTED"}

(* The requests at the abort boundary are recorded before the abort is sent. *)
ForceSnapshot(k) ==
  /\ phase[k] = "draining" /\ force[k]
  /\ recovery' = [recovery EXCEPT ![k] =
                    [admitted |-> Admitted(routes[k]), count |-> None]]
  /\ phase' = [phase EXCEPT ![k] = "aborting"]
  /\ UNCHANGED <<lbVars, clientVars, exit_op, force, aborted, used>>

AbortAnswered(k) ==
  LET hit == GeneratingOn(routes[k])
  IN  /\ phase[k] = "aborting"
      /\ Cardinality(hit) <= Cardinality(recovery[k].admitted)
      /\ Abort(hit)
      /\ aborted' = [aborted EXCEPT ![k] = hit]
      /\ recovery' = [recovery EXCEPT ![k].count = Cardinality(hit)]
      /\ phase' = [phase EXCEPT ![k] = "handoff"]
      /\ UNCHANGED <<lbVars, at, fence, exit_op, force, used>>

(* The answer is lost and the abort may or may not have happened: the replay *)
(* of the operation resumes here and does not abort again.                   *)
AbortAnswerLost(k) ==
  /\ phase[k] = "aborting"
  /\ \E hit \in {{}, GeneratingOn(routes[k])} :
       Abort(hit) /\ aborted' = [aborted EXCEPT ![k] = hit]
  /\ phase' = [phase EXCEPT ![k] = "handoff"]
  /\ UNCHANGED <<lbVars, at, fence, exit_op, force, recovery, used>>

(* Faulty variant: every request of the snapshot must have been handed off,  *)
(* also those that ended by themselves.                                      *)
HandoffOfAll(k) ==
  continuation_handoffs[exit_op[k]] \cap recovery[k].admitted = recovery[k].admitted

HandoffComplete(k) ==
  LET confirmed == Cardinality(continuation_handoffs[exit_op[k]] \cap recovery[k].admitted)
  IN  IF recovery[k].count = None
      THEN confirmed = Cardinality(recovery[k].admitted)
      ELSE confirmed >= recovery[k].count

(* Faulty variant: the hand-off of a FORCE drain is taken for its end. *)
ExitReadyOnHandoff(k) ==
  /\ IF force[k] THEN phase[k] = "handoff" /\ HandoffComplete(k)
                 ELSE phase[k] = "draining" /\ ~ has_unsettled_requests(routes[k])
  /\ phase' = [phase EXCEPT ![k] = "ready"]
  /\ UNCHANGED <<lbVars, clientVars, exit_op, force, recovery, aborted, used>>

(* prepare_exit answers EXIT_READY. *)
ExitReady(k) ==
  /\ IF force[k] THEN phase[k] = "handoff" /\ HandoffComplete(k)
                 ELSE phase[k] = "draining"
  /\ ~ has_unsettled_requests(routes[k])
  /\ phase' = [phase EXCEPT ![k] = "ready"]
  /\ UNCHANGED <<lbVars, clientVars, exit_op, force, recovery, aborted, used>>

(* The route goes, and then the runtime sleeps or is destroyed. *)
Retire(k) ==
  /\ phase[k] = "ready"
  /\ finish_remove(k)
  /\ phase' = [phase EXCEPT ![k] = IF k \in BorrowedKeys THEN "released" ELSE "absent"]
  /\ exit_op' = [exit_op EXCEPT ![k] = None]
  /\ force' = [force EXCEPT ![k] = FALSE]
  /\ recovery' = [recovery EXCEPT ![k] = None]
  /\ aborted' = [aborted EXCEPT ![k] = {}]
  /\ UNCHANGED <<clientVars, used>>

Next ==
  \/ \E r \in Requests, s \in Servers : ClientAcquires(r, s)
  \/ \E r \in Requests : GenerationEnds(r)
  \/ \E r \in Requests : ClientConfirms(r)
  \/ \E r \in Requests : ReleaseArrives(r)
  \/ \E s \in Servers : SyncAborts(s)
  \/ \E k \in Keys, o \in OpIds : Publish(k, o)
  \/ \E k \in Keys, o \in OpIds, f \in BOOLEAN : PrepareExit(k, o, f)
  \/ \E k \in Keys : ForceSnapshot(k)
  \/ \E k \in Keys : AbortAnswered(k)
  \/ \E k \in Keys : AbortAnswerLost(k)
  \/ \E k \in Keys : ExitReady(k)
  \/ \E k \in Keys : Retire(k)

Spec == Init /\ [][Next]_vars

(* Generations end, aborted outputs are confirmed, sent releases are         *)
(* executed by the actor, and the Rollouter's drain loop keeps polling.      *)
Fairness ==
  /\ \A r \in Requests : WF_vars(GenerationEnds(r)) /\ WF_vars(ClientConfirms(r))
                         /\ WF_vars(ReleaseArrives(r))
  /\ \A k \in Keys : WF_vars(ExitReady(k)) /\ WF_vars(ForceSnapshot(k))
                     /\ WF_vars(AbortAnswered(k) \/ AbortAnswerLost(k))

FairSpec == Spec /\ Fairness

-----------------------------------------------------------------------------
(* Properties *)

(* The counter the native router balances by equals, for every server of the *)
(* pool, the attempts it serves: no release is counted twice or not at all,  *)
(* also when it arrives after the route was removed and published again.     *)
(* The counter that triggers the garbage collector is the number of settled  *)
(* attempts, and the collector keeps that number within the retention.       *)
CountersExact ==
  /\ TypeOK
  /\ \A s \in servers : inflight[s] = Cardinality(requests_for_server(s))
  /\ settled_count = Cardinality(Settled(attempt_state))
  /\ settled_count <= SettledRetention

(* A server on which a client still generates, or from which it holds an     *)
(* output it has not reported, keeps its route: a runtime is never put to    *)
(* sleep or destroyed under a running request.  And a pool that lifecycle    *)
(* operations emptied says so: the clients that find it empty wait for the   *)
(* restore and do not fail.                                                  *)
NoRequestStranded ==
  /\ \A r \in Requests : pc[r] # "idle" =>
       \E k \in Keys : routes[k] = at[r] /\ phase[k] \notin {"absent", "released"}
  /\ servers = {} => awaiting

(* When a FORCE drain reports EXIT_READY, every request its abort hit has    *)
(* proved that its prefix was handed back, although the Rollouter compares   *)
(* only numbers of requests and other aborts run at the same time.  A proof  *)
(* is never about an attempt that is still admitted, so a client that is     *)
(* aborted again is not taken for a replay.                                  *)
ForceHandsOverWhatItAborts ==
  /\ \A k \in Keys : phase[k] = "ready" /\ force[k] =>
       aborted[k] \subseteq continuation_handoffs[exit_op[k]]
  /\ \A r \in Requests : attempt_state[r] = "ADMITTED" => continuation_proofs[r] = None

(* A drain ends, natural or FORCE with a known answer to its abort, whatever *)
(* the clients of the server do.                                             *)
DrainsComplete ==
  \A k \in Keys :
    /\ phase[k] = "draining" /\ ~ force[k] ~> phase[k] = "ready"
    /\ phase[k] = "handoff" /\ recovery[k].count # None ~> phase[k] = "ready"
=============================================================================
