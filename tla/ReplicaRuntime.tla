--------------------------- MODULE ReplicaRuntime ---------------------------
(***************************************************************************)
(* One MultiTaskvLLMReplica, its vLLM HTTP server and its Ray actors.      *)
(*                                                                         *)
(* A NATIVE replica is put to sleep, has its weights woken and loaded for  *)
(* RESTORE, and opens admission again with a full wake.  A BORROWED one is *)
(* created on a lease and destroyed with proof that its actors are DEAD.   *)
(* The Manager's replica_state M stands for the lifecycle around it        *)
(* (module TaskLifecycle): it decides which call may come next, and calls  *)
(* of one replica do not overlap.  Requests come at any time, and between  *)
(* any two awaits of a server method.                                      *)
(***************************************************************************)
EXTENDS Naturals

CONSTANTS
  Kinds,        \* kinds of replica to consider
  MaxRequests,  \* bound: requests in the server at a time
  MaxFaults,    \* bound: failures in a behaviour
  None          \* M has no entry

(* replica_state of the Manager; None stands for no entry. *)
ReplicaStates == {"CREATING", "ACTIVE", "DRAINING", "DORMANT", "RELEASED", "QUARANTINED"}

ASSUME RuntimeAssumption ==
  /\ Kinds \subseteq {"NATIVE", "BORROWED"}
  /\ MaxRequests \in Nat /\ MaxFaults \in Nat
  /\ None \notin ReplicaStates

VARIABLES
  kind,       \* replica_kind
  M,          \* replica_state in the Manager
  pc,         \* point in the call under way, "rest" without one
  caller,     \* what a sleep or a cleanup is part of
  ready,      \* bootstrap_target has confirmed the weights
  stage,      \* _multitask_sleep_stage: awake, asleep (level 1 or 2), weights
  paused,     \* _submission_paused
  admitting,  \* _admitting: requests past the gate and not in the engine
  inside,     \* requests in the engine
  engine,     \* allocations: resident, weights only, asleep or none
  content,    \* the weights are: loaded from the trainer, or other
  actor,      \* the CE worker and the server actor
  held,       \* handles in replica.workers and replica.servers
  named,      \* actor names noted for the DEAD proof
  unproven,   \* this cleanup has met an error
  verified,   \* borrowed_cleanup_verified
  faults

serverVars == <<stage, paused>>
requestVars == <<admitting, inside>>
engineVars == <<engine, content>>
actorVars == <<actor, held, named>>
proofVars == <<unproven, verified>>
vars == <<kind, M, pc, caller, ready, serverVars, requestVars, engineVars,
          actorVars, proofVars, faults>>

Actors == {"worker", "server"}

FlagsOK ==
  /\ ready \in BOOLEAN /\ paused \in BOOLEAN
  /\ unproven \in BOOLEAN /\ verified \in BOOLEAN

TypeOK ==
  /\ kind \in Kinds
  /\ M \in ReplicaStates \cup {None}
  /\ M # (IF kind = "NATIVE" THEN "RELEASED" ELSE "DORMANT")
  /\ pc \in {"rest", "plan", "worker", "undo", "undone", "launch", "validate",
             "transfer", "resume", "confirm", "wake", "activate", "fenced",
             "sleep", "barrier", "drain", "doze", "shutdown", "stop", "kill",
             "clean", "again"}
  /\ caller \in {"finalize", "bootstrap", "init", "create", "destroy"}
  /\ stage \in {"awake", "asleep", "weights"}
  /\ admitting \in Nat /\ inside \in Nat /\ admitting + inside <= MaxRequests
  /\ engine \in {"none", "resident", "weights", "asleep"}
  /\ content \in {"loaded", "other"}
  /\ actor \in [Actors -> {"never", "alive", "dying", "dead"}]
  /\ held \subseteq Actors /\ named \subseteq Actors
  /\ FlagsOK
  /\ faults \in 0..MaxFaults

(* _initialize_llm_servers validates a native runtime before it is ACTIVE. *)
Init ==
  /\ kind \in Kinds
  /\ M = (IF kind = "NATIVE" THEN "ACTIVE" ELSE None)
  /\ pc = "rest" /\ caller = "finalize" /\ ready = FALSE
  /\ stage = "awake" /\ paused = FALSE
  /\ admitting = 0 /\ inside = 0
  /\ engine = (IF kind = "NATIVE" THEN "resident" ELSE "none")
  /\ content = (IF kind = "NATIVE" THEN "loaded" ELSE "other")
  /\ actor = [a \in Actors |-> IF kind = "NATIVE" THEN "alive" ELSE "never"]
  /\ held = (IF kind = "NATIVE" THEN Actors ELSE {})
  /\ named = {} /\ unproven = FALSE /\ verified = FALSE
  /\ faults = 0

Spend == faults < MaxFaults /\ faults' = faults + 1

Goto(p) == pc' = p /\ UNCHANGED caller

Up == \A a \in Actors : actor[a] = "alive"

(* A remote call raises: it failed, or an actor of the replica is gone. *)
Raises == Spend \/ (~ Up /\ UNCHANGED faults)

(* is_sleeping() of the engine, true until all its allocations are back. *)
Sleeping == engine \in {"asleep", "weights"}

-----------------------------------------------------------------------------
(* Requests: the generation path of the vLLM server *)

(* A hidden borrowed server has not been published to anyone. *)
Arrive ==
  /\ actor["server"] = "alive" /\ ~ paused /\ engine # "none"
  /\ kind = "BORROWED" => M \notin {None, "CREATING"}
  /\ admitting + inside < MaxRequests
  /\ admitting' = admitting + 1
  /\ UNCHANGED <<kind, M, pc, caller, ready, serverVars, inside, engineVars,
                 actorVars, proofVars, faults>>

Enter ==
  /\ admitting > 0
  /\ admitting' = admitting - 1 /\ inside' = inside + 1
  /\ UNCHANGED <<kind, M, pc, caller, ready, serverVars, engineVars, actorVars,
                 proofVars, faults>>

End ==
  /\ inside > 0
  /\ inside' = inside - 1
  /\ UNCHANGED <<kind, M, pc, caller, ready, serverVars, admitting, engineVars,
                 actorVars, proofVars, faults>>

-----------------------------------------------------------------------------
(* The lifecycle around the replica *)

(* An exit of the replica has drained it and left E, R and C; so has the     *)
(* rollback of a publication that R did not take.                            *)
LeaveService ==
  /\ pc = "rest" /\ M = "ACTIVE"
  /\ M' = "DRAINING"
  /\ UNCHANGED <<kind, pc, caller, ready, serverVars, requestVars, engineVars,
                 actorVars, proofVars, faults>>

(* finalize_release of a native replica: manager.sleep. *)
FinalizeNative ==
  /\ pc = "rest" /\ kind = "NATIVE" /\ M = "DRAINING"
  /\ pc' = "sleep" /\ caller' = "finalize"
  /\ UNCHANGED <<kind, M, ready, serverVars, requestVars, engineVars, actorVars,
                 proofVars, faults>>

(* finalize_release of a borrowed one: manager.destroy, which resets the     *)
(* proof of an earlier cleanup.                                              *)
FinalizeBorrowed ==
  /\ pc = "rest" /\ kind = "BORROWED" /\ M \in {"CREATING", "DRAINING"}
  /\ pc' = "shutdown" /\ caller' = "destroy"
  /\ unproven' = FALSE /\ verified' = FALSE
  /\ UNCHANGED <<kind, M, ready, serverVars, requestVars, engineVars, actorVars, faults>>

-----------------------------------------------------------------------------
(* The server's sleep *)

Close == paused' = TRUE

(* A RESTORE ends without a proven outcome, and keeps the gate BLOCKED.  Its *)
(* last call, quarantine_dormant_restore, may be lost: M is still DORMANT    *)
(* then, and no call follows while its target is not a member of E.          *)
Fence ==
  \/ M' = "QUARANTINED" /\ Goto("rest")
  \/ UNCHANGED M /\ Goto("fenced")

(* The call fails.  Whoever made it cannot prove a release. *)
SleepFails ==
  \/ M' = "QUARANTINED" /\ Goto("rest")
  \/ caller = "bootstrap" /\ Fence

(* A failed bootstrap is also unproven when its topology was not finalized. *)
SleepReturns ==
  \/ M' = "DORMANT" /\ Goto("rest") /\ UNCHANGED faults
  \/ caller = "bootstrap" /\ Fence /\ Spend

(* Faulty variant: the rollback of a weights wake only looks, too. *)
SleepOnRecord ==
  /\ pc = "sleep"
  /\ \/ /\ stage \in {"asleep", "weights"}
        /\ \/ Sleeping /\ Close /\ SleepReturns
           \/ ~ Sleeping /\ SleepFails /\ UNCHANGED <<paused, faults>>
     \/ stage = "awake" /\ Close /\ Goto("barrier") /\ UNCHANGED <<M, faults>>
     \/ Spend /\ SleepFails /\ UNCHANGED paused
  /\ UNCHANGED <<kind, ready, stage, requestVars, engineVars, actorVars, proofVars>>

(* A server that notes a sleep stage only looks whether the engine sleeps.   *)
(* From the weights stage the KV cache is brought back first.                *)
Sleep ==
  /\ pc = "sleep"
  /\ \/ /\ stage = "asleep"
        /\ \/ Sleeping /\ Close /\ SleepReturns
           \/ ~ Sleeping /\ SleepFails /\ UNCHANGED <<paused, faults>>
        /\ UNCHANGED engine
     \/ /\ stage = "weights" /\ Close
        /\ \/ /\ engine' = (IF Sleeping THEN "resident" ELSE engine)
              /\ Goto("barrier")
              /\ UNCHANGED <<M, faults>>
           \/ Sleeping /\ engine' \in {engine, "resident"} /\ SleepFails /\ Spend
     \/ /\ stage = "awake" /\ Close
        /\ Goto("barrier")
        /\ UNCHANGED <<M, engine, faults>>
     \/ Spend /\ SleepFails /\ UNCHANGED <<paused, engine>>
  /\ UNCHANGED <<kind, ready, stage, requestVars, content, actorVars, proofVars>>

(* Faulty variant: requests that are past the gate are not waited for. *)
BarrierSkipped ==
  /\ pc = "barrier"
  /\ Goto("drain")
  /\ UNCHANGED <<kind, M, ready, serverVars, requestVars, engineVars, actorVars,
                 proofVars, faults>>

(* _wait_admission_barrier, with its timeout. *)
Barrier ==
  /\ pc = "barrier"
  /\ \/ admitting = 0 /\ Goto("drain") /\ UNCHANGED M
     \/ admitting > 0 /\ SleepFails
  /\ UNCHANGED <<kind, ready, serverVars, requestVars, engineVars, actorVars,
                 proofVars, faults>>

(* engine.wait_for_requests_to_drain *)
Drain ==
  /\ pc = "drain"
  /\ \/ inside = 0 /\ Goto("doze") /\ UNCHANGED <<M, faults>>
     \/ Spend /\ SleepFails
  /\ UNCHANGED <<kind, ready, serverVars, requestVars, engineVars, actorVars,
                 proofVars>>

(* engine.sleep, and the look at what it did, which may fail by itself. *)
Doze ==
  /\ pc = "doze"
  /\ \/ engine' = "asleep" /\ content' = "other" /\ stage' = "asleep" /\ SleepReturns
     \/ /\ Spend /\ SleepFails
        /\ \/ UNCHANGED engineVars
           \/ engine' = "asleep" /\ content' = "other"
        /\ UNCHANGED stage
  /\ UNCHANGED <<kind, ready, paused, requestVars, actorVars, proofVars>>

-----------------------------------------------------------------------------
(* bootstrap_target *)

(* What a failed bootstrap does next: a native target sleeps again, and a    *)
(* borrowed one is discarded and destroyed.                                  *)
BootstrapFails ==
  /\ IF kind = "NATIVE" THEN pc' = "sleep" /\ caller' = "bootstrap"
                        ELSE Goto("rest")
  /\ UNCHANGED ready

(* wake_up(tags = ["weights"]).  When the call fails the engine may have     *)
(* done it, or more, but the stage is not noted.                             *)
WakeWeights ==
  /\ pc = "rest" /\ kind = "NATIVE" /\ M = "DORMANT" /\ ~ ready
  /\ Close
  /\ \/ /\ Sleeping
        /\ engine' = "weights"
        /\ stage' = "weights"
        /\ Goto("transfer")
        /\ UNCHANGED <<ready, faults>>
     \/ /\ Spend /\ BootstrapFails
        /\ \/ UNCHANGED engine
           \/ Sleeping /\ engine' \in {"weights", "resident"}
        /\ UNCHANGED stage
  /\ UNCHANGED <<kind, M, requestVars, content, actorVars, proofVars>>

(* A borrowed target is resident and gives up its KV cache. *)
ReleaseKv ==
  /\ pc = "rest" /\ kind = "BORROWED" /\ M = "CREATING" /\ ~ ready
  /\ engine = "resident"
  /\ engine' = "weights" /\ Goto("transfer")
  /\ UNCHANGED <<kind, M, ready, serverVars, requestVars, content, actorVars,
                 proofVars, faults>>

(* Faulty variant: a failed transfer is not noticed. *)
TransferUnchecked ==
  /\ pc = "transfer"
  /\ content' \in {"loaded", "other"}
  /\ Goto("resume")
  /\ UNCHANGED <<kind, M, ready, serverVars, requestVars, engine, actorVars,
                 proofVars, faults>>

(* update_weights of the trainer and the receiver, and finalize. *)
Transfer ==
  /\ pc = "transfer"
  /\ \/ /\ Up /\ content' = "loaded"
        /\ Goto("resume")
        /\ UNCHANGED <<ready, faults>>
     \/ Raises /\ content' = "other" /\ BootstrapFails
  /\ UNCHANGED <<kind, M, serverVars, requestVars, engine, actorVars, proofVars>>

ResumeKv ==
  /\ pc = "resume"
  /\ \/ Up /\ engine' = "resident" /\ Goto("confirm") /\ UNCHANGED <<ready, faults>>
     \/ Raises /\ engine' \in {engine, IF Up THEN "resident" ELSE engine} /\ BootstrapFails
  /\ UNCHANGED <<kind, M, serverVars, requestVars, content, actorVars, proofVars>>

(* validate_server_runtime, the reported version, parameter validation. *)
Confirm ==
  /\ pc = "confirm"
  /\ \/ Up /\ ready' = TRUE /\ Goto("rest") /\ UNCHANGED faults
     \/ Raises /\ BootstrapFails
  /\ UNCHANGED <<kind, M, serverVars, requestVars, engineVars, actorVars, proofVars>>

-----------------------------------------------------------------------------
(* commit_service_change *)

(* A native target wakes fully, with its gate closed. *)
CommitNative ==
  /\ pc = "rest" /\ kind = "NATIVE" /\ M = "DORMANT" /\ ready
  /\ ready' = FALSE /\ Close
  /\ Goto("wake")
  /\ UNCHANGED <<kind, M, stage, requestVars, engineVars, actorVars, proofVars, faults>>

(* wake_up() opens admission when parameters and KV cache are back and the   *)
(* engine is healthy.  Its answer may be lost.                               *)
WakeFully ==
  /\ pc = "wake"
  /\ \/ /\ stage \in {"weights", "awake"} /\ ~ Sleeping
        /\ stage' = "awake" /\ paused' = FALSE
        /\ \/ Goto("activate") /\ UNCHANGED <<M, faults>>
           \/ M' = "QUARANTINED" /\ Goto("rest") /\ Spend
     \/ /\ Spend /\ M' = "QUARANTINED" /\ Goto("rest")
        /\ UNCHANGED serverVars
  /\ UNCHANGED <<kind, ready, requestVars, engineVars, actorVars, proofVars>>

(* _activate_service_target: only a DORMANT target becomes ACTIVE. *)
Activate ==
  /\ pc = "activate"
  /\ \/ M' = (IF M = "DORMANT" THEN "ACTIVE" ELSE M) /\ UNCHANGED faults
     \/ M' = "QUARANTINED" /\ Spend
  /\ Goto("rest")
  /\ UNCHANGED <<kind, ready, serverVars, requestVars, engineVars, actorVars, proofVars>>

(* The Trainer fails after the bootstrap: the target is refused as a member  *)
(* of E, or the call to the Rollouter fails.  (When that call and the        *)
(* quarantine are lost the target waits, ready, for the call to be repeated.)*)
RestoreFails ==
  /\ pc = "rest" /\ kind = "NATIVE" /\ M = "DORMANT" /\ ready
  /\ ready' = FALSE
  /\ Fence
  /\ UNCHANGED <<kind, serverVars, requestVars, engineVars, actorVars, proofVars, faults>>

(* It loses the answer while the Rollouter is in commit_service_change. *)
RestoreAbandoned ==
  /\ pc \in {"wake", "activate"} /\ M = "DORMANT"
  /\ M' = "QUARANTINED" /\ Spend
  /\ UNCHANGED <<kind, pc, caller, ready, serverVars, requestVars, engineVars,
                 actorVars, proofVars>>

CommitBorrowed ==
  /\ pc = "rest" /\ kind = "BORROWED" /\ M = "CREATING" /\ ready
  /\ ready' = FALSE
  /\ M' = "ACTIVE"
  /\ UNCHANGED <<kind, pc, caller, serverVars, requestVars, engineVars, actorVars,
                 proofVars, faults>>

-----------------------------------------------------------------------------
(* create_borrowed_replica and init_from_lease *)

CleanUp(c) ==
  /\ pc' = "shutdown" /\ caller' = c
  /\ unproven' = FALSE /\ verified' = FALSE

(* M gets its entry; without placement group there is no runtime object. *)
Create ==
  /\ pc = "rest" /\ kind = "BORROWED" /\ M = None
  /\ \/ M' = "CREATING" /\ Goto("plan") /\ UNCHANGED faults
     \/ M' = "RELEASED" /\ Goto("rest") /\ Spend
  /\ UNCHANGED <<kind, ready, serverVars, requestVars, engineVars, actorVars,
                 proofVars>>

(* The plan notes the name of the server before there is one. *)
Plan ==
  /\ pc = "plan"
  /\ \/ Spend /\ CleanUp("init") /\ UNCHANGED named
     \/ /\ named' = {"server"}
        /\ \/ Goto("worker") /\ UNCHANGED <<proofVars, faults>>
           \/ Spend /\ CleanUp("init")
  /\ UNCHANGED <<kind, M, ready, serverVars, requestVars, engineVars, actor, held>>

(* The CE worker is created, joins a worker group and proves its placement;  *)
(* a failure may come before or after it is noted in the replica.            *)
CreateWorker ==
  /\ pc = "worker"
  /\ \/ /\ actor' = [actor EXCEPT !["worker"] = "alive"]
        /\ \/ /\ held' = held \cup {"worker"} /\ named' = named \cup {"worker"}
              /\ \/ Goto("launch") /\ UNCHANGED faults
                 \/ Goto("undo") /\ Spend
           \/ Goto("undo") /\ Spend /\ UNCHANGED <<held, named>>
        /\ UNCHANGED proofVars
     \/ Spend /\ CleanUp("init") /\ UNCHANGED actorVars
  /\ UNCHANGED <<kind, M, ready, serverVars, requestVars, engineVars>>

(* ray.kill: refused, or the actor is going to die. *)
Kill(a) ==
  \/ actor[a] = "alive" /\ actor' = [actor EXCEPT ![a] = "dying"]
  \/ UNCHANGED actor

(* Faulty variant: an actor that is not listed as alive counts as dead. *)
AbsentIsDead(a) == actor[a] # "alive"

(* The State API lists an actor as DEAD, possibly late.  An actor that is    *)
(* not listed has no death certificate.                                      *)
ProvedDead(a) == actor[a] = "dead"

(* _create_workers_from_claims takes back its worker.  Without the proof the *)
(* handle and the name are kept.                                             *)
UndoWorker ==
  /\ pc = "undo"
  /\ Kill("worker")
  /\ Goto("undone")
  /\ UNCHANGED <<kind, M, ready, serverVars, requestVars, engineVars, held, named,
                 proofVars, faults>>

UndoEnds ==
  /\ pc = "undone"
  /\ CleanUp("init")
  /\ \/ ProvedDead("worker") /\ held' = held \ {"worker"} /\ UNCHANGED named
     \/ held' = held \cup {"worker"} /\ named' = named \cup {"worker"}
  /\ UNCHANGED <<kind, M, ready, serverVars, requestVars, engineVars, actor, faults>>

(* launch_servers may leave a server without a handle. *)
Launch ==
  /\ pc = "launch"
  /\ \/ /\ actor' = [actor EXCEPT !["server"] = "alive"]
        /\ held' = held \cup {"server"} /\ engine' = "resident"
        /\ Goto("validate")
        /\ UNCHANGED <<proofVars, faults>>
     \/ /\ Spend /\ CleanUp("init")
        /\ \/ UNCHANGED <<actor, held>>
           \/ /\ actor' = [actor EXCEPT !["server"] = "alive"]
              /\ held' \in {held, held \cup {"server"}}
        /\ UNCHANGED engine
  /\ UNCHANGED <<kind, M, ready, serverVars, requestVars, content, named>>

Validate ==
  /\ pc = "validate"
  /\ \/ Up /\ Goto("rest") /\ UNCHANGED <<proofVars, faults>>
     \/ Raises /\ CleanUp("init")
  /\ UNCHANGED <<kind, M, ready, serverVars, requestVars, engineVars, actorVars>>

-----------------------------------------------------------------------------
(* cleanup_borrowed_runtime *)

(* shutdown_runtime: the gate, the barrier, the drain, the engine.  It has   *)
(* thirty seconds, and its failure is not looked at.                         *)
Shutdown ==
  /\ pc = "shutdown"
  /\ \/ /\ "server" \in held /\ actor["server"] = "alive"
        /\ admitting = 0 /\ inside = 0
        /\ Close /\ engine' = "none"
     \/ "server" \in held /\ actor["server"] = "alive" /\ Close /\ UNCHANGED engine
     \/ UNCHANGED <<paused, engine>>
  /\ Goto("stop")
  /\ UNCHANGED <<kind, M, ready, stage, requestVars, content, actorVars, proofVars,
                 faults>>

KillHeld(a) == IF a \in held THEN Kill(a) ELSE UNCHANGED actor

Stop ==
  /\ pc = "stop"
  /\ KillHeld("server")
  /\ Goto("kill")
  /\ UNCHANGED <<kind, M, ready, serverVars, requestVars, engineVars, held, named,
                 proofVars, faults>>

(* _wait_actor_names_dead: proof, or a timeout that keeps the handle. *)
AwaitDead(a) ==
  \/ a \notin named /\ held' = held \ {a} /\ UNCHANGED unproven
  \/ a \in named /\ ProvedDead(a) /\ held' = held \ {a} /\ UNCHANGED unproven
  \/ a \in named /\ unproven' = TRUE /\ UNCHANGED held

StopEnds ==
  /\ pc = "kill"
  /\ AwaitDead("server")
  /\ KillHeld("worker")
  /\ Goto("clean")
  /\ UNCHANGED <<kind, M, ready, serverVars, requestVars, engineVars, named,
                 verified, faults>>

(* Faulty variant: only the proof for the worker counts. *)
CleanupForgets ==
  /\ pc = "clean"
  /\ AwaitDead("worker")
  /\ verified' = ProvedDead("worker")
  /\ Goto("rest")
  /\ M' = (IF verified' THEN "RELEASED" ELSE "QUARANTINED")
  /\ UNCHANGED <<kind, ready, serverVars, requestVars, engineVars, actor, named, faults>>

(* What the callers make of it.  A creation whose cleanup failed is cleaned  *)
(* up once more by the Manager.                                              *)
CleanupEnds ==
  /\ pc = "clean"
  /\ AwaitDead("worker")
  /\ verified' = ~ unproven'
  /\ \/ /\ unproven' /\ caller = "init"
        /\ pc' = "again" /\ UNCHANGED <<M, caller>>
     \/ /\ ~ (unproven' /\ caller = "init")
        /\ Goto("rest")
        /\ M' = (IF unproven' THEN "QUARANTINED" ELSE "RELEASED")
  /\ UNCHANGED <<kind, ready, serverVars, requestVars, engineVars, actor, named, faults>>

CleanUpAgain ==
  /\ pc = "again"
  /\ CleanUp("create")
  /\ UNCHANGED <<kind, M, ready, serverVars, requestVars, engineVars, actorVars, faults>>

(* An actor that was killed dies, with its requests and its engine; an       *)
(* actor of a borrowed runtime may also crash.                               *)
Dies(a) ==
  /\ \/ actor[a] = "dying" /\ UNCHANGED faults
     \/ actor[a] = "alive" /\ kind = "BORROWED" /\ Spend
  /\ actor' = [actor EXCEPT ![a] = "dead"]
  /\ IF a = "server" THEN engine' = "none" /\ admitting' = 0 /\ inside' = 0
                     ELSE UNCHANGED <<engine, requestVars>>
  /\ UNCHANGED <<kind, M, pc, caller, ready, serverVars, content, held, named,
                 proofVars>>

-----------------------------------------------------------------------------
RequestStep == Arrive \/ Enter \/ End

NativeStep ==
  \/ FinalizeNative \/ Sleep \/ Barrier \/ Drain \/ Doze
  \/ WakeWeights \/ CommitNative \/ WakeFully \/ Activate
  \/ RestoreFails \/ RestoreAbandoned

BorrowedStep ==
  \/ Create \/ Plan \/ CreateWorker \/ UndoWorker \/ UndoEnds \/ Launch \/ Validate
  \/ ReleaseKv \/ CommitBorrowed \/ FinalizeBorrowed
  \/ Shutdown \/ Stop \/ StopEnds \/ CleanupEnds \/ CleanUpAgain

Next ==
  \/ RequestStep \/ LeaveService \/ NativeStep \/ BorrowedStep
  \/ Transfer \/ ResumeKv \/ Confirm
  \/ \E a \in Actors : Dies(a)

Spec == Init /\ [][Next]_vars

-----------------------------------------------------------------------------
(* Properties *)

(* As long as a replica is advertised as DORMANT its server admits nothing,  *)
(* through every partial wake, failed bootstrap and renewed sleep: "partial  *)
(* wakes deliberately keep the server gate closed".  The full wake opens it  *)
(* shortly before the Rollouter publishes the replica.  At rest, with no     *)
(* bootstrapped RESTORE that waits to be committed, it has given up its      *)
(* memory: "a failed native RESTORE must not escape with a partially awake   *)
(* retained runtime".  It does so in two situations: the quarantine of the   *)
(* failed RESTORE was lost, and its operation keeps the gate BLOCKED         *)
(* ("fenced"); or a weights wake took effect and its call failed before the  *)
(* stage was noted, and the rollback trusts the level it has on record.      *)
DormantIsInert ==
  /\ TypeOK
  /\ M = "DORMANT" /\ pc # "activate" => paused /\ admitting = 0 /\ inside = 0
  /\ M = "DORMANT" /\ pc = "rest" /\ ~ ready =>
       engine = "asleep" \/ (engine = "weights" /\ stage = "asleep")

(* Admission of a native or published server is open only with all memory    *)
(* resident and weights that the trainer loaded after the last sleep: "a     *)
(* later RESTORE must load the current published parameters instead of       *)
(* reviving stale pre-DONATE weights".                                       *)
ServesLoadedWeights ==
  /\ ~ paused /\ actor["server"] = "alive"
  /\ kind = "NATIVE" \/ M = "ACTIVE"
  => engine = "resident" /\ content = "loaded"

(* No request is in an engine that sleeps or is partly awake, and none that  *)
(* crossed the gate can still reach it: the barrier and the drain together   *)
(* leave no gap.                                                             *)
NoRequestInSleepingEngine ==
  kind = "NATIVE" /\ Sleeping => admitting = 0 /\ inside = 0

(* A borrowed replica is RELEASED, or its cleanup verified, only when each   *)
(* of its actors has died or was never planned, whatever Ray answered to the *)
(* kills and whichever step of the creation had failed.  (So a creation that *)
(* fails between its plan and its server never ends RELEASED.)               *)
ReleasedIsDead ==
  kind = "BORROWED" /\ (M = "RELEASED" \/ verified) =>
    \A a \in Actors : actor[a] = "dead" \/ (actor[a] = "never" /\ a \notin named)

(* A handle is dropped only once its actor is dead: "only DEAD proof may     *)
(* drop it".                                                                 *)
HandlesOutliveActors ==
  [][\A a \in held \ held' : actor[a] = "dead"]_vars
=============================================================================
