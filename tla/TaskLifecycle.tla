--------------------------- MODULE TaskLifecycle ----------------------------
(***************************************************************************)
(* One lifecycle operation after another on one replica of a task, through *)
(* the four owners of its state: the TaskRunner (journal and worker        *)
(* thread), the Trainer (gate G and checkpoint membership E), the          *)
(* Rollouter with its Manager (M and the service lists C) and the load     *)
(* balancer (R).                                                           *)
(*                                                                         *)
(* Every remote call may fail before it runs, and may run and lose its     *)
(* reply; the operation is then UNKNOWN and the same operation may be      *)
(* submitted again.  The worker is one thread, so its control point is one *)
(* variable: the step of the TaskRunner, Trainer or Rollouter method that  *)
(* it is executing or waiting for.                                         *)
(***************************************************************************)
EXTENDS Naturals, FiniteSets

CONSTANTS
  OpIds,       \* operation ids, numbered in the order of submission
  Kinds,       \* replica kinds: NATIVE (DONATE, RESTORE), BORROWED (ADD, REMOVE)
  MaxFaults,   \* bound on failed calls and failed runtime actions
  MaxVersion,  \* bound on current_param_version
  SyncOwner,   \* operation id under which native synchronisation holds G
  None

OperationKinds == {"ADD", "DONATE", "REMOVE", "RESTORE"}
OperationStatuses == {"ACCEPTED", "RUNNING", "UNKNOWN", "SUCCEEDED", "FAILED"}
ReplicaStates == {"CREATING", "ACTIVE", "DRAINING", "DORMANT", "RELEASED", "QUARANTINED"}

ASSUME LifecycleAssumption ==
  /\ Kinds \subseteq {"NATIVE", "BORROWED"}
  /\ MaxFaults \in Nat
  /\ MaxVersion \in Nat
  /\ OpIds \subseteq Nat
  /\ None \notin Nat /\ SyncOwner \notin Nat /\ SyncOwner # None
  /\ None \notin OperationKinds \cup OperationStatuses \cup ReplicaStates

VARIABLES
  kind,       \* replica_kind of the target
  status,     \* journal: operation -> OperationStatus, or None
  command,    \* journal: operation -> OperationKind, or None
  pc,         \* control point of the worker thread, "off" without one
  op,         \* operation it executes, or None
  replay,     \* it was launched to reconcile an UNKNOWN operation
  evidence,   \* evidence of the answer it is about to use
  holder,     \* operation that holds G, or None
  blocked,    \* operation for which G is BLOCKED, or None
  effective,  \* E: loaded version of the target, or None
  pending,    \* pending_bootstrap: operation of the parked target, or None
  ready,      \* bootstrap_ready: operation and version, or None
  M,          \* replica_state of the target, None while it has no entry
  created,    \* borrowed_operations: None, "result" or "error"
  releases,   \* operations with recorded release evidence
  serving,    \* C: the target is in the active service lists
  bound,      \* _pending_operation_targets: operations bound to the target
  route,      \* R: none, open or draining
  draining,   \* R: operation that drains the target, or None
  published,  \* R: operation that published the target, or None
  busy,       \* R: a request on the target's server is ADMITTED
  gpu,        \* the runtime really is: held, free or unsure
  version,    \* current_param_version
  synced,     \* last version that native synchronisation published
  training,   \* the training loop has not failed
  gs,         \* group scheduler: whether the target's lease is out
  faults      \* failures so far

journalVars == <<status, command>>
workerVars == <<pc, op, replay, evidence>>
gateVars == <<holder, blocked>>
ceVars == <<effective, pending, ready>>
mVars == <<M, created, releases, serving, bound>>
lbVars == <<route, draining, published>>
envVars == <<busy, version, synced, training>>
vars == <<kind, journalVars, workerVars, gateVars, ceVars, mVars, lbVars,
          envVars, gpu, gs, faults>>

Resolved == {"SUCCEEDED", "FAILED"}
ExitKinds == {"DONATE", "REMOVE"}

PcValues == {"off", "start", "query_release", "reconcile_exit", "prepare_exit",
  "draining", "query_binding", "remove", "commit_exit", "finalize",
  "prepare_replica", "fence", "reconcile_publish", "reconcile_release",
  "register", "bootstrap", "commit_pending", "publish", "roll_back", "discard",
  "release_hidden", "restore_failed", "answer", "advance"}

FlagsOK ==
  /\ replay \in BOOLEAN /\ serving \in BOOLEAN
  /\ busy \in BOOLEAN /\ training \in BOOLEAN

TypeOK ==
  /\ FlagsOK
  /\ kind \in Kinds
  /\ status \in [OpIds -> OperationStatuses \cup {None}]
  /\ command \in [OpIds -> OperationKinds \cup {None}]
  /\ pc \in PcValues
  /\ op \in OpIds \cup {None}
  /\ evidence \in {None, "SERVICE_COMMITTED", "RELEASED"}
  /\ holder \in OpIds \cup {None}
  /\ blocked \in OpIds \cup {SyncOwner, None}
  /\ effective \in 0..MaxVersion \cup {None}
  /\ pending \in OpIds \cup {None}
  /\ ready \in [op : OpIds, version : 0..MaxVersion] \cup {None}
  /\ M \in ReplicaStates \cup {None}
  /\ created \in {None, "result", "error"}
  /\ releases \subseteq OpIds
  /\ bound \subseteq OpIds
  /\ route \in {"none", "open", "draining"}
  /\ draining \in OpIds \cup {None}
  /\ published \in OpIds \cup {None}
  /\ gpu \in {"held", "free", "unsure"}
  /\ version \in 0..MaxVersion
  /\ synced \in 0..MaxVersion
  /\ gs \in {"idle", "out"}
  /\ faults \in 0..MaxFaults

(* A native replica serves from the start; a borrowed one does not exist. *)
Init ==
  /\ kind \in Kinds
  /\ status = [o \in OpIds |-> None]
  /\ command = [o \in OpIds |-> None]
  /\ pc = "off" /\ op = None /\ replay = FALSE /\ evidence = None
  /\ holder = None /\ blocked = None
  /\ effective = (IF kind = "NATIVE" THEN 0 ELSE None)
  /\ pending = None /\ ready = None
  /\ M = (IF kind = "NATIVE" THEN "ACTIVE" ELSE None)
  /\ created = None /\ releases = {} /\ bound = {}
  /\ serving = (kind = "NATIVE")
  /\ route = (IF kind = "NATIVE" THEN "open" ELSE "none")
  /\ draining = None /\ published = None /\ busy = FALSE
  /\ gpu = (IF kind = "NATIVE" THEN "held" ELSE "free")
  /\ version = 0 /\ synced = 0 /\ training = TRUE
  /\ gs = "idle"
  /\ faults = 0

Spend(n) == faults + n <= MaxFaults /\ faults' = faults + n

Goto(label) == pc' = label /\ UNCHANGED <<op, replay, evidence>>

(* The worker thread ends and its operation gets a terminal status. *)
Finish(s) ==
  /\ status' = [status EXCEPT ![op] = s]
  /\ pc' = "off" /\ op' = None /\ replay' = FALSE /\ evidence' = None

(* Faulty variant: the method that raised has not released G. *)
UnknownHoldingGate == Finish("UNKNOWN") /\ UNCHANGED holder

(* Any exception that reaches _execute_operation; the method that raised it  *)
(* has released G on the way.                                                *)
Unknown == Finish("UNKNOWN") /\ holder' = None

-----------------------------------------------------------------------------
(* The journal: submit_operation and the start of the worker thread *)

(* What the group scheduler submits, given the phase of the lease. *)
Submittable(k) ==
  \/ k = "DONATE"  /\ kind = "NATIVE"   /\ gs = "idle"
  \/ k = "RESTORE" /\ kind = "NATIVE"   /\ gs = "out"
  \/ k = "ADD"     /\ kind = "BORROWED" /\ gs = "idle" /\ M = None
  \/ k = "REMOVE"  /\ kind = "BORROWED" /\ gs = "out"

(* begin refuses a second operation while one is unresolved. *)
JournalFree == \A o \in OpIds : status[o] \in {None} \cup Resolved

Submit(o, k) ==
  /\ status[o] = None
  /\ \A earlier \in OpIds : earlier < o => status[earlier] # None
  /\ Submittable(k)
  /\ JournalFree
  /\ command' = [command EXCEPT ![o] = k]
  /\ gs' = (IF k = "ADD" THEN "out" ELSE gs)
  /\ \/ /\ status' = [status EXCEPT ![o] = "ACCEPTED"]
        /\ pc' = "start" /\ op' = o /\ replay' = FALSE /\ evidence' = None
        /\ UNCHANGED faults
     \/ (* the thread could not be started *)
        /\ status' = [status EXCEPT ![o] = "FAILED"]
        /\ Spend(1)
        /\ UNCHANGED workerVars
  /\ UNCHANGED <<kind, gateVars, ceVars, mVars, lbVars, envVars, gpu>>

(* The same operation again: only an UNKNOWN one without a thread is run. *)
Replay(o) ==
  /\ status[o] = "UNKNOWN"
  /\ pc = "off"
  /\ pc' = "start" /\ op' = o /\ replay' = TRUE /\ evidence' = None
  /\ UNCHANGED <<kind, journalVars, gateVars, ceVars, mVars, lbVars, envVars,
                 gpu, gs, faults>>

(* The borrowed spec of an ADD may be refused before anything is called; the *)
(* operation is then FAILED, and the group scheduler is not told.            *)
Start ==
  /\ pc = "start"
  /\ \/ /\ status' = [status EXCEPT ![op] = "RUNNING"]
        /\ Goto(CASE command[op] \in ExitKinds -> (IF replay THEN "query_release"
                                                             ELSE "prepare_exit")
                  [] OTHER -> "prepare_replica")
        /\ UNCHANGED faults
     \/ /\ command[op] = "ADD" /\ ~ replay
        /\ Spend(1) /\ Finish("FAILED")
  /\ UNCHANGED <<command, kind, gateVars, ceVars, mVars, lbVars, envVars, gpu, gs>>

-----------------------------------------------------------------------------
(* Rollouter methods that several flows call.  An outcome is the result and  *)
(* the number of failures it takes; a call adds the failures of the call     *)
(* itself.                                                                   *)

changed == <<M, serving, bound, route, draining, published, gpu>>

(* commit_ready reached the load balancer. *)
Routed == route' = "open" /\ published' = op /\ UNCHANGED draining

NotRouted == UNCHANGED lbVars

(* CREATING (ADD) and DORMANT (RESTORE): C and M first, then R. *)
PublishOutcome(res, cost) ==
  /\ M \in {"CREATING", "DORMANT"}
  /\ \/ /\ res = "committed" /\ cost = 0
        /\ M' = "ACTIVE" /\ serving' = TRUE /\ gpu' = "held"
        /\ Routed
        /\ bound' = bound \ {op}
     \/ (* the route was refused, and R says it is absent *)
        /\ res = "absent" /\ cost = 1
        /\ M' = "DRAINING" /\ serving' = FALSE /\ gpu' = "held"
        /\ NotRouted
        /\ UNCHANGED bound
     \/ (* neither the commit nor the query was answered *)
        /\ res = "error" /\ cost = 1
        /\ M' = "ACTIVE" /\ serving' = TRUE /\ gpu' = "held"
        /\ Routed \/ NotRouted
        /\ UNCHANGED bound
     \/ (* the runtime could not be woken, or not be activated *)
        /\ res = "error" /\ cost = 1
        /\ M' = "QUARANTINED"
        /\ gpu' = (IF M = "DORMANT" THEN "unsure" ELSE gpu)
        /\ UNCHANGED <<serving, bound, lbVars>>

(* ACTIVE: a publication whose outcome was ambiguous; R decides. *)
ReconcileOutcome(res, cost) ==
  /\ M = "ACTIVE" /\ cost = 0
  /\ IF published = op
     THEN /\ res = "committed"
          /\ bound' = bound \ {op}
          /\ UNCHANGED <<M, serving, lbVars, gpu>>
     ELSE /\ res = "absent"
          /\ M' = "DRAINING" /\ serving' = FALSE
          /\ UNCHANGED <<bound, lbVars, gpu>>

(* DRAINING: the exit of a drained replica. *)
ExitOutcome(res, cost) ==
  /\ M = "DRAINING"
  /\ \/ /\ res = "error" /\ cost = 0
        /\ route # "none" /\ busy
        /\ UNCHANGED changed
     \/ /\ res = "committed" /\ cost = 0
        /\ ~ (route # "none" /\ busy)
        /\ route' = "none" /\ draining' = None /\ published' = None
        /\ serving' = FALSE
        /\ UNCHANGED <<M, bound, gpu>>
     \/ (* the route is gone, the answer to finish_remove is lost *)
        /\ res = "error" /\ cost = 1
        /\ ~ (route # "none" /\ busy)
        /\ route' = "none" /\ draining' = None /\ published' = None
        /\ UNCHANGED <<M, serving, bound, gpu>>

commit_service_change(res, cost) ==
  IF op \in bound /\ M \in {"CREATING", "DORMANT", "ACTIVE", "DRAINING"}
  THEN PublishOutcome(res, cost) \/ ReconcileOutcome(res, cost) \/ ExitOutcome(res, cost)
  ELSE res = "error" /\ cost = 0 /\ UNCHANGED changed

(* Faulty variant: the release is reported without a check of the memory. *)
ReleaseUnverified == gpu' \in {"free", "unsure"}

(* sleep and destroy return the evidence they recorded for the operation     *)
(* before, without touching the runtime again.                               *)
ReleaseRuntime ==
  IF op \in releases THEN UNCHANGED gpu ELSE gpu' = "free"

finalize_release(res, cost) ==
  IF /\ op \in bound
     /\ M = "DRAINING" \/ (M = "CREATING" /\ kind = "BORROWED")
  THEN /\ \/ /\ res = "released" /\ cost = 0
             /\ ReleaseRuntime
             /\ M' = (IF kind = "NATIVE" THEN "DORMANT" ELSE "RELEASED")
             /\ releases' = releases \cup {op}
             /\ bound' = bound \ {op}
          \/ /\ res = "error" /\ cost = 1
             /\ op \notin releases
             /\ M' = "QUARANTINED" /\ gpu' = "unsure"
             /\ UNCHANGED <<releases, bound>>
       /\ UNCHANGED <<serving, lbVars>>
  ELSE res = "error" /\ cost = 0 /\ UNCHANGED <<changed, releases>>

(* A remote call: answered; run, with the reply lost; or not delivered. *)
CallCommitServiceChange(res) ==
  /\ \/ \E c \in 0..1 : commit_service_change(res, c) /\ Spend(c)
     \/ /\ res = "error"
        /\ \/ \E q \in {"committed", "absent", "error"}, c \in 0..1 :
                commit_service_change(q, c) /\ Spend(c + 1)
           \/ UNCHANGED changed /\ Spend(1)
  /\ UNCHANGED <<created, releases>>

CallFinalizeRelease(res) ==
  /\ \/ \E c \in 0..1 : finalize_release(res, c) /\ Spend(c)
     \/ /\ res = "error"
        /\ \/ \E q \in {"released", "error"}, c \in 0..1 :
                finalize_release(q, c) /\ Spend(c + 1)
           \/ UNCHANGED <<changed, releases>> /\ Spend(1)
  /\ UNCHANGED created

-----------------------------------------------------------------------------
(* DONATE and REMOVE *)

QueryRelease ==
  /\ pc = "query_release"
  /\ \/ /\ op \in releases
        /\ pc' = "advance" /\ evidence' = "RELEASED"
        /\ UNCHANGED <<op, replay, status, holder, faults>>
     \/ /\ op \notin releases
        /\ Goto("reconcile_exit")
        /\ UNCHANGED <<status, holder, faults>>
     \/ Spend(1) /\ Unknown
  /\ UNCHANGED <<command, kind, blocked, ceVars, mVars, lbVars, envVars, gpu, gs>>

(* G is BLOCKED by this operation, which has left E already. *)
ExitFenced == blocked = op /\ op \in bound /\ effective = None

ReconcileExit ==
  /\ pc = "reconcile_exit"
  /\ \/ /\ blocked # op \/ effective # None
        /\ blocked = op => op \in bound
        /\ Goto("prepare_exit")
        /\ UNCHANGED <<status, gateVars, mVars, lbVars, gpu, faults>>
     \/ /\ ExitFenced
        /\ CallCommitServiceChange("committed")
        /\ blocked' = None
        /\ pc' = "answer" /\ evidence' = "SERVICE_COMMITTED"
        /\ UNCHANGED <<op, replay, status, holder>>
     \/ /\ ExitFenced
        /\ CallCommitServiceChange("error")
        /\ Unknown
        /\ UNCHANGED blocked
     \/ /\ blocked = op /\ op \notin bound
        /\ Unknown
        /\ UNCHANGED <<blocked, mVars, lbVars, gpu, faults>>
     \/ Spend(1) /\ Unknown /\ UNCHANGED <<blocked, mVars, lbVars, gpu>>
  /\ UNCHANGED <<command, kind, ceVars, envVars, gs>>

(* prepare_exit closes admission: M, the binding, then R. *)
Binds == M' = "DRAINING" /\ bound' = bound \cup {op}

DrainAllowed == route # "none" /\ draining \in {None, op}

(* Faulty variant: the drain is recorded, and the server stays in the pool. *)
LeavesRouteOpen ==
  /\ DrainAllowed
  /\ draining' = op
  /\ UNCHANGED route

ClosesRoute ==
  /\ DrainAllowed
  /\ route' = "draining" /\ draining' = op

PrepareExit ==
  /\ pc = "prepare_exit"
  /\ \/ /\ M \in {"ACTIVE", "DRAINING"}
        /\ Binds
        /\ \/ ClosesRoute /\ Goto("draining") /\ UNCHANGED faults
           \/ ClosesRoute /\ Goto("query_binding") /\ Spend(1)
           \/ UNCHANGED <<route, draining>> /\ Goto("query_binding") /\ Spend(1)
           \/ /\ ~ DrainAllowed
              /\ UNCHANGED <<route, draining, faults>> /\ Goto("query_binding")
     \/ /\ M \notin {"ACTIVE", "DRAINING"}
        /\ Goto("query_binding")
        /\ UNCHANGED <<M, bound, route, draining, faults>>
     \/ Spend(1) /\ Goto("query_binding") /\ UNCHANGED <<M, bound, route, draining>>
  /\ UNCHANGED <<kind, journalVars, gateVars, ceVars, created, releases, serving,
                 published, envVars, gpu, gs>>

(* The drain settles, times out, or its answer is lost. *)
Drain ==
  /\ pc = "draining"
  /\ \/ ~ busy /\ Goto("remove") /\ UNCHANGED faults
     \/ busy /\ Goto("query_binding") /\ UNCHANGED faults
     \/ Spend(1) /\ Goto("query_binding")
  /\ UNCHANGED <<kind, journalVars, gateVars, ceVars, mVars, lbVars, envVars, gpu, gs>>

(* Faulty variant: a query that fails is taken for the answer "not bound". *)
QueryBindingGuesses ==
  /\ pc = "query_binding"
  /\ \/ op \notin bound /\ Finish("FAILED") /\ UNCHANGED <<holder, faults>>
     \/ op \in bound /\ Unknown /\ UNCHANGED faults
     \/ Spend(1) /\ Finish("FAILED") /\ UNCHANGED holder
  /\ UNCHANGED <<command, kind, blocked, ceVars, mVars, lbVars, envVars, gpu, gs>>

(* Only the answer that nothing is bound proves that nothing happened. *)
QueryBinding ==
  /\ pc = "query_binding"
  /\ \/ op \notin bound /\ Finish("FAILED") /\ UNCHANGED <<holder, faults>>
     \/ op \in bound /\ Unknown /\ UNCHANGED faults
     \/ Spend(1) /\ Unknown
  /\ UNCHANGED <<command, kind, blocked, ceVars, mVars, lbVars, envVars, gpu, gs>>

(* remove_and_commit up to the change of E; a retained replica is parked. *)
Remove ==
  /\ pc = "remove"
  /\ \/ /\ blocked = None /\ holder = None
        /\ op \in bound /\ effective # None
        /\ holder' = op
        /\ effective' = None /\ ready' = None
        /\ pending' = (IF kind = "NATIVE" THEN op ELSE None)
        /\ Goto("commit_exit")
        /\ UNCHANGED <<status, faults>>
     \/ /\ blocked # None \/ op \notin bound \/ effective = None
        /\ Unknown
        /\ UNCHANGED <<ceVars, faults>>
     \/ Spend(1) /\ Unknown /\ UNCHANGED ceVars
  /\ UNCHANGED <<command, kind, blocked, mVars, lbVars, envVars, gpu, gs>>

CommitExit ==
  /\ pc = "commit_exit"
  /\ \/ /\ CallCommitServiceChange("committed")
        /\ holder' = None
        /\ pc' = "answer" /\ evidence' = "SERVICE_COMMITTED"
        /\ UNCHANGED <<op, replay, status, blocked>>
     \/ /\ \E res \in {"absent", "error"} : CallCommitServiceChange(res)
        /\ blocked' = op
        /\ Unknown
  /\ UNCHANGED <<command, kind, ceVars, envVars, gs>>

FinalizeExit ==
  /\ pc = "finalize"
  /\ \/ /\ CallFinalizeRelease("released")
        /\ pc' = "advance" /\ evidence' = "RELEASED"
        /\ UNCHANGED <<op, replay, status, holder>>
     \/ CallFinalizeRelease("error") /\ Unknown
  /\ UNCHANGED <<command, kind, blocked, ceVars, envVars, gs>>

-----------------------------------------------------------------------------
(* ADD and RESTORE *)

(* create_borrowed_replica, and what prepare_replica makes of its failure. *)
Create(res, cost) ==
  \/ /\ M = None
     /\ \/ /\ res = "prepared" /\ cost = 0
           /\ M' = "CREATING" /\ created' = "result" /\ gpu' = "held"
           /\ bound' = bound \cup {op}
        \/ /\ res = "released" /\ cost = 1
           /\ \/ M' = None /\ UNCHANGED created
              \/ M' = "RELEASED" /\ created' = "error"
           /\ bound' = bound \ {op}
           /\ UNCHANGED gpu
        \/ /\ res = "error" /\ cost = 1
           /\ M' = "QUARANTINED" /\ created' = "error" /\ gpu' = "unsure"
           /\ bound' = bound \cup {op}
  \/ /\ M # None /\ cost = 0
     /\ \/ res = "prepared" /\ created = "result" /\ bound' = bound \cup {op}
        \/ res = "released" /\ created = "error" /\ M = "RELEASED" /\ bound' = bound \ {op}
        \/ res = "error" /\ created = "error" /\ M # "RELEASED" /\ bound' = bound \cup {op}
     /\ UNCHANGED <<M, created, gpu>>

(* A spec-free prepare binds a DORMANT target, or finds its own binding. *)
Stage(res, cost) ==
  /\ cost = 0
  /\ \/ /\ res = "prepared"
        /\ M = "DORMANT" \/ (M = "ACTIVE" /\ op \in bound)
        /\ bound' = bound \cup {op}
     \/ /\ res = "error"
        /\ M # "DORMANT" /\ ~ (M = "ACTIVE" /\ op \in bound)
        /\ UNCHANGED bound
  /\ UNCHANGED <<M, created, gpu>>

prepare_replica(res, cost) ==
  IF command[op] = "ADD" THEN Create(res, cost) ELSE Stage(res, cost)

PrepareReplica ==
  /\ pc = "prepare_replica"
  /\ \E res \in {"prepared", "released", "error"}, c \in 0..1 :
       /\ prepare_replica(res, c)
       /\ \/ /\ res = "prepared" /\ Spend(c) /\ Goto("fence")
             /\ UNCHANGED <<status, holder>>
          \/ /\ res = "released" /\ Spend(c)
             /\ pc' = "advance" /\ evidence' = "RELEASED"
             /\ UNCHANGED <<op, replay, status, holder>>
          \/ res = "error" /\ Spend(c) /\ Unknown
          \/ Spend(c + 1) /\ Unknown
  /\ UNCHANGED <<command, kind, blocked, ceVars, releases, serving, lbVars,
                 envVars, gs>>

(* Not delivered at all. *)
PrepareReplicaFails ==
  /\ pc = "prepare_replica"
  /\ Spend(1) /\ Unknown
  /\ UNCHANGED <<command, kind, blocked, ceVars, mVars, lbVars, envVars, gpu, gs>>

(* The start of bootstrap_and_publish and restore_and_publish: reconcile a   *)
(* publication that this operation left behind, or acquire G.                *)
Fence ==
  /\ pc = "fence"
  /\ holder = None
  /\ \/ /\ blocked = op /\ effective # None
        /\ holder' = op /\ Goto("reconcile_publish")
        /\ UNCHANGED <<status, faults>>
     \/ /\ blocked # None /\ ~ (blocked = op /\ effective # None)
        /\ Unknown
        /\ UNCHANGED faults
     \/ /\ blocked = None
        /\ holder' = op /\ Goto("register")
        /\ UNCHANGED <<status, faults>>
     \/ Spend(1) /\ Unknown
  /\ UNCHANGED <<command, kind, blocked, ceVars, mVars, lbVars, envVars, gpu, gs>>

(* E is withdrawn before the runtime; a native target is parked again. *)
Withdraw ==
  /\ effective' = None /\ ready' = None
  /\ pending' = (IF kind = "NATIVE" THEN op ELSE None)

ReconcilePublish ==
  /\ pc = "reconcile_publish"
  /\ \/ /\ CallCommitServiceChange("committed")
        /\ holder' = None /\ blocked' = None
        /\ pc' = "answer" /\ evidence' = "SERVICE_COMMITTED"
        /\ UNCHANGED <<op, replay, status, ceVars>>
     \/ /\ CallCommitServiceChange("absent")
        /\ Withdraw
        /\ Goto("reconcile_release")
        /\ UNCHANGED <<status, gateVars>>
     \/ /\ CallCommitServiceChange("error")
        /\ Unknown
        /\ UNCHANGED <<blocked, ceVars>>
  /\ UNCHANGED <<command, kind, envVars, gs>>

ReconcileRelease ==
  /\ pc = "reconcile_release"
  /\ \/ /\ CallFinalizeRelease("released")
        /\ holder' = None /\ blocked' = None
        /\ pc' = "answer" /\ evidence' = "RELEASED"
        /\ UNCHANGED <<op, replay, status>>
     \/ CallFinalizeRelease("error") /\ Unknown /\ UNCHANGED blocked
  /\ UNCHANGED <<command, kind, ceVars, envVars, gs>>

(* A borrowed runtime that was prepared and has not been released. *)
HasRuntime == created = "result" /\ M # "RELEASED"

(* register_pending accepts its own earlier registration or commit. *)
Registrable ==
  IF effective # None THEN ready # None /\ ready.op = op
                      ELSE pending \in {None, op}

RegisterAdd ==
  /\ pc = "register" /\ command[op] = "ADD"
  /\ \/ /\ HasRuntime /\ Registrable
        /\ pending' = (IF effective # None THEN pending ELSE op)
        /\ Goto("bootstrap")
        /\ UNCHANGED faults
     \/ /\ ~ (HasRuntime /\ Registrable)
        /\ Goto("release_hidden")
        /\ UNCHANGED <<pending, faults>>
     \/ Spend(1) /\ Goto("release_hidden") /\ UNCHANGED pending
  /\ UNCHANGED <<kind, journalVars, gateVars, effective, ready, mVars, lbVars,
                 envVars, gpu, gs>>

(* The parked target is bound to this operation; without one G is left. *)
RegisterRestore ==
  /\ pc = "register" /\ command[op] = "RESTORE"
  /\ \/ /\ pending # None
        /\ pending' = op /\ ready' = None
        /\ Goto("bootstrap")
        /\ UNCHANGED <<status, holder, faults>>
     \/ pending = None /\ Unknown /\ UNCHANGED <<pending, ready, faults>>
     \/ Spend(1) /\ Unknown /\ UNCHANGED <<pending, ready>>
  /\ UNCHANGED <<command, kind, blocked, effective, mVars, lbVars, envVars, gpu, gs>>

(* bootstrap_target returns a confirmation it gave before, if it is for this *)
(* operation and version, and otherwise transfers the weights.               *)
BootstrapAdd ==
  /\ pc = "bootstrap" /\ command[op] = "ADD"
  /\ \/ /\ ready \in {None, [op |-> op, version |-> version]}
        /\ ready' = [op |-> op, version |-> version]
        /\ Goto("commit_pending")
        /\ UNCHANGED faults
     \/ /\ ready \notin {None, [op |-> op, version |-> version]}
        /\ Goto("discard")
        /\ UNCHANGED <<ready, faults>>
     \/ ready = None /\ Spend(1) /\ Goto("discard") /\ UNCHANGED ready
  /\ UNCHANGED <<kind, journalVars, gateVars, effective, pending, mVars, lbVars,
                 envVars, gpu, gs>>

(* A failed native bootstrap sleeps again, or cannot prove that it did. *)
BootstrapRestore ==
  /\ pc = "bootstrap" /\ command[op] = "RESTORE"
  /\ \/ /\ ready' = [op |-> op, version |-> version]
        /\ gpu' = "held"
        /\ Goto("commit_pending")
        /\ UNCHANGED <<holder, faults>>
     \/ /\ Spend(1)
        /\ gpu' = "free"
        /\ holder' = None
        /\ pc' = "answer" /\ evidence' = "RELEASED"
        /\ UNCHANGED <<op, replay, ready>>
     \/ /\ Spend(1)
        /\ gpu' = "unsure"
        /\ Goto("restore_failed")
        /\ UNCHANGED <<holder, ready>>
  /\ UNCHANGED <<kind, journalVars, blocked, effective, pending, mVars, lbVars,
                 envVars, gs>>

(* commit_pending reads current_param_version again. *)
CommitPending ==
  /\ pc = "commit_pending"
  /\ \/ /\ ready = [op |-> op, version |-> version]
        /\ effective \in {None, version}
        /\ effective' = version /\ pending' = None
        /\ Goto("publish")
     \/ /\ ready # [op |-> op, version |-> version] \/ effective \notin {None, version}
        /\ Goto(IF command[op] = "ADD" THEN "discard" ELSE "restore_failed")
        /\ UNCHANGED <<effective, pending>>
  /\ UNCHANGED <<kind, journalVars, gateVars, ready, mVars, lbVars, envVars, gpu,
                 gs, faults>>

(* Faulty variant: the ADD is closed although it fences the gate. *)
PublicationClosed ==
  IF command[op] = "ADD"
  THEN blocked' = op /\ Finish("FAILED") /\ holder' = None
  ELSE Goto("restore_failed") /\ UNCHANGED <<status, gateVars>>

(* What follows an error once E holds the target. *)
PublicationFailed ==
  IF command[op] = "ADD" THEN blocked' = op /\ Unknown
  ELSE Goto("restore_failed") /\ UNCHANGED <<status, gateVars>>

Publish ==
  /\ pc = "publish"
  /\ \/ /\ CallCommitServiceChange("committed")
        /\ holder' = None
        /\ pc' = "answer" /\ evidence' = "SERVICE_COMMITTED"
        /\ UNCHANGED <<op, replay, status, blocked, ceVars>>
     \/ /\ CallCommitServiceChange("absent")
        /\ Withdraw
        /\ Goto("roll_back")
        /\ UNCHANGED <<status, gateVars>>
     \/ CallCommitServiceChange("error") /\ PublicationFailed /\ UNCHANGED ceVars
  /\ UNCHANGED <<command, kind, envVars, gs>>

RollBack ==
  /\ pc = "roll_back"
  /\ \/ /\ CallFinalizeRelease("released")
        /\ holder' = None
        /\ pc' = "answer" /\ evidence' = "RELEASED"
        /\ UNCHANGED <<op, replay, status, blocked>>
     \/ CallFinalizeRelease("error") /\ PublicationFailed
  /\ UNCHANGED <<command, kind, ceVars, envVars, gs>>

(* An ADD that failed before E: the registration goes, then the runtime. *)
Discard ==
  /\ pc = "discard"
  /\ pending' = None /\ ready' = None
  /\ Goto("release_hidden")
  /\ UNCHANGED <<kind, journalVars, gateVars, effective, mVars, lbVars, envVars,
                 gpu, gs, faults>>

ReleaseHidden ==
  /\ pc = "release_hidden"
  /\ \/ /\ CallFinalizeRelease("released")
        /\ holder' = None
        /\ pc' = "answer" /\ evidence' = "RELEASED"
        /\ UNCHANGED <<op, replay, status, blocked>>
     \/ CallFinalizeRelease("error") /\ blocked' = op /\ Unknown
  /\ UNCHANGED <<command, kind, ceVars, envVars, gs>>

(* The error path of restore_and_publish, quarantine_dormant_restore first. *)
RestoreFailed ==
  /\ pc = "restore_failed"
  /\ \/ /\ M' = (IF M = "DORMANT" /\ op \in bound THEN "QUARANTINED" ELSE M)
        /\ UNCHANGED faults
     \/ Spend(1) /\ UNCHANGED M
  /\ blocked' = op
  /\ Unknown
  /\ UNCHANGED <<command, kind, ceVars, created, releases, serving, bound, lbVars,
                 envVars, gpu, gs>>

-----------------------------------------------------------------------------
(* Back in the TaskRunner *)

(* _finish drops the Rollouter's binding, if the call gets through. *)
FinishResolved(s) ==
  /\ Finish(s)
  /\ \/ bound' = bound \ {op} /\ UNCHANGED faults
     \/ Spend(1) /\ UNCHANGED bound

(* The Trainer's answer arrives, or is lost. *)
Answer ==
  /\ pc = "answer"
  /\ \/ /\ command[op] \in ExitKinds
        /\ Goto("finalize")
        /\ UNCHANGED <<status, holder, bound, faults>>
     \/ /\ command[op] = "ADD" /\ evidence = "SERVICE_COMMITTED"
        /\ FinishResolved("SUCCEEDED")
        /\ UNCHANGED holder
     \/ /\ command[op] = "RESTORE" \/ (command[op] = "ADD" /\ evidence = "RELEASED")
        /\ Goto("advance")
        /\ UNCHANGED <<status, holder, bound, faults>>
     \/ Spend(1) /\ Unknown /\ UNCHANGED bound
  /\ UNCHANGED <<command, kind, blocked, ceVars, M, created, releases, serving,
                 lbVars, envVars, gpu, gs>>

(* What advance_lease makes of the evidence. *)
LeaseAfter ==
  CASE command[op] = "DONATE"                                   -> "out"
    [] command[op] = "RESTORE" /\ evidence = "RELEASED"         -> gs
    [] OTHER                                                    -> "idle"

Outcome ==
  IF command[op] \in ExitKinds \/ evidence = "SERVICE_COMMITTED"
  THEN "SUCCEEDED" ELSE "FAILED"

(* _advance_lease tries twice; then the operation is UNKNOWN, whether or not *)
(* the ledger was written.                                                   *)
Advance ==
  /\ pc = "advance"
  /\ \/ /\ gs' = LeaseAfter
        /\ FinishResolved(Outcome)
        /\ UNCHANGED holder
     \/ /\ gs' \in {gs, LeaseAfter}
        /\ Spend(1) /\ Unknown
        /\ UNCHANGED bound
  /\ UNCHANGED <<command, kind, blocked, ceVars, M, created, releases, serving,
                 lbVars, envVars, gpu>>

-----------------------------------------------------------------------------
(* The training loop and the requests *)

(* The loop produces a version, and publishes it before the next one. *)
NewVersion ==
  /\ training /\ version = synced /\ version < MaxVersion
  /\ version' = version + 1
  /\ UNCHANGED <<kind, journalVars, workerVars, gateVars, ceVars, mVars, lbVars,
                 busy, synced, training, gpu, gs, faults>>

(* _fit_update_weights, holding G throughout. *)
NativeSync ==
  /\ training /\ version # synced /\ holder = None
  /\ \/ /\ blocked = None
        /\ synced' = version
        /\ effective' = (IF effective = None THEN None ELSE version)
        /\ UNCHANGED <<blocked, training, faults>>
     \/ /\ blocked = None
        /\ Spend(1)
        /\ blocked' = SyncOwner /\ training' = FALSE
        /\ UNCHANGED <<synced, effective>>
     \/ /\ blocked # None
        /\ training' = FALSE
        /\ UNCHANGED <<synced, effective, blocked, faults>>
  /\ UNCHANGED <<kind, journalVars, workerVars, holder, pending, ready, mVars,
                 lbVars, busy, version, gpu, gs>>

Admit ==
  /\ route = "open" /\ ~ busy
  /\ busy' = TRUE
  /\ UNCHANGED <<kind, journalVars, workerVars, gateVars, ceVars, mVars, lbVars,
                 version, synced, training, gpu, gs, faults>>

Settle ==
  /\ busy
  /\ busy' = FALSE
  /\ UNCHANGED <<kind, journalVars, workerVars, gateVars, ceVars, mVars, lbVars,
                 version, synced, training, gpu, gs, faults>>

WorkerStep ==
  \/ Start
  \/ QueryRelease \/ ReconcileExit \/ PrepareExit \/ Drain \/ QueryBinding
  \/ Remove \/ CommitExit \/ FinalizeExit
  \/ PrepareReplica \/ PrepareReplicaFails \/ Fence
  \/ ReconcilePublish \/ ReconcileRelease
  \/ RegisterAdd \/ RegisterRestore \/ BootstrapAdd \/ BootstrapRestore
  \/ CommitPending \/ Publish \/ RollBack \/ Discard \/ ReleaseHidden
  \/ RestoreFailed
  \/ Answer \/ Advance

Next ==
  \/ \E o \in OpIds, k \in OperationKinds : Submit(o, k)
  \/ \E o \in OpIds : Replay(o)
  \/ WorkerStep
  \/ NewVersion
  \/ NativeSync
  \/ Admit
  \/ Settle

Spec == Init /\ [][Next]_vars

(* A launched thread keeps running, an UNKNOWN operation is submitted again, *)
(* requests end, and a new version is published.                             *)
Fairness ==
  /\ WF_vars(WorkerStep)
  /\ \A o \in OpIds : WF_vars(Replay(o))
  /\ WF_vars(Settle)
  /\ WF_vars(NativeSync)

FairSpec == Spec /\ Fairness

-----------------------------------------------------------------------------
(* Properties *)

(* A replica that admits requests is a member of E and has the version that  *)
(* native synchronisation published last: no request is ever served by       *)
(* weights the next synchronisation would miss.                              *)
ServingIsSynchronised ==
  /\ TypeOK
  /\ route = "open" => effective # None /\ effective >= synced

(* An operation that blocked G stays open until it or its replay has cleared *)
(* the gate: it is never reported SUCCEEDED or FAILED while it still fences  *)
(* everyone else.                                                            *)
BlockerStaysOpen ==
  blocked \in OpIds => status[blocked] \in {"RUNNING", "UNKNOWN"} \/ op = blocked

(* An exit that is closed FAILED has had no effect: it neither drains the    *)
(* replica nor released its runtime.                                         *)
FailedExitHadNoEffect ==
  \A o \in OpIds : status[o] = "FAILED" /\ command[o] \in ExitKinds =>
    draining # o /\ o \notin releases

(* When the release of an exit or of a rolled back ADD is reported to the    *)
(* group scheduler, the GPU is really free and the replica is out of R and   *)
(* C; after an exit it has left E as well.  As long as M has a replica       *)
(* asleep or released it admits nothing, and no request runs on it.          *)
ReleaseIsPhysical ==
  /\ pc = "advance" /\ evidence = "RELEASED" /\ command[op] # "RESTORE" =>
       /\ gpu = "free" /\ route = "none" /\ ~ serving
       /\ command[op] \in ExitKinds => effective = None
  /\ M \in {"DORMANT", "RELEASED"} => route = "none" /\ ~ serving /\ ~ busy

(* A worker always comes to an end: whatever fails, a submitted operation    *)
(* becomes SUCCEEDED, FAILED or UNKNOWN.                                     *)
WorkersEnd ==
  \A o \in OpIds : status[o] \in {"ACCEPTED", "RUNNING"} ~>
                   status[o] \in {"SUCCEEDED", "FAILED", "UNKNOWN"}

-----------------------------------------------------------------------------
(* What the repository's documents say and the code does not keep *)

(* M is closed, and RELEASED reported, only from a verified release: when a  *)
(* RESTORE reports that it was rolled back, the runtime is asleep.           *)
RestoreRollbackIsPhysical ==
  pc = "advance" /\ evidence = "RELEASED" /\ command[op] = "RESTORE" => gpu = "free"

(* The outcomes that only an operator can resolve: a runtime in quarantine,  *)
(* and a gate that native synchronisation has blocked.                       *)
NeedsOperator == M = "QUARANTINED" \/ blocked = SyncOwner

(* "Exact-op UNKNOWN replay is supported for all four lifecycle kinds": an   *)
(* UNKNOWN operation that is submitted again and again is resolved, unless   *)
(* only an operator can help.                                                *)
UnknownResolves ==
  \A o \in OpIds : status[o] = "UNKNOWN" ~>
                   status[o] \in Resolved \/ NeedsOperator
=============================================================================
