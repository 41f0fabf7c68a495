------------------------- MODULE TaskLifecycleProofs -------------------------
(***************************************************************************)
(* Proofs about lifecycle operations on a replica, for any number of       *)
(* operations, failures and weight versions.                               *)
(***************************************************************************)
EXTENDS TaskLifecycle, TLAPS

EntryKinds == {"ADD", "RESTORE"}

Open(o) == status[o] \in {"ACCEPTED", "RUNNING", "UNKNOWN"}

ExitPcs == {"query_release", "reconcile_exit", "prepare_exit", "draining",
            "query_binding", "remove", "commit_exit", "finalize"}

AddPcs == {"discard", "release_hidden"}

(* Control points between the acquisition and the release of G. *)
FencedPcs == {"register", "bootstrap", "commit_pending", "publish", "roll_back",
              "discard", "release_hidden", "restore_failed", "commit_exit"}

ReconcilePcs == {"reconcile_publish", "reconcile_release"}

EntryPcs == {"prepare_replica", "fence", "register", "bootstrap", "commit_pending",
             "publish", "roll_back", "discard", "release_hidden", "restore_failed"}
            \cup ReconcilePcs

(* Control points at which an operation may not own the block. *)
UnblockedPcs == {"answer", "advance", "prepare_exit", "draining", "query_binding",
                 "remove", "finalize"}

(* One operation is open at a time, the one the worker runs if it runs, and  *)
(* the worker is in a flow of its kind.                                      *)
JournalInv ==
  /\ \A o, p \in OpIds : Open(o) /\ Open(p) => o = p
  /\ \A o \in OpIds : status[o] # None => command[o] # None
  /\ \A o \in OpIds : command[o] \in {"DONATE", "RESTORE"} => kind = "NATIVE"
  /\ \A o \in OpIds : command[o] \in {"ADD", "REMOVE"} => kind = "BORROWED"
  /\ \A o \in OpIds : status[o] \in {"ACCEPTED", "RUNNING"} => op = o
  /\ pc = "off" <=> op = None
  /\ pc = "start" => status[op] = IF replay THEN "UNKNOWN" ELSE "ACCEPTED"
  /\ pc \notin {"off", "start"} => status[op] = "RUNNING"
  /\ pc \in ExitPcs => command[op] \in ExitKinds
  /\ pc \in EntryPcs => command[op] \in EntryKinds
  /\ pc \in AddPcs => command[op] = "ADD"
  /\ pc = "restore_failed" => command[op] = "RESTORE"

(* An operation leaves no trace before it starts. *)
FreshInv ==
  \A o \in OpIds : status[o] \in {None, "ACCEPTED"} => o \notin bound /\ o \notin releases

(* The block of G belongs to the open operation, which keeps what its replay *)
(* needs, and no operation leaves the fence while it owns the block.         *)
GateInv ==
  /\ blocked \in OpIds =>
       /\ status[blocked] \in {"RUNNING", "UNKNOWN"}
       /\ command[blocked] \in ExitKinds => effective = None /\ blocked \in bound
       /\ command[blocked] = "ADD" => created = "result" /\ M # None
  /\ pc \in UnblockedPcs => blocked # op
  /\ pc \in FencedPcs => holder = op /\ blocked = None
  /\ pc \in ReconcilePcs => holder = op /\ blocked = op
  /\ pc \in EntryPcs \ {"prepare_replica"} /\ command[op] = "ADD" =>
       created = "result" /\ M # None

(* Members of E have what was published last. *)
VersionInv ==
  /\ version >= synced
  /\ effective # None => effective >= synced
  /\ route = "open" => effective # None

(* What M says of the route, the lists, the requests and the runtime. *)
ServiceInv ==
  /\ M \in {None, "CREATING", "DORMANT", "RELEASED"} => route = "none" /\ ~ serving
  /\ route = "none" => ~ busy
  /\ M = None => gpu = "free" /\ kind = "BORROWED"
  /\ M = "RELEASED" => gpu = "free" /\ kind = "BORROWED"
  /\ route = "draining" <=> draining # None
  /\ draining # None => /\ Open(draining) /\ draining \in bound
                        /\ command[draining] \in ExitKinds

(* An open ADD or a bound RESTORE has published the target if it is routed. *)
EntryInv ==
  /\ \A o \in OpIds : Open(o) /\ command[o] \in EntryKinds
                      /\ (command[o] = "ADD" \/ o \in bound) =>
       /\ route = "open" => published = o
       /\ route = "open" \/ serving => M = "ACTIVE"
  /\ \A o \in OpIds : Open(o) /\ command[o] = "ADD" /\ o \in releases => M = "RELEASED"
  /\ pc \in {"publish", "reconcile_publish"} => effective # None
  /\ pc \in {"answer", "advance"} /\ command[op] = "ADD" /\ evidence = "RELEASED" =>
       M \in {None, "RELEASED"}

(* How far an open exit is. *)
ExitInv ==
  /\ \A o \in OpIds : Open(o) /\ command[o] \in ExitKinds =>
       /\ o \in bound => M \in {"DRAINING", "QUARANTINED"}
       /\ o \in releases => /\ o \notin bound /\ gpu = "free" /\ effective = None
                            /\ M \in {"DORMANT", "RELEASED"}
  /\ pc \in {"draining", "remove", "commit_exit"} => draining = op
  /\ pc = "commit_exit" => effective = None
  /\ pc \in ExitPcs \ {"query_release"} => op \notin releases
  /\ pc \in {"answer", "finalize"} /\ command[op] \in ExitKinds =>
       effective = None /\ route = "none" /\ ~ serving /\ op \notin releases
  /\ pc = "advance" /\ command[op] \in ExitKinds => op \in releases
  /\ \A o \in OpIds : status[o] = "FAILED" /\ command[o] \in ExitKinds => o \notin releases

LifecycleInv ==
  /\ TypeOK
  /\ JournalInv
  /\ FreshInv
  /\ GateInv
  /\ VersionInv
  /\ ServiceInv
  /\ EntryInv
  /\ ExitInv

-----------------------------------------------------------------------------
(* What the calls of the worker do, in the states in which it makes them *)

(* The worker runs an open operation. *)
LEMMA WorkerRuns ==
  ASSUME LifecycleInv, pc # "off"
  PROVE  op \in OpIds /\ Open(op)
BY LifecycleAssumption DEF LifecycleInv, TypeOK, JournalInv, Open

(* commit_service_change for an exit removes the route, or does nothing: a   *)
(* bound exit has a draining target.                                         *)
LEMMA ExitCall ==
  ASSUME LifecycleInv, pc # "off", command[op] \in ExitKinds,
         NEW res, CallCommitServiceChange(res)
  PROVE  /\ M' = M /\ bound' = bound /\ gpu' = gpu
         /\ created' = created /\ releases' = releases /\ faults' \in 0..MaxFaults
         /\ serving' = serving \/ serving' = FALSE
         /\ \/ route' = route /\ draining' = draining /\ published' = published
            \/ /\ route' = "none" /\ draining' = None /\ published' = None
               /\ ~ (route # "none" /\ busy)
         /\ res = "committed" => route' = "none" /\ serving' = FALSE
<1>1. op \in bound => M \in {"DRAINING", "QUARANTINED"}
  BY WorkerRuns DEF LifecycleInv, ExitInv
<1>2. created' = created /\ releases' = releases /\ faults' \in 0..MaxFaults
  BY LifecycleAssumption DEF LifecycleInv, TypeOK, CallCommitServiceChange, Spend
<1>3. ASSUME NEW q, NEW c, commit_service_change(q, c)
      PROVE  /\ M' = M /\ bound' = bound /\ gpu' = gpu
             /\ serving' = serving \/ serving' = FALSE
             /\ \/ route' = route /\ draining' = draining /\ published' = published
                \/ /\ route' = "none" /\ draining' = None /\ published' = None
                   /\ ~ (route # "none" /\ busy)
             /\ q = "committed" => route' = "none" /\ serving' = FALSE
  BY <1>1, <1>3 DEF commit_service_change, PublishOutcome, ReconcileOutcome, ExitOutcome,
                    changed, lbVars
<1> QED
  BY <1>2, <1>3 DEF CallCommitServiceChange, changed

(* commit_service_change for an ADD or a RESTORE: nothing, the publication   *)
(* with or without the route, a quarantine, or the answer that there is no   *)
(* route.                                                                    *)
LEMMA EntryCall ==
  ASSUME LifecycleInv, pc # "off", command[op] \in EntryKinds,
         NEW res, CallCommitServiceChange(res)
  PROVE  /\ created' = created /\ releases' = releases /\ faults' \in 0..MaxFaults
         /\ draining' = draining /\ bound' \in {bound, bound \ {op}}
         /\ res = "absent" => route' = "none"
         /\ \/ M' = M /\ serving' = serving /\ gpu' = gpu /\ route' = route
               /\ published' = published
            \/ /\ op \in bound /\ M \in {"CREATING", "DORMANT"}
               /\ M' = "ACTIVE" /\ serving' = TRUE /\ gpu' = "held"
               /\ \/ route' = route /\ published' = published
                  \/ route' = "open" /\ published' = op
            \/ /\ op \in bound /\ M \in {"CREATING", "DORMANT"}
               /\ M' = "QUARANTINED" /\ gpu' \in {gpu, "unsure"}
               /\ serving' = serving /\ route' = route /\ published' = published
            \/ /\ op \in bound /\ M \in {"CREATING", "DORMANT", "ACTIVE", "DRAINING"}
               /\ M' = "DRAINING" /\ gpu' \in {gpu, "held"} /\ serving' = FALSE
               /\ route = "none" /\ route' = "none" /\ published' \in {published, None}
<1>1. /\ op \in bound /\ route = "open" => published = op /\ M = "ACTIVE"
      /\ M \in {"CREATING", "DORMANT"} => route = "none"
      /\ draining = None /\ route # "draining" /\ route \in {"none", "open", "draining"}
  BY WorkerRuns, LifecycleAssumption
     DEF LifecycleInv, TypeOK, JournalInv, EntryInv, ServiceInv, EntryKinds, ExitKinds
<1>2. created' = created /\ releases' = releases /\ faults' \in 0..MaxFaults
  BY LifecycleAssumption DEF LifecycleInv, TypeOK, CallCommitServiceChange, Spend
<1>3. ASSUME NEW q, NEW c, commit_service_change(q, c)
      PROVE  /\ draining' = draining /\ bound' \in {bound, bound \ {op}}
             /\ q = "absent" => route' = "none"
             /\ \/ M' = M /\ serving' = serving /\ gpu' = gpu /\ route' = route
                   /\ published' = published
                \/ /\ op \in bound /\ M \in {"CREATING", "DORMANT"}
                   /\ M' = "ACTIVE" /\ serving' = TRUE /\ gpu' = "held"
                   /\ \/ route' = route /\ published' = published
                      \/ route' = "open" /\ published' = op
                \/ /\ op \in bound /\ M \in {"CREATING", "DORMANT"}
                   /\ M' = "QUARANTINED" /\ gpu' \in {gpu, "unsure"}
                   /\ serving' = serving /\ route' = route /\ published' = published
                \/ /\ op \in bound /\ M \in {"CREATING", "DORMANT", "ACTIVE", "DRAINING"}
                   /\ M' = "DRAINING" /\ gpu' \in {gpu, "held"} /\ serving' = FALSE
                   /\ route = "none" /\ route' = "none" /\ published' \in {published, None}
  <2>1. CASE UNCHANGED changed /\ q = "error"
    BY <2>1 DEF changed
  <2>2. CASE op \in bound /\ PublishOutcome(q, c)
    BY <1>1, <2>2 DEF PublishOutcome, Routed, NotRouted, lbVars
  <2>3. CASE op \in bound /\ ReconcileOutcome(q, c)
    BY <1>1, <2>3 DEF ReconcileOutcome, lbVars
  <2>4. CASE op \in bound /\ ExitOutcome(q, c)
    <3>1. ~ serving
      BY <2>4, WorkerRuns DEF LifecycleInv, EntryInv, ExitOutcome
    <3>2. serving = FALSE
      BY <3>1 DEF LifecycleInv, TypeOK, FlagsOK
    <3> QED
      BY <1>1, <2>4, <3>2 DEF ExitOutcome, changed
  <2> QED
    BY <1>3, <2>1, <2>2, <2>3, <2>4 DEF commit_service_change
<1> QED
  BY <1>2, <1>3 DEF CallCommitServiceChange, changed

(* finalize_release: nothing, the release of a target without a route, or a  *)
(* quarantine.                                                               *)
LEMMA FinalizeCall ==
  ASSUME LifecycleInv, pc \in {"finalize", "reconcile_release", "roll_back", "release_hidden"},
         NEW res, CallFinalizeRelease(res)
  PROVE  /\ created' = created /\ serving' = serving /\ faults' \in 0..MaxFaults
         /\ route' = route /\ draining' = draining /\ published' = published
         /\ \/ M' = M /\ gpu' = gpu /\ bound' = bound /\ releases' = releases
               /\ res = "error"
            \/ /\ op \in bound /\ M \in {"DRAINING", "CREATING"}
               /\ route = "none" /\ ~ serving
               /\ M' = IF kind = "NATIVE" THEN "DORMANT" ELSE "RELEASED"
               /\ gpu' \in {gpu, "free"} /\ (command[op] # "RESTORE" => gpu' = "free")
               /\ releases' = releases \cup {op} /\ bound' = bound \ {op}
            \/ /\ op \in bound /\ M \in {"DRAINING", "CREATING"} /\ res = "error"
               /\ M' = "QUARANTINED" /\ gpu' = "unsure"
               /\ releases' = releases /\ bound' = bound
<1>1. op \in OpIds /\ Open(op) /\ command[op] \in ExitKinds \cup EntryKinds
  BY WorkerRuns DEF LifecycleInv, JournalInv, ExitPcs, EntryPcs, ReconcilePcs
<1>2. op \in bound /\ M \in {"DRAINING", "CREATING"} => route = "none" /\ ~ serving
  <2>1. CASE command[op] \in ExitKinds
    BY <2>1 DEF LifecycleInv, JournalInv, ExitInv, EntryPcs, ReconcilePcs, ExitKinds, EntryKinds
  <2>2. CASE command[op] \in EntryKinds
    BY <1>1, <2>2, LifecycleAssumption
       DEF LifecycleInv, TypeOK, JournalInv, EntryInv, ServiceInv, ExitKinds, EntryKinds, Open
  <2> QED
    BY <1>1, <2>1, <2>2
<1>3. op \in releases /\ M \in {"DRAINING", "CREATING"} => command[op] = "RESTORE"
  BY <1>1 DEF LifecycleInv, EntryInv, ExitInv, EntryKinds
<1>4. created' = created /\ faults' \in 0..MaxFaults
  BY LifecycleAssumption DEF LifecycleInv, TypeOK, CallFinalizeRelease, Spend
<1>5. ASSUME NEW q, NEW c, finalize_release(q, c)
      PROVE  /\ serving' = serving
             /\ route' = route /\ draining' = draining /\ published' = published
             /\ \/ M' = M /\ gpu' = gpu /\ bound' = bound /\ releases' = releases
                   /\ q = "error"
                \/ /\ op \in bound /\ M \in {"DRAINING", "CREATING"}
                   /\ M' = IF kind = "NATIVE" THEN "DORMANT" ELSE "RELEASED"
                   /\ gpu' \in {gpu, "free"} /\ (command[op] # "RESTORE" => gpu' = "free")
                   /\ releases' = releases \cup {op} /\ bound' = bound \ {op}
                \/ /\ op \in bound /\ M \in {"DRAINING", "CREATING"} /\ q = "error"
                   /\ M' = "QUARANTINED" /\ gpu' = "unsure"
                   /\ releases' = releases /\ bound' = bound
  BY <1>3, <1>5 DEF finalize_release, ReleaseRuntime, changed, lbVars
<1> QED
  BY <1>2, <1>4, <1>5 DEF CallFinalizeRelease, changed

-----------------------------------------------------------------------------
(* One lemma for each action of the worker and its environment *)

(* begin, with or without a thread. *)
LEMMA SubmitKeeps ==
  ASSUME LifecycleInv, NEW o \in OpIds, NEW k \in OperationKinds, Submit(o, k)
  PROVE  LifecycleInv'
<1>1. FlagsOK'
  BY DEF Submit, Submittable, JournalFree, LifecycleInv, TypeOK, FlagsOK,
     workerVars, mVars, envVars
<1>2. TypeOK'
  BY <1>1 DEF Submit, Submittable, JournalFree, Spend, LifecycleInv, TypeOK,
     PcValues, OperationStatuses, workerVars, gateVars, ceVars, mVars, lbVars,
     envVars
<1>3. JournalInv'
  BY LifecycleAssumption DEF Submit, Submittable, JournalFree, Spend, LifecycleInv,
     TypeOK, JournalInv, Open, ExitPcs, AddPcs, ReconcilePcs, EntryPcs,
     OperationStatuses, Resolved, workerVars, gateVars, ceVars, mVars, lbVars,
     envVars
<1>4. FreshInv'
  BY DEF Submit, Submittable, JournalFree, Spend, LifecycleInv, TypeOK, FreshInv,
     workerVars, gateVars, ceVars, mVars, lbVars, envVars
<1>5. GateInv'
  BY LifecycleAssumption DEF Submit, Submittable, JournalFree, Spend, LifecycleInv,
     TypeOK, JournalInv, GateInv, FencedPcs, ReconcilePcs, EntryPcs,
     OperationStatuses, workerVars, gateVars, ceVars, mVars, lbVars, envVars
<1>6. VersionInv'
  BY DEF Submit, Submittable, JournalFree, LifecycleInv, VersionInv, ceVars, lbVars,
     envVars
<1>7. ServiceInv'
  BY DEF Submit, Submittable, JournalFree, Spend, LifecycleInv, TypeOK, JournalInv,
     FreshInv, ServiceInv, Open, workerVars, gateVars, ceVars, mVars, lbVars,
     envVars
<1>8. EntryInv'
  BY DEF Submit, Submittable, JournalFree, Spend, LifecycleInv, TypeOK, FreshInv,
     ServiceInv, EntryInv, Open, workerVars, gateVars, ceVars, mVars, lbVars,
     envVars
<1>9. ExitInv'
  BY LifecycleAssumption DEF Submit, Submittable, JournalFree, Spend, LifecycleInv,
     TypeOK, JournalInv, FreshInv, ExitInv, Open, OperationStatuses, workerVars,
     gateVars, ceVars, mVars, lbVars, envVars
<1> QED
  BY <1>2, <1>3, <1>4, <1>5, <1>6, <1>7, <1>8, <1>9 DEF LifecycleInv

(* An UNKNOWN operation gets a new thread. *)
LEMMA ReplayKeeps ==
  ASSUME LifecycleInv, NEW o \in OpIds, Replay(o)
  PROVE  LifecycleInv'
<1>1. FlagsOK'
  BY DEF Replay, LifecycleInv, TypeOK, FlagsOK, mVars, envVars
<1>2. TypeOK'
  BY <1>1 DEF Replay, LifecycleInv, TypeOK, PcValues, journalVars, gateVars, ceVars,
     mVars, lbVars, envVars
<1>3. JournalInv'
  BY LifecycleAssumption DEF Replay, LifecycleInv, JournalInv, Open, ExitPcs,
     AddPcs, ReconcilePcs, EntryPcs, journalVars, lbVars
<1>4. FreshInv' /\ GateInv' /\ VersionInv' /\ ServiceInv' /\ EntryInv' /\ ExitInv'
  BY DEF Replay, LifecycleInv, FreshInv, GateInv, VersionInv, ServiceInv, EntryInv,
     ExitInv, Open, ExitPcs, FencedPcs, ReconcilePcs, EntryPcs, UnblockedPcs,
     journalVars, gateVars, ceVars, mVars, lbVars, envVars
<1> QED
  BY <1>2, <1>3, <1>4 DEF LifecycleInv

(* The worker begins. *)
LEMMA StartKeeps ==
  ASSUME LifecycleInv, Start
  PROVE  LifecycleInv'
<1>1. op \in OpIds /\ Open(op)
  BY WorkerRuns DEF Start
<1>2. FlagsOK'
  BY DEF Start, Goto, Finish, LifecycleInv, TypeOK, FlagsOK, mVars, envVars
<1>3. TypeOK'
  BY <1>2 DEF Start, Goto, Finish, Spend, LifecycleInv, TypeOK, PcValues,
     OperationStatuses, gateVars, ceVars, mVars, lbVars, envVars
<1>4. JournalInv'
  BY LifecycleAssumption DEF Start, Goto, Finish, Spend, LifecycleInv, TypeOK,
     JournalInv, Open, ExitPcs, AddPcs, ReconcilePcs, EntryPcs, ExitKinds,
     EntryKinds, OperationStatuses, OperationKinds, gateVars, ceVars, mVars, lbVars,
     envVars
<1>5. FreshInv'
  BY LifecycleAssumption DEF Start, Goto, Finish, Spend, LifecycleInv, TypeOK,
     FreshInv, OperationStatuses, gateVars, ceVars, mVars, lbVars, envVars
<1>6. GateInv'
  BY DEF Start, Goto, Finish, Spend, LifecycleInv, TypeOK, JournalInv, GateInv,
     FencedPcs, ReconcilePcs, EntryPcs, UnblockedPcs, gateVars, ceVars, mVars,
     lbVars, envVars
<1>7. VersionInv'
  BY DEF Start, LifecycleInv, VersionInv, ceVars, lbVars, envVars
<1>8. ServiceInv'
  BY DEF Start, Goto, Finish, Spend, LifecycleInv, TypeOK, ServiceInv, Open,
     ExitKinds, gateVars, ceVars, mVars, lbVars, envVars
<1>9. EntryInv'
  BY <1>1 DEF Start, Goto, Finish, Spend, LifecycleInv, TypeOK, EntryInv, Open,
     gateVars, ceVars, mVars, lbVars, envVars
<1>10. ExitInv'
  BY DEF Start, Goto, Finish, Spend, LifecycleInv, TypeOK, JournalInv, FreshInv,
     ExitInv, Open, ExitPcs, gateVars, ceVars, mVars, lbVars, envVars
<1> QED
  BY <1>3, <1>4, <1>5, <1>6, <1>7, <1>8, <1>9, <1>10 DEF LifecycleInv

(* The replay of an exit looks for its evidence. *)
LEMMA QueryReleaseKeeps ==
  ASSUME LifecycleInv, QueryRelease
  PROVE  LifecycleInv'
<1>1. op \in OpIds /\ Open(op)
  BY WorkerRuns DEF QueryRelease
<1>2. FlagsOK'
  BY DEF QueryRelease, Goto, Unknown, Finish, LifecycleInv, TypeOK, FlagsOK, mVars,
     envVars
<1>3. TypeOK'
  BY <1>2 DEF QueryRelease, Goto, Unknown, Finish, Spend, LifecycleInv, TypeOK,
     PcValues, OperationStatuses, ceVars, mVars, lbVars, envVars
<1>4. JournalInv'
  BY DEF QueryRelease, Goto, Unknown, Finish, Spend, LifecycleInv, TypeOK,
     JournalInv, Open, ExitPcs, AddPcs, ReconcilePcs, EntryPcs, ExitKinds, ceVars,
     mVars, lbVars, envVars
<1>5. FreshInv'
  BY LifecycleAssumption DEF QueryRelease, Goto, Unknown, Finish, Spend,
     LifecycleInv, TypeOK, FreshInv, OperationStatuses, ceVars, mVars, lbVars,
     envVars
<1>6. GateInv'
  BY <1>1 DEF QueryRelease, Goto, Unknown, Finish, Spend, LifecycleInv, TypeOK,
     JournalInv, GateInv, ExitInv, ExitPcs, FencedPcs, ReconcilePcs, EntryPcs,
     UnblockedPcs, ceVars, mVars, lbVars, envVars
<1>7. VersionInv'
  BY DEF QueryRelease, LifecycleInv, VersionInv, ceVars, lbVars, envVars
<1>8. ServiceInv'
  BY DEF QueryRelease, Goto, Unknown, Finish, Spend, LifecycleInv, TypeOK,
     ServiceInv, Open, ceVars, mVars, lbVars, envVars
<1>9. EntryInv'
  BY <1>1 DEF QueryRelease, Goto, Unknown, Finish, Spend, LifecycleInv, TypeOK,
     EntryInv, Open, ceVars, mVars, lbVars, envVars
<1>10. ExitInv'
  BY <1>1 DEF QueryRelease, Goto, Unknown, Finish, Spend, LifecycleInv, TypeOK,
     ExitInv, Open, ExitPcs, ceVars, mVars, lbVars, envVars
<1> QED
  BY <1>3, <1>4, <1>5, <1>6, <1>7, <1>8, <1>9, <1>10 DEF LifecycleInv

(* The replay of an exit that had blocked G. *)
LEMMA ReconcileExitKeeps ==
  ASSUME LifecycleInv, ReconcileExit
  PROVE  LifecycleInv'
<1>1. op \in OpIds /\ Open(op)
  BY WorkerRuns DEF ReconcileExit
<1>2. \/ M' = M /\ bound' = bound /\ gpu' = gpu /\ created' = created /\ releases' = releases
         /\ serving' = serving /\ route' = route /\ draining' = draining /\ published' = published
         /\ faults' \in 0..MaxFaults /\ pc' # "answer"
      \/ /\ M' = M /\ bound' = bound /\ gpu' = gpu
         /\ created' = created /\ releases' = releases /\ faults' \in 0..MaxFaults
         /\ serving' = serving \/ serving' = FALSE
         /\ \/ route' = route /\ draining' = draining /\ published' = published
            \/ /\ route' = "none" /\ draining' = None /\ published' = None
               /\ ~ (route # "none" /\ busy)
         /\ pc' = "answer" => ExitFenced /\ route' = "none" /\ serving' = FALSE
  <2>1. command[op] \in ExitKinds /\ pc # "off"
    BY DEF ReconcileExit, LifecycleInv, JournalInv, ExitPcs
  <2>2. CASE \E res : CallCommitServiceChange(res) /\ ExitFenced /\ (pc' = "answer" => res = "committed")
    BY <2>1, <2>2, ExitCall
  <2>3. CASE /\ UNCHANGED <<mVars, lbVars, gpu>> /\ pc' # "answer"
             /\ faults' = faults \/ Spend(1)
    BY <2>3, LifecycleAssumption DEF LifecycleInv, TypeOK, mVars, lbVars, Spend
  <2> QED
    BY <2>2, <2>3 DEF ReconcileExit, Goto, Unknown, Finish
<1>3. FlagsOK'
  BY <1>2 DEF ReconcileExit, ExitFenced, Goto, Unknown, Finish, LifecycleInv,
     TypeOK, FlagsOK, mVars, envVars
<1>4. TypeOK'
  <2>1. /\ bound' \in {bound, bound \cup {op}, bound \ {op}}
        /\ releases' \in {releases, releases \cup {op}}
    BY <1>2
  <2>2. bound' \subseteq OpIds /\ releases' \subseteq OpIds
    BY <1>1, <2>1 DEF LifecycleInv, TypeOK
  <2> QED
    BY <1>2, <1>3, <2>2 DEF ReconcileExit, ExitFenced, Goto, Unknown, Finish, Spend,
       LifecycleInv, TypeOK, PcValues, OperationStatuses, gateVars, ceVars, mVars,
       lbVars, envVars
<1>5. JournalInv'
  BY DEF ReconcileExit, ExitFenced, Goto, Unknown, Finish, Spend, LifecycleInv,
     TypeOK, JournalInv, Open, ExitPcs, AddPcs, ReconcilePcs, EntryPcs, ExitKinds,
     gateVars, ceVars, mVars, lbVars, envVars
<1>6. FreshInv'
  BY <1>2, LifecycleAssumption DEF ReconcileExit, ExitFenced, Goto, Unknown, Finish,
     Spend, LifecycleInv, TypeOK, FreshInv, OperationStatuses, gateVars, ceVars,
     mVars, lbVars, envVars
<1>7. GateInv'
  BY <1>2, LifecycleAssumption DEF ReconcileExit, ExitFenced, Goto, Unknown, Finish,
     Spend, LifecycleInv, TypeOK, JournalInv, GateInv, Open, ExitPcs, FencedPcs,
     ReconcilePcs, EntryPcs, UnblockedPcs, gateVars, ceVars, mVars, lbVars, envVars
<1>8. VersionInv'
  BY <1>2 DEF ReconcileExit, ExitFenced, LifecycleInv, VersionInv, ceVars, lbVars,
     envVars
<1>9. ServiceInv'
  BY <1>2 DEF ReconcileExit, ExitFenced, Goto, Unknown, Finish, Spend, LifecycleInv,
     TypeOK, ServiceInv, Open, gateVars, ceVars, mVars, lbVars, envVars
<1>10. EntryInv'
  BY <1>1, <1>2 DEF ReconcileExit, ExitFenced, Goto, Unknown, Finish, Spend,
     LifecycleInv, TypeOK, EntryInv, Open, gateVars, ceVars, mVars, lbVars, envVars
<1>11. ExitInv'
  BY <1>1, <1>2 DEF ReconcileExit, ExitFenced, Goto, Unknown, Finish, Spend,
     LifecycleInv, TypeOK, ExitInv, Open, ExitPcs, gateVars, ceVars, mVars, lbVars,
     envVars
<1> QED
  BY <1>4, <1>5, <1>6, <1>7, <1>8, <1>9, <1>10, <1>11 DEF LifecycleInv

(* The exit binds the replica and closes its route. *)
LEMMA PrepareExitKeeps ==
  ASSUME LifecycleInv, PrepareExit
  PROVE  LifecycleInv'
<1>1. op \in OpIds /\ Open(op)
  BY WorkerRuns DEF PrepareExit
<1>2. FlagsOK'
  BY DEF PrepareExit, Binds, ClosesRoute, DrainAllowed, Goto, LifecycleInv, TypeOK,
     FlagsOK, envVars
<1>3. TypeOK'
  <2>1. /\ bound' \in {bound, bound \cup {op}, bound \ {op}}
        /\ releases' \in {releases, releases \cup {op}}
    BY DEF PrepareExit, Binds, ClosesRoute, DrainAllowed
  <2>2. bound' \subseteq OpIds /\ releases' \subseteq OpIds
    BY <1>1, <2>1 DEF LifecycleInv, TypeOK
  <2> QED
    BY <1>2, <2>2 DEF PrepareExit, Binds, ClosesRoute, DrainAllowed, Goto, Spend,
       LifecycleInv, TypeOK, PcValues, ReplicaStates, journalVars, gateVars, ceVars,
       envVars
<1>4. FreshInv'
  BY LifecycleAssumption DEF PrepareExit, Binds, ClosesRoute, DrainAllowed, Goto,
     LifecycleInv, JournalInv, FreshInv, OperationStatuses, journalVars
<1>5. GateInv'
  BY DEF PrepareExit, Binds, ClosesRoute, DrainAllowed, Goto, Spend, LifecycleInv,
     TypeOK, JournalInv, GateInv, Open, FencedPcs, ReconcilePcs, EntryPcs,
     UnblockedPcs, journalVars, gateVars, ceVars, envVars
<1>6. ServiceInv'
  BY LifecycleAssumption DEF PrepareExit, Binds, ClosesRoute, DrainAllowed, Goto,
     LifecycleInv, JournalInv, ServiceInv, Open, ExitPcs, ReplicaStates,
     journalVars, envVars
<1>7. EntryInv'
  BY <1>1 DEF PrepareExit, Binds, ClosesRoute, DrainAllowed, Goto, LifecycleInv,
     JournalInv, EntryInv, Open, ExitPcs, ExitKinds, EntryKinds, journalVars, ceVars
<1>8. JournalInv' /\ VersionInv' /\ ExitInv'
  BY DEF PrepareExit, Binds, ClosesRoute, DrainAllowed, Goto, LifecycleInv,
     JournalInv, VersionInv, ExitInv, Open, ExitPcs, AddPcs, ReconcilePcs, EntryPcs,
     journalVars, ceVars, envVars
<1> QED
  BY <1>3, <1>4, <1>5, <1>6, <1>7, <1>8 DEF LifecycleInv

(* The drain of the replica ends, or fails. *)
LEMMA DrainKeeps ==
  ASSUME LifecycleInv, Drain
  PROVE  LifecycleInv'
<1>1. FlagsOK'
  BY DEF Drain, Goto, LifecycleInv, TypeOK, FlagsOK, mVars, envVars
<1>2. TypeOK'
  BY <1>1 DEF Drain, Goto, Spend, LifecycleInv, TypeOK, PcValues, journalVars,
     gateVars, ceVars, mVars, lbVars, envVars
<1>3. JournalInv' /\ FreshInv' /\ GateInv' /\ VersionInv' /\ ServiceInv' /\ EntryInv' /\ ExitInv'
  BY DEF Drain, Goto, LifecycleInv, JournalInv, FreshInv, GateInv, VersionInv,
     ServiceInv, EntryInv, ExitInv, Open, ExitPcs, AddPcs, FencedPcs, ReconcilePcs,
     EntryPcs, UnblockedPcs, journalVars, gateVars, ceVars, mVars, lbVars, envVars
<1> QED
  BY <1>2, <1>3 DEF LifecycleInv

(* Whether a failed exit had an effect. *)
LEMMA QueryBindingKeeps ==
  ASSUME LifecycleInv, QueryBinding
  PROVE  LifecycleInv'
<1>1. op \in OpIds /\ Open(op)
  BY WorkerRuns DEF QueryBinding
<1>2. FlagsOK'
  BY DEF QueryBinding, Unknown, Finish, LifecycleInv, TypeOK, FlagsOK, mVars,
     envVars
<1>3. TypeOK'
  BY <1>2 DEF QueryBinding, Unknown, Finish, Spend, LifecycleInv, TypeOK, PcValues,
     OperationStatuses, ceVars, mVars, lbVars, envVars
<1>4. JournalInv'
  BY DEF QueryBinding, Unknown, Finish, Spend, LifecycleInv, TypeOK, JournalInv,
     Open, ExitPcs, AddPcs, ReconcilePcs, EntryPcs, ExitKinds, ceVars, mVars,
     lbVars, envVars
<1>5. FreshInv'
  BY LifecycleAssumption DEF QueryBinding, Unknown, Finish, Spend, LifecycleInv,
     TypeOK, FreshInv, OperationStatuses, ceVars, mVars, lbVars, envVars
<1>6. GateInv'
  BY DEF QueryBinding, Unknown, Finish, Spend, LifecycleInv, TypeOK, GateInv,
     FencedPcs, ReconcilePcs, EntryPcs, UnblockedPcs, ceVars, mVars, lbVars, envVars
<1>7. VersionInv'
  BY DEF QueryBinding, LifecycleInv, VersionInv, ceVars, lbVars, envVars
<1>8. ServiceInv'
  BY DEF QueryBinding, Unknown, Finish, Spend, LifecycleInv, TypeOK, ServiceInv,
     Open, ceVars, mVars, lbVars, envVars
<1>9. EntryInv'
  BY <1>1 DEF QueryBinding, Unknown, Finish, Spend, LifecycleInv, TypeOK, EntryInv,
     Open, ceVars, mVars, lbVars, envVars
<1>10. ExitInv'
  BY <1>1 DEF QueryBinding, Unknown, Finish, Spend, LifecycleInv, TypeOK, ExitInv,
     Open, ExitPcs, ceVars, mVars, lbVars, envVars
<1> QED
  BY <1>3, <1>4, <1>5, <1>6, <1>7, <1>8, <1>9, <1>10 DEF LifecycleInv

(* G is acquired and the replica leaves E. *)
LEMMA RemoveKeeps ==
  ASSUME LifecycleInv, Remove
  PROVE  LifecycleInv'
<1>1. op \in OpIds /\ Open(op)
  BY WorkerRuns DEF Remove
<1>2. FlagsOK'
  BY DEF Remove, Goto, Unknown, Finish, LifecycleInv, TypeOK, FlagsOK, mVars,
     envVars
<1>3. TypeOK'
  BY <1>2 DEF Remove, Goto, Unknown, Finish, Spend, LifecycleInv, TypeOK, PcValues,
     OperationStatuses, ceVars, mVars, lbVars, envVars
<1>4. JournalInv'
  BY DEF Remove, Goto, Unknown, Finish, Spend, LifecycleInv, TypeOK, JournalInv,
     Open, ExitPcs, AddPcs, ReconcilePcs, EntryPcs, ExitKinds, ceVars, mVars,
     lbVars, envVars
<1>5. FreshInv'
  BY LifecycleAssumption DEF Remove, Goto, Unknown, Finish, Spend, LifecycleInv,
     TypeOK, FreshInv, OperationStatuses, ceVars, mVars, lbVars, envVars
<1>6. GateInv'
  BY DEF Remove, Goto, Unknown, Finish, Spend, LifecycleInv, TypeOK, GateInv,
     FencedPcs, ReconcilePcs, EntryPcs, UnblockedPcs, ceVars, mVars, lbVars, envVars
<1>7. VersionInv'
  BY <1>1, LifecycleAssumption DEF Remove, Goto, Unknown, Finish, LifecycleInv,
     VersionInv, ServiceInv, ExitInv, ceVars, mVars, lbVars, envVars
<1>8. ServiceInv'
  BY DEF Remove, Goto, Unknown, Finish, Spend, LifecycleInv, TypeOK, ServiceInv,
     Open, ceVars, mVars, lbVars, envVars
<1>9. EntryInv'
  BY <1>1 DEF Remove, Goto, Unknown, Finish, Spend, LifecycleInv, TypeOK, EntryInv,
     Open, ceVars, mVars, lbVars, envVars
<1>10. ExitInv'
  BY <1>1 DEF Remove, Goto, Unknown, Finish, Spend, LifecycleInv, TypeOK, ExitInv,
     Open, ExitPcs, ceVars, mVars, lbVars, envVars
<1> QED
  BY <1>3, <1>4, <1>5, <1>6, <1>7, <1>8, <1>9, <1>10 DEF LifecycleInv

(* The route and the service lists go. *)
LEMMA CommitExitKeeps ==
  ASSUME LifecycleInv, CommitExit
  PROVE  LifecycleInv'
<1>1. op \in OpIds /\ Open(op)
  BY WorkerRuns DEF CommitExit
<1>2. /\ M' = M /\ bound' = bound /\ gpu' = gpu
      /\ created' = created /\ releases' = releases /\ faults' \in 0..MaxFaults
      /\ serving' = serving \/ serving' = FALSE
      /\ \/ route' = route /\ draining' = draining /\ published' = published
         \/ /\ route' = "none" /\ draining' = None /\ published' = None
            /\ ~ (route # "none" /\ busy)
      /\ pc' = "answer" => route' = "none" /\ serving' = FALSE
  <2>1. command[op] \in ExitKinds /\ pc # "off"
    BY DEF CommitExit, LifecycleInv, JournalInv, ExitPcs
  <2>2. PICK res : CallCommitServiceChange(res) /\ (pc' = "answer" => res = "committed")
    BY DEF CommitExit, Unknown, Finish
  <2> QED
    BY <2>1, <2>2, ExitCall
<1>3. FlagsOK'
  BY <1>2 DEF CommitExit, Goto, Unknown, Finish, LifecycleInv, TypeOK, FlagsOK,
     envVars
<1>4. TypeOK'
  BY <1>2, <1>3 DEF CommitExit, Goto, Unknown, Finish, Spend, LifecycleInv, TypeOK,
     PcValues, OperationStatuses, ceVars, envVars
<1>5. JournalInv'
  BY DEF CommitExit, Goto, Unknown, Finish, Spend, LifecycleInv, TypeOK, JournalInv,
     Open, ExitPcs, AddPcs, ReconcilePcs, EntryPcs, ExitKinds, ceVars, envVars
<1>6. FreshInv'
  BY <1>2, LifecycleAssumption DEF CommitExit, Goto, Unknown, Finish, Spend,
     LifecycleInv, TypeOK, FreshInv, OperationStatuses, ceVars, envVars
<1>7. GateInv'
  BY <1>1, <1>2, LifecycleAssumption DEF CommitExit, Goto, Unknown, Finish, Spend,
     LifecycleInv, TypeOK, GateInv, ServiceInv, ExitInv, FencedPcs, ReconcilePcs,
     EntryPcs, ExitKinds, ceVars, envVars
<1>8. VersionInv'
  BY <1>2 DEF CommitExit, LifecycleInv, VersionInv, ceVars, envVars
<1>9. ServiceInv'
  BY <1>2 DEF CommitExit, Goto, Unknown, Finish, Spend, LifecycleInv, TypeOK,
     ServiceInv, Open, ceVars, envVars
<1>10. EntryInv'
  BY <1>1, <1>2 DEF CommitExit, Goto, Unknown, Finish, Spend, LifecycleInv, TypeOK,
     EntryInv, Open, ceVars, envVars
<1>11. ExitInv'
  BY <1>1, <1>2 DEF CommitExit, Goto, Unknown, Finish, Spend, LifecycleInv, TypeOK,
     ExitInv, Open, ExitPcs, ceVars, envVars
<1> QED
  BY <1>4, <1>5, <1>6, <1>7, <1>8, <1>9, <1>10, <1>11 DEF LifecycleInv

(* The runtime of an exit is released. *)
LEMMA FinalizeExitKeeps ==
  ASSUME LifecycleInv, FinalizeExit
  PROVE  LifecycleInv'
<1>1. op \in OpIds /\ Open(op)
  BY WorkerRuns DEF FinalizeExit
<1>2. /\ created' = created /\ serving' = serving /\ faults' \in 0..MaxFaults
      /\ route' = route /\ draining' = draining /\ published' = published
      /\ \/ M' = M /\ gpu' = gpu /\ bound' = bound /\ releases' = releases
            /\ pc' \notin {"answer", "advance"}
         \/ /\ op \in bound /\ M \in {"DRAINING", "CREATING"}
            /\ route = "none" /\ ~ serving
            /\ M' = IF kind = "NATIVE" THEN "DORMANT" ELSE "RELEASED"
            /\ gpu' \in {gpu, "free"} /\ (command[op] # "RESTORE" => gpu' = "free")
            /\ releases' = releases \cup {op} /\ bound' = bound \ {op}
         \/ /\ op \in bound /\ M \in {"DRAINING", "CREATING"}
            /\ pc' \notin {"answer", "advance"}
            /\ M' = "QUARANTINED" /\ gpu' = "unsure"
            /\ releases' = releases /\ bound' = bound
  <2>1. PICK res : /\ CallFinalizeRelease(res) /\ pc = "finalize"
                   /\ res = "error" => pc' \notin {"answer", "advance"}
    BY DEF FinalizeExit, Unknown, Finish
  <2> QED
    BY <2>1, FinalizeCall
<1>3. FlagsOK'
  BY <1>2 DEF FinalizeExit, Goto, Unknown, Finish, LifecycleInv, TypeOK, FlagsOK,
     envVars
<1>4. TypeOK'
  <2>1. /\ bound' \in {bound, bound \cup {op}, bound \ {op}}
        /\ releases' \in {releases, releases \cup {op}}
    BY <1>2
  <2>2. bound' \subseteq OpIds /\ releases' \subseteq OpIds
    BY <1>1, <2>1 DEF LifecycleInv, TypeOK
  <2> QED
    BY <1>2, <1>3, <2>2 DEF FinalizeExit, Goto, Unknown, Finish, Spend,
       LifecycleInv, TypeOK, PcValues, OperationStatuses, ReplicaStates, ceVars,
       envVars
<1>5. JournalInv'
  BY DEF FinalizeExit, Goto, Unknown, Finish, Spend, LifecycleInv, TypeOK,
     JournalInv, Open, ExitPcs, AddPcs, ReconcilePcs, EntryPcs, ExitKinds, ceVars,
     envVars
<1>6. FreshInv'
  BY <1>2, LifecycleAssumption DEF FinalizeExit, Goto, Unknown, Finish, Spend,
     LifecycleInv, TypeOK, FreshInv, OperationStatuses, ceVars, envVars
<1>7. GateInv'
  BY DEF FinalizeExit, Goto, Unknown, Finish, Spend, LifecycleInv, TypeOK,
     JournalInv, GateInv, Open, FencedPcs, ReconcilePcs, EntryPcs, UnblockedPcs,
     ceVars, envVars
<1>8. VersionInv'
  BY <1>2 DEF FinalizeExit, LifecycleInv, VersionInv, ceVars, envVars
<1>9. ServiceInv'
  BY <1>2, LifecycleAssumption DEF FinalizeExit, Goto, Unknown, Finish, Spend,
     LifecycleInv, TypeOK, JournalInv, ServiceInv, Open, ReplicaStates, ceVars,
     envVars
<1>10. EntryInv'
  BY DEF FinalizeExit, Goto, Unknown, Finish, Spend, LifecycleInv, TypeOK,
     JournalInv, EntryInv, Open, ExitPcs, ExitKinds, EntryKinds, ceVars, envVars
<1>11. ExitInv'
  BY <1>2 DEF FinalizeExit, Goto, Unknown, Finish, Spend, LifecycleInv, TypeOK,
     JournalInv, ExitInv, Open, ExitPcs, ExitKinds, ceVars, envVars
<1> QED
  BY <1>4, <1>5, <1>6, <1>7, <1>8, <1>9, <1>10, <1>11 DEF LifecycleInv

(* The runtime is created or staged. *)
LEMMA PrepareReplicaKeeps ==
  ASSUME LifecycleInv, PrepareReplica
  PROVE  LifecycleInv'
<1>1. op \in OpIds /\ Open(op)
  BY WorkerRuns DEF PrepareReplica
<1>2. FlagsOK'
  BY DEF PrepareReplica, prepare_replica, Create, Stage, Goto, Unknown, Finish,
     LifecycleInv, TypeOK, FlagsOK, envVars
<1>3. TypeOK'
  <2>1. /\ bound' \in {bound, bound \cup {op}, bound \ {op}}
        /\ releases' \in {releases, releases \cup {op}}
    BY DEF PrepareReplica, prepare_replica, Create, Stage
  <2>2. bound' \subseteq OpIds /\ releases' \subseteq OpIds
    BY <1>1, <2>1 DEF LifecycleInv, TypeOK
  <2> QED
    BY <1>2, <2>2 DEF PrepareReplica, prepare_replica, Create, Stage, Goto, Unknown,
       Finish, Spend, LifecycleInv, TypeOK, PcValues, OperationStatuses,
       ReplicaStates, ceVars, lbVars, envVars
<1>4. JournalInv'
  BY DEF PrepareReplica, prepare_replica, Create, Stage, Goto, Unknown, Finish,
     Spend, LifecycleInv, TypeOK, JournalInv, Open, ExitPcs, AddPcs, ReconcilePcs,
     EntryPcs, EntryKinds, ceVars, lbVars, envVars
<1>5. FreshInv'
  BY LifecycleAssumption DEF PrepareReplica, prepare_replica, Create, Stage, Goto,
     Unknown, Finish, Spend, LifecycleInv, TypeOK, JournalInv, FreshInv,
     OperationStatuses, ceVars, lbVars, envVars
<1>6. GateInv'
  BY <1>1, LifecycleAssumption DEF PrepareReplica, prepare_replica, Create, Stage,
     Goto, Unknown, Finish, Spend, LifecycleInv, TypeOK, GateInv, FencedPcs,
     ReconcilePcs, EntryPcs, UnblockedPcs, ReplicaStates, ceVars, lbVars, envVars
<1>7. VersionInv'
  BY DEF PrepareReplica, prepare_replica, Create, Stage, LifecycleInv, VersionInv,
     ceVars, lbVars, envVars
<1>8. ServiceInv'
  BY LifecycleAssumption DEF PrepareReplica, prepare_replica, Create, Stage, Goto,
     Unknown, Finish, Spend, LifecycleInv, TypeOK, ServiceInv, Open, ReplicaStates,
     ceVars, lbVars, envVars
<1>9. EntryInv'
  BY <1>1, LifecycleAssumption DEF PrepareReplica, prepare_replica, Create, Stage,
     Goto, Unknown, Finish, Spend, LifecycleInv, TypeOK, ServiceInv, EntryInv, Open,
     ReplicaStates, ceVars, lbVars, envVars
<1>10. ExitInv'
  BY DEF PrepareReplica, prepare_replica, Create, Stage, Goto, Unknown, Finish,
     Spend, LifecycleInv, TypeOK, JournalInv, ExitInv, Open, ExitPcs, EntryPcs,
     ExitKinds, EntryKinds, ceVars, lbVars, envVars
<1> QED
  BY <1>3, <1>4, <1>5, <1>6, <1>7, <1>8, <1>9, <1>10 DEF LifecycleInv

(* It is not, and nothing of it remains. *)
LEMMA PrepareReplicaFailsKeeps ==
  ASSUME LifecycleInv, PrepareReplicaFails
  PROVE  LifecycleInv'
<1>1. op \in OpIds /\ Open(op)
  BY WorkerRuns DEF PrepareReplicaFails
<1>2. FlagsOK'
  BY DEF PrepareReplicaFails, Goto, Unknown, Finish, LifecycleInv, TypeOK, FlagsOK,
     mVars, envVars
<1>3. TypeOK'
  BY <1>1, <1>2 DEF PrepareReplicaFails, Goto, Unknown, Finish, Spend, LifecycleInv,
     TypeOK, PcValues, OperationStatuses, ceVars, mVars, lbVars, envVars
<1>4. JournalInv'
  BY DEF PrepareReplicaFails, Goto, Unknown, Finish, Spend, LifecycleInv, TypeOK,
     JournalInv, Open, ExitPcs, AddPcs, ReconcilePcs, EntryPcs, EntryKinds, ceVars,
     mVars, lbVars, envVars
<1>5. FreshInv'
  BY LifecycleAssumption DEF PrepareReplicaFails, Unknown, Finish, LifecycleInv,
     FreshInv, OperationStatuses, mVars, lbVars
<1>6. EntryInv'
  BY <1>1 DEF PrepareReplicaFails, Goto, Unknown, Finish, LifecycleInv, EntryInv,
     Open, ceVars, mVars, lbVars
<1>7. ExitInv'
  BY <1>1 DEF PrepareReplicaFails, Goto, Unknown, Finish, LifecycleInv, ExitInv,
     Open, ExitPcs, ceVars, mVars, lbVars
<1>8. GateInv' /\ VersionInv' /\ ServiceInv'
  BY DEF PrepareReplicaFails, Goto, Unknown, Finish, LifecycleInv, GateInv,
     VersionInv, ServiceInv, Open, FencedPcs, ReconcilePcs, EntryPcs, UnblockedPcs,
     ceVars, mVars, lbVars, envVars
<1> QED
  BY <1>3, <1>4, <1>5, <1>6, <1>7, <1>8 DEF LifecycleInv

(* G is acquired for an entry. *)
LEMMA FenceKeeps ==
  ASSUME LifecycleInv, Fence
  PROVE  LifecycleInv'
<1>1. op \in OpIds /\ Open(op)
  BY WorkerRuns DEF Fence
<1>2. FlagsOK'
  BY DEF Fence, Goto, Unknown, Finish, LifecycleInv, TypeOK, FlagsOK, mVars, envVars
<1>3. TypeOK'
  BY <1>2 DEF Fence, Goto, Unknown, Finish, Spend, LifecycleInv, TypeOK, PcValues,
     OperationStatuses, ceVars, mVars, lbVars, envVars
<1>4. JournalInv'
  BY DEF Fence, Goto, Unknown, Finish, Spend, LifecycleInv, TypeOK, JournalInv,
     Open, ExitPcs, AddPcs, ReconcilePcs, EntryPcs, EntryKinds, ceVars, mVars,
     lbVars, envVars
<1>5. FreshInv'
  BY LifecycleAssumption DEF Fence, Goto, Unknown, Finish, Spend, LifecycleInv,
     TypeOK, FreshInv, OperationStatuses, ceVars, mVars, lbVars, envVars
<1>6. GateInv'
  BY DEF Fence, Goto, Unknown, Finish, Spend, LifecycleInv, TypeOK, GateInv,
     FencedPcs, ReconcilePcs, EntryPcs, UnblockedPcs, ceVars, mVars, lbVars, envVars
<1>7. VersionInv'
  BY DEF Fence, LifecycleInv, VersionInv, ceVars, lbVars, envVars
<1>8. ServiceInv'
  BY DEF Fence, Goto, Unknown, Finish, Spend, LifecycleInv, TypeOK, ServiceInv,
     Open, ceVars, mVars, lbVars, envVars
<1>9. EntryInv'
  BY <1>1 DEF Fence, Goto, Unknown, Finish, Spend, LifecycleInv, TypeOK, EntryInv,
     Open, ceVars, mVars, lbVars, envVars
<1>10. ExitInv'
  BY <1>1 DEF Fence, Goto, Unknown, Finish, Spend, LifecycleInv, TypeOK, ExitInv,
     Open, ExitPcs, ceVars, mVars, lbVars, envVars
<1> QED
  BY <1>3, <1>4, <1>5, <1>6, <1>7, <1>8, <1>9, <1>10 DEF LifecycleInv

(* The replay of an entry that had blocked G. *)
LEMMA ReconcilePublishKeeps ==
  ASSUME LifecycleInv, ReconcilePublish
  PROVE  LifecycleInv'
<1>1. op \in OpIds /\ Open(op)
  BY WorkerRuns DEF ReconcilePublish
<1>2. /\ created' = created /\ releases' = releases /\ faults' \in 0..MaxFaults
      /\ draining' = draining /\ bound' \in {bound, bound \ {op}}
      /\ \/ M' = M /\ serving' = serving /\ gpu' = gpu /\ route' = route
            /\ published' = published
         \/ /\ op \in bound /\ M \in {"CREATING", "DORMANT"}
            /\ M' = "ACTIVE" /\ serving' = TRUE /\ gpu' = "held"
            /\ \/ route' = route /\ published' = published
               \/ route' = "open" /\ published' = op
         \/ /\ op \in bound /\ M \in {"CREATING", "DORMANT"}
            /\ M' = "QUARANTINED" /\ gpu' \in {gpu, "unsure"}
            /\ serving' = serving /\ route' = route /\ published' = published
         \/ /\ op \in bound /\ M \in {"CREATING", "DORMANT", "ACTIVE", "DRAINING"}
            /\ M' = "DRAINING" /\ gpu' \in {gpu, "held"} /\ serving' = FALSE
            /\ route = "none" /\ route' = "none" /\ published' \in {published, None}
      /\ pc' = "reconcile_release" => route' = "none"
  <2>1. command[op] \in EntryKinds /\ pc # "off"
    BY DEF ReconcilePublish, LifecycleInv, JournalInv, EntryPcs, ReconcilePcs
  <2>2. PICK res : CallCommitServiceChange(res) /\ (pc' = "reconcile_release" => res = "absent")
    BY DEF ReconcilePublish, Goto, Unknown, Finish
  <2> QED
    BY <2>1, <2>2, EntryCall
<1>3. FlagsOK'
  BY <1>2 DEF ReconcilePublish, Withdraw, Goto, Unknown, Finish, LifecycleInv,
     TypeOK, FlagsOK, envVars
<1>4. TypeOK'
  BY <1>2, <1>3 DEF ReconcilePublish, Withdraw, Goto, Unknown, Finish, Spend,
     LifecycleInv, TypeOK, PcValues, OperationStatuses, ReplicaStates, gateVars,
     ceVars, envVars
<1>5. JournalInv'
  BY DEF ReconcilePublish, Withdraw, Goto, Unknown, Finish, Spend, LifecycleInv,
     TypeOK, JournalInv, Open, ExitPcs, AddPcs, ReconcilePcs, EntryPcs, EntryKinds,
     gateVars, ceVars, envVars
<1>6. FreshInv'
  BY <1>2, LifecycleAssumption DEF ReconcilePublish, Withdraw, Goto, Unknown,
     Finish, Spend, LifecycleInv, TypeOK, FreshInv, OperationStatuses, gateVars,
     ceVars, envVars
<1>7. GateInv'
  BY <1>1, <1>2, LifecycleAssumption DEF ReconcilePublish, Withdraw, Goto, Unknown,
     Finish, Spend, LifecycleInv, TypeOK, JournalInv, GateInv, ServiceInv,
     FencedPcs, ReconcilePcs, EntryPcs, UnblockedPcs, ExitKinds, EntryKinds,
     ReplicaStates, gateVars, ceVars, envVars
<1>8. VersionInv'
  BY <1>2 DEF ReconcilePublish, Withdraw, Goto, Unknown, Finish, LifecycleInv,
     VersionInv, EntryInv, ceVars, envVars
<1>9. ServiceInv'
  BY <1>1, <1>2, LifecycleAssumption DEF ReconcilePublish, Withdraw, Goto, Unknown,
     Finish, Spend, LifecycleInv, TypeOK, JournalInv, ServiceInv, ReconcilePcs,
     EntryPcs, ExitKinds, EntryKinds, ReplicaStates, gateVars, ceVars, envVars
<1>10. EntryInv'
  BY <1>2 DEF ReconcilePublish, Withdraw, Goto, Unknown, Finish, Spend,
     LifecycleInv, TypeOK, JournalInv, EntryInv, Open, gateVars, ceVars, envVars
<1>11. ExitInv'
  BY <1>2 DEF ReconcilePublish, Withdraw, Goto, Unknown, Finish, Spend,
     LifecycleInv, TypeOK, JournalInv, ExitInv, Open, ExitPcs, ReconcilePcs,
     EntryPcs, ExitKinds, EntryKinds, gateVars, ceVars, envVars
<1> QED
  BY <1>4, <1>5, <1>6, <1>7, <1>8, <1>9, <1>10, <1>11 DEF LifecycleInv

(* Its target is released. *)
LEMMA ReconcileReleaseKeeps ==
  ASSUME LifecycleInv, ReconcileRelease
  PROVE  LifecycleInv'
<1>1. op \in OpIds /\ Open(op)
  BY WorkerRuns DEF ReconcileRelease
<1>2. /\ created' = created /\ serving' = serving /\ faults' \in 0..MaxFaults
      /\ route' = route /\ draining' = draining /\ published' = published
      /\ \/ M' = M /\ gpu' = gpu /\ bound' = bound /\ releases' = releases
            /\ pc' \notin {"answer", "advance"}
         \/ /\ op \in bound /\ M \in {"DRAINING", "CREATING"}
            /\ route = "none" /\ ~ serving
            /\ M' = IF kind = "NATIVE" THEN "DORMANT" ELSE "RELEASED"
            /\ gpu' \in {gpu, "free"} /\ (command[op] # "RESTORE" => gpu' = "free")
            /\ releases' = releases \cup {op} /\ bound' = bound \ {op}
         \/ /\ op \in bound /\ M \in {"DRAINING", "CREATING"}
            /\ pc' \notin {"answer", "advance"}
            /\ M' = "QUARANTINED" /\ gpu' = "unsure"
            /\ releases' = releases /\ bound' = bound
  <2>1. PICK res : /\ CallFinalizeRelease(res) /\ pc = "reconcile_release"
                   /\ res = "error" => pc' \notin {"answer", "advance"}
    BY DEF ReconcileRelease, Unknown, Finish
  <2> QED
    BY <2>1, FinalizeCall
<1>3. FlagsOK'
  BY <1>2 DEF ReconcileRelease, Goto, Unknown, Finish, LifecycleInv, TypeOK,
     FlagsOK, envVars
<1>4. TypeOK'
  <2>1. /\ bound' \in {bound, bound \cup {op}, bound \ {op}}
        /\ releases' \in {releases, releases \cup {op}}
    BY <1>2
  <2>2. bound' \subseteq OpIds /\ releases' \subseteq OpIds
    BY <1>1, <2>1 DEF LifecycleInv, TypeOK
  <2> QED
    BY <1>2, <1>3, <2>2 DEF ReconcileRelease, Goto, Unknown, Finish, Spend,
       LifecycleInv, TypeOK, PcValues, OperationStatuses, ReplicaStates, ceVars,
       envVars
<1>5. JournalInv'
  BY DEF ReconcileRelease, Goto, Unknown, Finish, Spend, LifecycleInv, TypeOK,
     JournalInv, Open, ExitPcs, AddPcs, ReconcilePcs, EntryPcs, EntryKinds, ceVars,
     envVars
<1>6. FreshInv'
  BY <1>2, LifecycleAssumption DEF ReconcileRelease, Goto, Unknown, Finish, Spend,
     LifecycleInv, TypeOK, FreshInv, OperationStatuses, ceVars, envVars
<1>7. GateInv'
  BY <1>2, LifecycleAssumption DEF ReconcileRelease, Goto, Unknown, Finish, Spend,
     LifecycleInv, TypeOK, JournalInv, GateInv, ServiceInv, FencedPcs, ReconcilePcs,
     EntryPcs, ExitKinds, EntryKinds, ReplicaStates, ceVars, envVars
<1>8. VersionInv'
  BY <1>2 DEF ReconcileRelease, LifecycleInv, VersionInv, ceVars, envVars
<1>9. ServiceInv'
  BY <1>1, <1>2, LifecycleAssumption DEF ReconcileRelease, Goto, Unknown, Finish,
     Spend, LifecycleInv, TypeOK, JournalInv, ServiceInv, ReconcilePcs, EntryPcs,
     ExitKinds, EntryKinds, ReplicaStates, ceVars, envVars
<1>10. EntryInv'
  BY <1>2 DEF ReconcileRelease, Goto, Unknown, Finish, Spend, LifecycleInv, TypeOK,
     JournalInv, EntryInv, Open, ceVars, envVars
<1>11. ExitInv'
  BY <1>2 DEF ReconcileRelease, Goto, Unknown, Finish, Spend, LifecycleInv, TypeOK,
     JournalInv, ExitInv, Open, ExitPcs, ReconcilePcs, EntryPcs, ExitKinds,
     EntryKinds, ceVars, envVars
<1> QED
  BY <1>4, <1>5, <1>6, <1>7, <1>8, <1>9, <1>10, <1>11 DEF LifecycleInv

(* The target of an ADD is parked. *)
LEMMA RegisterAddKeeps ==
  ASSUME LifecycleInv, RegisterAdd
  PROVE  LifecycleInv'
<1>1. FlagsOK'
  BY DEF RegisterAdd, HasRuntime, Registrable, Goto, LifecycleInv, TypeOK, FlagsOK,
     mVars, envVars
<1>2. TypeOK'
  BY <1>1 DEF RegisterAdd, HasRuntime, Registrable, Goto, Spend, LifecycleInv,
     TypeOK, PcValues, journalVars, gateVars, mVars, lbVars, envVars
<1>3. JournalInv' /\ FreshInv' /\ GateInv' /\ VersionInv' /\ ServiceInv' /\ EntryInv' /\ ExitInv'
  BY DEF RegisterAdd, HasRuntime, Registrable, Goto, LifecycleInv, JournalInv,
     FreshInv, GateInv, VersionInv, ServiceInv, EntryInv, ExitInv, Open, ExitPcs,
     FencedPcs, ReconcilePcs, EntryPcs, UnblockedPcs, EntryKinds, journalVars,
     gateVars, mVars, lbVars, envVars
<1> QED
  BY <1>2, <1>3 DEF LifecycleInv

(* The target of a RESTORE is parked. *)
LEMMA RegisterRestoreKeeps ==
  ASSUME LifecycleInv, RegisterRestore
  PROVE  LifecycleInv'
<1>1. op \in OpIds /\ Open(op)
  BY WorkerRuns DEF RegisterRestore
<1>2. FlagsOK'
  BY DEF RegisterRestore, Goto, Unknown, Finish, LifecycleInv, TypeOK, FlagsOK,
     mVars, envVars
<1>3. TypeOK'
  BY <1>2 DEF RegisterRestore, Goto, Unknown, Finish, Spend, LifecycleInv, TypeOK,
     PcValues, OperationStatuses, mVars, lbVars, envVars
<1>4. JournalInv'
  BY DEF RegisterRestore, Goto, Unknown, Finish, Spend, LifecycleInv, TypeOK,
     JournalInv, Open, ExitPcs, AddPcs, ReconcilePcs, EntryPcs, mVars, lbVars,
     envVars
<1>5. FreshInv'
  BY LifecycleAssumption DEF RegisterRestore, Goto, Unknown, Finish, Spend,
     LifecycleInv, TypeOK, FreshInv, OperationStatuses, mVars, lbVars, envVars
<1>6. GateInv'
  BY DEF RegisterRestore, Goto, Unknown, Finish, Spend, LifecycleInv, TypeOK,
     GateInv, FencedPcs, ReconcilePcs, EntryPcs, UnblockedPcs, mVars, lbVars,
     envVars
<1>7. VersionInv'
  BY DEF RegisterRestore, LifecycleInv, VersionInv, lbVars, envVars
<1>8. ServiceInv'
  BY DEF RegisterRestore, Goto, Unknown, Finish, Spend, LifecycleInv, TypeOK,
     ServiceInv, Open, mVars, lbVars, envVars
<1>9. EntryInv'
  BY <1>1 DEF RegisterRestore, Goto, Unknown, Finish, Spend, LifecycleInv, TypeOK,
     EntryInv, Open, mVars, lbVars, envVars
<1>10. ExitInv'
  BY DEF RegisterRestore, Goto, Unknown, Finish, Spend, LifecycleInv, TypeOK,
     ExitInv, Open, ExitPcs, ExitKinds, mVars, lbVars, envVars
<1> QED
  BY <1>3, <1>4, <1>5, <1>6, <1>7, <1>8, <1>9, <1>10 DEF LifecycleInv

(* The weights of an ADD. *)
LEMMA BootstrapAddKeeps ==
  ASSUME LifecycleInv, BootstrapAdd
  PROVE  LifecycleInv'
<1>1. op \in OpIds /\ Open(op)
  BY WorkerRuns DEF BootstrapAdd
<1>2. FlagsOK'
  BY DEF BootstrapAdd, Goto, LifecycleInv, TypeOK, FlagsOK, mVars, envVars
<1>3. TypeOK'
  BY <1>1, <1>2 DEF BootstrapAdd, Goto, Spend, LifecycleInv, TypeOK, PcValues,
     journalVars, gateVars, mVars, lbVars, envVars
<1>4. JournalInv' /\ FreshInv' /\ GateInv' /\ VersionInv' /\ ServiceInv' /\ EntryInv' /\ ExitInv'
  BY DEF BootstrapAdd, Goto, LifecycleInv, JournalInv, FreshInv, GateInv,
     VersionInv, ServiceInv, EntryInv, ExitInv, Open, ExitPcs, FencedPcs,
     ReconcilePcs, EntryPcs, UnblockedPcs, EntryKinds, journalVars, gateVars, mVars,
     lbVars, envVars
<1> QED
  BY <1>3, <1>4 DEF LifecycleInv

(* The weights of a RESTORE. *)
LEMMA BootstrapRestoreKeeps ==
  ASSUME LifecycleInv, BootstrapRestore
  PROVE  LifecycleInv'
<1>1. op \in OpIds /\ Open(op)
  BY WorkerRuns DEF BootstrapRestore
<1>2. FlagsOK'
  BY DEF BootstrapRestore, Goto, LifecycleInv, TypeOK, FlagsOK, mVars, envVars
<1>3. TypeOK'
  BY <1>1, <1>2 DEF BootstrapRestore, Goto, Spend, LifecycleInv, TypeOK, PcValues,
     journalVars, mVars, lbVars, envVars
<1>4. GateInv'
  BY <1>1, LifecycleAssumption DEF BootstrapRestore, Goto, LifecycleInv, GateInv,
     FencedPcs, ReconcilePcs, journalVars, mVars
<1>5. ServiceInv'
  BY <1>1 DEF BootstrapRestore, Goto, LifecycleInv, JournalInv, ServiceInv, Open,
     journalVars, mVars, lbVars, envVars
<1>6. ExitInv'
  BY <1>1 DEF BootstrapRestore, Goto, LifecycleInv, JournalInv, ExitInv, Open,
     ExitPcs, ExitKinds, journalVars, mVars, lbVars
<1>7. JournalInv' /\ FreshInv' /\ VersionInv' /\ EntryInv'
  BY DEF BootstrapRestore, Goto, LifecycleInv, JournalInv, FreshInv, VersionInv,
     EntryInv, Open, ExitPcs, AddPcs, EntryKinds, journalVars, mVars, lbVars,
     envVars
<1> QED
  BY <1>3, <1>4, <1>5, <1>6, <1>7 DEF LifecycleInv

(* The target enters E. *)
LEMMA CommitPendingKeeps ==
  ASSUME LifecycleInv, CommitPending
  PROVE  LifecycleInv'
<1>1. op \in OpIds /\ Open(op)
  BY WorkerRuns DEF CommitPending
<1>2. FlagsOK'
  BY DEF CommitPending, Goto, LifecycleInv, TypeOK, FlagsOK, mVars, envVars
<1>3. TypeOK'
  BY <1>2 DEF CommitPending, Goto, LifecycleInv, TypeOK, PcValues, journalVars,
     gateVars, mVars, lbVars, envVars
<1>4. GateInv'
  BY LifecycleAssumption DEF CommitPending, Goto, LifecycleInv, TypeOK, GateInv,
     FencedPcs, ReconcilePcs, EntryPcs, UnblockedPcs, journalVars, gateVars, mVars,
     lbVars, envVars
<1>5. EntryInv'
  BY LifecycleAssumption DEF CommitPending, Goto, LifecycleInv, TypeOK, EntryInv,
     Open, journalVars, gateVars, mVars, lbVars, envVars
<1>6. ExitInv'
  BY <1>1 DEF CommitPending, Goto, LifecycleInv, JournalInv, ExitInv, Open, ExitPcs,
     EntryPcs, ExitKinds, EntryKinds, journalVars, mVars, lbVars
<1>7. JournalInv' /\ FreshInv' /\ VersionInv' /\ ServiceInv'
  BY DEF CommitPending, Goto, LifecycleInv, JournalInv, FreshInv, VersionInv,
     ServiceInv, Open, ExitPcs, AddPcs, EntryPcs, EntryKinds, journalVars, mVars,
     lbVars, envVars
<1> QED
  BY <1>3, <1>4, <1>5, <1>6, <1>7 DEF LifecycleInv

(* The target enters C, M and R. *)
LEMMA PublishKeeps ==
  ASSUME LifecycleInv, Publish
  PROVE  LifecycleInv'
<1>1. op \in OpIds /\ Open(op)
  BY WorkerRuns DEF Publish
<1>2. /\ created' = created /\ releases' = releases /\ faults' \in 0..MaxFaults
      /\ draining' = draining /\ bound' \in {bound, bound \ {op}}
      /\ \/ M' = M /\ serving' = serving /\ gpu' = gpu /\ route' = route
            /\ published' = published
         \/ /\ op \in bound /\ M \in {"CREATING", "DORMANT"}
            /\ M' = "ACTIVE" /\ serving' = TRUE /\ gpu' = "held"
            /\ \/ route' = route /\ published' = published
               \/ route' = "open" /\ published' = op
         \/ /\ op \in bound /\ M \in {"CREATING", "DORMANT"}
            /\ M' = "QUARANTINED" /\ gpu' \in {gpu, "unsure"}
            /\ serving' = serving /\ route' = route /\ published' = published
         \/ /\ op \in bound /\ M \in {"CREATING", "DORMANT", "ACTIVE", "DRAINING"}
            /\ M' = "DRAINING" /\ gpu' \in {gpu, "held"} /\ serving' = FALSE
            /\ route = "none" /\ route' = "none" /\ published' \in {published, None}
      /\ pc' = "roll_back" => route' = "none"
  <2>1. command[op] \in EntryKinds /\ pc # "off"
    BY DEF Publish, LifecycleInv, JournalInv, EntryPcs, ReconcilePcs
  <2>2. PICK res : CallCommitServiceChange(res) /\ (pc' = "roll_back" => res = "absent")
    BY DEF Publish, PublicationFailed, Goto, Unknown, Finish
  <2> QED
    BY <2>1, <2>2, EntryCall
<1>3. FlagsOK'
  BY <1>2 DEF Publish, PublicationFailed, Withdraw, Goto, Unknown, Finish,
     LifecycleInv, TypeOK, FlagsOK, envVars
<1>4. TypeOK'
  BY <1>2, <1>3 DEF Publish, PublicationFailed, Withdraw, Goto, Unknown, Finish,
     Spend, LifecycleInv, TypeOK, PcValues, OperationStatuses, ReplicaStates,
     gateVars, ceVars, envVars
<1>5. JournalInv'
  BY DEF Publish, PublicationFailed, Withdraw, Goto, Unknown, Finish, Spend,
     LifecycleInv, TypeOK, JournalInv, Open, ExitPcs, AddPcs, ReconcilePcs,
     EntryPcs, EntryKinds, gateVars, ceVars, envVars
<1>6. FreshInv'
  BY <1>2, LifecycleAssumption DEF Publish, PublicationFailed, Withdraw, Goto,
     Unknown, Finish, Spend, LifecycleInv, TypeOK, FreshInv, OperationStatuses,
     gateVars, ceVars, envVars
<1>7. GateInv'
  BY <1>1, <1>2, LifecycleAssumption DEF Publish, PublicationFailed, Withdraw, Goto,
     Unknown, Finish, Spend, LifecycleInv, TypeOK, GateInv, FencedPcs, ReconcilePcs,
     EntryPcs, ExitKinds, ReplicaStates, gateVars, ceVars, envVars
<1>8. VersionInv'
  BY <1>2 DEF Publish, PublicationFailed, Withdraw, Goto, Unknown, Finish,
     LifecycleInv, VersionInv, EntryInv, ceVars, envVars
<1>9. ServiceInv'
  BY <1>1, <1>2, LifecycleAssumption DEF Publish, PublicationFailed, Withdraw, Goto,
     Unknown, Finish, Spend, LifecycleInv, TypeOK, JournalInv, ServiceInv, EntryPcs,
     ExitKinds, EntryKinds, ReplicaStates, gateVars, ceVars, envVars
<1>10. EntryInv'
  BY <1>2 DEF Publish, PublicationFailed, Withdraw, Goto, Unknown, Finish, Spend,
     LifecycleInv, TypeOK, JournalInv, EntryInv, Open, gateVars, ceVars, envVars
<1>11. ExitInv'
  BY <1>2 DEF Publish, PublicationFailed, Withdraw, Goto, Unknown, Finish, Spend,
     LifecycleInv, TypeOK, JournalInv, ExitInv, Open, ExitPcs, EntryPcs, ExitKinds,
     EntryKinds, gateVars, ceVars, envVars
<1> QED
  BY <1>4, <1>5, <1>6, <1>7, <1>8, <1>9, <1>10, <1>11 DEF LifecycleInv

(* A target whose route was refused is released. *)
LEMMA RollBackKeeps ==
  ASSUME LifecycleInv, RollBack
  PROVE  LifecycleInv'
<1>1. op \in OpIds /\ Open(op)
  BY WorkerRuns DEF RollBack
<1>2. /\ created' = created /\ serving' = serving /\ faults' \in 0..MaxFaults
      /\ route' = route /\ draining' = draining /\ published' = published
      /\ \/ M' = M /\ gpu' = gpu /\ bound' = bound /\ releases' = releases
            /\ pc' \notin {"answer", "advance"}
         \/ /\ op \in bound /\ M \in {"DRAINING", "CREATING"}
            /\ route = "none" /\ ~ serving
            /\ M' = IF kind = "NATIVE" THEN "DORMANT" ELSE "RELEASED"
            /\ gpu' \in {gpu, "free"} /\ (command[op] # "RESTORE" => gpu' = "free")
            /\ releases' = releases \cup {op} /\ bound' = bound \ {op}
         \/ /\ op \in bound /\ M \in {"DRAINING", "CREATING"}
            /\ pc' \notin {"answer", "advance"}
            /\ M' = "QUARANTINED" /\ gpu' = "unsure"
            /\ releases' = releases /\ bound' = bound
  <2>1. PICK res : /\ CallFinalizeRelease(res) /\ pc = "roll_back"
                   /\ res = "error" => pc' \notin {"answer", "advance"}
    BY DEF RollBack, PublicationFailed, Goto, Unknown, Finish
  <2> QED
    BY <2>1, FinalizeCall
<1>3. FlagsOK'
  BY <1>2 DEF RollBack, PublicationFailed, Goto, Unknown, Finish, LifecycleInv,
     TypeOK, FlagsOK, envVars
<1>4. TypeOK'
  <2>1. /\ bound' \in {bound, bound \cup {op}, bound \ {op}}
        /\ releases' \in {releases, releases \cup {op}}
    BY <1>2
  <2>2. bound' \subseteq OpIds /\ releases' \subseteq OpIds
    BY <1>1, <2>1 DEF LifecycleInv, TypeOK
  <2> QED
    BY <1>2, <1>3, <2>2 DEF RollBack, PublicationFailed, Goto, Unknown, Finish,
       Spend, LifecycleInv, TypeOK, PcValues, OperationStatuses, ReplicaStates,
       gateVars, ceVars, envVars
<1>5. JournalInv'
  BY DEF RollBack, PublicationFailed, Goto, Unknown, Finish, Spend, LifecycleInv,
     TypeOK, JournalInv, Open, ExitPcs, AddPcs, ReconcilePcs, EntryPcs, EntryKinds,
     gateVars, ceVars, envVars
<1>6. FreshInv'
  BY <1>2, LifecycleAssumption DEF RollBack, PublicationFailed, Goto, Unknown,
     Finish, Spend, LifecycleInv, TypeOK, FreshInv, OperationStatuses, gateVars,
     ceVars, envVars
<1>7. GateInv'
  BY <1>2, LifecycleAssumption DEF RollBack, PublicationFailed, Goto, Unknown,
     Finish, Spend, LifecycleInv, TypeOK, GateInv, FencedPcs, ReconcilePcs,
     EntryPcs, UnblockedPcs, ExitKinds, ReplicaStates, gateVars, ceVars, envVars
<1>8. VersionInv'
  BY <1>2 DEF RollBack, PublicationFailed, LifecycleInv, VersionInv, ceVars, envVars
<1>9. ServiceInv'
  BY <1>1, <1>2, LifecycleAssumption DEF RollBack, PublicationFailed, Goto, Unknown,
     Finish, Spend, LifecycleInv, TypeOK, JournalInv, ServiceInv, AddPcs, EntryPcs,
     ExitKinds, EntryKinds, ReplicaStates, gateVars, ceVars, envVars
<1>10. EntryInv'
  BY <1>2 DEF RollBack, PublicationFailed, Goto, Unknown, Finish, Spend,
     LifecycleInv, TypeOK, JournalInv, EntryInv, Open, gateVars, ceVars, envVars
<1>11. ExitInv'
  BY <1>2 DEF RollBack, PublicationFailed, Goto, Unknown, Finish, Spend,
     LifecycleInv, TypeOK, JournalInv, ExitInv, Open, ExitPcs, EntryPcs, ExitKinds,
     EntryKinds, gateVars, ceVars, envVars
<1> QED
  BY <1>4, <1>5, <1>6, <1>7, <1>8, <1>9, <1>10, <1>11 DEF LifecycleInv

(* The registration of a failed ADD goes. *)
LEMMA DiscardKeeps ==
  ASSUME LifecycleInv, Discard
  PROVE  LifecycleInv'
<1>1. FlagsOK'
  BY DEF Discard, Goto, LifecycleInv, TypeOK, FlagsOK, mVars, envVars
<1>2. TypeOK'
  BY <1>1 DEF Discard, Goto, LifecycleInv, TypeOK, PcValues, journalVars, gateVars,
     mVars, lbVars, envVars
<1>3. JournalInv' /\ FreshInv' /\ GateInv' /\ VersionInv' /\ ServiceInv' /\ EntryInv' /\ ExitInv'
  BY DEF Discard, Goto, LifecycleInv, JournalInv, FreshInv, GateInv, VersionInv,
     ServiceInv, EntryInv, ExitInv, Open, ExitPcs, AddPcs, FencedPcs, ReconcilePcs,
     EntryPcs, UnblockedPcs, EntryKinds, journalVars, gateVars, mVars, lbVars,
     envVars
<1> QED
  BY <1>2, <1>3 DEF LifecycleInv

(* So does its runtime. *)
LEMMA ReleaseHiddenKeeps ==
  ASSUME LifecycleInv, ReleaseHidden
  PROVE  LifecycleInv'
<1>1. op \in OpIds /\ Open(op)
  BY WorkerRuns DEF ReleaseHidden
<1>2. /\ created' = created /\ serving' = serving /\ faults' \in 0..MaxFaults
      /\ route' = route /\ draining' = draining /\ published' = published
      /\ \/ M' = M /\ gpu' = gpu /\ bound' = bound /\ releases' = releases
            /\ pc' \notin {"answer", "advance"}
         \/ /\ op \in bound /\ M \in {"DRAINING", "CREATING"}
            /\ route = "none" /\ ~ serving
            /\ M' = IF kind = "NATIVE" THEN "DORMANT" ELSE "RELEASED"
            /\ gpu' \in {gpu, "free"} /\ (command[op] # "RESTORE" => gpu' = "free")
            /\ releases' = releases \cup {op} /\ bound' = bound \ {op}
         \/ /\ op \in bound /\ M \in {"DRAINING", "CREATING"}
            /\ pc' \notin {"answer", "advance"}
            /\ M' = "QUARANTINED" /\ gpu' = "unsure"
            /\ releases' = releases /\ bound' = bound
  <2>1. PICK res : /\ CallFinalizeRelease(res) /\ pc = "release_hidden"
                   /\ res = "error" => pc' \notin {"answer", "advance"}
    BY DEF ReleaseHidden, Unknown, Finish
  <2> QED
    BY <2>1, FinalizeCall
<1>3. FlagsOK'
  BY <1>2 DEF ReleaseHidden, Goto, Unknown, Finish, LifecycleInv, TypeOK, FlagsOK,
     envVars
<1>4. TypeOK'
  <2>1. /\ bound' \in {bound, bound \cup {op}, bound \ {op}}
        /\ releases' \in {releases, releases \cup {op}}
    BY <1>2
  <2>2. bound' \subseteq OpIds /\ releases' \subseteq OpIds
    BY <1>1, <2>1 DEF LifecycleInv, TypeOK
  <2> QED
    BY <1>2, <1>3, <2>2 DEF ReleaseHidden, Goto, Unknown, Finish, Spend,
       LifecycleInv, TypeOK, PcValues, OperationStatuses, ReplicaStates, ceVars,
       envVars
<1>5. JournalInv'
  BY DEF ReleaseHidden, Goto, Unknown, Finish, Spend, LifecycleInv, TypeOK,
     JournalInv, Open, ExitPcs, AddPcs, ReconcilePcs, EntryPcs, ceVars, envVars
<1>6. FreshInv'
  BY <1>2, LifecycleAssumption DEF ReleaseHidden, Goto, Unknown, Finish, Spend,
     LifecycleInv, TypeOK, FreshInv, GateInv, OperationStatuses, ceVars, envVars
<1>7. GateInv'
  BY <1>2, LifecycleAssumption DEF ReleaseHidden, Goto, Unknown, Finish, Spend,
     LifecycleInv, TypeOK, JournalInv, GateInv, FencedPcs, ReconcilePcs, EntryPcs,
     ExitKinds, EntryKinds, ReplicaStates, ceVars, envVars
<1>8. VersionInv'
  BY <1>2 DEF ReleaseHidden, LifecycleInv, VersionInv, ceVars, envVars
<1>9. ServiceInv'
  BY <1>1, <1>2, LifecycleAssumption DEF ReleaseHidden, Goto, Unknown, Finish,
     Spend, LifecycleInv, TypeOK, JournalInv, ServiceInv, EntryPcs, ExitKinds,
     EntryKinds, ReplicaStates, ceVars, envVars
<1>10. EntryInv'
  BY <1>2 DEF ReleaseHidden, Goto, Unknown, Finish, Spend, LifecycleInv, TypeOK,
     JournalInv, EntryInv, Open, ceVars, envVars
<1>11. ExitInv'
  BY <1>2 DEF ReleaseHidden, Goto, Unknown, Finish, Spend, LifecycleInv, TypeOK,
     JournalInv, ExitInv, Open, ExitPcs, EntryPcs, ExitKinds, EntryKinds, ceVars,
     envVars
<1> QED
  BY <1>4, <1>5, <1>6, <1>7, <1>8, <1>9, <1>10, <1>11 DEF LifecycleInv

(* A failed RESTORE blocks G. *)
LEMMA RestoreFailedKeeps ==
  ASSUME LifecycleInv, RestoreFailed
  PROVE  LifecycleInv'
<1>1. op \in OpIds /\ Open(op)
  BY WorkerRuns DEF RestoreFailed
<1>2. FlagsOK'
  BY DEF RestoreFailed, Unknown, Finish, LifecycleInv, TypeOK, FlagsOK, envVars
<1>3. TypeOK'
  BY <1>1, <1>2 DEF RestoreFailed, Unknown, Finish, Spend, LifecycleInv, TypeOK,
     PcValues, OperationStatuses, ReplicaStates, ceVars, lbVars, envVars
<1>4. JournalInv'
  BY DEF RestoreFailed, Unknown, Finish, Spend, LifecycleInv, TypeOK, JournalInv,
     Open, ExitPcs, AddPcs, ReconcilePcs, EntryPcs, ceVars, lbVars, envVars
<1>5. FreshInv'
  BY LifecycleAssumption DEF RestoreFailed, Unknown, Finish, LifecycleInv, FreshInv,
     OperationStatuses
<1>6. GateInv'
  BY DEF RestoreFailed, Unknown, Finish, LifecycleInv, JournalInv, GateInv,
     FencedPcs, ReconcilePcs, EntryPcs, ExitKinds, ceVars
<1>7. VersionInv'
  BY DEF RestoreFailed, LifecycleInv, VersionInv, ceVars, lbVars, envVars
<1>8. ServiceInv'
  BY LifecycleAssumption DEF RestoreFailed, Unknown, Finish, LifecycleInv,
     ServiceInv, Open, ReplicaStates, lbVars, envVars
<1>9. EntryInv'
  BY <1>1 DEF RestoreFailed, Unknown, Finish, LifecycleInv, EntryInv, Open, ceVars,
     lbVars
<1>10. ExitInv'
  BY <1>1 DEF RestoreFailed, Unknown, Finish, LifecycleInv, JournalInv, ExitInv,
     Open, ExitPcs, ceVars, lbVars
<1> QED
  BY <1>3, <1>4, <1>5, <1>6, <1>7, <1>8, <1>9, <1>10 DEF LifecycleInv

(* The answer of the Trainer. *)
LEMMA AnswerKeeps ==
  ASSUME LifecycleInv, Answer
  PROVE  LifecycleInv'
<1>1. op \in OpIds /\ Open(op)
  BY WorkerRuns DEF Answer
<1>2. FlagsOK'
  BY DEF Answer, FinishResolved, Goto, Unknown, Finish, LifecycleInv, TypeOK,
     FlagsOK, envVars
<1>3. TypeOK'
  <2>1. /\ bound' \in {bound, bound \cup {op}, bound \ {op}}
        /\ releases' \in {releases, releases \cup {op}}
    BY DEF Answer, FinishResolved
  <2>2. bound' \subseteq OpIds /\ releases' \subseteq OpIds
    BY <1>1, <2>1 DEF LifecycleInv, TypeOK
  <2> QED
    BY <1>2, <2>2 DEF Answer, FinishResolved, Goto, Unknown, Finish, Spend,
       LifecycleInv, TypeOK, PcValues, OperationStatuses, ceVars, lbVars, envVars
<1>4. JournalInv'
  BY LifecycleAssumption DEF Answer, FinishResolved, Goto, Unknown, Finish, Spend,
     LifecycleInv, TypeOK, JournalInv, Open, ExitPcs, AddPcs, ReconcilePcs,
     EntryPcs, OperationStatuses, ceVars, lbVars, envVars
<1>5. FreshInv'
  BY LifecycleAssumption DEF Answer, FinishResolved, Goto, Unknown, Finish, Spend,
     LifecycleInv, TypeOK, FreshInv, OperationStatuses, ceVars, lbVars, envVars
<1>6. GateInv'
  BY DEF Answer, FinishResolved, Goto, Unknown, Finish, Spend, LifecycleInv, TypeOK,
     GateInv, FencedPcs, ReconcilePcs, EntryPcs, UnblockedPcs, ceVars, lbVars,
     envVars
<1>7. VersionInv'
  BY DEF Answer, FinishResolved, LifecycleInv, VersionInv, ceVars, lbVars, envVars
<1>8. ServiceInv'
  BY DEF Answer, FinishResolved, Goto, Unknown, Finish, Spend, LifecycleInv, TypeOK,
     ServiceInv, Open, ExitKinds, ceVars, lbVars, envVars
<1>9. EntryInv'
  BY <1>1 DEF Answer, FinishResolved, Goto, Unknown, Finish, Spend, LifecycleInv,
     TypeOK, EntryInv, Open, ceVars, lbVars, envVars
<1>10. ExitInv'
  BY <1>1 DEF Answer, FinishResolved, Goto, Unknown, Finish, Spend, LifecycleInv,
     TypeOK, ExitInv, Open, ExitPcs, ExitKinds, ceVars, lbVars, envVars
<1> QED
  BY <1>3, <1>4, <1>5, <1>6, <1>7, <1>8, <1>9, <1>10 DEF LifecycleInv

(* The evidence is reported and the operation closed. *)
LEMMA AdvanceKeeps ==
  ASSUME LifecycleInv, Advance
  PROVE  LifecycleInv'
<1>1. op \in OpIds /\ Open(op)
  BY WorkerRuns DEF Advance
<1>2. FlagsOK'
  BY DEF Advance, FinishResolved, LeaseAfter, Outcome, Unknown, Finish,
     LifecycleInv, TypeOK, FlagsOK, envVars
<1>3. TypeOK'
  BY <1>2 DEF Advance, FinishResolved, LeaseAfter, Outcome, Unknown, Finish, Spend,
     LifecycleInv, TypeOK, PcValues, OperationStatuses, ceVars, lbVars, envVars
<1>4. JournalInv'
  BY LifecycleAssumption DEF Advance, FinishResolved, LeaseAfter, Outcome, Unknown,
     Finish, Spend, LifecycleInv, TypeOK, JournalInv, Open, ExitPcs, AddPcs,
     ReconcilePcs, EntryPcs, OperationStatuses, ceVars, lbVars, envVars
<1>5. FreshInv'
  BY LifecycleAssumption DEF Advance, FinishResolved, LeaseAfter, Outcome, Unknown,
     Finish, Spend, LifecycleInv, TypeOK, FreshInv, OperationStatuses, ceVars,
     lbVars, envVars
<1>6. GateInv'
  BY DEF Advance, FinishResolved, LeaseAfter, Outcome, Unknown, Finish, Spend,
     LifecycleInv, TypeOK, GateInv, FencedPcs, ReconcilePcs, EntryPcs, UnblockedPcs,
     ceVars, lbVars, envVars
<1>7. VersionInv'
  BY DEF Advance, FinishResolved, LeaseAfter, Outcome, LifecycleInv, VersionInv,
     ceVars, lbVars, envVars
<1>8. ServiceInv'
  BY DEF Advance, FinishResolved, LeaseAfter, Outcome, Unknown, Finish, Spend,
     LifecycleInv, TypeOK, ServiceInv, ExitInv, Open, ceVars, lbVars, envVars
<1>9. EntryInv'
  BY <1>1 DEF Advance, FinishResolved, LeaseAfter, Outcome, Unknown, Finish, Spend,
     LifecycleInv, TypeOK, EntryInv, Open, ceVars, lbVars, envVars
<1>10. ExitInv'
  BY <1>1 DEF Advance, FinishResolved, LeaseAfter, Outcome, Unknown, Finish, Spend,
     LifecycleInv, TypeOK, ExitInv, Open, ExitPcs, ceVars, lbVars, envVars
<1> QED
  BY <1>3, <1>4, <1>5, <1>6, <1>7, <1>8, <1>9, <1>10 DEF LifecycleInv

(* The training loop produces a version. *)
LEMMA NewVersionKeeps ==
  ASSUME LifecycleInv, NewVersion
  PROVE  LifecycleInv'
<1>1. FlagsOK'
  BY DEF NewVersion, LifecycleInv, TypeOK, FlagsOK, workerVars, mVars
<1>2. TypeOK'
  BY <1>1, LifecycleAssumption DEF NewVersion, LifecycleInv, TypeOK, journalVars,
     workerVars, gateVars, ceVars, mVars, lbVars
<1>3. VersionInv'
  BY DEF NewVersion, LifecycleInv, TypeOK, VersionInv, journalVars, workerVars,
     gateVars, ceVars, mVars, lbVars
<1>4. JournalInv' /\ FreshInv' /\ GateInv' /\ ServiceInv' /\ EntryInv' /\ ExitInv'
  BY DEF NewVersion, LifecycleInv, JournalInv, FreshInv, GateInv, ServiceInv,
     EntryInv, ExitInv, Open, journalVars, workerVars, gateVars, ceVars, mVars,
     lbVars
<1> QED
  BY <1>2, <1>3, <1>4 DEF LifecycleInv

(* It is published to the members of E. *)
LEMMA NativeSyncKeeps ==
  ASSUME LifecycleInv, NativeSync
  PROVE  LifecycleInv'
<1>1. /\ holder = None
      /\ UNCHANGED <<kind, journalVars, workerVars, holder, pending, ready, mVars,
                     lbVars, busy, version, gpu, gs>>
      /\ \/ /\ blocked = None /\ synced' = version /\ blocked' = blocked /\ faults' = faults
            /\ effective' = (IF effective = None THEN None ELSE version)
         \/ /\ blocked = None /\ blocked' = SyncOwner /\ Spend(1)
            /\ synced' = synced /\ effective' = effective
         \/ /\ synced' = synced /\ effective' = effective /\ blocked' = blocked
            /\ faults' = faults
  BY Zenon DEF NativeSync
<1>2. pc \notin FencedPcs \cup ReconcilePcs
  <2>1. pc # "off" => op # None
    BY DEF LifecycleInv, JournalInv
  <2> QED
    BY <1>1, <2>1 DEF LifecycleInv, GateInv, FencedPcs, ReconcilePcs
<1>3. SyncOwner \notin OpIds /\ SyncOwner # None /\ op \in OpIds \cup {None}
  BY LifecycleAssumption DEF LifecycleInv, TypeOK
<1>4. FlagsOK'
  BY DEF NativeSync, LifecycleInv, TypeOK, FlagsOK, workerVars, mVars
<1>5. TypeOK'
  BY <1>1, <1>2, <1>3, <1>4 DEF Spend, LifecycleInv, TypeOK, journalVars,
     workerVars, mVars, lbVars
<1>6. JournalInv'
  BY <1>1 DEF LifecycleInv, JournalInv, Open, journalVars, workerVars
<1>7. FreshInv'
  BY <1>1 DEF LifecycleInv, FreshInv, journalVars, mVars
<1>8. GateInv'
  BY <1>1, <1>2, <1>3 DEF LifecycleInv, GateInv, journalVars, workerVars, mVars
<1>9. VersionInv'
  BY <1>1, LifecycleAssumption DEF Spend, LifecycleInv, TypeOK, VersionInv,
     journalVars, workerVars, mVars, lbVars
<1>10. ServiceInv'
  BY <1>1 DEF LifecycleInv, ServiceInv, Open, journalVars, mVars, lbVars
<1>11. EntryInv'
  BY <1>1, LifecycleAssumption DEF Spend, LifecycleInv, TypeOK, EntryInv, Open,
     journalVars, workerVars, mVars, lbVars
<1>12. ExitInv'
  BY <1>1 DEF LifecycleInv, ExitInv, Open, journalVars, workerVars, mVars, lbVars
<1> QED
  BY <1>5, <1>6, <1>7, <1>8, <1>9, <1>10, <1>11, <1>12 DEF LifecycleInv

(* A request is admitted. *)
LEMMA AdmitKeeps ==
  ASSUME LifecycleInv, Admit
  PROVE  LifecycleInv'
<1>1. FlagsOK'
  BY DEF Admit, LifecycleInv, TypeOK, FlagsOK, workerVars, mVars
<1>2. TypeOK'
  BY <1>1 DEF Admit, LifecycleInv, TypeOK, journalVars, workerVars, gateVars,
     ceVars, mVars, lbVars
<1>3. JournalInv' /\ FreshInv' /\ GateInv' /\ VersionInv' /\ ServiceInv' /\ EntryInv' /\ ExitInv'
  BY DEF Admit, LifecycleInv, JournalInv, FreshInv, GateInv, VersionInv, ServiceInv,
     EntryInv, ExitInv, Open, journalVars, workerVars, gateVars, ceVars, mVars,
     lbVars
<1> QED
  BY <1>2, <1>3 DEF LifecycleInv

(* A request ends. *)
LEMMA SettleKeeps ==
  ASSUME LifecycleInv, Settle
  PROVE  LifecycleInv'
<1>1. FlagsOK'
  BY DEF Settle, LifecycleInv, TypeOK, FlagsOK, workerVars, mVars
<1>2. TypeOK'
  BY <1>1 DEF Settle, LifecycleInv, TypeOK, journalVars, workerVars, gateVars,
     ceVars, mVars, lbVars
<1>3. JournalInv' /\ FreshInv' /\ GateInv' /\ VersionInv' /\ ServiceInv' /\ EntryInv' /\ ExitInv'
  BY DEF Settle, LifecycleInv, JournalInv, FreshInv, GateInv, VersionInv,
     ServiceInv, EntryInv, ExitInv, Open, journalVars, workerVars, gateVars, ceVars,
     mVars, lbVars
<1> QED
  BY <1>2, <1>3 DEF LifecycleInv

(* Nothing happens. *)
LEMMA StutterKeeps ==
  ASSUME LifecycleInv, UNCHANGED vars
  PROVE  LifecycleInv'
<1>1. FlagsOK'
  BY DEF vars, LifecycleInv, TypeOK, FlagsOK, workerVars, mVars, envVars
<1>2. TypeOK'
  BY <1>1 DEF vars, LifecycleInv, TypeOK, journalVars, workerVars, gateVars, ceVars,
     mVars, lbVars, envVars
<1>3. JournalInv' /\ FreshInv' /\ GateInv' /\ VersionInv' /\ ServiceInv' /\ EntryInv' /\ ExitInv'
  BY DEF vars, LifecycleInv, JournalInv, FreshInv, GateInv, VersionInv, ServiceInv,
     EntryInv, ExitInv, Open, journalVars, workerVars, gateVars, ceVars, mVars,
     lbVars, envVars
<1> QED
  BY <1>2, <1>3 DEF LifecycleInv

-----------------------------------------------------------------------------
(* Theorems *)

LEMMA StartsWell == Init => LifecycleInv
<1> SUFFICES ASSUME Init
             PROVE  LifecycleInv
  OBVIOUS
<1>1. FlagsOK
  BY DEF Init, FlagsOK
<1>2. kind \in {"NATIVE", "BORROWED"}
  BY LifecycleAssumption DEF Init
<1>3. TypeOK
  BY <1>1, <1>2, LifecycleAssumption DEF Init, TypeOK, PcValues, ReplicaStates
<1>4. JournalInv
  BY LifecycleAssumption
     DEF Init, JournalInv, Open, ExitPcs, EntryPcs, ReconcilePcs, AddPcs, OperationKinds,
         OperationStatuses
<1>5. FreshInv
  BY DEF Init, FreshInv
<1>6. GateInv
  BY LifecycleAssumption
     DEF Init, GateInv, UnblockedPcs, FencedPcs, ReconcilePcs, EntryPcs
<1>7. VersionInv
  BY <1>2, LifecycleAssumption DEF Init, VersionInv
<1>8. ServiceInv
  BY <1>2, LifecycleAssumption DEF Init, ServiceInv, ReplicaStates
<1>9. EntryInv
  BY LifecycleAssumption DEF Init, EntryInv, Open, OperationStatuses
<1>10. ExitInv
  BY LifecycleAssumption DEF Init, ExitInv, Open, ExitPcs, OperationStatuses
<1> QED
  BY <1>3, <1>4, <1>5, <1>6, <1>7, <1>8, <1>9, <1>10 DEF LifecycleInv

LEMMA WorkerKeeps ==
  ASSUME LifecycleInv, WorkerStep
  PROVE  LifecycleInv'
BY StartKeeps, QueryReleaseKeeps, ReconcileExitKeeps, PrepareExitKeeps, DrainKeeps,
   QueryBindingKeeps, RemoveKeeps, CommitExitKeeps, FinalizeExitKeeps, PrepareReplicaKeeps,
   PrepareReplicaFailsKeeps, FenceKeeps, ReconcilePublishKeeps, ReconcileReleaseKeeps,
   RegisterAddKeeps, RegisterRestoreKeeps, BootstrapAddKeeps, BootstrapRestoreKeeps,
   CommitPendingKeeps, PublishKeeps, RollBackKeeps, DiscardKeeps, ReleaseHiddenKeeps,
   RestoreFailedKeeps, AnswerKeeps, AdvanceKeeps
   DEF WorkerStep

LEMMA LifecycleAlways == Spec => []LifecycleInv
<1>1. LifecycleInv /\ [Next]_vars => LifecycleInv'
  <2> SUFFICES ASSUME LifecycleInv, [Next]_vars
               PROVE  LifecycleInv'
    OBVIOUS
  <2>1. CASE \E o \in OpIds, k \in OperationKinds : Submit(o, k)
    BY <2>1, SubmitKeeps
  <2>2. CASE \E o \in OpIds : Replay(o)
    BY <2>2, ReplayKeeps
  <2>3. CASE WorkerStep
    BY <2>3, WorkerKeeps
  <2>4. CASE NewVersion \/ NativeSync \/ Admit \/ Settle
    BY <2>4, NewVersionKeeps, NativeSyncKeeps, AdmitKeeps, SettleKeeps
  <2>5. CASE UNCHANGED vars
    BY <2>5, StutterKeeps
  <2> QED
    BY <2>1, <2>2, <2>3, <2>4, <2>5 DEF Next
<1> QED
  BY <1>1, StartsWell, PTL DEF Spec

(* ServingIsSynchronised: a replica that admits requests is a member of E    *)
(* and has the version native synchronisation published last, whatever calls *)
(* of bootstrap_and_publish, restore_and_publish or an exit were lost.       *)
THEOREM RoutedReplicasAreCurrent == Spec => []ServingIsSynchronised
<1>1. LifecycleInv => ServingIsSynchronised
  <2> SUFFICES ASSUME LifecycleInv
               PROVE  ServingIsSynchronised
    OBVIOUS
  <2>1. TypeOK
    BY DEF LifecycleInv
  <2>2. route = "open" => effective # None /\ effective >= synced
    BY DEF LifecycleInv, VersionInv
  <2> QED
    BY <2>1, <2>2 DEF ServingIsSynchronised
<1> QED
  BY <1>1, LifecycleAlways, PTL

(* BlockerStaysOpen: no operation is reported resolved while it is the one   *)
(* that blocks G.                                                            *)
THEOREM BlockersAreUnresolved == Spec => []BlockerStaysOpen
<1>1. LifecycleInv => BlockerStaysOpen
  BY DEF LifecycleInv, GateInv, BlockerStaysOpen
<1> QED
  BY <1>1, LifecycleAlways, PTL

(* FailedExitHadNoEffect: an exit that the worker closes FAILED neither      *)
(* drains the replica nor has released its runtime.                          *)
THEOREM FailedExitsAreHarmless == Spec => []FailedExitHadNoEffect
<1>1. LifecycleInv => FailedExitHadNoEffect
  <2> SUFFICES ASSUME LifecycleInv, NEW o \in OpIds, status[o] = "FAILED",
                      command[o] \in ExitKinds
               PROVE  draining # o /\ o \notin releases
    BY DEF FailedExitHadNoEffect
  <2>1. o \notin releases
    BY DEF LifecycleInv, ExitInv
  <2>2. draining # o
    BY LifecycleAssumption DEF LifecycleInv, ServiceInv, Open
  <2> QED
    BY <2>1, <2>2
<1> QED
  BY <1>1, LifecycleAlways, PTL

(* ReleaseIsPhysical: what _advance_lease reports released is off the GPU    *)
(* and out of R and C (and of E, after an exit), and a replica asleep or     *)
(* released has no route, no place in the lists and no request.              *)
THEOREM ReportedReleasesAreReal == Spec => []ReleaseIsPhysical
<1>1. LifecycleInv => ReleaseIsPhysical
  <2> SUFFICES ASSUME LifecycleInv
               PROVE  ReleaseIsPhysical
    OBVIOUS
  <2>1. M \in {"DORMANT", "RELEASED"} => route = "none" /\ ~ serving /\ ~ busy
    BY DEF LifecycleInv, ServiceInv
  <2>2. ASSUME pc = "advance", evidence = "RELEASED", command[op] # "RESTORE"
        PROVE  /\ gpu = "free" /\ route = "none" /\ ~ serving
               /\ command[op] \in ExitKinds => effective = None
    <3>1. op \in OpIds /\ Open(op) /\ command[op] \in {"ADD", "DONATE", "REMOVE"}
      <4>1. op \in OpIds /\ Open(op)
        BY <2>2, WorkerRuns
      <4>2. command[op] # None /\ command[op] \in OperationKinds \cup {None}
        BY <4>1, LifecycleAssumption DEF LifecycleInv, TypeOK, JournalInv, Open, OperationStatuses
      <4> QED
        BY <2>2, <4>1, <4>2 DEF OperationKinds
    <3>2. CASE command[op] = "ADD"
      <4>1. M \in {None, "RELEASED"}
        BY <2>2, <3>2 DEF LifecycleInv, EntryInv
      <4> QED
        BY <3>2, <4>1 DEF LifecycleInv, ServiceInv, ExitKinds
    <3>3. CASE command[op] \in ExitKinds
      <4>1. op \in releases
        BY <2>2, <3>3 DEF LifecycleInv, ExitInv
      <4>2. gpu = "free" /\ effective = None /\ M \in {"DORMANT", "RELEASED"}
        BY <3>1, <3>3, <4>1 DEF LifecycleInv, ExitInv
      <4> QED
        BY <2>1, <4>2
    <3> QED
      BY <3>1, <3>2, <3>3 DEF ExitKinds
  <2> QED
    BY <2>1, <2>2 DEF ReleaseIsPhysical
<1> QED
  BY <1>1, LifecycleAlways, PTL
=============================================================================
