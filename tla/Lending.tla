------------------------------- MODULE Lending ------------------------------
(***************************************************************************)
(* A whole lending cycle: the ledger of GroupScheduler, the TaskRunners it *)
(* sends commands to, and the GPUs their runtimes really occupy.           *)
(*                                                                         *)
(* A worker is reduced to the outcomes that TaskLifecycle shows for it:    *)
(* each of its steps may also end UNKNOWN, with the effect or without it.  *)
(* Commands may be lost, delayed and sent again.  The policy that opens    *)
(* leases and submits commands is not part of the program; it is either    *)
(* free, or Serial like the acceptance driver, which submits the next      *)
(* operation of a lease when the last one is resolved.                     *)
(***************************************************************************)
EXTENDS GroupScheduler

CONSTANTS
  NativeGpus,  \* NativeGpus[n] are the GPUs of native replica n
  Serial       \* the policy waits for an operation before the next

Natives == DOMAIN NativeGpus

Borrowed == Replicas \ Natives

ReplicaStates == {"CREATING", "ACTIVE", "DRAINING", "DORMANT", "RELEASED", "QUARANTINED"}

Unresolved == {"RUNNING", "PREPARED", "RELEASED", "COMMITTED", "UNKNOWN"}
Resolved == {"SUCCEEDED", "FAILED"}

(* The evidence that a TaskRunner builds. *)
Service(o) == [operation_id |-> o, type |-> "SERVICE_COMMITTED", gpus |-> {}, stamp |-> 0]
Release(o, gpus) == [operation_id |-> o, type |-> "RELEASED", gpus |-> gpus, stamp |-> 0]

(* A native replica has a placement group of its own, and a lease is for the *)
(* whole replica.  The key of a borrowed replica is drawn for one ADD, so    *)
(* there is a key for each lease that is not used with another one.          *)
ASSUME LendingAssumption ==
  /\ Natives \subseteq Replicas
  /\ \A n \in Natives : NativeGpus[n] # {} /\ NativeGpus[n] \subseteq Gpus
  /\ \A m, n \in Natives : m # n => NativeGpus[m] \cap NativeGpus[n] = {}
  /\ Serial \in BOOLEAN
  /\ \A lease \in LeaseForms :
       lease.donor \in Natives /\ GpusOf(lease) = NativeGpus[lease.donor]
  /\ \A lease, other \in LeaseForms :
       BundlesOf(lease) \cap BundlesOf(other) # {} => lease.donor = other.donor
  /\ \A c \in CommandForms : (c.kind \in {"ADD", "REMOVE"}) <=> (c.target \in Borrowed)
  /\ \A c, d \in CommandForms :
       c.kind = "ADD" /\ d.kind = "ADD" /\ c.target = d.target => c = d
  /\ \A l \in LeaseIds : \E r \in Borrowed :
       \A c \in CommandForms : c.kind = "ADD" /\ c.target = r => c.lease_id = l
  /\ \A o \in OpIds :
       /\ Service(o) \in EvidenceForms
       /\ \A n \in Natives : Release(o, NativeGpus[n]) \in EvidenceForms
  /\ None \notin OperationKinds \cup ReplicaStates \cup Unresolved \cup Resolved

VARIABLES
  sent,      \* operations whose command is on its way to the TaskRunner
  worker,    \* journal status, and what the running worker is about to report
  M,         \* replica_state of the Managers, None without an entry
  using,     \* GPUs the runtime of a replica occupies
  releases,  \* operations with recorded release evidence
  unrouted   \* DRAINING because R did not take them: R has no route

runnerVars == <<sent, worker>>
runtimeVars == <<M, using, releases, unrouted>>
vars == <<gsVars, runnerVars, runtimeVars>>

LTypeOK ==
  /\ TypeOK
  /\ sent \subseteq OpIds
  /\ worker \in [OpIds -> Unresolved \cup Resolved \cup {None}]
  /\ M \in [Replicas -> ReplicaStates \cup {None}]
  /\ using \in [Replicas -> SUBSET Gpus]
  /\ releases \subseteq OpIds
  /\ unrouted \subseteq Replicas

LInit ==
  /\ GSInit
  /\ sent = {}
  /\ worker = [o \in OpIds |-> None]
  /\ M = [r \in Replicas |-> IF r \in Natives THEN "ACTIVE" ELSE None]
  /\ using = [r \in Replicas |-> IF r \in Natives THEN NativeGpus[r] ELSE {}]
  /\ releases = {}
  /\ unrouted = {}

-----------------------------------------------------------------------------
(* The policy and the ledger *)

Cmd(o) == operation_commands[o]

StagedOf(l) == {o \in OpIds : Cmd(o) # None /\ Cmd(o).lease_id = l}

(* The acceptance driver polls query_operation until the operation is        *)
(* resolved before it goes on to the next one.                               *)
PolicyAllows(c) ==
  Serial => \A o \in StagedOf(c.lease_id) : worker[o] \in Resolved

Attach(t, h) ==
  /\ task_runners[t] = None
  /\ AttachTask(t, h)
  /\ UNCHANGED <<runnerVars, runtimeVars>>

Open(lease) == OpenLease(lease) /\ UNCHANGED <<runnerVars, runtimeVars>>

Expire(l) == LeaseExpires(l) /\ UNCHANGED <<runnerVars, runtimeVars>>

Submit(c) ==
  /\ PolicyAllows(c)
  /\ StageOperation(c)
  /\ sent' = sent \cup {c.operation_id}
  /\ UNCHANGED <<worker, runtimeVars>>

(* The exact command again, while the TaskRunner has not resolved it. *)
Resubmit(c) ==
  /\ worker[c.operation_id] \in {None, "UNKNOWN"}
  /\ c.operation_id \notin sent
  /\ ReplayOperation(c)
  /\ sent' = sent \cup {c.operation_id}
  /\ UNCHANGED <<worker, runtimeVars>>

Lose(o) ==
  /\ o \in sent
  /\ sent' = sent \ {o}
  /\ UNCHANGED <<gsVars, worker, runtimeVars>>

-----------------------------------------------------------------------------
(* TaskRunner.submit_operation *)

(* One unfinished operation per task session. *)
JournalFree(t) ==
  \A o \in OpIds : worker[o] \in Unresolved => SessionOf[Cmd(o).target] # t

Becomes(o, w) == worker' = [worker EXCEPT ![o] = w]

(* The journal begins the operation; its thread may fail to start. *)
Begin(o) ==
  /\ o \in sent /\ worker[o] = None
  /\ JournalFree(SessionOf[Cmd(o).target])
  /\ sent' = sent \ {o}
  /\ Becomes(o, "RUNNING") \/ Becomes(o, "FAILED")
  /\ UNCHANGED <<gsVars, runtimeVars>>

Reopen(o) ==
  /\ o \in sent /\ worker[o] = "UNKNOWN"
  /\ sent' = sent \ {o}
  /\ Becomes(o, "RUNNING")
  /\ UNCHANGED <<gsVars, runtimeVars>>

(* Any failed call: what was done stays done. *)
GoesUnknown(o) ==
  /\ worker[o] \in Unresolved \ {"UNKNOWN"}
  /\ Becomes(o, "UNKNOWN")
  /\ UNCHANGED <<gsVars, sent, runtimeVars>>

Running(o, kinds) == worker[o] = "RUNNING" /\ Cmd(o).kind \in kinds

(* The reply of the last remote call of a worker arrives, or is lost. *)
Reports(o, w) == Becomes(o, w) \/ Becomes(o, "UNKNOWN")

Quarantine(o, gpus) ==
  /\ M' = [M EXCEPT ![Cmd(o).target] = "QUARANTINED"]
  /\ using' = [using EXCEPT ![Cmd(o).target] = gpus]
  /\ Becomes(o, "UNKNOWN")
  /\ UNCHANGED <<gsVars, sent, releases, unrouted>>

-----------------------------------------------------------------------------
(* DONATE and REMOVE *)

Exits == {"DONATE", "REMOVE"}

(* Refused before anything was done: by the state of the target, or because  *)
(* the call never reached its owner.  A target that this operation has bound *)
(* is DRAINING or QUARANTINED, and the operation is then UNKNOWN.  One that  *)
(* R does not route is DRAINING before the exit is bound to it, too.         *)
ExitRefused(o) ==
  /\ Running(o, Exits)
  /\ o \notin releases
  /\ \/ M[Cmd(o).target] \notin {"DRAINING", "QUARANTINED"}
     \/ Cmd(o).target \in unrouted
  /\ Becomes(o, "FAILED")
  /\ UNCHANGED <<gsVars, sent, runtimeVars>>

BeginExit(o) ==
  /\ Running(o, Exits)
  /\ M[Cmd(o).target] = "ACTIVE"
  /\ M' = [M EXCEPT ![Cmd(o).target] = "DRAINING"]
  /\ UNCHANGED <<gsVars, runnerVars, using, releases, unrouted>>

(* Faulty variant: a native replica is reported asleep while it is awake. *)
VacatedNominally(r, o, state) ==
  /\ M' = [M EXCEPT ![r] = state]
  /\ using' = [using EXCEPT ![r] = IF r \in Natives THEN @ ELSE {}]
  /\ releases' = releases \cup {o}

Vacated(r, o, state) ==
  /\ M' = [M EXCEPT ![r] = state]
  /\ using' = [using EXCEPT ![r] = {}]
  /\ releases' = releases \cup {o}

(* finalize_release: a native replica sleeps, a borrowed one is destroyed,   *)
(* and the Manager keeps the evidence.  Without a route R does not begin the *)
(* drain: the exit is bound to its target and stays UNKNOWN.                 *)
ReleaseExit(o) ==
  LET r == Cmd(o).target IN
  /\ Running(o, Exits)
  /\ M[r] = "DRAINING" /\ r \notin unrouted
  /\ \/ /\ Vacated(r, o, IF r \in Natives THEN "DORMANT" ELSE "RELEASED")
        /\ Reports(o, "RELEASED")
        /\ UNCHANGED <<gsVars, sent, unrouted>>
     \/ Quarantine(o, using[r])

(* A replay finds the recorded evidence. *)
ReleaseAgain(o) ==
  /\ Running(o, Exits)
  /\ o \in releases
  /\ Becomes(o, "RELEASED")
  /\ UNCHANGED <<gsVars, sent, runtimeVars>>

-----------------------------------------------------------------------------
(* ADD *)

LeaseGpus(o) == GpusOf(leases[Cmd(o).lease_id])

(* The spec of the borrowed replica is refused, and the operation is closed  *)
(* without a word to the group scheduler.                                    *)
AddRefused(o) ==
  /\ Running(o, {"ADD"})
  /\ M[Cmd(o).target] = None
  /\ Becomes(o, "FAILED")
  /\ UNCHANGED <<gsVars, sent, runtimeVars>>

Lapsed(o) == Cmd(o).lease_id \in expired

(* The Manager of the task keeps one creation per lease, for ever. *)
LeaseUsedUp(o) ==
  \E q \in StagedOf(Cmd(o).lease_id) \ {o} :
    /\ Cmd(q).kind = "ADD" /\ M[Cmd(q).target] # None
    /\ SessionOf[Cmd(q).target] = SessionOf[Cmd(o).target]

(* create_borrowed_replica refuses an expired lease, and one that has been   *)
(* used for another replica, before anything is done.                        *)
Create(o) ==
  LET r == Cmd(o).target
      refused == Lapsed(o) \/ LeaseUsedUp(o)
  IN
  /\ Running(o, {"ADD"})
  /\ M[r] = None
  /\ \/ /\ ~ refused
        /\ M' = [M EXCEPT ![r] = "CREATING"]
        /\ using' = [using EXCEPT ![r] = LeaseGpus(o)]
        /\ Reports(o, "PREPARED")
        /\ UNCHANGED <<gsVars, sent, releases, unrouted>>
     \/ (* it failed and no runtime remains *)
        /\ M' = IF refused THEN M ELSE [M EXCEPT ![r] = "RELEASED"]
        /\ Reports(o, "RELEASED")
        /\ UNCHANGED <<gsVars, sent, using, releases, unrouted>>
     \/ ~ refused /\ Quarantine(o, LeaseGpus(o))

(* A replay gets the stored result or error, unless the lease has expired.   *)
(* An error is a release when M says that nothing remains.                   *)
CreateAgain(o) ==
  LET r == Cmd(o).target IN
  /\ Running(o, {"ADD"})
  /\ \/ /\ M[r] \in {"CREATING", "ACTIVE"} \/ r \in unrouted
        /\ ~ Lapsed(o) /\ Becomes(o, "PREPARED")
     \/ M[r] = "RELEASED" /\ (o \notin releases \/ Lapsed(o)) /\ Becomes(o, "RELEASED")
  /\ UNCHANGED <<gsVars, sent, runtimeVars>>

(* R has not taken the target.  The Rollouter retracts it, and its answer is *)
(* lost before the Trainer has let go of the runtime.                        *)
Retracted(o) ==
  /\ M' = [M EXCEPT ![Cmd(o).target] = "DRAINING"]
  /\ unrouted' = unrouted \cup {Cmd(o).target}
  /\ Becomes(o, "UNKNOWN")
  /\ UNCHANGED <<gsVars, sent, using, releases>>

RetractAdd(o) ==
  /\ worker[o] = "PREPARED" /\ Cmd(o).target \notin unrouted
  /\ Retracted(o)

(* bootstrap_and_publish, or its replay, commits: the ledger is not told.    *)
(* The replay takes a retracted target for one that leaves service: without  *)
(* a route that is done at once, and counts as the commit of the ADD.        *)
CommitAdd(o) ==
  LET r == Cmd(o).target IN
  /\ worker[o] = "PREPARED"
  /\ M' = IF r \in unrouted THEN M ELSE [M EXCEPT ![r] = "ACTIVE"]
  /\ Reports(o, "SUCCEEDED")
  /\ UNCHANGED <<gsVars, sent, using, releases, unrouted>>

(* Faulty variant: a failed ADD reports a release that was not verified. *)
AddFailsUnverified(o) ==
  /\ worker[o] = "PREPARED" /\ Cmd(o).target \notin unrouted
  /\ M' = [M EXCEPT ![Cmd(o).target] = "RELEASED"]
  /\ releases' = releases \cup {o}
  /\ Reports(o, "RELEASED")
  /\ UNCHANGED <<gsVars, sent, using, unrouted>>

AddFails(o) ==
  LET r == Cmd(o).target IN
  /\ worker[o] = "PREPARED" /\ r \notin unrouted
  /\ \/ /\ Vacated(r, o, "RELEASED")
        /\ Reports(o, "RELEASED")
        /\ UNCHANGED <<gsVars, sent, unrouted>>
     \/ Quarantine(o, using[r])

-----------------------------------------------------------------------------
(* RESTORE *)

Wake(o) ==
  LET r == Cmd(o).target IN
  /\ Running(o, {"RESTORE"})
  /\ M[r] = "DORMANT"
  /\ using' = [using EXCEPT ![r] = NativeGpus[r]]
  /\ UNCHANGED <<gsVars, runnerVars, M, releases, unrouted>>

Awake(r) == using[r] # {} /\ M[r] \in {"DORMANT", "ACTIVE"}

CommitWake(o) ==
  /\ Running(o, {"RESTORE"})
  /\ Awake(Cmd(o).target)
  /\ M' = [M EXCEPT ![Cmd(o).target] = "ACTIVE"]
  /\ Reports(o, "COMMITTED")
  /\ UNCHANGED <<gsVars, sent, using, releases, unrouted>>

(* A replay is refused then, as the target is neither DORMANT nor ACTIVE. *)
RetractWake(o) ==
  /\ Running(o, {"RESTORE"})
  /\ Awake(Cmd(o).target)
  /\ Retracted(o)

(* The runtime sleeps again: in bootstrap_target, or in finalize_release,    *)
(* which answers from its record when the operation was released before.     *)
RestoreFails(o) ==
  LET r == Cmd(o).target IN
  /\ Running(o, {"RESTORE"})
  /\ Awake(r)
  /\ \/ /\ M' = [M EXCEPT ![r] = "DORMANT"]
        /\ \/ using' = [using EXCEPT ![r] = {}] /\ releases' = releases
           \/ using' = [using EXCEPT ![r] = {}] /\ releases' = releases \cup {o}
           \/ o \in releases /\ UNCHANGED <<using, releases>>
        /\ Reports(o, "RELEASED")
        /\ UNCHANGED <<gsVars, sent, unrouted>>
     \/ Quarantine(o, using[r])

-----------------------------------------------------------------------------
(* TaskRunner._advance_lease *)

(* The physical GPUs of the released runtime. *)
ReportedGpus(o) ==
  IF Cmd(o).target \in Natives THEN NativeGpus[Cmd(o).target] ELSE LeaseGpus(o)

Reported(o) ==
  IF worker[o] = "RELEASED" THEN Release(o, ReportedGpus(o)) ELSE Service(o)

Closes(o) ==
  IF worker[o] = "RELEASED" /\ Cmd(o).kind \notin Exits THEN "FAILED" ELSE "SUCCEEDED"

(* Only an exit keeps its evidence; a replay of another operation builds a   *)
(* new one, which the ledger refuses when it has the first.                  *)
Advance(o) ==
  /\ worker[o] \in {"RELEASED", "COMMITTED"}
  /\ \/ AdvanceLease(Reported(o))
     \/ Cmd(o).kind \in Exits /\ ReplayEvidence(Reported(o))
  /\ Reports(o, Closes(o))
  /\ UNCHANGED <<sent, runtimeVars>>

-----------------------------------------------------------------------------
WorkerStep(o) ==
  \/ Begin(o) \/ Reopen(o) \/ GoesUnknown(o)
  \/ ExitRefused(o) \/ BeginExit(o) \/ ReleaseExit(o) \/ ReleaseAgain(o)
  \/ AddRefused(o) \/ Create(o) \/ CreateAgain(o)
  \/ RetractAdd(o) \/ CommitAdd(o) \/ AddFails(o)
  \/ Wake(o) \/ CommitWake(o) \/ RetractWake(o) \/ RestoreFails(o)
  \/ Advance(o)

Next ==
  \/ \E t \in Tasks, h \in Handles : Attach(t, h)
  \/ \E lease \in LeaseForms : Open(lease)
  \/ \E l \in LeaseIds : Expire(l)
  \/ \E c \in CommandForms : Submit(c) \/ Resubmit(c)
  \/ \E o \in OpIds : Lose(o) \/ WorkerStep(o)

Spec == LInit /\ [][Next]_vars

-----------------------------------------------------------------------------
(* Properties *)

users == [g \in Gpus |-> {r \in Replicas : g \in using[r]}]

Use == INSTANCE GpuUse WITH Runtimes <- Replicas, users <- users

(* Lending implements GpuUse: a native runtime wakes, and a borrowed one is  *)
(* created, only on GPUs that nobody occupies, whatever commands, replies    *)
(* and worker outcomes are lost, delayed or repeated ("Physical whole-GPU    *)
(* exclusivity is enforced by GS ownership").                                *)
GpusAreExclusive == Use!Spec

(* From the donor's RELEASED to the borrower's a lease owns all its claims,  *)
(* so that no other lease and no RESTORE is let onto a GPU that is handed    *)
(* over ("must not expose the same physical slot to another lease"); and     *)
(* from its creation to the evidence that it is gone, a borrowed runtime     *)
(* occupies GPUs only under a lease that owns them now.                      *)
LentIsOwned ==
  /\ LTypeOK
  /\ \A l \in handoff_ready_leases : Holds(l, leases[l])
  /\ \A o \in OpIds : Cmd(o) # None /\ Cmd(o).kind = "ADD" =>
       \A g \in using[Cmd(o).target] : active_gpu_owner[g] = Cmd(o).lease_id

Admits(l, k, r) == PhaseAllows([kind |-> k, lease_id |-> l, target |-> r], leases[l])

(* A command the ledger takes and that its TaskRunner can carry out: a       *)
(* REMOVE needs a replica that R routes.                                     *)
WayBack(l) ==
  \/ Admits(l, "RESTORE", leases[l].donor)
  \/ \E r \in Borrowed : M[r] = None /\ Admits(l, "ADD", r)
  \/ \E r \in Borrowed : M[r] = "ACTIVE" /\ Admits(l, "REMOVE", r)

(* The donor sleeps for this lease, and no operation of it is under way. *)
Dormant(l) ==
  /\ leases[l] # None
  /\ release_history[l] # <<>> /\ LastKind(l) # "RESTORE"
  /\ M[leases[l].donor] = "DORMANT"
  /\ \A o \in StagedOf(l) : worker[o] \in Resolved

(* The ways in which a donor is stranded with nothing left to submit: the    *)
(* lease expired before an ADD; an ADD or RESTORE was closed FAILED without  *)
(* a release, and keeps its reservation; an ADD was closed SUCCEEDED with a  *)
(* replica that R had refused and does not route, so that no REMOVE of it    *)
(* can be carried out; another lease took the GPUs.                          *)
Stranded(l) ==
  \/ l \in expired /\ borrower_targets[l] = None
  \/ \E o \in StagedOf(l) :
       /\ Cmd(o).kind \in {"ADD", "RESTORE"}
       /\ worker[o] = "FAILED" /\ release_evidence[o] = None
  \/ borrower_targets[l] \in unrouted
  \/ \E g \in GpusOf(leases[l]) : active_gpu_owner[g] \notin {None, l}

(* A donor that sleeps for a lease whose operations are all resolved can be  *)
(* brought back, step by step, by commands the ledger admits, except in the  *)
(* four situations named by Stranded.                                       *)
DonorHasWayBack ==
  \A l \in LeaseIds : Dormant(l) => WayBack(l) \/ Stranded(l)

=============================================================================
