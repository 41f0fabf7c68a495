--------------------------- MODULE GroupScheduler ---------------------------
(***************************************************************************)
(* The GroupScheduler actor (GS): the single-writer ledger of leases,      *)
(* staged operations and release evidence through which one task lends     *)
(* GPUs to another.                                                        *)
(*                                                                         *)
(* Every action is one whole actor method.  A call that the method rejects *)
(* with an exception leaves the ledger as it was, so a rejected call is a  *)
(* disabled action.  The callers are left open: the policy may open any    *)
(* lease and submit any command, and a TaskRunner may present any          *)
(* evidence.  What the TaskRunners of the program present is the subject   *)
(* of module TaskLifecycle.                                                *)
(***************************************************************************)
EXTENDS Naturals, Sequences

CONSTANTS
  Tasks,         \* task sessions
  Handles,       \* Ray actor handles of TaskRunners
  Replicas,      \* ReplicaKeys: native and borrowed
  SessionOf,     \* SessionOf[r] is the task_session field of ReplicaKey r
  LeaseIds,
  OpIds,         \* operation_ids
  ClaimIds,
  Bundles,       \* (placement group, bundle index) pairs
  Gpus,          \* GPU UUIDs
  LeaseForms,    \* the Lease records the policy may open
  CommandForms,  \* the OperationCommands the policy may submit
  EvidenceForms, \* the OperationEvidence a TaskRunner may present
  None           \* a dictionary key that is absent

OperationKinds == {"ADD", "REMOVE", "DONATE", "RESTORE"}

EvidenceTypes == {"WEIGHT_READY", "EXIT_READY", "SERVICE_COMMITTED",
                  "RELEASED"}

Claim == [claim_id : ClaimIds, bundle : Bundles, gpu : Gpus]

(* claims[i]["donor_task_id"] and ["donor_replica_rank"] agree on all claims *)
(* of a lease and are kept as the native ReplicaKey they name.               *)
Lease == [lease_id : LeaseIds, donor : Replicas, claims : SUBSET Claim,
          expires : BOOLEAN]

Command == [operation_id : OpIds, kind : OperationKinds, lease_id : LeaseIds,
            target : Replicas]

(* stamp is what tells two evidences of one operation apart: the time_ns()   *)
(* timestamp taken when the record was built.                                *)
Evidence == [operation_id : OpIds, type : EvidenceTypes, gpus : SUBSET Gpus,
             stamp : Nat]

(* Lease.__post_init__: no claim_id, GPU or bundle is listed twice. *)
WellFormed(lease) ==
  /\ lease.claims # {}
  /\ \A c, d \in lease.claims :
       c.claim_id = d.claim_id \/ c.gpu = d.gpu \/ c.bundle = d.bundle => c = d

ASSUME LedgerAssumption ==
  /\ SessionOf \in [Replicas -> Tasks]
  /\ LeaseForms \subseteq Lease
  /\ \A lease \in LeaseForms : WellFormed(lease)
  /\ CommandForms \subseteq Command
  /\ EvidenceForms \subseteq Evidence
  /\ \A e \in EvidenceForms : (e.type = "RELEASED") <=> (e.gpus # {})
  /\ None \notin Handles \cup Lease \cup Command \cup Evidence \cup Replicas
                 \cup LeaseIds

GpusOf(lease) == {c.gpu : c \in lease.claims}

BundlesOf(lease) == {c.bundle : c \in lease.claims}

ClaimIdsOf(lease) == {c.claim_id : c \in lease.claims}

VARIABLES
  task_runners,         \* attached TaskRunner handle of a task, or None
  idle_reports,         \* last idle report of a task, or None
  leases,               \* opened leases
  expired,              \* leases whose expires_at has passed
  operation_commands,   \* staged commands by operation_id
  borrower_targets,     \* replica a staged ADD of the lease creates
  release_evidence,     \* accepted evidence by operation_id
  release_history,      \* operation_ids that advanced the lease, in order
  handoff_ready_leases, \* donor has RELEASED, the borrower may ADD
  claim_id_owner,       \* lifetime owner of a claim_id
  active_bundle_owner,  \* lease that holds the bundle now
  active_gpu_owner      \* lease that holds the GPU now

owners == <<claim_id_owner, active_bundle_owner, active_gpu_owner>>

progress == <<borrower_targets, release_evidence, release_history,
              handoff_ready_leases>>

gsVars == <<task_runners, idle_reports, leases, expired, operation_commands,
            progress, owners>>

Report == [fresh : BOOLEAN, natives : SUBSET Replicas]

TypeOK ==
  /\ task_runners \in [Tasks -> Handles \cup {None}]
  /\ idle_reports \in [Tasks -> Report \cup {None}]
  /\ leases \in [LeaseIds -> LeaseForms \cup {None}]
  /\ \A l \in LeaseIds : leases[l] # None => leases[l].lease_id = l
  /\ expired \subseteq LeaseIds
  /\ operation_commands \in [OpIds -> CommandForms \cup {None}]
  /\ borrower_targets \in [LeaseIds -> Replicas \cup {None}]
  /\ release_evidence \in [OpIds -> EvidenceForms \cup {None}]
  /\ release_history \in [LeaseIds -> Seq(OpIds)]
  /\ handoff_ready_leases \subseteq LeaseIds
  /\ claim_id_owner \in [ClaimIds -> LeaseIds \cup {None}]
  /\ active_bundle_owner \in [Bundles -> LeaseIds \cup {None}]
  /\ active_gpu_owner \in [Gpus -> LeaseIds \cup {None}]

GSInit ==
  /\ task_runners = [t \in Tasks |-> None]
  /\ idle_reports = [t \in Tasks |-> None]
  /\ leases = [l \in LeaseIds |-> None]
  /\ expired = {}
  /\ operation_commands = [o \in OpIds |-> None]
  /\ borrower_targets = [l \in LeaseIds |-> None]
  /\ release_evidence = [o \in OpIds |-> None]
  /\ release_history = [l \in LeaseIds |-> <<>>]
  /\ handoff_ready_leases = {}
  /\ claim_id_owner = [c \in ClaimIds |-> None]
  /\ active_bundle_owner = [b \in Bundles |-> None]
  /\ active_gpu_owner = [g \in Gpus |-> None]

-----------------------------------------------------------------------------
(* Attachment and idle reports *)

AttachTask(t, h) ==
  /\ task_runners[t] \in {None, h}
  /\ task_runners' = [task_runners EXCEPT ![t] = h]
  /\ UNCHANGED <<idle_reports, leases, expired, operation_commands, progress,
                 owners>>

DetachTask(t) ==
  /\ task_runners' = [task_runners EXCEPT ![t] = None]
  /\ idle_reports' = [idle_reports EXCEPT ![t] = None]
  /\ UNCHANGED <<leases, expired, operation_commands, progress, owners>>

(* A report replaces the previous one.  Only its NATIVE candidates are ever  *)
(* looked at (by DONATE), and all of them belong to the reporting session.   *)
SubmitIdleReport(t, natives) ==
  /\ task_runners[t] # None
  /\ natives \subseteq {r \in Replicas : SessionOf[r] = t}
  /\ idle_reports' = [idle_reports EXCEPT ![t] =
                        [fresh |-> TRUE, natives |-> natives]]
  /\ UNCHANGED <<task_runners, leases, expired, operation_commands, progress,
                 owners>>

(* The clock: a report grows older than _IDLE_REPORT_MAX_AGE_S. *)
ReportAges(t) ==
  /\ idle_reports[t] # None
  /\ idle_reports[t].fresh
  /\ idle_reports' = [idle_reports EXCEPT ![t].fresh = FALSE]
  /\ UNCHANGED <<task_runners, leases, expired, operation_commands, progress,
                 owners>>

-----------------------------------------------------------------------------
(* Claim ownership *)

Holds(l, lease) ==
  /\ \A b \in BundlesOf(lease) : active_bundle_owner[b] = l
  /\ \A g \in GpusOf(lease) : active_gpu_owner[g] = l

Unclaimed(lease) ==
  /\ \A b \in BundlesOf(lease) : active_bundle_owner[b] = None
  /\ \A g \in GpusOf(lease) : active_gpu_owner[g] = None

(* Faulty variant: the donor, not the lease, is entered as the owner. *)
ReserveForDonor(l, lease) ==
  /\ active_bundle_owner' = [b \in Bundles |->
       IF b \in BundlesOf(lease) THEN lease.donor ELSE active_bundle_owner[b]]
  /\ active_gpu_owner' = [g \in Gpus |->
       IF g \in GpusOf(lease) THEN lease.donor ELSE active_gpu_owner[g]]

ReserveClaims(l, lease) ==
  /\ active_bundle_owner' = [b \in Bundles |->
       IF b \in BundlesOf(lease) THEN l ELSE active_bundle_owner[b]]
  /\ active_gpu_owner' = [g \in Gpus |->
       IF g \in GpusOf(lease) THEN l ELSE active_gpu_owner[g]]

(* Faulty variant: the bundles of the lease are not returned. *)
FreeGpusOnly(l, lease) ==
  /\ active_gpu_owner' = [g \in Gpus |->
       IF g \in GpusOf(lease) /\ active_gpu_owner[g] = l
       THEN None ELSE active_gpu_owner[g]]
  /\ UNCHANGED active_bundle_owner

(* Ownership is given up only where this lease still has it. *)
FreeClaims(l, lease) ==
  /\ active_bundle_owner' = [b \in Bundles |->
       IF b \in BundlesOf(lease) /\ active_bundle_owner[b] = l
       THEN None ELSE active_bundle_owner[b]]
  /\ active_gpu_owner' = [g \in Gpus |->
       IF g \in GpusOf(lease) /\ active_gpu_owner[g] = l
       THEN None ELSE active_gpu_owner[g]]

(* Faulty variant: an expired lease gives its claims back at once. *)
LeaseExpiresFrees(l) ==
  /\ leases[l] # None
  /\ leases[l].expires
  /\ l \notin expired
  /\ expired' = expired \cup {l}
  /\ FreeClaims(l, leases[l])
  /\ UNCHANGED <<task_runners, idle_reports, leases, operation_commands,
                 progress, claim_id_owner>>

(* The clock: a lease with an expires_at passes it.  Its claims stay held. *)
LeaseExpires(l) ==
  /\ leases[l] # None
  /\ leases[l].expires
  /\ l \notin expired
  /\ expired' = expired \cup {l}
  /\ UNCHANGED <<task_runners, idle_reports, leases, operation_commands,
                 progress, owners>>

(* An exact replay of an opened lease changes nothing; a conflicting one, or *)
(* one whose claims another lease owns, is rejected.                         *)
OpenLease(lease) ==
  LET l == lease.lease_id IN
  /\ leases[l] = None
  /\ \A c \in ClaimIdsOf(lease) : claim_id_owner[c] \in {None, l}
  /\ \A b \in BundlesOf(lease) : active_bundle_owner[b] \in {None, l}
  /\ \A g \in GpusOf(lease) : active_gpu_owner[g] \in {None, l}
  /\ leases' = [leases EXCEPT ![l] = lease]
  /\ claim_id_owner' = [c \in ClaimIds |->
       IF c \in ClaimIdsOf(lease) THEN l ELSE claim_id_owner[c]]
  /\ ReserveClaims(l, lease)
  /\ UNCHANGED <<task_runners, idle_reports, expired, operation_commands,
                 progress>>

-----------------------------------------------------------------------------
(* submit_operation *)

LastKind(l) ==
  IF release_history[l] = <<>> THEN None
  ELSE operation_commands[release_history[l][Len(release_history[l])]].kind

DonateAllowed(c, lease) ==
  /\ LET report == idle_reports[SessionOf[c.target]] IN
       report # None => report.fresh /\ c.target \in report.natives
  /\ LastKind(c.lease_id) # "REMOVE"
  /\ c.target = lease.donor
  /\ c.lease_id \notin handoff_ready_leases

AddAllowed(c) ==
  /\ c.lease_id \notin expired
  /\ c.lease_id \in handoff_ready_leases
  /\ borrower_targets[c.lease_id] = None

RemoveAllowed(c) ==
  /\ c.lease_id \in handoff_ready_leases
  /\ borrower_targets[c.lease_id] = c.target

RestoreAllowed(c, lease) ==
  /\ c.target = lease.donor
  /\ Unclaimed(lease)

(* The phase checks a command meets the first time its operation_id is seen. *)
PhaseAllows(c, lease) ==
  /\ LastKind(c.lease_id) # "RESTORE"
  /\ \/ c.kind = "DONATE" /\ DonateAllowed(c, lease)
     \/ c.kind = "ADD" /\ AddAllowed(c)
     \/ c.kind = "REMOVE" /\ RemoveAllowed(c)
     \/ c.kind = "RESTORE" /\ RestoreAllowed(c, lease)

(* The intent is recorded before the command is sent, and stays recorded     *)
(* whatever becomes of the call.                                             *)
StageOperation(c) ==
  LET lease == leases[c.lease_id] IN
  /\ lease # None
  /\ operation_commands[c.operation_id] = None
  /\ PhaseAllows(c, lease)
  /\ task_runners[SessionOf[c.target]] # None
  /\ operation_commands' = [operation_commands EXCEPT ![c.operation_id] = c]
  /\ borrower_targets' = IF c.kind = "ADD"
       THEN [borrower_targets EXCEPT ![c.lease_id] = c.target]
       ELSE borrower_targets
  /\ IF c.kind = "RESTORE" THEN ReserveClaims(c.lease_id, lease)
     ELSE UNCHANGED <<active_bundle_owner, active_gpu_owner>>
  /\ UNCHANGED <<task_runners, idle_reports, leases, expired,
                 release_evidence, release_history, handoff_ready_leases,
                 claim_id_owner>>

(* An exact replay meets no phase check: it is sent to the TaskRunner again, *)
(* and the ledger keeps what it has.                                         *)
ReplayOperation(c) ==
  /\ leases[c.lease_id] # None
  /\ operation_commands[c.operation_id] = c
  /\ task_runners[SessionOf[c.target]] # None
  /\ UNCHANGED gsVars

-----------------------------------------------------------------------------
(* advance_lease *)

(* Faulty variant: evidence that was accepted before is accepted again. *)
EvidenceAcceptedAgain(e) ==
  LET c == operation_commands[e.operation_id] IN
  c # None /\ leases[c.lease_id] # None

(* What every accepted evidence has passed. *)
EvidenceAccepted(e) ==
  LET c == operation_commands[e.operation_id] IN
  /\ c # None
  /\ leases[c.lease_id] # None
  /\ release_evidence[e.operation_id] = None

Covers(e, lease) == e.type = "RELEASED" /\ e.gpus = GpusOf(lease)

RecordEvidence(e) ==
  release_evidence' = [release_evidence EXCEPT ![e.operation_id] = e]

AppendHistory(l, o) ==
  release_history' = [release_history EXCEPT ![l] = Append(@, o)]

(* Faulty variant: a rolled back ADD leaves its target behind. *)
KeepTarget(l) == UNCHANGED borrower_targets

ForgetTarget(l) ==
  borrower_targets' = [borrower_targets EXCEPT ![l] = None]

AdvanceFrame ==
  UNCHANGED <<task_runners, idle_reports, leases, expired,
              operation_commands, claim_id_owner>>

AdvanceDonate(e) ==
  LET l == operation_commands[e.operation_id].lease_id IN
  /\ EvidenceAccepted(e)
  /\ operation_commands[e.operation_id].kind = "DONATE"
  /\ Covers(e, leases[l])
  /\ RecordEvidence(e)
  /\ AppendHistory(l, e.operation_id)
  /\ handoff_ready_leases' = handoff_ready_leases \cup {l}
  /\ UNCHANGED <<borrower_targets, active_bundle_owner, active_gpu_owner>>
  /\ AdvanceFrame

AdvanceRemove(e) ==
  LET l == operation_commands[e.operation_id].lease_id IN
  /\ EvidenceAccepted(e)
  /\ operation_commands[e.operation_id].kind = "REMOVE"
  /\ Covers(e, leases[l])
  /\ RecordEvidence(e)
  /\ AppendHistory(l, e.operation_id)
  /\ handoff_ready_leases' = handoff_ready_leases \ {l}
  /\ FreeClaims(l, leases[l])
  /\ UNCHANGED borrower_targets
  /\ AdvanceFrame

RollBackAdd(e) ==
  LET c == operation_commands[e.operation_id]
      l == c.lease_id IN
  /\ EvidenceAccepted(e)
  /\ c.kind = "ADD"
  /\ Covers(e, leases[l])
  /\ l \in handoff_ready_leases
  /\ borrower_targets[l] = c.target
  /\ RecordEvidence(e)
  /\ AppendHistory(l, e.operation_id)
  /\ ForgetTarget(l)
  /\ handoff_ready_leases' = handoff_ready_leases \ {l}
  /\ FreeClaims(l, leases[l])
  /\ AdvanceFrame

(* A rolled-back RESTORE returns its reservation but is not part of the      *)
(* history, so that RESTORE may be tried again.                              *)
RollBackRestore(e) ==
  LET l == operation_commands[e.operation_id].lease_id IN
  /\ EvidenceAccepted(e)
  /\ operation_commands[e.operation_id].kind = "RESTORE"
  /\ Holds(l, leases[l])
  /\ Covers(e, leases[l])
  /\ RecordEvidence(e)
  /\ FreeClaims(l, leases[l])
  /\ UNCHANGED <<borrower_targets, release_history, handoff_ready_leases>>
  /\ AdvanceFrame

CommitRestore(e) ==
  LET l == operation_commands[e.operation_id].lease_id IN
  /\ EvidenceAccepted(e)
  /\ operation_commands[e.operation_id].kind = "RESTORE"
  /\ Holds(l, leases[l])
  /\ e.type = "SERVICE_COMMITTED"
  /\ RecordEvidence(e)
  /\ AppendHistory(l, e.operation_id)
  /\ handoff_ready_leases' = handoff_ready_leases \ {l}
  /\ ForgetTarget(l)
  /\ FreeClaims(l, leases[l])
  /\ AdvanceFrame

AdvanceLease(e) ==
  \/ AdvanceDonate(e)
  \/ AdvanceRemove(e)
  \/ RollBackAdd(e)
  \/ RollBackRestore(e)
  \/ CommitRestore(e)

(* The exact evidence again: acknowledged, nothing changes.  Any other       *)
(* evidence of the operation is rejected from then on.                       *)
ReplayEvidence(e) ==
  /\ release_evidence[e.operation_id] = e
  /\ UNCHANGED gsVars

-----------------------------------------------------------------------------
GSNext ==
  \/ \E t \in Tasks, h \in Handles : AttachTask(t, h)
  \/ \E t \in Tasks : DetachTask(t) \/ ReportAges(t)
  \/ \E t \in Tasks, natives \in SUBSET Replicas : SubmitIdleReport(t, natives)
  \/ \E l \in LeaseIds : LeaseExpires(l)
  \/ \E lease \in LeaseForms : OpenLease(lease)
  \/ \E c \in CommandForms : StageOperation(c) \/ ReplayOperation(c)
  \/ \E e \in EvidenceForms : AdvanceLease(e) \/ ReplayEvidence(e)

GSSpec == GSInit /\ [][GSNext]_gsVars

-----------------------------------------------------------------------------
(* Properties *)

Unheld(l, lease) ==
  /\ \A b \in BundlesOf(lease) : active_bundle_owner[b] # l
  /\ \A g \in GpusOf(lease) : active_gpu_owner[g] # l

(* A lease holds all of its GPUs and bundles or none of them, and holds      *)
(* nothing else: no method leaves a reservation half made or half returned   *)
(* ("avoid check-and-mutate loops that can leave partial state").            *)
ClaimsMoveTogether ==
  /\ \A l \in LeaseIds : leases[l] # None =>
       Holds(l, leases[l]) \/ Unheld(l, leases[l])
  /\ \A g \in Gpus : active_gpu_owner[g] # None =>
       /\ leases[active_gpu_owner[g]] # None
       /\ g \in GpusOf(leases[active_gpu_owner[g]])
  /\ \A b \in Bundles : active_bundle_owner[b] # None =>
       /\ leases[active_bundle_owner[b]] # None
       /\ b \in BundlesOf(leases[active_bundle_owner[b]])

InHistory(o, l) == \E i \in DOMAIN release_history[l] : release_history[l][i] = o

(* The completion ledger and the history agree: an operation is in the       *)
(* history of its own lease, once, exactly when its evidence was accepted,   *)
(* except a RESTORE that was rolled back ("Do not add it to release_history, *)
(* otherwise a safe retry would be rejected").                               *)
HistoryMatchesEvidence ==
  /\ \A l \in LeaseIds :
       \A i, j \in DOMAIN release_history[l] :
         release_history[l][i] = release_history[l][j] => i = j
  /\ \A l \in LeaseIds, o \in OpIds :
       InHistory(o, l) <=>
         /\ operation_commands[o] # None
         /\ operation_commands[o].lease_id = l
         /\ release_evidence[o] # None
         /\ ~ ( /\ operation_commands[o].kind = "RESTORE"
                /\ release_evidence[o].type = "RELEASED")

(* A recorded borrower target is the target of a staged ADD of the lease     *)
(* that has not been rolled back: the target a REMOVE is checked against     *)
(* never outlives the last ADD that could have created it.                   *)
BorrowerTargetHasPendingAdd ==
  \A l \in LeaseIds : borrower_targets[l] # None =>
    \E o \in OpIds :
      /\ operation_commands[o] # None
      /\ operation_commands[o].kind = "ADD"
      /\ operation_commands[o].lease_id = l
      /\ operation_commands[o].target = borrower_targets[l]
      /\ release_evidence[o] = None

(* Ownership is lost only to the free pool, and only in the step that        *)
(* accepts evidence of an operation of the owning lease: the verified        *)
(* RELEASED of an exit or of a rollback, or the SERVICE_COMMITTED of the     *)
(* lease's RESTORE.  It never passes from one lease straight to another.     *)
OwnershipEndsByOwnEvidence ==
  [][\A g \in Gpus : active_gpu_owner'[g] # active_gpu_owner[g] =>
       \/ active_gpu_owner[g] = None
       \/ /\ active_gpu_owner'[g] = None
          /\ \E o \in OpIds :
               /\ operation_commands[o] # None
               /\ operation_commands[o].lease_id = active_gpu_owner[g]
               /\ release_evidence[o] = None
               /\ release_evidence'[o] # None]_gsVars
=============================================================================
