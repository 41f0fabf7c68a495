------------------------ MODULE GroupSchedulerProofs ------------------------
(***************************************************************************)
(* Proofs about the GroupScheduler ledger and about the lending cycle that *)
(* is built on it, for every number of tasks, leases, operations and GPUs. *)
(* The ledger is proved for callers that may present anything; the lending *)
(* cycle, from "The ledger as Lending uses it" on, for TaskRunners and     *)
(* commands that may fail, be lost, or be repeated, and a policy that      *)
(* waits for an operation of a lease before it submits the next one.       *)
(***************************************************************************)
EXTENDS Lending, SequenceTheorems, TLAPS

(* Evidence is only ever recorded for a staged operation; without this, a    *)
(* command staged later could inherit evidence that is not its own.          *)
EvidenceHasCommand ==
  \A o \in OpIds : release_evidence[o] # None => operation_commands[o] # None

(* The inductive invariant of the ledger. *)
LedgerInv ==
  /\ TypeOK
  /\ ClaimsMoveTogether
  /\ EvidenceHasCommand
  /\ HistoryMatchesEvidence
  /\ BorrowerTargetHasPendingAdd

-----------------------------------------------------------------------------
(* Facts about the data *)

(* Records and keys are never mistaken for an absent dictionary entry. *)
LEMMA NoneIsAbsent ==
  /\ None \notin LeaseIds /\ None \notin Replicas /\ None \notin Handles
  /\ None \notin LeaseForms /\ None \notin CommandForms
  /\ None \notin EvidenceForms
BY LedgerAssumption

(* The bundles and GPUs of a lease are bundles and GPUs, and there are some. *)
LEMMA ClaimsTyped ==
  ASSUME NEW lease \in LeaseForms
  PROVE  /\ GpusOf(lease) \subseteq Gpus
         /\ BundlesOf(lease) \subseteq Bundles
         /\ GpusOf(lease) # {}
         /\ BundlesOf(lease) # {}
         /\ lease.lease_id \in LeaseIds
         /\ lease.donor \in Replicas
         /\ lease.expires \in BOOLEAN
<1>1. lease \in Lease /\ lease.claims # {}
  BY LedgerAssumption DEF WellFormed
<1>2. \A c \in lease.claims : c.gpu \in Gpus /\ c.bundle \in Bundles
  BY <1>1 DEF Lease, Claim
<1> QED
  BY <1>1, <1>2 DEF Lease, GpusOf, BundlesOf

(* The fields of a staged command are an operation, a lease and a replica. *)
LEMMA CommandTyped ==
  ASSUME NEW c \in CommandForms
  PROVE  /\ c.operation_id \in OpIds /\ c.kind \in OperationKinds
         /\ c.lease_id \in LeaseIds /\ c.target \in Replicas
         /\ SessionOf[c.target] \in Tasks
BY LedgerAssumption DEF Command

(* The evidence a TaskRunner presents names an operation. *)
LEMMA EvidenceTyped ==
  ASSUME NEW e \in EvidenceForms
  PROVE  e.operation_id \in OpIds /\ e.type \in EvidenceTypes
BY LedgerAssumption DEF Evidence

-----------------------------------------------------------------------------
(* Type correctness *)

(* The empty ledger is well typed. *)
LEMMA InitTypeOK == GSInit => TypeOK
<1> SUFFICES ASSUME GSInit PROVE TypeOK
  OBVIOUS
<1>1. release_history \in [LeaseIds -> Seq(OpIds)]
  BY DEF GSInit
<1> QED
  BY <1>1 DEF GSInit, TypeOK

(* Reserving the claims of a lease enters a lease id as their owner. *)
LEMMA ReserveTyped ==
  ASSUME TypeOK, NEW l \in LeaseIds, NEW lease, ReserveClaims(l, lease)
  PROVE  /\ active_bundle_owner' \in [Bundles -> LeaseIds \cup {None}]
         /\ active_gpu_owner' \in [Gpus -> LeaseIds \cup {None}]
BY DEF TypeOK, ReserveClaims

(* Returning the claims of a lease leaves lease ids or None as owners. *)
LEMMA FreeTyped ==
  ASSUME TypeOK, NEW l \in LeaseIds, NEW lease, FreeClaims(l, lease)
  PROVE  /\ active_bundle_owner' \in [Bundles -> LeaseIds \cup {None}]
         /\ active_gpu_owner' \in [Gpus -> LeaseIds \cup {None}]
BY DEF TypeOK, FreeClaims

(* Appending an operation keeps the histories sequences of operations. *)
LEMMA HistoryTyped ==
  ASSUME TypeOK, NEW l \in LeaseIds, NEW o \in OpIds, AppendHistory(l, o)
  PROVE  release_history' \in [LeaseIds -> Seq(OpIds)]
<1>1. Append(release_history[l], o) \in Seq(OpIds)
  BY AppendProperties DEF TypeOK
<1> QED
  BY <1>1 DEF TypeOK, AppendHistory

(* What an action of each kind does to the parts TypeOK speaks of. *)
LEMMA AdvanceTyped ==
  ASSUME TypeOK, NEW e \in EvidenceForms, EvidenceAccepted(e)
  PROVE  /\ operation_commands[e.operation_id] \in CommandForms
         /\ operation_commands[e.operation_id].lease_id \in LeaseIds
         /\ leases[operation_commands[e.operation_id].lease_id] \in LeaseForms
BY EvidenceTyped, CommandTyped DEF TypeOK, EvidenceAccepted

(* Every method of the scheduler keeps the ledger well typed. *)
LEMMA NextTypeOK == TypeOK /\ [GSNext]_gsVars => TypeOK'
<1> SUFFICES ASSUME TypeOK, [GSNext]_gsVars PROVE TypeOK'
  OBVIOUS
<1>1. CASE UNCHANGED gsVars
  BY <1>1 DEF TypeOK, gsVars, progress, owners
<1>2. ASSUME NEW t \in Tasks, NEW h \in Handles, AttachTask(t, h)
      PROVE  TypeOK'
  BY <1>2 DEF TypeOK, AttachTask, progress, owners
<1>3. ASSUME NEW t \in Tasks, DetachTask(t) PROVE TypeOK'
  BY <1>3 DEF TypeOK, DetachTask, progress, owners
<1>4. ASSUME NEW t \in Tasks, ReportAges(t) PROVE TypeOK'
  <2>1. idle_reports[t] \in Report
    BY <1>4 DEF TypeOK, ReportAges
  <2>2. [idle_reports[t] EXCEPT !.fresh = FALSE] \in Report
    BY <2>1 DEF Report
  <2>3. idle_reports' \in [Tasks -> Report \cup {None}]
    BY <1>4, <2>2 DEF TypeOK, ReportAges
  <2> QED
    BY <1>4, <2>3 DEF TypeOK, ReportAges, progress, owners
<1>5. ASSUME NEW t \in Tasks, NEW natives \in SUBSET Replicas,
             SubmitIdleReport(t, natives)
      PROVE  TypeOK'
  <2>1. [fresh |-> TRUE, natives |-> natives] \in Report
    BY DEF Report
  <2> QED
    BY <1>5, <2>1 DEF TypeOK, SubmitIdleReport, progress, owners
<1>6. ASSUME NEW l \in LeaseIds, LeaseExpires(l) PROVE TypeOK'
  BY <1>6 DEF TypeOK, LeaseExpires, progress, owners
<1>7. ASSUME NEW lease \in LeaseForms, OpenLease(lease) PROVE TypeOK'
  <2>1. lease.lease_id \in LeaseIds
    BY ClaimsTyped
  <2>2. /\ active_bundle_owner' \in [Bundles -> LeaseIds \cup {None}]
        /\ active_gpu_owner' \in [Gpus -> LeaseIds \cup {None}]
    BY <1>7, <2>1, ReserveTyped DEF OpenLease
  <2>3. claim_id_owner' \in [ClaimIds -> LeaseIds \cup {None}]
    BY <1>7, <2>1 DEF TypeOK, OpenLease
  <2> QED
    BY <1>7, <2>1, <2>2, <2>3 DEF TypeOK, OpenLease, progress
<1>8. ASSUME NEW c \in CommandForms, StageOperation(c) PROVE TypeOK'
  <2>1. /\ c.operation_id \in OpIds /\ c.lease_id \in LeaseIds
        /\ c.target \in Replicas
    BY CommandTyped
  <2>2. /\ active_bundle_owner' \in [Bundles -> LeaseIds \cup {None}]
        /\ active_gpu_owner' \in [Gpus -> LeaseIds \cup {None}]
    <3>1. CASE c.kind = "RESTORE"
      BY <1>8, <2>1, <3>1, ReserveTyped DEF StageOperation
    <3>2. CASE c.kind # "RESTORE"
      BY <1>8, <3>2 DEF StageOperation, TypeOK
    <3> QED
      BY <3>1, <3>2
  <2> QED
    BY <1>8, <2>1, <2>2 DEF TypeOK, StageOperation
<1>9. ASSUME NEW c \in CommandForms, ReplayOperation(c) PROVE TypeOK'
  BY <1>1, <1>9 DEF ReplayOperation
<1>10. ASSUME NEW e \in EvidenceForms, AdvanceLease(e) PROVE TypeOK'
  <2> DEFINE o == e.operation_id
             l == operation_commands[o].lease_id
  <2>1. EvidenceAccepted(e)
    BY <1>10 DEF AdvanceLease, AdvanceDonate, AdvanceRemove, RollBackAdd,
                 RollBackRestore, CommitRestore, ForgetTarget
  <2>2. o \in OpIds /\ l \in LeaseIds
    BY <2>1, AdvanceTyped, EvidenceTyped
  <2>3. /\ active_bundle_owner' \in [Bundles -> LeaseIds \cup {None}]
        /\ active_gpu_owner' \in [Gpus -> LeaseIds \cup {None}]
    <3>1. CASE AdvanceDonate(e)
      BY <3>1 DEF AdvanceDonate, TypeOK
    <3>2. CASE ~ AdvanceDonate(e)
      <4>1. FreeClaims(l, leases[l])
        BY <1>10, <3>2 DEF AdvanceLease, AdvanceRemove, RollBackAdd,
                           RollBackRestore, CommitRestore, ForgetTarget
      <4> QED
        BY <2>2, <4>1, FreeTyped
    <3> QED
      BY <3>1, <3>2
  <2>4. release_history' \in [LeaseIds -> Seq(OpIds)]
    <3>1. CASE RollBackRestore(e)
      BY <3>1 DEF RollBackRestore, TypeOK
    <3>2. CASE ~ RollBackRestore(e)
      <4>1. AppendHistory(l, o)
        BY <1>10, <3>2 DEF AdvanceLease, AdvanceDonate, AdvanceRemove,
                           RollBackAdd, CommitRestore, ForgetTarget
      <4> QED
        BY <2>2, <4>1, HistoryTyped
    <3> QED
      BY <3>1, <3>2
  <2>5. /\ RecordEvidence(e) /\ AdvanceFrame
        /\ \/ borrower_targets' = borrower_targets
           \/ borrower_targets' = [borrower_targets EXCEPT ![l] = None]
        /\ handoff_ready_leases' \subseteq handoff_ready_leases \cup {l}
    BY <1>10 DEF AdvanceLease, AdvanceDonate, AdvanceRemove, RollBackAdd,
                 RollBackRestore, CommitRestore, ForgetTarget
  <2>6. borrower_targets' \in [LeaseIds -> Replicas \cup {None}]
    BY <2>2, <2>5 DEF TypeOK
  <2> HIDE DEF o, l
  <2> QED
    BY <2>2, <2>3, <2>4, <2>5, <2>6
    DEF TypeOK, RecordEvidence, AdvanceFrame, o
<1>11. ASSUME NEW e \in EvidenceForms, ReplayEvidence(e) PROVE TypeOK'
  BY <1>1, <1>11 DEF ReplayEvidence
<1> QED
  BY <1>1, <1>2, <1>3, <1>4, <1>5, <1>6, <1>7, <1>8, <1>9, <1>10, <1>11
  DEF GSNext

(* Every value in the ledger has the type its dictionary is declared with. *)
THEOREM LedgerTypeOK == GSSpec => []TypeOK
BY InitTypeOK, NextTypeOK, PTL DEF GSSpec

-----------------------------------------------------------------------------
(* Claims move together *)

(* Reserving claims that nobody else owns keeps every lease whole: a lease   *)
(* that shares one of them held none of its own before, and holds none now.  *)
LEMMA ReserveKeepsWhole ==
  ASSUME TypeOK, TypeOK', ClaimsMoveTogether,
         NEW l \in LeaseIds, NEW lease \in LeaseForms,
         leases[l] \in {None, lease},
         leases' = [leases EXCEPT ![l] = lease],
         \A b \in BundlesOf(lease) : active_bundle_owner[b] \in {None, l},
         \A g \in GpusOf(lease) : active_gpu_owner[g] \in {None, l},
         ReserveClaims(l, lease)
  PROVE  ClaimsMoveTogether'
<1>1. /\ l # None /\ lease # None
      /\ GpusOf(lease) \subseteq Gpus /\ BundlesOf(lease) \subseteq Bundles
  BY NoneIsAbsent, ClaimsTyped
<1>2. \A m \in LeaseIds : leases[m] # None =>
        GpusOf(leases[m]) \subseteq Gpus /\ BundlesOf(leases[m]) \subseteq Bundles
  BY ClaimsTyped DEF TypeOK
<1>3. ASSUME NEW m \in LeaseIds, leases'[m] # None
      PROVE  Holds(m, leases[m])' \/ Unheld(m, leases[m])'
  <2>1. CASE m = l
    BY <1>1, <2>1 DEF Holds, ReserveClaims, TypeOK
  <2>2. CASE m # l
    <3>1. leases'[m] = leases[m] /\ leases[m] # None
      BY <1>3, <2>2 DEF TypeOK
    <3>2. CASE Unheld(m, leases[m])
      BY <1>1, <1>2, <2>2, <3>1, <3>2 DEF Unheld, ReserveClaims
    <3>3. CASE Holds(m, leases[m])
      <4>1. /\ \A b \in BundlesOf(leases[m]) : b \notin BundlesOf(lease)
            /\ \A g \in GpusOf(leases[m]) : g \notin GpusOf(lease)
        BY <2>2, <3>3, NoneIsAbsent DEF Holds
      <4> QED
        BY <1>2, <3>1, <3>3, <4>1 DEF Holds, ReserveClaims
    <3> QED
      BY <3>1, <3>2, <3>3 DEF ClaimsMoveTogether
  <2> QED
    BY <2>1, <2>2
<1>4. ASSUME NEW g \in Gpus, active_gpu_owner'[g] # None
      PROVE  /\ leases'[active_gpu_owner'[g]] # None
             /\ g \in GpusOf(leases'[active_gpu_owner'[g]])
  <2>1. CASE g \in GpusOf(lease)
    BY <1>1, <2>1 DEF ReserveClaims, TypeOK
  <2>2. CASE g \notin GpusOf(lease)
    <3>1. active_gpu_owner'[g] = active_gpu_owner[g]
      BY <2>2 DEF ReserveClaims
    <3>2. active_gpu_owner[g] # l
      BY <1>4, <2>2, <3>1 DEF ClaimsMoveTogether
    <3> QED
      BY <1>4, <3>1, <3>2 DEF ClaimsMoveTogether, TypeOK
  <2> QED
    BY <2>1, <2>2
<1>5. ASSUME NEW b \in Bundles, active_bundle_owner'[b] # None
      PROVE  /\ leases'[active_bundle_owner'[b]] # None
             /\ b \in BundlesOf(leases'[active_bundle_owner'[b]])
  <2>1. CASE b \in BundlesOf(lease)
    BY <1>1, <2>1 DEF ReserveClaims, TypeOK
  <2>2. CASE b \notin BundlesOf(lease)
    <3>1. active_bundle_owner'[b] = active_bundle_owner[b]
      BY <2>2 DEF ReserveClaims
    <3>2. active_bundle_owner[b] # l
      BY <1>5, <2>2, <3>1 DEF ClaimsMoveTogether
    <3> QED
      BY <1>5, <3>1, <3>2 DEF ClaimsMoveTogether, TypeOK
  <2> QED
    BY <2>1, <2>2
<1> QED
  BY <1>3, <1>4, <1>5 DEF ClaimsMoveTogether

(* Returning what a lease owns leaves it with nothing and the others alone.  *)
LEMMA FreeKeepsWhole ==
  ASSUME TypeOK, ClaimsMoveTogether, NEW l \in LeaseIds, leases[l] # None,
         leases' = leases, FreeClaims(l, leases[l])
  PROVE  ClaimsMoveTogether'
<1>1. \A m \in LeaseIds : leases[m] # None =>
        GpusOf(leases[m]) \subseteq Gpus /\ BundlesOf(leases[m]) \subseteq Bundles
  BY ClaimsTyped DEF TypeOK
<1>2. ASSUME NEW m \in LeaseIds, leases[m] # None
      PROVE  Holds(m, leases[m])' \/ Unheld(m, leases[m])'
  <2>1. CASE m = l
    BY <1>1, <2>1, NoneIsAbsent DEF Unheld, FreeClaims
  <2>2. CASE m # l /\ Holds(m, leases[m])
    BY <1>1, <1>2, <2>2 DEF Holds, FreeClaims
  <2>3. CASE m # l /\ Unheld(m, leases[m])
    BY <1>1, <1>2, <2>3, NoneIsAbsent DEF Unheld, FreeClaims
  <2> QED
    BY <1>2, <2>1, <2>2, <2>3 DEF ClaimsMoveTogether
<1>3. \A g \in Gpus : active_gpu_owner'[g] # None =>
        active_gpu_owner'[g] = active_gpu_owner[g]
  BY DEF FreeClaims
<1>4. \A b \in Bundles : active_bundle_owner'[b] # None =>
        active_bundle_owner'[b] = active_bundle_owner[b]
  BY DEF FreeClaims
<1> QED
  BY <1>2, <1>3, <1>4 DEF ClaimsMoveTogether

(* Nothing the other actions change is mentioned by ClaimsMoveTogether. *)
LEMMA SameClaimsKeepWhole ==
  ASSUME ClaimsMoveTogether, leases' = leases,
         UNCHANGED <<active_bundle_owner, active_gpu_owner>>
  PROVE  ClaimsMoveTogether'
BY DEF ClaimsMoveTogether, Holds, Unheld

(* Every method leaves each lease with all of its claims or none. *)
LEMMA NextClaimsMoveTogether ==
  TypeOK /\ TypeOK' /\ ClaimsMoveTogether /\ [GSNext]_gsVars
    => ClaimsMoveTogether'
<1> SUFFICES ASSUME TypeOK, TypeOK', ClaimsMoveTogether, [GSNext]_gsVars
             PROVE  ClaimsMoveTogether'
  OBVIOUS
<1>1. CASE /\ leases' = leases
           /\ UNCHANGED <<active_bundle_owner, active_gpu_owner>>
  BY <1>1, SameClaimsKeepWhole
<1>2. ASSUME NEW lease \in LeaseForms, OpenLease(lease)
      PROVE  ClaimsMoveTogether'
  <2>1. lease.lease_id \in LeaseIds
    BY ClaimsTyped
  <2> QED
    BY <1>2, <2>1, ReserveKeepsWhole DEF OpenLease
<1>3. ASSUME NEW c \in CommandForms, StageOperation(c), c.kind = "RESTORE"
      PROVE  ClaimsMoveTogether'
  <2>1. c.lease_id \in LeaseIds
    BY CommandTyped
  <2>2. leases[c.lease_id] \in LeaseForms
    BY <1>3, <2>1 DEF StageOperation, TypeOK
  <2>3. Unclaimed(leases[c.lease_id])
    BY <1>3 DEF StageOperation, PhaseAllows, RestoreAllowed
  <2>4. leases' = [leases EXCEPT ![c.lease_id] = leases[c.lease_id]]
    BY <1>3, <2>1 DEF StageOperation, TypeOK
  <2>5. ReserveClaims(c.lease_id, leases[c.lease_id])
    BY <1>3 DEF StageOperation
  <2> QED
    BY <2>1, <2>2, <2>3, <2>4, <2>5, ReserveKeepsWhole DEF Unclaimed
<1>4. ASSUME NEW e \in EvidenceForms, AdvanceLease(e), ~ AdvanceDonate(e)
      PROVE  ClaimsMoveTogether'
  <2> DEFINE l == operation_commands[e.operation_id].lease_id
  <2>1. EvidenceAccepted(e) /\ FreeClaims(l, leases[l]) /\ leases' = leases
    BY <1>4 DEF AdvanceLease, AdvanceRemove, RollBackAdd, RollBackRestore,
                CommitRestore, ForgetTarget, AdvanceFrame
  <2>2. l \in LeaseIds /\ leases[l] # None
    BY <2>1, AdvanceTyped, NoneIsAbsent
  <2> QED
    BY <2>1, <2>2, FreeKeepsWhole
<1>5. CASE UNCHANGED gsVars
  BY <1>1, <1>5 DEF gsVars, owners
<1>6. ASSUME NEW t \in Tasks,
             \/ \E h \in Handles : AttachTask(t, h)
             \/ DetachTask(t)
             \/ ReportAges(t)
             \/ \E natives \in SUBSET Replicas : SubmitIdleReport(t, natives)
      PROVE  ClaimsMoveTogether'
  BY <1>1, <1>6 DEF AttachTask, DetachTask, ReportAges, SubmitIdleReport, owners
<1>7. ASSUME NEW l \in LeaseIds, LeaseExpires(l) PROVE ClaimsMoveTogether'
  BY <1>1, <1>7 DEF LeaseExpires, owners
<1>8. ASSUME NEW c \in CommandForms, StageOperation(c), c.kind # "RESTORE"
      PROVE  ClaimsMoveTogether'
  BY <1>1, <1>8 DEF StageOperation
<1>9. ASSUME NEW e \in EvidenceForms, AdvanceDonate(e)
      PROVE  ClaimsMoveTogether'
  BY <1>1, <1>9 DEF AdvanceDonate, AdvanceFrame
<1> QED
  BY <1>2, <1>3, <1>4, <1>5, <1>6, <1>7, <1>8, <1>9
  DEF GSNext, ReplayOperation, ReplayEvidence

-----------------------------------------------------------------------------
(* Evidence, history and borrower targets *)

(* Appending an operation that was not there keeps a history free of         *)
(* repetitions and adds that operation only.                                 *)
LEMMA AppendedHistory ==
  ASSUME TypeOK, NEW l \in LeaseIds, NEW o \in OpIds, AppendHistory(l, o)
  PROVE  /\ \A m \in LeaseIds : m # l => release_history'[m] = release_history[m]
         /\ \A p \in OpIds : InHistory(p, l)' <=> InHistory(p, l) \/ p = o
         /\ (\A i, j \in DOMAIN release_history[l] :
                release_history[l][i] = release_history[l][j] => i = j)
              /\ ~ InHistory(o, l)
              => \A i, j \in DOMAIN release_history'[l] :
                   release_history'[l][i] = release_history'[l][j] => i = j
<1> DEFINE s == release_history[l]
           n == Len(s) + 1
<1>1. /\ s \in Seq(OpIds)
      /\ release_history'[l] = Append(s, o)
      /\ \A m \in LeaseIds : m # l => release_history'[m] = release_history[m]
  BY DEF TypeOK, AppendHistory
<1>2. /\ Len(s) \in Nat
      /\ DOMAIN s = 1 .. Len(s)
      /\ DOMAIN release_history'[l] = 1 .. n
      /\ \A i \in 1 .. Len(s) : release_history'[l][i] = s[i]
      /\ release_history'[l][n] = o
  BY <1>1, AppendProperties, LenProperties
<1> HIDE DEF s
<1>3. \A i \in 1 .. n : i = n \/ i \in 1 .. Len(s)
  BY <1>2
<1>4. \A i \in 1 .. Len(s) : i \in 1 .. n
  BY <1>2
<1>4a. n \in 1 .. n
  BY <1>2
<1> HIDE DEF n
<1>5. \A p \in OpIds : InHistory(p, l)' <=> InHistory(p, l) \/ p = o
  BY <1>2, <1>3, <1>4, <1>4a DEF InHistory, s
<1>6. ASSUME \A i, j \in DOMAIN s : s[i] = s[j] => i = j, ~ InHistory(o, l),
             NEW i \in 1 .. n, NEW j \in 1 .. n,
             release_history'[l][i] = release_history'[l][j]
      PROVE  i = j
  <2>1. \A k \in 1 .. Len(s) : s[k] # o
    BY <1>2, <1>6 DEF InHistory, s
  <2> QED
    BY <1>2, <1>3, <1>6, <2>1
<1> QED
  BY <1>1, <1>2, <1>5, <1>6 DEF s

(* Accepting evidence of an operation that had none, with the history of its *)
(* lease growing exactly when the evidence closes a stage.                   *)
LEMMA AcceptKeepsHistory ==
  ASSUME TypeOK, EvidenceHasCommand, HistoryMatchesEvidence,
         NEW e \in EvidenceForms, EvidenceAccepted(e), RecordEvidence(e),
         operation_commands' = operation_commands,
         LET c == operation_commands[e.operation_id]
             rolledBack == c.kind = "RESTORE" /\ e.type = "RELEASED"
         IN  /\ ~ rolledBack => AppendHistory(c.lease_id, e.operation_id)
             /\ rolledBack => UNCHANGED release_history
  PROVE  EvidenceHasCommand' /\ HistoryMatchesEvidence'
<1> DEFINE o == e.operation_id
           c == operation_commands[o]
           rolledBack == c.kind = "RESTORE" /\ e.type = "RELEASED"
<1>0. PICK l \in LeaseIds : l = c.lease_id
  BY AdvanceTyped
<1>1. o \in OpIds /\ l \in LeaseIds /\ c # None /\ e # None
  BY <1>0, EvidenceTyped, AdvanceTyped, NoneIsAbsent
<1>2. /\ release_evidence[o] = None
      /\ release_evidence'[o] = e
      /\ \A p \in OpIds : p # o => release_evidence'[p] = release_evidence[p]
  BY <1>1 DEF EvidenceAccepted, RecordEvidence, TypeOK
<1>3. \A m \in LeaseIds : ~ InHistory(o, m)
  BY <1>1, <1>2 DEF HistoryMatchesEvidence
<1>4. EvidenceHasCommand'
  BY <1>1, <1>2 DEF EvidenceHasCommand
<1>5. CASE rolledBack
  <2>1. release_history' = release_history
    BY <1>5
  <2>2. \A p \in OpIds, m \in LeaseIds : InHistory(p, m)' <=> InHistory(p, m)
    BY <2>1 DEF InHistory
  <2> HIDE DEF o
  <2> QED
    BY <1>0, <1>1, <1>2, <1>3, <1>4, <1>5, <2>1, <2>2 DEF HistoryMatchesEvidence
<1>6. CASE ~ rolledBack
  <2>1. AppendHistory(l, o)
    BY <1>0, <1>6
  <2>2. /\ \A m \in LeaseIds : m # l => release_history'[m] = release_history[m]
        /\ \A p \in OpIds : InHistory(p, l)' <=> InHistory(p, l) \/ p = o
        /\ \A i, j \in DOMAIN release_history'[l] :
             release_history'[l][i] = release_history'[l][j] => i = j
    BY <1>1, <1>3, <2>1, AppendedHistory DEF HistoryMatchesEvidence
  <2>3. \A m \in LeaseIds :
          \A i, j \in DOMAIN release_history'[m] :
            release_history'[m][i] = release_history'[m][j] => i = j
    BY <2>2 DEF HistoryMatchesEvidence
  <2>4. \A p \in OpIds, m \in LeaseIds :
          InHistory(p, m)' <=> InHistory(p, m) \/ (p = o /\ m = l)
    BY <1>1, <1>3, <2>2 DEF InHistory
  <2> HIDE DEF o
  <2> QED
    BY <1>0, <1>1, <1>2, <1>4, <1>6, <2>3, <2>4 DEF HistoryMatchesEvidence
<1> QED
  BY <1>5, <1>6

(* Every method keeps the history in step with the accepted evidence. *)
LEMMA NextHistory ==
  TypeOK /\ EvidenceHasCommand /\ HistoryMatchesEvidence /\ [GSNext]_gsVars
    => EvidenceHasCommand' /\ HistoryMatchesEvidence'
<1> SUFFICES ASSUME TypeOK, EvidenceHasCommand, HistoryMatchesEvidence,
                    [GSNext]_gsVars
             PROVE  EvidenceHasCommand' /\ HistoryMatchesEvidence'
  OBVIOUS
<1>1. CASE UNCHANGED <<operation_commands, release_evidence, release_history>>
  BY <1>1 DEF EvidenceHasCommand, HistoryMatchesEvidence, InHistory
<1>2. ASSUME NEW c \in CommandForms, StageOperation(c)
      PROVE  EvidenceHasCommand' /\ HistoryMatchesEvidence'
  <2> DEFINE o == c.operation_id
  <2>1. /\ o \in OpIds /\ c # None
        /\ operation_commands[o] = None
        /\ operation_commands'[o] = c
        /\ \A p \in OpIds : p # o =>
              operation_commands'[p] = operation_commands[p]
        /\ UNCHANGED <<release_evidence, release_history>>
    BY <1>2, CommandTyped, NoneIsAbsent DEF StageOperation, TypeOK
  <2>2. release_evidence[o] = None
    BY <2>1 DEF EvidenceHasCommand
  <2> HIDE DEF o
  <2> QED
    BY <2>1, <2>2 DEF EvidenceHasCommand, HistoryMatchesEvidence, InHistory
<1>3. ASSUME NEW e \in EvidenceForms, AdvanceLease(e)
      PROVE  EvidenceHasCommand' /\ HistoryMatchesEvidence'
  <2>1. /\ EvidenceAccepted(e) /\ RecordEvidence(e)
        /\ operation_commands' = operation_commands
    BY <1>3 DEF AdvanceLease, AdvanceDonate, AdvanceRemove, RollBackAdd,
                RollBackRestore, CommitRestore, ForgetTarget, AdvanceFrame
  <2>2. LET c == operation_commands[e.operation_id]
            rolledBack == c.kind = "RESTORE" /\ e.type = "RELEASED"
        IN  /\ ~ rolledBack => AppendHistory(c.lease_id, e.operation_id)
            /\ rolledBack => UNCHANGED release_history
    BY <1>3 DEF AdvanceLease, AdvanceDonate, AdvanceRemove, RollBackAdd,
                RollBackRestore, CommitRestore, ForgetTarget, Covers
  <2> QED
    BY <2>1, <2>2, AcceptKeepsHistory
<1>4. CASE UNCHANGED gsVars
  BY <1>1, <1>4 DEF gsVars, progress
<1>5. ASSUME NEW t \in Tasks,
             \/ \E h \in Handles : AttachTask(t, h)
             \/ DetachTask(t)
             \/ ReportAges(t)
             \/ \E natives \in SUBSET Replicas : SubmitIdleReport(t, natives)
      PROVE  EvidenceHasCommand' /\ HistoryMatchesEvidence'
  BY <1>1, <1>5
  DEF AttachTask, DetachTask, ReportAges, SubmitIdleReport, progress
<1>6. ASSUME NEW l \in LeaseIds, LeaseExpires(l)
      PROVE  EvidenceHasCommand' /\ HistoryMatchesEvidence'
  BY <1>1, <1>6 DEF LeaseExpires, progress
<1>7. ASSUME NEW lease \in LeaseForms, OpenLease(lease)
      PROVE  EvidenceHasCommand' /\ HistoryMatchesEvidence'
  BY <1>1, <1>7 DEF OpenLease, progress
<1> QED
  BY <1>2, <1>3, <1>4, <1>5, <1>6, <1>7
  DEF GSNext, ReplayOperation, ReplayEvidence

(* An ADD still pending before a step that neither rolls back an ADD of the  *)
(* lease nor restages it is pending after the step.                          *)
LEMMA NextBorrower ==
  TypeOK /\ EvidenceHasCommand /\ BorrowerTargetHasPendingAdd /\ [GSNext]_gsVars
    => BorrowerTargetHasPendingAdd'
<1> SUFFICES ASSUME TypeOK, EvidenceHasCommand, BorrowerTargetHasPendingAdd,
                    [GSNext]_gsVars, NEW l \in LeaseIds, borrower_targets'[l] # None
             PROVE  \E o \in OpIds :
                      /\ operation_commands'[o] # None
                      /\ operation_commands'[o].kind = "ADD"
                      /\ operation_commands'[o].lease_id = l
                      /\ operation_commands'[o].target = borrower_targets'[l]
                      /\ release_evidence'[o] = None
  BY DEF BorrowerTargetHasPendingAdd
<1> DEFINE Pending(o) == /\ operation_commands[o] # None
                         /\ operation_commands[o].kind = "ADD"
                         /\ operation_commands[o].lease_id = l
                         /\ operation_commands[o].target = borrower_targets[l]
                         /\ release_evidence[o] = None
<1>1. CASE UNCHANGED <<operation_commands, release_evidence, borrower_targets>>
  BY <1>1 DEF BorrowerTargetHasPendingAdd
<1>2. ASSUME NEW c \in CommandForms, StageOperation(c)
      PROVE  \E o \in OpIds : Pending(o)'
  <2>1. /\ c.operation_id \in OpIds /\ c # None
        /\ operation_commands[c.operation_id] = None
        /\ operation_commands' = [operation_commands EXCEPT ![c.operation_id] = c]
        /\ release_evidence' = release_evidence
    BY <1>2, CommandTyped, NoneIsAbsent DEF StageOperation
  <2>2. CASE c.kind = "ADD" /\ c.lease_id = l
    <3>1. borrower_targets'[l] = c.target
      BY <1>2, <2>2 DEF StageOperation, TypeOK
    <3>2. release_evidence[c.operation_id] = None
      BY <1>2, <2>1 DEF EvidenceHasCommand
    <3> QED
      BY <2>1, <2>2, <3>1, <3>2 DEF TypeOK
  <2>3. CASE ~ (c.kind = "ADD" /\ c.lease_id = l)
    <3>1. borrower_targets'[l] = borrower_targets[l]
      BY <1>2, <2>3 DEF StageOperation, TypeOK
    <3>2. PICK o \in OpIds : Pending(o)
      BY <3>1 DEF BorrowerTargetHasPendingAdd
    <3>3. o # c.operation_id
      BY <2>1, <3>2
    <3> QED
      BY <2>1, <3>1, <3>2, <3>3 DEF TypeOK
  <2> QED
    BY <2>2, <2>3
<1>3. ASSUME NEW e \in EvidenceForms, AdvanceLease(e)
      PROVE  \E o \in OpIds : Pending(o)'
  <2> DEFINE c == operation_commands[e.operation_id]
  <2>1. /\ RecordEvidence(e) /\ AdvanceFrame /\ EvidenceAccepted(e)
        /\ \/ c.kind # "ADD" /\ borrower_targets' = borrower_targets
           \/ borrower_targets' = [borrower_targets EXCEPT ![c.lease_id] = None]
    BY <1>3 DEF AdvanceLease, AdvanceDonate, AdvanceRemove, RollBackAdd,
                RollBackRestore, CommitRestore, ForgetTarget
  <2>2. /\ e.operation_id \in OpIds /\ c.lease_id \in LeaseIds
        /\ operation_commands' = operation_commands
    BY <2>1, AdvanceTyped, EvidenceTyped DEF AdvanceFrame
  <2>3. borrower_targets'[l] = borrower_targets[l]
    BY <2>1, <2>2 DEF TypeOK
  <2>4. PICK o \in OpIds : Pending(o)
    BY <2>3 DEF BorrowerTargetHasPendingAdd
  <2>5. o # e.operation_id
    BY <2>1, <2>2, <2>4 DEF TypeOK
  <2> QED
    BY <2>1, <2>2, <2>3, <2>4, <2>5 DEF RecordEvidence, TypeOK
<1>4. CASE UNCHANGED gsVars
  BY <1>1, <1>4 DEF gsVars, progress
<1>5. ASSUME NEW t \in Tasks,
             \/ \E h \in Handles : AttachTask(t, h)
             \/ DetachTask(t)
             \/ ReportAges(t)
             \/ \E natives \in SUBSET Replicas : SubmitIdleReport(t, natives)
      PROVE  UNCHANGED <<operation_commands, release_evidence, borrower_targets>>
  BY <1>5 DEF AttachTask, DetachTask, ReportAges, SubmitIdleReport, progress
<1>6. ASSUME \/ \E m \in LeaseIds : LeaseExpires(m)
             \/ \E lease \in LeaseForms : OpenLease(lease)
      PROVE  UNCHANGED <<operation_commands, release_evidence, borrower_targets>>
  BY <1>6 DEF LeaseExpires, OpenLease, progress
<1> QED
  BY <1>1, <1>2, <1>3, <1>4, <1>5, <1>6
  DEF GSNext, ReplayOperation, ReplayEvidence

-----------------------------------------------------------------------------
(* The theorems *)

(* The empty ledger satisfies the inductive invariant. *)
LEMMA InitLedgerInv == GSInit => LedgerInv
<1> SUFFICES ASSUME GSInit PROVE LedgerInv
  OBVIOUS
<1>1. ClaimsMoveTogether /\ EvidenceHasCommand /\ BorrowerTargetHasPendingAdd
  BY DEF GSInit, ClaimsMoveTogether, EvidenceHasCommand,
         BorrowerTargetHasPendingAdd
<1>2. HistoryMatchesEvidence
  BY DEF GSInit, HistoryMatchesEvidence, InHistory
<1> QED
  BY <1>1, <1>2, InitTypeOK DEF LedgerInv

(* Every method preserves the inductive invariant. *)
LEMMA NextLedgerInv == LedgerInv /\ [GSNext]_gsVars => LedgerInv'
BY NextTypeOK, NextClaimsMoveTogether, NextHistory, NextBorrower DEF LedgerInv

(* The inductive invariant holds throughout. *)
LEMMA LedgerInvariant == GSSpec => []LedgerInv
BY InitLedgerInv, NextLedgerInv, PTL DEF GSSpec

(* A lease always holds all of its GPUs and bundles or none of them, and     *)
(* every held GPU or bundle is claimed by the opened lease that holds it,    *)
(* whatever the policy and the TaskRunners present to the scheduler.         *)
THEOREM LeasesStayWhole == GSSpec => []ClaimsMoveTogether
<1>1. LedgerInv => ClaimsMoveTogether
  BY DEF LedgerInv
<1> QED
  BY <1>1, LedgerInvariant, PTL

(* The history of a lease is exactly the operations whose evidence closed a  *)
(* stage of it, each once; replayed or conflicting evidence adds nothing.    *)
THEOREM HistoryIsEvidenced == GSSpec => []HistoryMatchesEvidence
<1>1. LedgerInv => HistoryMatchesEvidence
  BY DEF LedgerInv
<1> QED
  BY <1>1, LedgerInvariant, PTL

(* A recorded borrower target always has an ADD that has not been undone.    *)
THEOREM BorrowerIsPending == GSSpec => []BorrowerTargetHasPendingAdd
<1>1. LedgerInv => BorrowerTargetHasPendingAdd
  BY DEF LedgerInv
<1> QED
  BY <1>1, LedgerInvariant, PTL

(* A step that changes the owner of a held GPU frees it, and accepts         *)
(* evidence of an operation of the lease that held it.                       *)
LEMMA StepOwnership ==
  ASSUME LedgerInv, [GSNext]_gsVars, NEW g \in Gpus,
         active_gpu_owner'[g] # active_gpu_owner[g], active_gpu_owner[g] # None
  PROVE  /\ active_gpu_owner'[g] = None
         /\ \E o \in OpIds :
              /\ operation_commands[o] # None
              /\ operation_commands[o].lease_id = active_gpu_owner[g]
              /\ release_evidence[o] = None
              /\ release_evidence'[o] # None
<1> USE DEF LedgerInv
<1>1. ASSUME NEW lease \in LeaseForms, OpenLease(lease) PROVE FALSE
  BY <1>1 DEF OpenLease, ReserveClaims, TypeOK
<1>2. ASSUME NEW c \in CommandForms, StageOperation(c) PROVE FALSE
  BY <1>2 DEF StageOperation, ReserveClaims, PhaseAllows, RestoreAllowed,
              Unclaimed, TypeOK
<1>3. ASSUME NEW e \in EvidenceForms, AdvanceLease(e)
      PROVE  /\ active_gpu_owner'[g] = None
             /\ \E o \in OpIds :
                  /\ operation_commands[o] # None
                  /\ operation_commands[o].lease_id = active_gpu_owner[g]
                  /\ release_evidence[o] = None
                  /\ release_evidence'[o] # None
  <2> DEFINE o == e.operation_id
             l == operation_commands[o].lease_id
  <2>1. EvidenceAccepted(e) /\ RecordEvidence(e)
    BY <1>3 DEF AdvanceLease, AdvanceDonate, AdvanceRemove, RollBackAdd,
                RollBackRestore, CommitRestore, ForgetTarget
  <2>2. FreeClaims(l, leases[l])
    BY <1>3 DEF AdvanceLease, AdvanceDonate, AdvanceRemove, RollBackAdd,
                RollBackRestore, CommitRestore, ForgetTarget
  <2>3. active_gpu_owner'[g] = None /\ active_gpu_owner[g] = l
    BY <2>2 DEF FreeClaims, TypeOK
  <2>4. o \in OpIds /\ e # None /\ release_evidence'[o] = e
    BY <2>1, EvidenceTyped, NoneIsAbsent DEF RecordEvidence, TypeOK
  <2>5. operation_commands[o] # None /\ release_evidence[o] = None
    BY <2>1 DEF EvidenceAccepted
  <2> QED
    BY <2>3, <2>4, <2>5
<1>4. CASE active_gpu_owner' = active_gpu_owner
  BY <1>4
<1>5. ASSUME \/ UNCHANGED gsVars
             \/ \E t \in Tasks, h \in Handles : AttachTask(t, h)
             \/ \E t \in Tasks : DetachTask(t) \/ ReportAges(t)
             \/ \E t \in Tasks, natives \in SUBSET Replicas :
                  SubmitIdleReport(t, natives)
             \/ \E m \in LeaseIds : LeaseExpires(m)
      PROVE  active_gpu_owner' = active_gpu_owner
  BY <1>5 DEF gsVars, owners, AttachTask, DetachTask, ReportAges,
              SubmitIdleReport, LeaseExpires
<1> QED
  BY <1>1, <1>2, <1>3, <1>4, <1>5 DEF GSNext, ReplayOperation, ReplayEvidence

(* GPU ownership never passes from one lease straight to another: it returns *)
(* to the free pool, in the step that accepts evidence of an operation of    *)
(* the owning lease, and in no other.                                        *)
THEOREM OwnershipIsEvidenced == GSSpec => OwnershipEndsByOwnEvidence
<1>1. LedgerInv /\ [GSNext]_gsVars =>
        [\A g \in Gpus : active_gpu_owner'[g] # active_gpu_owner[g] =>
           \/ active_gpu_owner[g] = None
           \/ /\ active_gpu_owner'[g] = None
              /\ \E o \in OpIds :
                   /\ operation_commands[o] # None
                   /\ operation_commands[o].lease_id = active_gpu_owner[g]
                   /\ release_evidence[o] = None
                   /\ release_evidence'[o] # None]_gsVars
  BY StepOwnership
<1> QED
  BY <1>1, LedgerInvariant, PTL DEF GSSpec, OwnershipEndsByOwnEvidence

-----------------------------------------------------------------------------
(* The ledger as Lending uses it *)

(* The stage of each lease, and the leases that own their claims. *)
last == [l \in LeaseIds |-> LastKind(l)]

held == {l \in LeaseIds : leases[l] # None /\ Holds(l, leases[l])}

(* All that the invariant of the lending cycle needs of the ledger. *)
ledger == <<leases, expired, operation_commands, borrower_targets,
            release_evidence, handoff_ready_leases, last, held>>

(* A step that leaves the ledger alone leaves its stages and owners alone. *)
LEMMA SameLedger ==
  ASSUME UNCHANGED gsVars
  PROVE  UNCHANGED ledger
BY DEF gsVars, progress, owners, ledger, last, held, LastKind, Holds

(* The stage of a lease is the kind of a staged command, or None before the  *)
(* first one has been completed.                                             *)
LEMMA StageTyped ==
  ASSUME LedgerInv, NEW l \in LeaseIds
  PROVE  /\ release_history[l] = <<>> => last[l] = None
         /\ release_history[l] # <<>> =>
              /\ last[l] \in OperationKinds
              /\ release_history[l][Len(release_history[l])] \in OpIds
              /\ operation_commands[release_history[l][Len(release_history[l])]] # None
<1> DEFINE s == release_history[l]
           p == s[Len(s)]
<1>1. s \in Seq(OpIds)
  BY DEF LedgerInv, TypeOK
<1>2. ASSUME s # <<>>
      PROVE  /\ p \in OpIds
             /\ operation_commands[p] # None
             /\ operation_commands[p].kind \in OperationKinds
  <2>1. Len(s) \in DOMAIN s /\ p \in OpIds
    BY <1>1, <1>2, EmptySeq, LenProperties
  <2>2. InHistory(p, l)
    BY <2>1 DEF InHistory
  <2>3. operation_commands[p] # None
    BY <2>1, <2>2 DEF LedgerInv, HistoryMatchesEvidence
  <2>4. operation_commands[p] \in CommandForms
    BY <2>1, <2>3 DEF LedgerInv, TypeOK
  <2> QED
    BY <2>1, <2>3, <2>4, CommandTyped
<1>3. s # <<>> => last[l] = operation_commands[p].kind
  BY DEF last, LastKind
<1> HIDE DEF p
<1>4. s # <<>> => last[l] \in OperationKinds
  BY <1>2, <1>3
<1> QED
  BY <1>2, <1>4 DEF last, LastKind, p

(* Staging a command changes no stage: every operation of a history was      *)
(* staged before.                                                            *)
LEMMA StagingKeepsStages ==
  ASSUME LedgerInv, NEW c \in CommandForms,
         operation_commands[c.operation_id] = None,
         operation_commands' = [operation_commands EXCEPT ![c.operation_id] = c],
         release_history' = release_history
  PROVE  last' = last
<1>1. ASSUME NEW l \in LeaseIds PROVE LastKind(l)' = LastKind(l)
  BY StageTyped DEF LastKind, LedgerInv, TypeOK
<1> QED
  BY <1>1 DEF last

(* Completing an operation makes its kind the stage of its lease. *)
LEMMA AppendingSetsStage ==
  ASSUME LedgerInv, NEW l \in LeaseIds, NEW o \in OpIds, AppendHistory(l, o),
         operation_commands' = operation_commands
  PROVE  last' = [last EXCEPT ![l] = operation_commands[o].kind]
<1>1. /\ release_history[l] \in Seq(OpIds)
      /\ release_history'[l] = Append(release_history[l], o)
      /\ \A m \in LeaseIds : m # l => release_history'[m] = release_history[m]
  BY DEF LedgerInv, TypeOK, AppendHistory
<1>2. /\ release_history'[l] # <<>>
      /\ release_history'[l][Len(release_history'[l])] = o
  BY <1>1, AppendProperties
<1>3. LastKind(l)' = operation_commands[o].kind
  BY <1>2 DEF LastKind
<1>4. \A m \in LeaseIds : m # l => LastKind(m)' = LastKind(m)
  BY <1>1 DEF LastKind
<1> QED
  BY <1>3, <1>4 DEF last

(* Reserving claims that no other lease owns makes the lease hold them, and  *)
(* the leases that held theirs go on holding them.                           *)
LEMMA ReservingHolds ==
  ASSUME LedgerInv, NEW l \in LeaseIds, NEW lease \in LeaseForms,
         leases[l] \in {None, lease},
         leases' = [leases EXCEPT ![l] = lease],
         \A b \in BundlesOf(lease) : active_bundle_owner[b] \in {None, l},
         \A g \in GpusOf(lease) : active_gpu_owner[g] \in {None, l},
         ReserveClaims(l, lease)
  PROVE  held' = held \cup {l}
<1> USE DEF LedgerInv
<1>1. /\ l # None /\ lease # None
      /\ GpusOf(lease) \subseteq Gpus /\ BundlesOf(lease) \subseteq Bundles
      /\ \A m \in LeaseIds : leases[m] # None =>
           /\ GpusOf(leases[m]) \subseteq Gpus /\ GpusOf(leases[m]) # {}
           /\ BundlesOf(leases[m]) \subseteq Bundles
  BY NoneIsAbsent, ClaimsTyped DEF TypeOK
<1>2. leases'[l] = lease /\ \A m \in LeaseIds : m # l => leases'[m] = leases[m]
  BY DEF TypeOK
<1>3. Holds(l, leases[l])'
  BY <1>1, <1>2 DEF Holds, ReserveClaims
<1>4. ASSUME NEW m \in LeaseIds, m # l, leases[m] # None
      PROVE  Holds(m, leases[m])' <=> Holds(m, leases[m])
  <2>1. CASE Holds(m, leases[m])
    <3>1. /\ \A b \in BundlesOf(leases[m]) : b \notin BundlesOf(lease)
          /\ \A g \in GpusOf(leases[m]) : g \notin GpusOf(lease)
      BY <1>4, <2>1, NoneIsAbsent DEF Holds
    <3> QED
      BY <1>1, <1>2, <1>4, <2>1, <3>1 DEF Holds, ReserveClaims
  <2>2. CASE ~ Holds(m, leases[m])
    <3>1. Unheld(m, leases[m])
      BY <1>4, <2>2 DEF ClaimsMoveTogether
    <3>2. PICK g \in GpusOf(leases[m]) : g \in Gpus
      BY <1>1, <1>4
    <3>3. active_gpu_owner'[g] # m
      BY <1>4, <3>1, <3>2 DEF Unheld, ReserveClaims
    <3> QED
      BY <1>2, <1>4, <2>2, <3>2, <3>3 DEF Holds
  <2> QED
    BY <2>1, <2>2
<1> QED
  BY <1>1, <1>2, <1>3, <1>4 DEF held

(* Returning the claims of a lease ends its hold and no other. *)
LEMMA FreeingEndsHold ==
  ASSUME LedgerInv, NEW l \in LeaseIds, leases[l] # None,
         leases' = leases, FreeClaims(l, leases[l])
  PROVE  held' = held \ {l}
<1> USE DEF LedgerInv
<1>1. /\ l # None
      /\ \A m \in LeaseIds : leases[m] # None =>
           /\ GpusOf(leases[m]) \subseteq Gpus /\ GpusOf(leases[m]) # {}
           /\ BundlesOf(leases[m]) \subseteq Bundles
  BY NoneIsAbsent, ClaimsTyped DEF TypeOK
<1>2. ~ Holds(l, leases[l])'
  BY <1>1, NoneIsAbsent DEF Holds, FreeClaims
<1>3. ASSUME NEW m \in LeaseIds, m # l, leases[m] # None
      PROVE  Holds(m, leases[m])' <=> Holds(m, leases[m])
  <2>1. CASE Holds(m, leases[m])
    BY <1>1, <1>3, <2>1 DEF Holds, FreeClaims
  <2>2. CASE ~ Holds(m, leases[m])
    <3>1. Unheld(m, leases[m])
      BY <1>3, <2>2 DEF ClaimsMoveTogether
    <3>2. PICK g \in GpusOf(leases[m]) : g \in Gpus
      BY <1>1, <1>3
    <3>3. active_gpu_owner'[g] # m
      BY <1>3, <3>1, <3>2, NoneIsAbsent DEF Unheld, FreeClaims
    <3> QED
      BY <1>3, <2>2, <3>2, <3>3 DEF Holds
  <2> QED
    BY <2>1, <2>2
<1> QED
  BY <1>2, <1>3 DEF held

(* A lease is for the GPUs of its donor, so that two leases of one donor do  *)
(* not both hold their claims.                                               *)
LEMMA LeaseOfDonor ==
  ASSUME NEW lease \in LeaseForms
  PROVE  /\ lease.donor \in Natives /\ lease.donor \in Replicas
         /\ lease.donor \notin Borrowed
         /\ GpusOf(lease) = NativeGpus[lease.donor]
         /\ NativeGpus[lease.donor] # {} /\ NativeGpus[lease.donor] \subseteq Gpus
BY LendingAssumption DEF Borrowed

(* open_lease: the lease holds its claims, and no stage changes. *)
LEMMA OpenEffect ==
  ASSUME LedgerInv, NEW lease \in LeaseForms, OpenLease(lease)
  PROVE  /\ lease.lease_id \in LeaseIds /\ lease # None
         /\ leases[lease.lease_id] = None
         /\ leases' = [leases EXCEPT ![lease.lease_id] = lease]
         /\ last' = last
         /\ held' = held \cup {lease.lease_id}
         /\ UNCHANGED <<expired, operation_commands, borrower_targets,
                        release_evidence, handoff_ready_leases>>
<1>1. lease.lease_id \in LeaseIds /\ lease # None
  BY ClaimsTyped, NoneIsAbsent
<1>2. /\ leases[lease.lease_id] = None
      /\ leases' = [leases EXCEPT ![lease.lease_id] = lease]
      /\ ReserveClaims(lease.lease_id, lease)
      /\ UNCHANGED <<expired, operation_commands, progress>>
  BY DEF OpenLease
<1>3. held' = held \cup {lease.lease_id}
  BY <1>1, <1>2, ReservingHolds DEF OpenLease
<1>4. last' = last
  BY <1>2 DEF last, LastKind, progress
<1> QED
  BY <1>1, <1>2, <1>3, <1>4 DEF progress

(* submit_operation, the first time: what the phase checks established, and  *)
(* that only a RESTORE takes claims.                                         *)
LEMMA StageEffect ==
  ASSUME LedgerInv, NEW c \in CommandForms, StageOperation(c)
  PROVE  LET l == c.lease_id IN
         /\ leases[l] # None
         /\ operation_commands[c.operation_id] = None
         /\ last[l] # "RESTORE"
         /\ c.kind = "DONATE" =>
              /\ last[l] # "REMOVE" /\ c.target = leases[l].donor
              /\ l \notin handoff_ready_leases
         /\ c.kind = "ADD" =>
              /\ l \in handoff_ready_leases
              /\ borrower_targets[l] = None
         /\ c.kind = "REMOVE" =>
              l \in handoff_ready_leases /\ borrower_targets[l] = c.target
         /\ c.kind = "RESTORE" =>
              /\ c.target = leases[l].donor
              /\ \A m \in held : leases[m].donor # leases[l].donor
         /\ operation_commands' = [operation_commands EXCEPT ![c.operation_id] = c]
         /\ borrower_targets' = IF c.kind = "ADD"
              THEN [borrower_targets EXCEPT ![l] = c.target]
              ELSE borrower_targets
         /\ held' = IF c.kind = "RESTORE" THEN held \cup {l} ELSE held
         /\ last' = last
         /\ UNCHANGED <<leases, expired, release_evidence, handoff_ready_leases>>
<1> DEFINE l == c.lease_id
<1>1. l \in LeaseIds /\ c.operation_id \in OpIds
  BY CommandTyped
<1>2. leases[l] \in LeaseForms /\ leases[l] # None
  BY <1>1 DEF LedgerInv, TypeOK, StageOperation
<1>3. last[l] = LastKind(l)
  BY <1>1 DEF last
<1>4. last' = last
  BY StagingKeepsStages DEF StageOperation
<1>5. CASE c.kind = "RESTORE"
  <2>1. Unclaimed(leases[l]) /\ ReserveClaims(l, leases[l]) /\ leases' = leases
    BY <1>5 DEF StageOperation, PhaseAllows, RestoreAllowed
  <2>2. leases' = [leases EXCEPT ![l] = leases[l]]
    BY <1>1, <2>1 DEF LedgerInv, TypeOK
  <2>3. held' = held \cup {l}
    BY <1>1, <1>2, <2>1, <2>2, ReservingHolds DEF Unclaimed
  <2>4. ASSUME NEW m \in held, leases[m].donor = leases[l].donor PROVE FALSE
    <3>1. m \in LeaseIds /\ leases[m] \in LeaseForms /\ Holds(m, leases[m])
      BY <2>4 DEF held, LedgerInv, TypeOK
    <3>2. GpusOf(leases[m]) = GpusOf(leases[l]) /\ GpusOf(leases[l]) # {}
      BY <1>2, <2>4, <3>1, LeaseOfDonor
    <3> QED
      BY <2>1, <3>1, <3>2, NoneIsAbsent DEF Unclaimed, Holds
  <2> QED
    BY <1>2, <1>3, <1>4, <1>5, <2>3, <2>4
    DEF StageOperation, PhaseAllows, RestoreAllowed
<1>6. CASE c.kind # "RESTORE"
  <2>1. held' = held
    BY <1>6 DEF StageOperation, held, Holds
  <2> QED
    BY <1>2, <1>3, <1>4, <1>6, <2>1
    DEF StageOperation, PhaseAllows, DonateAllowed, AddAllowed, RemoveAllowed
<1> QED
  BY <1>5, <1>6

(* advance_lease, with evidence that was not there before: the stage, the    *)
(* claims and the borrower by the kind of the operation.                     *)
LEMMA AdvanceEffect ==
  ASSUME LedgerInv, NEW e \in EvidenceForms, AdvanceLease(e)
  PROVE  LET o == e.operation_id
             l == operation_commands[o].lease_id
             stage(k) == last' = [last EXCEPT ![l] = k]
             forget == borrower_targets' = [borrower_targets EXCEPT ![l] = None]
             freed == held' = held \ {l}
             left == handoff_ready_leases' = handoff_ready_leases \ {l}
         IN
         /\ operation_commands[o] # None /\ release_evidence[o] = None
         /\ release_evidence' = [release_evidence EXCEPT ![o] = e]
         /\ UNCHANGED <<leases, expired, operation_commands>>
         /\ \/ /\ operation_commands[o].kind = "DONATE" /\ e.type = "RELEASED"
               /\ stage("DONATE") /\ UNCHANGED <<borrower_targets, held>>
               /\ handoff_ready_leases' = handoff_ready_leases \cup {l}
            \/ /\ operation_commands[o].kind = "REMOVE" /\ e.type = "RELEASED"
               /\ stage("REMOVE") /\ UNCHANGED borrower_targets
               /\ freed /\ left
            \/ /\ operation_commands[o].kind = "ADD" /\ e.type = "RELEASED"
               /\ l \in handoff_ready_leases
               /\ borrower_targets[l] = operation_commands[o].target
               /\ stage("ADD") /\ forget /\ freed /\ left
            \/ /\ operation_commands[o].kind = "RESTORE" /\ e.type = "RELEASED"
               /\ freed /\ UNCHANGED <<last, borrower_targets, handoff_ready_leases>>
            \/ /\ operation_commands[o].kind = "RESTORE"
               /\ e.type = "SERVICE_COMMITTED"
               /\ stage("RESTORE") /\ forget /\ freed /\ left
<1> DEFINE o == e.operation_id
           l == operation_commands[o].lease_id
<1>1. /\ EvidenceAccepted(e) /\ RecordEvidence(e) /\ AdvanceFrame
      /\ operation_commands' = operation_commands /\ leases' = leases
      /\ expired' = expired
  BY DEF AdvanceLease, AdvanceDonate, AdvanceRemove, RollBackAdd,
         RollBackRestore, CommitRestore, ForgetTarget, AdvanceFrame
<1>2. o \in OpIds /\ l \in LeaseIds /\ leases[l] # None
  BY <1>1, EvidenceTyped, AdvanceTyped, NoneIsAbsent DEF LedgerInv
<1>3. /\ operation_commands[o] # None /\ release_evidence[o] = None
      /\ release_evidence' = [release_evidence EXCEPT ![o] = e]
      /\ UNCHANGED <<leases, expired, operation_commands>>
  BY <1>1 DEF EvidenceAccepted, RecordEvidence
<1>4. AppendHistory(l, o) => last' = [last EXCEPT ![l] = operation_commands[o].kind]
  BY <1>1, <1>2, AppendingSetsStage
<1>5. FreeClaims(l, leases[l]) => held' = held \ {l}
  BY <1>1, <1>2, FreeingEndsHold
<1> HIDE DEF l, o
<1>6. CASE AdvanceDonate(e)
  <2>1. held' = held
    BY <1>1, <1>6 DEF AdvanceDonate, held, Holds
  <2> QED
    BY <1>3, <1>4, <1>6, <2>1 DEF AdvanceDonate, Covers, o, l
<1>7. CASE AdvanceRemove(e)
  BY <1>3, <1>4, <1>5, <1>7 DEF AdvanceRemove, Covers, o, l
<1>8. CASE RollBackAdd(e)
  BY <1>3, <1>4, <1>5, <1>8 DEF RollBackAdd, Covers, ForgetTarget, o, l
<1>9. CASE RollBackRestore(e)
  <2>1. last' = last
    BY <1>1, <1>9 DEF RollBackRestore, last, LastKind
  <2> QED
    BY <1>3, <1>5, <1>9, <2>1 DEF RollBackRestore, Covers, o, l
<1>10. CASE CommitRestore(e)
  BY <1>3, <1>4, <1>5, <1>10 DEF CommitRestore, ForgetTarget, o, l
<1> QED
  BY <1>6, <1>7, <1>8, <1>9, <1>10 DEF AdvanceLease

-----------------------------------------------------------------------------
(* The invariant of the lending cycle under the serial policy *)

Cycle == {"DONATE", "ADD", "REMOVE"}

Active(o) == worker[o] \in Unresolved

Outstanding(o) == Cmd(o) # None /\ worker[o] \notin Resolved

Is(o, k) == Cmd(o) # None /\ Cmd(o).kind = k

(* A worker runs a staged command.  A TaskRunner runs one operation per      *)
(* replica, and the policy has one operation per lease that is not resolved. *)
JournalInv ==
  /\ \A o \in OpIds : o \in sent \/ worker[o] # None => Cmd(o) # None
  /\ \A o \in OpIds : o \in releases \/ release_evidence[o] # None => worker[o] # None
  /\ \A o \in OpIds : Cmd(o) # None =>
       /\ Cmd(o).operation_id = o
       /\ leases[Cmd(o).lease_id] # None
       /\ Cmd(o).kind \in {"DONATE", "RESTORE"} =>
            Cmd(o).target = leases[Cmd(o).lease_id].donor
  /\ \A o, p \in OpIds : Active(o) /\ Active(p) /\ Cmd(o).target = Cmd(p).target => o = p
  /\ \A o, p \in OpIds :
       Outstanding(o) /\ Outstanding(p) /\ Cmd(o).lease_id = Cmd(p).lease_id => o = p
  /\ \A o \in OpIds :
       /\ worker[o] = "PREPARED" => Cmd(o).kind = "ADD"
       /\ worker[o] = "COMMITTED" => Cmd(o).kind = "RESTORE"
       /\ worker[o] = "RELEASED" /\ Cmd(o).kind \in Exits => o \in releases
       /\ worker[o] = "SUCCEEDED" /\ Cmd(o).kind # "ADD" => release_evidence[o] # None

(* The stages of a lease: it holds its claims until a borrower has given     *)
(* them back, and afterwards for a RESTORE.                                  *)
LeaseInv ==
  /\ \A l \in LeaseIds : leases[l] = None => last[l] = None
  /\ \A l \in LeaseIds : leases[l] # None /\ last[l] = None => l \in held
  /\ \A l \in LeaseIds : l \in handoff_ready_leases <=> last[l] = "DONATE"
  /\ handoff_ready_leases \subseteq held
  /\ \A l \in held : last[l] \in {"ADD", "REMOVE"} =>
       \E o \in OpIds : /\ Is(o, "RESTORE") /\ Cmd(o).lease_id = l
                        /\ release_evidence[o] = None

(* What the ledger still has of a command when its evidence comes.  The      *)
(* first operations of a lease are DONATEs, and a second DONATE comes only   *)
(* after an ADD has been rolled back.                                        *)
DonatePending ==
  /\ \A o \in OpIds : Cmd(o) # None /\ last[Cmd(o).lease_id] = None => Cmd(o).kind = "DONATE"
  /\ \A o \in OpIds : Is(o, "DONATE") /\ Outstanding(o) /\ release_evidence[o] = None =>
       last[Cmd(o).lease_id] \in {None, "ADD"}

(* The GPUs are handed over to the target of the ADD. *)
AddPending ==
  \A o \in OpIds : Is(o, "ADD") =>
    /\ last[Cmd(o).lease_id] = "DONATE" => borrower_targets[Cmd(o).lease_id] # None
    /\ Outstanding(o) /\ release_evidence[o] = None =>
         /\ last[Cmd(o).lease_id] = "DONATE"
         /\ borrower_targets[Cmd(o).lease_id] = Cmd(o).target

(* A REMOVE is for the replica that an ADD of the same lease is to create. *)
RemovePending ==
  \A o \in OpIds : Is(o, "REMOVE") =>
    /\ release_evidence[o] # None => last[Cmd(o).lease_id] # "DONATE"
    /\ Outstanding(o) /\ release_evidence[o] = None =>
         /\ last[Cmd(o).lease_id] = "DONATE"
         /\ borrower_targets[Cmd(o).lease_id] = Cmd(o).target
    /\ \E a \in OpIds : /\ Is(a, "ADD") /\ Cmd(a).target = Cmd(o).target
                        /\ Cmd(a).lease_id = Cmd(o).lease_id

(* A RESTORE keeps its claims until evidence of it is accepted. *)
RestorePending ==
  /\ \A o \in OpIds : Is(o, "RESTORE") /\ release_evidence[o] = None =>
       Cmd(o).lease_id \in held /\ last[Cmd(o).lease_id] \in {"ADD", "REMOVE"}
  /\ \A o, p \in OpIds :
       Is(o, "RESTORE") /\ release_evidence[o] = None
       /\ Is(p, "RESTORE") /\ release_evidence[p] = None
       /\ Cmd(o).lease_id = Cmd(p).lease_id => o = p

CommandInv == DonatePending /\ AddPending /\ RemovePending /\ RestorePending

(* A native replica always exists, and is drained only by a DONATE, or by a  *)
(* RESTORE that R has refused.                                               *)
NativeExists ==
  /\ \A r \in Natives : /\ M[r] \notin {None, "CREATING", "RELEASED"}
                        /\ using[r] \in {{}, NativeGpus[r]}
  /\ \A r \in Natives : M[r] = "DRAINING" =>
       \E o \in OpIds : /\ Active(o) /\ Cmd(o).target = r
                        /\ IF r \in unrouted THEN Is(o, "RESTORE") ELSE Is(o, "DONATE")

(* A DONATE that drains its target, or has put it to sleep without the       *)
(* ledger's knowledge, is for a replica that no lease has in its cycle.      *)
DonateIsFirst ==
  \A o \in OpIds : Is(o, "DONATE") /\ Active(o) =>
    /\ o \in releases => M[Cmd(o).target] = "DORMANT" /\ using[Cmd(o).target] = {}
    /\ release_evidence[o] = None
       /\ (o \in releases \/ M[Cmd(o).target] = "DRAINING") =>
         \A l \in LeaseIds : leases[l] # None /\ leases[l].donor = Cmd(o).target =>
           last[l] \notin Cycle

(* From DONATE to RESTORE a native replica is in the cycle of one lease, and *)
(* does not serve unless its RESTORE is under way.                           *)
CycleIsExclusive ==
  /\ \A l \in LeaseIds : last[l] \in Cycle /\ M[leases[l].donor] = "ACTIVE" =>
       \E o \in OpIds : Is(o, "RESTORE") /\ Active(o) /\ Cmd(o).target = leases[l].donor
  /\ \A l, m \in LeaseIds :
       last[l] \in Cycle /\ last[m] \in Cycle /\ leases[l].donor = leases[m].donor => l = m

(* It sleeps while it is lent, and after a RESTORE that was rolled back; it  *)
(* serves after one that was committed.                                      *)
LentSleeps ==
  /\ \A o \in OpIds : Is(o, "RESTORE") =>
       /\ worker[o] = "RELEASED" => M[Cmd(o).target] = "DORMANT"
       /\ worker[o] = "COMMITTED" => M[Cmd(o).target] = "ACTIVE"
  /\ \A l \in handoff_ready_leases :
       /\ M[leases[l].donor] = "DORMANT" /\ using[leases[l].donor] = {}
       /\ \A o \in OpIds : Is(o, "RESTORE") /\ Active(o) => Cmd(o).target # leases[l].donor

NativeInv == NativeExists /\ DonateIsFirst /\ CycleIsExclusive /\ LentSleeps

(* A borrowed replica exists since its ADD began, and one that is gone       *)
(* occupies nothing.                                                         *)
BorrowedExists ==
  /\ \A r \in Borrowed : M[r] # None =>
       \E o \in OpIds : Is(o, "ADD") /\ Cmd(o).target = r /\ worker[o] # None
  /\ \A r \in Borrowed : M[r] \in {None, "RELEASED"} => using[r] = {}

(* It occupies the GPUs of the lease of its ADD, as the borrower, and only   *)
(* until the claims have been given back.                                    *)
BorrowedIsLent ==
  \A o \in OpIds : Is(o, "ADD") /\ using[Cmd(o).target] # {} =>
    /\ last[Cmd(o).lease_id] = "DONATE"
    /\ borrower_targets[Cmd(o).lease_id] = Cmd(o).target
    /\ using[Cmd(o).target] = LeaseGpus(o)

PreparedExists ==
  \A o \in OpIds : worker[o] = "PREPARED" =>
    M[Cmd(o).target] \in {"CREATING", "ACTIVE"} \/ Cmd(o).target \in unrouted

(* An ADD reports a release when its runtime is gone, or was refused for a   *)
(* reason that stays.                                                        *)
RolledBackIsGone ==
  \A o \in OpIds : Is(o, "ADD") /\ (worker[o] = "RELEASED" \/ release_evidence[o] # None) =>
    \/ M[Cmd(o).target] = "RELEASED"
    \/ M[Cmd(o).target] = None /\ (Lapsed(o) \/ LeaseUsedUp(o))

RemovedIsGone ==
  \A o \in OpIds : Is(o, "REMOVE") /\ o \in releases => M[Cmd(o).target] = "RELEASED"

(* An added replica serves until a REMOVE has begun, unless R refused it. *)
AddedServes ==
  \A o \in OpIds : Is(o, "ADD") /\ worker[o] = "SUCCEEDED"
                   /\ last[Cmd(o).lease_id] = "DONATE" =>
    \/ M[Cmd(o).target] = "ACTIVE" \/ Cmd(o).target \in unrouted
    \/ \E p \in OpIds : /\ Is(p, "REMOVE") /\ Active(p) /\ Cmd(p).target = Cmd(o).target
                        /\ M[Cmd(o).target] \in {"DRAINING", "QUARANTINED"} \/ p \in releases

BorrowedInv ==
  /\ BorrowedExists /\ BorrowedIsLent /\ PreparedExists
  /\ RolledBackIsGone /\ RemovedIsGone /\ AddedServes

(* A replica that R refused stays DRAINING: nothing can be done with it. *)
UnroutedDrains == \A r \in unrouted : M[r] = "DRAINING"

LendingInv ==
  /\ LTypeOK
  /\ LedgerInv
  /\ JournalInv
  /\ LeaseInv
  /\ CommandInv
  /\ NativeInv
  /\ BorrowedInv
  /\ UnroutedDrains

-----------------------------------------------------------------------------
(* Facts about the commands and leases of a state *)

(* A staged command has an opened lease, for the GPUs of its donor; DONATE   *)
(* and RESTORE are for the donor, ADD and REMOVE for a borrowed replica.     *)
LEMMA StagedFacts ==
  ASSUME LendingInv, NEW o \in OpIds, Cmd(o) # None
  PROVE  /\ Cmd(o) \in CommandForms
         /\ Cmd(o).lease_id \in LeaseIds /\ Cmd(o).target \in Replicas
         /\ Cmd(o).kind \in OperationKinds
         /\ leases[Cmd(o).lease_id] \in LeaseForms
         /\ leases[Cmd(o).lease_id] # None
         /\ leases[Cmd(o).lease_id].donor \in Natives
         /\ LeaseGpus(o) = NativeGpus[leases[Cmd(o).lease_id].donor]
         /\ Cmd(o).kind \in {"DONATE", "RESTORE"} =>
              /\ Cmd(o).target = leases[Cmd(o).lease_id].donor
              /\ Cmd(o).target \in Natives /\ Cmd(o).target \notin Borrowed
         /\ Cmd(o).kind \in {"ADD", "REMOVE"} =>
              Cmd(o).target \in Borrowed /\ Cmd(o).target \notin Natives
<1>1. Cmd(o) \in CommandForms
  BY DEF LendingInv, LTypeOK, TypeOK, Cmd
<1>2. leases[Cmd(o).lease_id] # None /\ leases[Cmd(o).lease_id] \in LeaseForms
  BY <1>1, CommandTyped DEF LendingInv, LTypeOK, TypeOK, JournalInv
<1>3. /\ Cmd(o).kind \in {"DONATE", "RESTORE"} =>
           Cmd(o).target = leases[Cmd(o).lease_id].donor
      /\ Cmd(o).kind \in {"ADD", "REMOVE"} => Cmd(o).target \in Borrowed
  BY <1>1, LendingAssumption DEF LendingInv, JournalInv
<1> QED
  BY <1>1, <1>2, <1>3, CommandTyped, LeaseOfDonor DEF Borrowed, LeaseGpus

(* The key of a borrowed replica is used by one ADD. *)
LEMMA AddIsUnique ==
  ASSUME LendingInv, NEW o \in OpIds, NEW p \in OpIds,
         Is(o, "ADD"), Is(p, "ADD"), Cmd(o).target = Cmd(p).target
  PROVE  o = p
<1>1. Cmd(o) = Cmd(p)
  BY StagedFacts, LendingAssumption DEF Is
<1>2. Cmd(o).operation_id = o /\ Cmd(p).operation_id = p
  BY DEF LendingInv, JournalInv, Is
<1> QED
  BY <1>1, <1>2

(* A worker that is not finished runs a staged command. *)
LEMMA ActiveFacts ==
  ASSUME LendingInv, NEW o \in OpIds, Active(o)
  PROVE  /\ Cmd(o) # None /\ worker[o] # None /\ worker[o] \notin Resolved
         /\ Outstanding(o)
<1>1. worker[o] # None /\ worker[o] \notin Resolved
  BY LendingAssumption DEF Active, Unresolved, Resolved
<1> QED
  BY <1>1 DEF LendingInv, JournalInv, Outstanding

(* Only an ADD is ever PREPARED. *)
LEMMA PreparedIsAdd ==
  ASSUME LendingInv, NEW o \in OpIds, worker[o] = "PREPARED"
  PROVE  Is(o, "ADD") /\ Active(o)
BY ActiveFacts DEF LendingInv, JournalInv, Is, Active, Unresolved

(* A step that leaves the ledger alone and finishes at most what was not     *)
(* finished keeps what is known of leases and commands.                      *)
LEMMA QuietLedger ==
  ASSUME LendingInv, UNCHANGED gsVars,
         \A p \in OpIds : worker[p] \in Resolved => worker'[p] \in Resolved
  PROVE  LedgerInv' /\ LeaseInv' /\ CommandInv'
<1>1. LedgerInv'
  BY NextLedgerInv DEF LendingInv
<1>2. UNCHANGED ledger
  BY SameLedger
<1>3. LeaseInv'
  BY <1>2 DEF LendingInv, LeaseInv, ledger, Is, Cmd
<1>4. CommandInv'
  BY <1>2 DEF LendingInv, CommandInv, DonatePending, AddPending, RemovePending,
                         RestorePending, ledger, Is, Cmd, Outstanding
<1> QED
  BY <1>1, <1>3, <1>4

(* The journal after a step of the worker of a staged operation. *)
LEMMA JournalStep ==
  ASSUME LendingInv, UNCHANGED gsVars, NEW o \in OpIds, Active(o),
         NEW w \in Unresolved \cup Resolved, Becomes(o, w),
         sent' \subseteq sent, releases' \subseteq releases \cup {o},
         w = "PREPARED" => Cmd(o).kind = "ADD",
         w = "COMMITTED" => Cmd(o).kind = "RESTORE",
         w = "RELEASED" /\ Cmd(o).kind \in Exits => o \in releases',
         releases \subseteq releases',
         w = "SUCCEEDED" => Cmd(o).kind = "ADD" \/ release_evidence[o] # None
  PROVE  /\ JournalInv' /\ LedgerInv' /\ LeaseInv' /\ CommandInv'
         /\ worker' \in [OpIds -> Unresolved \cup Resolved \cup {None}]
         /\ sent' \subseteq OpIds /\ releases' \subseteq OpIds
         /\ worker'[o] = w
         /\ \A p \in OpIds : p # o => worker'[p] = worker[p]
<1>1. /\ Cmd(o) # None /\ worker[o] # None /\ worker[o] \notin Resolved
      /\ w # None
  BY ActiveFacts, LendingAssumption
<1>2. /\ worker'[o] = w
      /\ \A p \in OpIds : p # o => worker'[p] = worker[p]
      /\ worker' \in [OpIds -> Unresolved \cup Resolved \cup {None}]
      /\ sent' \subseteq OpIds /\ releases' \subseteq OpIds
  BY DEF LendingInv, LTypeOK, Becomes
<1>3. LedgerInv' /\ LeaseInv' /\ CommandInv'
  BY <1>1, <1>2, QuietLedger
<1>4. UNCHANGED ledger
  BY SameLedger
<1>5. /\ \A p \in OpIds : Active(p)' => Active(p)
      /\ \A p \in OpIds : Outstanding(p)' => Outstanding(p)
  BY <1>1, <1>2, <1>4 DEF Active, Outstanding, ledger, Cmd
<1>6. JournalInv'
  BY <1>1, <1>2, <1>4, <1>5 DEF LendingInv, JournalInv, ledger, Cmd, Exits
<1> QED
  BY <1>2, <1>3, <1>6

-----------------------------------------------------------------------------
(* Steps of a worker that leave the runtimes alone *)

(* What such a step may report, given the state of its target. *)
LEMMA WorkerOnly ==
  ASSUME LendingInv, UNCHANGED <<gsVars, runtimeVars>>, sent' \subseteq sent,
         NEW o \in OpIds, Active(o),
         NEW w \in {"RUNNING", "UNKNOWN", "FAILED", "RELEASED", "PREPARED", "SUCCEEDED"},
         Becomes(o, w),
         w = "FAILED" =>
           /\ Cmd(o).kind # "RESTORE"
           /\ Cmd(o).kind \in Exits => o \notin releases
           /\ \/ M[Cmd(o).target] \notin {"DRAINING", "QUARANTINED"}
              \/ Cmd(o).target \in unrouted,
         w = "RELEASED" =>
           \/ Cmd(o).kind \in Exits /\ o \in releases
           \/ Cmd(o).kind = "ADD" /\ M[Cmd(o).target] = "RELEASED"
           \/ /\ Cmd(o).kind = "ADD" /\ M[Cmd(o).target] = None
              /\ Lapsed(o) \/ LeaseUsedUp(o),
         w = "PREPARED" =>
           /\ Cmd(o).kind = "ADD"
           /\ M[Cmd(o).target] \in {"CREATING", "ACTIVE"} \/ Cmd(o).target \in unrouted,
         w = "SUCCEEDED" => Cmd(o).kind = "ADD" /\ Cmd(o).target \in unrouted
  PROVE  LendingInv'
<1>1. UNCHANGED ledger /\ UNCHANGED <<M, using, releases, unrouted>> /\ UNCHANGED gsVars
  BY SameLedger DEF runtimeVars
<1>2. w \in Unresolved \cup Resolved
  BY DEF Unresolved, Resolved
<1>3. /\ JournalInv' /\ LedgerInv' /\ LeaseInv' /\ CommandInv'
      /\ worker' \in [OpIds -> Unresolved \cup Resolved \cup {None}]
      /\ sent' \subseteq OpIds /\ releases' \subseteq OpIds
      /\ worker'[o] = w
      /\ \A p \in OpIds : p # o => worker'[p] = worker[p]
  BY <1>1, <1>2, JournalStep DEF Exits
<1>4. Cmd(o) # None /\ worker[o] # None /\ w # None
  BY <1>2, ActiveFacts, LendingAssumption
<1>5. LTypeOK'
  BY <1>1, <1>3 DEF LendingInv, LTypeOK, LedgerInv
<1>6. /\ \A p \in OpIds : Active(p)' => Active(p)
      /\ \A p \in OpIds : Active(p) => Active(p)' \/ (p = o /\ w \in {"FAILED", "SUCCEEDED"})
  BY <1>3 DEF Active, Unresolved
<1>7. NativeInv'
  <2>1. \A p \in OpIds : \A k : Is(p, k)' <=> Is(p, k)
    BY <1>1 DEF ledger, Is, Cmd
  <2>2. NativeExists'
    <3> SUFFICES ASSUME NEW r \in Natives, M[r] = "DRAINING"
                 PROVE  \E p \in OpIds :
                          /\ Active(p)' /\ Cmd(p).target = r
                          /\ IF r \in unrouted THEN Is(p, "RESTORE") ELSE Is(p, "DONATE")
      BY <1>1, <2>1 DEF LendingInv, NativeInv, NativeExists, ledger, Cmd
    <3>1. PICK p \in OpIds : /\ Active(p) /\ Cmd(p).target = r
                             /\ IF r \in unrouted THEN Is(p, "RESTORE") ELSE Is(p, "DONATE")
      BY DEF LendingInv, NativeInv, NativeExists
    <3>2. p = o => w \notin {"FAILED", "SUCCEEDED"}
      BY <3>1 DEF Is, Exits
    <3> QED
      BY <1>6, <3>1, <3>2
  <2>3. DonateIsFirst' /\ CycleIsExclusive' /\ LentSleeps'
    BY <1>1, <1>3, <1>4, <1>6
    DEF LendingInv, NativeInv, DonateIsFirst, CycleIsExclusive, LentSleeps, ledger,
        Is, Cmd, Exits
  <2> QED
    BY <2>2, <2>3 DEF NativeInv
<1>8. BorrowedInv'
  <2>1. \A p \in OpIds : /\ Lapsed(p)' <=> Lapsed(p)
                         /\ LeaseUsedUp(p)' <=> LeaseUsedUp(p)
                         /\ LeaseGpus(p)' = LeaseGpus(p)
    BY <1>1 DEF ledger, Lapsed, LeaseUsedUp, StagedOf, LeaseGpus, Cmd
  <2>2. BorrowedExists' /\ BorrowedIsLent'
    BY <1>1, <1>3, <1>4, <2>1
    DEF LendingInv, BorrowedInv, BorrowedExists, BorrowedIsLent, ledger, Is, Cmd
  <2>3. PreparedExists' /\ RolledBackIsGone' /\ RemovedIsGone'
    BY <1>1, <1>3, <1>4, <2>1
    DEF LendingInv, BorrowedInv, PreparedExists, RolledBackIsGone, RemovedIsGone,
        ledger, Is, Cmd, Exits
  <2>4. AddedServes'
    BY <1>1, <1>3, <1>4, <1>6
    DEF LendingInv, BorrowedInv, AddedServes, ledger, Is, Cmd, Exits
  <2> QED
    BY <2>2, <2>3, <2>4 DEF BorrowedInv
<1> QED
  BY <1>1, <1>3, <1>5, <1>7, <1>8 DEF LendingInv, UnroutedDrains

(* The steps of a worker that only report. *)
LEMMA ReportsKeep ==
  ASSUME LendingInv, NEW o \in OpIds,
         \/ Reopen(o) \/ GoesUnknown(o) \/ ExitRefused(o) \/ ReleaseAgain(o)
         \/ AddRefused(o) \/ CreateAgain(o)
  PROVE  LendingInv'
<1>1. CASE Reopen(o)
  <2>1. Active(o) /\ Becomes(o, "RUNNING") /\ sent' \subseteq sent
    BY <1>1 DEF Reopen, Active, Unresolved
  <2> QED
    BY <1>1, <2>1, WorkerOnly DEF Reopen
<1>2. CASE GoesUnknown(o)
  <2>1. Active(o) /\ Becomes(o, "UNKNOWN") /\ sent' = sent
    BY <1>2 DEF GoesUnknown, Active
  <2> QED
    BY <1>2, <2>1, WorkerOnly DEF GoesUnknown
<1>3. CASE ExitRefused(o)
  <2>1. Active(o) /\ Becomes(o, "FAILED") /\ sent' = sent /\ Cmd(o).kind # "RESTORE"
    BY <1>3 DEF ExitRefused, Running, Active, Unresolved, Exits
  <2> QED
    BY <1>3, <2>1, WorkerOnly DEF ExitRefused
<1>4. CASE ReleaseAgain(o)
  <2>1. Active(o) /\ Becomes(o, "RELEASED") /\ sent' = sent
    BY <1>4 DEF ReleaseAgain, Running, Active, Unresolved
  <2> QED
    BY <1>4, <2>1, WorkerOnly DEF ReleaseAgain, Running
<1>5. CASE AddRefused(o)
  <2>1. /\ Active(o) /\ Becomes(o, "FAILED") /\ sent' = sent /\ Cmd(o).kind = "ADD"
        /\ M[Cmd(o).target] = None
    BY <1>5 DEF AddRefused, Running, Active, Unresolved
  <2>2. M[Cmd(o).target] \notin {"DRAINING", "QUARANTINED"}
    BY <2>1, LendingAssumption DEF ReplicaStates
  <2> QED
    BY <1>5, <2>1, <2>2, WorkerOnly DEF AddRefused, Exits
<1>6. CASE CreateAgain(o)
  <2>1. /\ Active(o) /\ sent' = sent /\ Cmd(o).kind = "ADD"
        /\ \/ /\ Becomes(o, "PREPARED")
              /\ M[Cmd(o).target] \in {"CREATING", "ACTIVE"} \/ Cmd(o).target \in unrouted
           \/ Becomes(o, "RELEASED") /\ M[Cmd(o).target] = "RELEASED"
    BY <1>6 DEF CreateAgain, Running, Active, Unresolved
  <2> QED
    BY <1>6, <2>1, WorkerOnly DEF CreateAgain
<1> QED
  BY <1>1, <1>2, <1>3, <1>4, <1>5, <1>6

(* A new worker: nothing is known to its journal of an earlier run, and no   *)
(* other operation of the replica is under way.                              *)
LEMMA BeginKeeps ==
  ASSUME LendingInv, NEW o \in OpIds, Begin(o)
  PROVE  LendingInv'
<1>1. PICK w \in {"RUNNING", "FAILED"} : Becomes(o, w)
  BY DEF Begin
<1>2. /\ UNCHANGED ledger /\ UNCHANGED <<M, using, releases, unrouted>> /\ UNCHANGED gsVars
      /\ o \in sent /\ sent' = sent \ {o} /\ worker[o] = None
  BY SameLedger DEF Begin, runtimeVars
<1>3. /\ worker'[o] = w /\ w # None
      /\ \A p \in OpIds : p # o => worker'[p] = worker[p]
      /\ worker' \in [OpIds -> Unresolved \cup Resolved \cup {None}]
  BY <1>1, LendingAssumption DEF LendingInv, LTypeOK, Becomes, Unresolved, Resolved
<1>4. LTypeOK'
  BY <1>2, <1>3, QuietLedger, LendingAssumption
  DEF LendingInv, LTypeOK, LedgerInv, Resolved
<1>5. LedgerInv' /\ LeaseInv' /\ CommandInv'
  BY <1>2, <1>3, QuietLedger, LendingAssumption
<1>6. /\ Cmd(o) # None /\ ~ Active(o) /\ Outstanding(o)
      /\ o \notin releases /\ release_evidence[o] = None
  BY <1>2, LendingAssumption DEF LendingInv, JournalInv, Active, Outstanding
<1>7. /\ \A p \in OpIds : Active(p)' => Active(p) \/ p = o
      /\ \A p \in OpIds : Active(p) => Active(p)'
      /\ \A p \in OpIds : Outstanding(p)' => Outstanding(p)
  BY <1>2, <1>3, <1>6 DEF Active, Outstanding, ledger, Cmd
<1>8. \A p \in OpIds : Active(p) => Cmd(p).target # Cmd(o).target
  BY DEF Begin, JournalFree, Active
<1>9. JournalInv'
  BY <1>2, <1>3, <1>6, <1>7, <1>8
  DEF LendingInv, JournalInv, ledger, Cmd
<1>10. NativeInv'
  <2>1. ASSUME Is(o, "RESTORE"), NEW l \in handoff_ready_leases
        PROVE  Cmd(o).target # leases[l].donor
    <3>1. l \in LeaseIds /\ last[l] = "DONATE"
      BY DEF LendingInv, LTypeOK, TypeOK, LeaseInv
    <3>2. /\ Cmd(o).lease_id \in LeaseIds
          /\ Cmd(o).target = leases[Cmd(o).lease_id].donor
      BY <1>6, <2>1, StagedFacts DEF Is
    <3>3. last[Cmd(o).lease_id] \in {"ADD", "REMOVE"}
      BY <1>6, <2>1 DEF LendingInv, CommandInv, RestorePending
    <3> QED
      BY <3>1, <3>2, <3>3
      DEF LendingInv, NativeInv, DonateIsFirst, CycleIsExclusive, LentSleeps, Cycle
  <2>2. Is(o, "DONATE") => M[Cmd(o).target] # "DRAINING"
    BY <1>8, StagedFacts DEF LendingInv, NativeInv, NativeExists, Is
  <2>3. NativeExists' /\ DonateIsFirst'
    BY <1>2, <1>3, <1>6, <1>7, <2>2
    DEF LendingInv, NativeInv, NativeExists, DonateIsFirst, ledger, Is, Cmd
  <2>4. CycleIsExclusive' /\ LentSleeps'
    BY <1>2, <1>3, <1>6, <1>7, <2>1
    DEF LendingInv, NativeInv, CycleIsExclusive, LentSleeps, ledger, Is, Cmd
  <2> QED
    BY <2>3, <2>4 DEF NativeInv
<1>11. BorrowedInv'
  <2>1. \A p \in OpIds : /\ Lapsed(p)' <=> Lapsed(p)
                         /\ LeaseUsedUp(p)' <=> LeaseUsedUp(p)
                         /\ LeaseGpus(p)' = LeaseGpus(p)
    BY <1>2 DEF ledger, Lapsed, LeaseUsedUp, StagedOf, LeaseGpus, Cmd
  <2>2. BorrowedExists' /\ BorrowedIsLent'
    BY <1>2, <1>3, <2>1
    DEF LendingInv, BorrowedInv, BorrowedExists, BorrowedIsLent, ledger, Is, Cmd
  <2>3. PreparedExists' /\ RolledBackIsGone' /\ RemovedIsGone'
    BY <1>2, <1>3, <2>1
    DEF LendingInv, BorrowedInv, PreparedExists, RolledBackIsGone, RemovedIsGone,
        ledger, Is, Cmd
  <2>4. AddedServes'
    BY <1>2, <1>3, <1>7 DEF LendingInv, BorrowedInv, AddedServes, ledger, Is, Cmd
  <2> QED
    BY <2>2, <2>3, <2>4 DEF BorrowedInv
<1> QED
  BY <1>2, <1>4, <1>5, <1>9, <1>10, <1>11 DEF LendingInv, UnroutedDrains

(* Sending a command again, and losing it on the way. *)
LEMMA SendingKeeps ==
  ASSUME LendingInv,
         \/ \E o \in OpIds : Lose(o)
         \/ \E c \in CommandForms : Resubmit(c)
  PROVE  LendingInv'
<1>1. /\ UNCHANGED gsVars /\ UNCHANGED <<worker, M, using, releases, unrouted>>
      /\ \A p \in OpIds : p \in sent' => p \in sent \/ Cmd(p) # None
      /\ sent' \subseteq OpIds
  BY CommandTyped, NoneIsAbsent
  DEF Lose, Resubmit, ReplayOperation, runtimeVars, Cmd, LendingInv, LTypeOK
<1>2. UNCHANGED ledger
  BY <1>1, SameLedger
<1>3. LedgerInv' /\ LeaseInv' /\ CommandInv'
  BY <1>1, QuietLedger
<1>4. LTypeOK'
  BY <1>1, <1>3 DEF LendingInv, LTypeOK, LedgerInv
<1>5. JournalInv'
  BY <1>1, <1>2 DEF LendingInv, JournalInv, ledger, Cmd, Active, Outstanding
<1>6. NativeInv'
  BY <1>1, <1>2
  DEF LendingInv, NativeInv, NativeExists, DonateIsFirst, CycleIsExclusive, LentSleeps,
      ledger, Is, Cmd, Active
<1>7. BorrowedInv'
  BY <1>1, <1>2
  DEF LendingInv, BorrowedInv, BorrowedExists, BorrowedIsLent, PreparedExists,
      RolledBackIsGone, RemovedIsGone, AddedServes, Lapsed, LeaseUsedUp,
      StagedOf, LeaseGpus, ledger, Is, Cmd, Active
<1> QED
  BY <1>1, <1>3, <1>4, <1>5, <1>6, <1>7 DEF LendingInv, UnroutedDrains

(* Attaching a TaskRunner changes nothing that matters here, and the expiry  *)
(* of a lease only adds a reason to refuse an ADD.                           *)
LEMMA AttachAndExpireKeep ==
  ASSUME LendingInv,
         \/ \E t \in Tasks, h \in Handles : Attach(t, h)
         \/ \E l \in LeaseIds : Expire(l)
  PROVE  LendingInv'
<1>1. /\ GSNext /\ UNCHANGED <<sent, worker, M, using, releases, unrouted>>
      /\ UNCHANGED <<leases, operation_commands, progress, owners>>
      /\ expired \subseteq expired'
  BY DEF Attach, Expire, GSNext, AttachTask, LeaseExpires, runnerVars, runtimeVars
<1>2. LedgerInv'
  BY <1>1, NextLedgerInv DEF LendingInv
<1>3. /\ UNCHANGED <<leases, operation_commands, borrower_targets, release_evidence,
                     handoff_ready_leases>>
      /\ last' = last /\ held' = held
  BY <1>1 DEF progress, owners, last, LastKind, held, Holds
<1>4. LTypeOK'
  BY <1>1, <1>2 DEF LendingInv, LTypeOK, LedgerInv
<1>5. JournalInv' /\ LeaseInv' /\ CommandInv' /\ NativeInv'
  BY <1>1, <1>3 DEF LendingInv, JournalInv, LeaseInv, CommandInv, DonatePending, AddPending,
   RemovePending, RestorePending, NativeInv, NativeExists, DonateIsFirst,
   CycleIsExclusive, LentSleeps,
                    Cmd, Is, Active, Outstanding
<1>6. BorrowedInv'
  BY <1>1, <1>3
  DEF LendingInv, BorrowedInv, BorrowedExists, BorrowedIsLent, PreparedExists,
      RolledBackIsGone, RemovedIsGone, AddedServes, Lapsed, LeaseUsedUp,
      StagedOf, LeaseGpus, Is, Cmd, Active
<1> QED
  BY <1>1, <1>2, <1>4, <1>5, <1>6 DEF LendingInv, UnroutedDrains

-----------------------------------------------------------------------------
(* Steps that change the runtime of their target *)

(* A step of one worker, on its own target. *)
OwnStep(o) ==
  /\ UNCHANGED gsVars
  /\ sent' = sent
  /\ \A p \in OpIds : p # o => worker'[p] = worker[p]
  /\ \A r \in Replicas : r # Cmd(o).target =>
       /\ M'[r] = M[r] /\ using'[r] = using[r]
       /\ r \in unrouted' <=> r \in unrouted
  /\ releases \subseteq releases' /\ releases' \subseteq releases \cup {o}
  /\ unrouted' \subseteq Replicas
  /\ Cmd(o).target \in unrouted' => M'[Cmd(o).target] = "DRAINING"

(* A DONATE or a RESTORE does not touch a borrowed replica. *)
LEMMA NativeStepKeepsBorrowed ==
  ASSUME LendingInv, NEW o \in OpIds, Active(o), OwnStep(o), worker'[o] # "PREPARED",
         Cmd(o).kind \in {"DONATE", "RESTORE"}
  PROVE  BorrowedInv'
<1>1. UNCHANGED ledger /\ Cmd(o) # None /\ Cmd(o).target \notin Borrowed
  BY SameLedger, ActiveFacts, StagedFacts DEF OwnStep
<1>2. \A p \in OpIds : Is(p, "ADD") \/ Is(p, "REMOVE") =>
        /\ p # o /\ worker'[p] = worker[p]
        /\ M'[Cmd(p).target] = M[Cmd(p).target]
        /\ using'[Cmd(p).target] = using[Cmd(p).target]
        /\ p \in releases' <=> p \in releases
        /\ Cmd(p).target \in unrouted' <=> Cmd(p).target \in unrouted
        /\ Active(p)' <=> Active(p)
  BY <1>1, StagedFacts DEF OwnStep, Is, Active
<1>3. \A r \in Borrowed : M'[r] = M[r] /\ using'[r] = using[r]
  BY <1>1 DEF OwnStep, Borrowed
<1>4. \A p \in OpIds : /\ Lapsed(p)' <=> Lapsed(p)
                       /\ LeaseUsedUp(p)' <=> LeaseUsedUp(p)
                       /\ LeaseGpus(p)' = LeaseGpus(p)
  BY <1>1, <1>2 DEF ledger, Lapsed, LeaseUsedUp, StagedOf, LeaseGpus, Is, Cmd
<1>5. /\ \A p \in OpIds, k \in OperationKinds : Is(p, k)' <=> Is(p, k)
      /\ \A p \in OpIds : Cmd(p)' = Cmd(p)
  BY <1>1 DEF ledger, Is, Cmd
<1>6. BorrowedExists' /\ BorrowedIsLent'
  BY <1>1, <1>2, <1>3, <1>4
  DEF LendingInv, BorrowedInv, BorrowedExists, BorrowedIsLent, ledger, Is, Cmd
<1>7. PreparedExists'
  BY <1>1, <1>2, PreparedIsAdd
  DEF LendingInv, BorrowedInv, PreparedExists, OwnStep, ledger, Is, Cmd
<1>8. RolledBackIsGone' /\ RemovedIsGone'
  BY <1>1, <1>2, <1>4
  DEF LendingInv, BorrowedInv, RolledBackIsGone, RemovedIsGone, ledger, Is, Cmd
<1>9. AddedServes'
  BY <1>1, <1>2 DEF LendingInv, BorrowedInv, AddedServes, ledger, Is, Cmd
<1> QED
  BY <1>6, <1>7, <1>8, <1>9 DEF BorrowedInv

(* An ADD or a REMOVE does not touch a native replica. *)
LEMMA BorrowedStepKeepsNative ==
  ASSUME LendingInv, NEW o \in OpIds, Active(o), OwnStep(o),
         Cmd(o).kind \in {"ADD", "REMOVE"}
  PROVE  NativeInv'
<1>1. UNCHANGED ledger /\ Cmd(o) # None /\ Cmd(o).target \notin Natives
  BY SameLedger, ActiveFacts, StagedFacts DEF OwnStep
<1>2. \A p \in OpIds : Is(p, "DONATE") \/ Is(p, "RESTORE") =>
        /\ p # o /\ worker'[p] = worker[p]
        /\ M'[Cmd(p).target] = M[Cmd(p).target]
        /\ using'[Cmd(p).target] = using[Cmd(p).target]
        /\ p \in releases' <=> p \in releases
        /\ Active(p)' <=> Active(p)
  BY <1>1, StagedFacts DEF OwnStep, Is, Active
<1>3. \A r \in Natives : /\ M'[r] = M[r] /\ using'[r] = using[r]
                         /\ r \in unrouted' <=> r \in unrouted
  BY <1>1, LendingAssumption DEF OwnStep
<1>4. \A l \in LeaseIds : leases[l] # None => leases[l].donor \in Natives
  BY LeaseOfDonor DEF LendingInv, LTypeOK, TypeOK
<1>5. \A l \in LeaseIds : last[l] \in Cycle \/ l \in handoff_ready_leases => leases[l] # None
  BY LendingAssumption DEF LendingInv, LeaseInv, Cycle, OperationKinds
<1>6. NativeExists' /\ DonateIsFirst'
  BY <1>1, <1>2, <1>3
  DEF LendingInv, NativeInv, NativeExists, DonateIsFirst, ledger, Is, Cmd
<1>7. CycleIsExclusive'
  BY <1>1, <1>2, <1>3, <1>4, <1>5
  DEF LendingInv, NativeInv, CycleIsExclusive, ledger, Is, Cmd
<1>8. LentSleeps'
  <2>1. \A l \in handoff_ready_leases : leases[l].donor \in Natives
    BY <1>4, <1>5 DEF LendingInv, LTypeOK, TypeOK
  <2> QED
    BY <1>1, <1>2, <1>3, <2>1
    DEF LendingInv, NativeInv, LentSleeps, ledger, Is, Cmd
<1> QED
  BY <1>6, <1>7, <1>8 DEF NativeInv

(* What remains to be shown of a step of one worker: its report fits its     *)
(* kind, and the replicas are as NativeInv and BorrowedInv say.              *)
LEMMA OwnStepKeeps ==
  ASSUME LendingInv, NEW o \in OpIds, Active(o), OwnStep(o),
         NEW w \in Unresolved \cup Resolved, Becomes(o, w),
         NEW x \in ReplicaStates, M' = [M EXCEPT ![Cmd(o).target] = x],
         NEW y \in SUBSET Gpus, using' = [using EXCEPT ![Cmd(o).target] = y],
         w = "PREPARED" => Cmd(o).kind = "ADD",
         w = "COMMITTED" => Cmd(o).kind = "RESTORE",
         w = "RELEASED" /\ Cmd(o).kind \in Exits => o \in releases',
         w = "SUCCEEDED" => Cmd(o).kind = "ADD",
         NativeInv', BorrowedInv'
  PROVE  LendingInv'
<1>1. UNCHANGED gsVars /\ sent' \subseteq sent
      /\ releases \subseteq releases' /\ releases' \subseteq releases \cup {o}
  BY DEF OwnStep
<1>2. /\ JournalInv' /\ LedgerInv' /\ LeaseInv' /\ CommandInv'
      /\ worker' \in [OpIds -> Unresolved \cup Resolved \cup {None}]
      /\ sent' \subseteq OpIds /\ releases' \subseteq OpIds
  BY <1>1, JournalStep
<1>3. LTypeOK'
  BY <1>2 DEF LendingInv, LTypeOK, LedgerInv, OwnStep
<1>4. UnroutedDrains'
  BY DEF LendingInv, UnroutedDrains, OwnStep
<1> QED
  BY <1>2, <1>3, <1>4 DEF LendingInv

(* The replica of a running worker, and the only operation under way on it.  *)
LEMMA OwnTarget ==
  ASSUME LendingInv, NEW o \in OpIds, Active(o)
  PROVE  /\ Cmd(o) # None /\ Cmd(o).target \in Replicas
         /\ Cmd(o).kind \in OperationKinds
         /\ \A p \in OpIds : Active(p) /\ Cmd(p).target = Cmd(o).target => p = o
         /\ M[Cmd(o).target] \in ReplicaStates \cup {None}
         /\ using[Cmd(o).target] \subseteq Gpus
         /\ \A x : [M EXCEPT ![Cmd(o).target] = x][Cmd(o).target] = x
         /\ \A x : [using EXCEPT ![Cmd(o).target] = x][Cmd(o).target] = x
         /\ M = [M EXCEPT ![Cmd(o).target] = M[Cmd(o).target]]
         /\ using = [using EXCEPT ![Cmd(o).target] = using[Cmd(o).target]]
<1>1. /\ Cmd(o) # None /\ Cmd(o).target \in Replicas
      /\ Cmd(o).kind \in OperationKinds
  BY ActiveFacts, StagedFacts
<1>2. \A p \in OpIds : Active(p) /\ Cmd(p).target = Cmd(o).target => p = o
  BY DEF LendingInv, JournalInv
<1> QED
  BY <1>1, <1>2 DEF LendingInv, LTypeOK

(* What the worker of a DONATE may find and leave: it drains a replica that  *)
(* serves, and then puts it to sleep or quarantines it.                      *)
LEMMA DonateStep ==
  ASSUME LendingInv, NEW o \in OpIds, Active(o), OwnStep(o), worker'[o] \in Unresolved,
         Cmd(o).kind = "DONATE", Cmd(o).target \notin unrouted',
         \/ /\ M[Cmd(o).target] = "ACTIVE" /\ M'[Cmd(o).target] = "DRAINING"
            /\ using'[Cmd(o).target] = using[Cmd(o).target] /\ releases' = releases
         \/ /\ M[Cmd(o).target] = "DRAINING" /\ M'[Cmd(o).target] = "DORMANT"
            /\ using'[Cmd(o).target] = {} /\ o \in releases'
         \/ /\ M[Cmd(o).target] = "DRAINING" /\ M'[Cmd(o).target] = "QUARANTINED"
            /\ using'[Cmd(o).target] = using[Cmd(o).target] /\ releases' = releases
  PROVE  NativeInv'
<1> DEFINE r == Cmd(o).target
<1>1. /\ Is(o, "DONATE") /\ r \in Natives
      /\ \A p \in OpIds : Active(p) /\ Cmd(p).target = r => p = o
  BY OwnTarget, StagedFacts DEF Is
<1>2. UNCHANGED ledger /\ \A p \in OpIds : Active(p)' <=> Active(p)
  BY SameLedger DEF OwnStep, Active
<1>3. r \in Replicas /\ M[r] # "DORMANT" /\ M'[r] # "ACTIVE"
  BY OwnTarget
<1>4. o \notin releases
  BY <1>1, <1>3 DEF LendingInv, NativeInv, DonateIsFirst
<1>5. ASSUME release_evidence[o] = None, NEW l \in LeaseIds, leases[l] # None,
             leases[l].donor = r
      PROVE  last[l] \notin Cycle
  <2>1. CASE M[r] = "ACTIVE"
    BY <1>1, <1>5, <2>1 DEF LendingInv, NativeInv, CycleIsExclusive, Is
  <2>2. CASE M[r] = "DRAINING"
    BY <1>1, <1>5, <2>2 DEF LendingInv, NativeInv, DonateIsFirst
  <2> QED
    BY <2>1, <2>2
<1>6. \A l \in handoff_ready_leases : leases[l].donor # r
  BY <1>3 DEF LendingInv, NativeInv, LentSleeps
<1>7. \A l \in LeaseIds : last[l] \in Cycle \/ l \in handoff_ready_leases =>
        leases[l] # None /\ leases[l].donor \in Replicas
  BY LeaseOfDonor, LendingAssumption
  DEF LendingInv, LTypeOK, TypeOK, LeaseInv, Cycle, OperationKinds
<1>8. \A q \in Replicas : q # r => /\ M'[q] = M[q] /\ using'[q] = using[q]
                                   /\ q \in unrouted' <=> q \in unrouted
  BY DEF OwnStep
<1>9. \A p \in OpIds : p # o => worker'[p] = worker[p] /\ (p \in releases' <=> p \in releases)
  BY DEF OwnStep
<1>10. \A p \in OpIds : Cmd(p) # None => Cmd(p).target \in Replicas
  BY StagedFacts
<1>11. /\ M'[r] \in {"DRAINING", "DORMANT", "QUARANTINED"}
       /\ using'[r] \in {{}, using[r]}
       /\ o \in releases' => M'[r] = "DORMANT" /\ using'[r] = {}
  BY <1>4
<1> HIDE DEF r
<1>12. NativeExists'
  <2>1. M'[r] \notin {None, "CREATING", "RELEASED"} /\ Natives \subseteq Replicas
    BY <1>11, LendingAssumption DEF ReplicaStates
  <2>2. using'[r] \in {{}, NativeGpus[r]}
    BY <1>1, <1>11 DEF LendingInv, NativeInv, NativeExists
  <2>3. ASSUME NEW q \in Natives, M'[q] = "DRAINING"
        PROVE  \E p \in OpIds :
                 /\ Active(p) /\ Cmd(p).target = q
                 /\ IF q \in unrouted' THEN Is(p, "RESTORE") ELSE Is(p, "DONATE")
    <3>1. CASE q = r
      BY <1>1, <3>1 DEF r
    <3>2. CASE q # r
      <4>1. M[q] = "DRAINING" /\ (q \in unrouted' <=> q \in unrouted)
        BY <1>8, <2>1, <2>3, <3>2
      <4> QED
        BY <4>1 DEF LendingInv, NativeInv, NativeExists
    <3> QED
      BY <3>1, <3>2
  <2> QED
    BY <1>2, <1>8, <2>1, <2>2, <2>3
    DEF LendingInv, NativeInv, NativeExists, ledger, Is, Cmd
<1>13. DonateIsFirst'
  <2> SUFFICES ASSUME NEW p \in OpIds, Is(p, "DONATE"), Active(p)
               PROVE  /\ p \in releases' => /\ M'[Cmd(p).target] = "DORMANT"
                                            /\ using'[Cmd(p).target] = {}
                      /\ release_evidence[p] = None
                         /\ (p \in releases' \/ M'[Cmd(p).target] = "DRAINING") =>
                           \A l \in LeaseIds :
                             leases[l] # None /\ leases[l].donor = Cmd(p).target =>
                               last[l] \notin Cycle
    BY <1>2 DEF DonateIsFirst, ledger, Is, Cmd
  <2>1. CASE p = o
    BY <1>5, <1>11, <2>1 DEF r
  <2>2. CASE p # o
    <3>1. /\ Cmd(p).target # r /\ Cmd(p).target \in Replicas
          /\ p \in releases' <=> p \in releases
      BY <1>1, <1>9, <1>10, <2>2 DEF Is
    <3> QED
      BY <1>8, <3>1 DEF LendingInv, NativeInv, DonateIsFirst
  <2> QED
    BY <2>1, <2>2
<1>14. CycleIsExclusive'
  BY <1>2, <1>3, <1>7, <1>8
  DEF LendingInv, NativeInv, CycleIsExclusive, ledger, Is, Cmd
<1>15. LentSleeps'
  <2>1. ASSUME NEW p \in OpIds, Is(p, "RESTORE"), worker'[p] \in {"RELEASED", "COMMITTED"}
        PROVE  M'[Cmd(p).target] = IF worker'[p] = "RELEASED" THEN "DORMANT" ELSE "ACTIVE"
    <3>1. p # o
      BY <1>1, <2>1 DEF Is
    <3>2. worker[p] = worker'[p] /\ Active(p)
      BY <1>9, <2>1, <3>1 DEF Active, Unresolved
    <3>3. Cmd(p).target # r /\ Cmd(p).target \in Replicas
      BY <1>1, <1>10, <2>1, <3>1, <3>2 DEF Is
    <3> QED
      BY <1>8, <2>1, <3>2, <3>3 DEF LendingInv, NativeInv, LentSleeps
  <2>2. \A l \in handoff_ready_leases : leases[l].donor \in Replicas
    BY <1>7 DEF LendingInv, LTypeOK, TypeOK
  <2> QED
    BY <1>2, <1>6, <1>8, <2>1, <2>2 DEF LendingInv, NativeInv, LentSleeps, ledger, Is, Cmd
<1> QED
  BY <1>12, <1>13, <1>14, <1>15 DEF NativeInv

(* What the worker of a RESTORE may find and leave: the replica sleeps or    *)
(* serves, is not lent, and every release that is reported left it asleep.   *)
LEMMA RestoreStep ==
  ASSUME LendingInv, NEW o \in OpIds, Active(o), OwnStep(o), worker'[o] \in Unresolved,
         Cmd(o).kind = "RESTORE",
         M'[Cmd(o).target] \in {"DORMANT", "ACTIVE", "QUARANTINED", "DRAINING"},
         M'[Cmd(o).target] = "DRAINING" => Cmd(o).target \in unrouted',
         using'[Cmd(o).target] \in {{}, NativeGpus[Cmd(o).target]},
         worker'[o] = "RELEASED" => M'[Cmd(o).target] = "DORMANT",
         worker'[o] = "COMMITTED" => M'[Cmd(o).target] = "ACTIVE"
  PROVE  NativeInv'
<1> DEFINE r == Cmd(o).target
<1>1. /\ Is(o, "RESTORE") /\ r \in Natives
      /\ \A p \in OpIds : Active(p) /\ Cmd(p).target = r => p = o
  BY OwnTarget, StagedFacts DEF Is
<1>2. UNCHANGED ledger /\ \A p \in OpIds : Active(p)' <=> Active(p)
  BY SameLedger DEF OwnStep, Active
<1>3. \A l \in handoff_ready_leases : leases[l].donor # r
  BY <1>1 DEF LendingInv, NativeInv, LentSleeps
<1>4. \A l \in LeaseIds : last[l] \in Cycle \/ l \in handoff_ready_leases =>
        leases[l] # None /\ leases[l].donor \in Replicas
  BY LeaseOfDonor, LendingAssumption
  DEF LendingInv, LTypeOK, TypeOK, LeaseInv, Cycle, OperationKinds
<1>5. \A q \in Replicas : q # r => /\ M'[q] = M[q] /\ using'[q] = using[q]
                                   /\ q \in unrouted' <=> q \in unrouted
  BY DEF OwnStep
<1>6. \A p \in OpIds : p # o => worker'[p] = worker[p] /\ (p \in releases' <=> p \in releases)
  BY DEF OwnStep
<1>7. \A p \in OpIds : Cmd(p) # None => Cmd(p).target \in Replicas
  BY StagedFacts
<1> HIDE DEF r
<1>8. NativeExists'
  <2>1. /\ M'[r] \notin {None, "CREATING", "RELEASED"}
        /\ Natives \subseteq Replicas /\ using'[r] \in {{}, NativeGpus[r]}
    BY LendingAssumption DEF ReplicaStates, r
  <2>2. ASSUME NEW q \in Natives, M'[q] = "DRAINING"
        PROVE  \E p \in OpIds :
                 /\ Active(p) /\ Cmd(p).target = q
                 /\ IF q \in unrouted' THEN Is(p, "RESTORE") ELSE Is(p, "DONATE")
    <3>1. CASE q = r
      BY <1>1, <2>2, <3>1 DEF r
    <3>2. CASE q # r
      <4>1. M[q] = "DRAINING" /\ (q \in unrouted' <=> q \in unrouted)
        BY <1>5, <2>1, <2>2, <3>2
      <4> QED
        BY <4>1 DEF LendingInv, NativeInv, NativeExists
    <3> QED
      BY <3>1, <3>2
  <2> QED
    BY <1>2, <1>5, <2>1, <2>2
    DEF LendingInv, NativeInv, NativeExists, ledger, Is, Cmd
<1>9. DonateIsFirst'
  <2>1. \A p \in OpIds : Is(p, "DONATE") /\ Active(p) =>
          /\ M'[Cmd(p).target] = M[Cmd(p).target]
          /\ using'[Cmd(p).target] = using[Cmd(p).target]
          /\ p \in releases' <=> p \in releases
    BY <1>1, <1>5, <1>6, <1>7 DEF Is
  <2> QED
    BY <1>2, <2>1 DEF LendingInv, NativeInv, DonateIsFirst, ledger, Is, Cmd
<1>10. CycleIsExclusive'
  BY <1>1, <1>2, <1>4, <1>5
  DEF LendingInv, NativeInv, CycleIsExclusive, ledger, Is, Cmd, r
<1>11. LentSleeps'
  <2>1. ASSUME NEW p \in OpIds, Is(p, "RESTORE"), worker'[p] \in {"RELEASED", "COMMITTED"}
        PROVE  M'[Cmd(p).target] = IF worker'[p] = "RELEASED" THEN "DORMANT" ELSE "ACTIVE"
    <3>1. CASE p = o
      BY <2>1, <3>1
    <3>2. CASE p # o
      <4>1. worker[p] = worker'[p] /\ Active(p)
        BY <1>6, <2>1, <3>2 DEF Active, Unresolved
      <4>2. Cmd(p).target # r /\ Cmd(p).target \in Replicas
        BY <1>1, <1>7, <2>1, <3>2, <4>1 DEF Is
      <4> QED
        BY <1>5, <2>1, <4>1, <4>2 DEF LendingInv, NativeInv, LentSleeps
    <3> QED
      BY <3>1, <3>2
  <2>2. \A l \in handoff_ready_leases : leases[l].donor \in Replicas
    BY <1>4 DEF LendingInv, LTypeOK, TypeOK
  <2> QED
    BY <1>2, <1>3, <1>5, <2>1, <2>2 DEF LendingInv, NativeInv, LentSleeps, ledger, Is, Cmd
<1> QED
  BY <1>8, <1>9, <1>10, <1>11 DEF NativeInv

(* The worker of a REMOVE drains a replica that serves, and then destroys or *)
(* quarantines it.                                                           *)
LEMMA RemoveStep ==
  ASSUME LendingInv, NEW o \in OpIds, Active(o), OwnStep(o), worker'[o] \in Unresolved,
         worker'[o] # "PREPARED", Cmd(o).kind = "REMOVE", Cmd(o).target \notin unrouted',
         Cmd(o).target \notin unrouted,
         \/ /\ M[Cmd(o).target] = "ACTIVE" /\ M'[Cmd(o).target] = "DRAINING"
            /\ using'[Cmd(o).target] = using[Cmd(o).target] /\ releases' = releases
         \/ /\ M[Cmd(o).target] = "DRAINING" /\ M'[Cmd(o).target] = "RELEASED"
            /\ using'[Cmd(o).target] = {} /\ o \in releases'
         \/ /\ M[Cmd(o).target] = "DRAINING" /\ M'[Cmd(o).target] = "QUARANTINED"
            /\ using'[Cmd(o).target] = using[Cmd(o).target] /\ releases' = releases
  PROVE  BorrowedInv'
<1> DEFINE r == Cmd(o).target
<1>1. /\ Is(o, "REMOVE") /\ r \in Borrowed
      /\ \A p \in OpIds : Active(p) /\ Cmd(p).target = r => p = o
  BY OwnTarget, StagedFacts DEF Is
<1>2. UNCHANGED ledger /\ \A p \in OpIds : Active(p)' <=> Active(p)
  BY SameLedger DEF OwnStep, Active
<1>3. /\ M[r] \in {"ACTIVE", "DRAINING"} /\ M[r] # None /\ M'[r] # None
      /\ using'[r] \in {{}, using[r]}
      /\ M'[r] \in {"DRAINING", "RELEASED", "QUARANTINED"}
      /\ M'[r] = "RELEASED" => using'[r] = {} /\ o \in releases'
  BY LendingAssumption DEF ReplicaStates
<1>4. \A q \in Replicas : q # r => /\ M'[q] = M[q] /\ using'[q] = using[q]
                                   /\ q \in unrouted' <=> q \in unrouted
  BY DEF OwnStep
<1>5. \A p \in OpIds : p # o => worker'[p] = worker[p] /\ (p \in releases' <=> p \in releases)
  BY DEF OwnStep
<1>6. \A p \in OpIds : Cmd(p) # None => Cmd(p).target \in Replicas
  BY StagedFacts
<1>7. o \notin releases
  BY <1>1, <1>3 DEF LendingInv, BorrowedInv, RemovedIsGone
<1>8. worker[o] # None /\ worker'[o] # None /\ Borrowed \subseteq Replicas
  BY ActiveFacts, LendingAssumption DEF Borrowed
<1> HIDE DEF r
<1>9. \A p \in OpIds : /\ Lapsed(p)' <=> Lapsed(p)
                       /\ LeaseUsedUp(p) => LeaseUsedUp(p)'
                       /\ LeaseGpus(p)' = LeaseGpus(p)
  BY <1>2, <1>3, <1>4, <1>6 DEF ledger, Lapsed, LeaseUsedUp, StagedOf, LeaseGpus, Cmd
<1>10. BorrowedExists'
  BY <1>1, <1>2, <1>3, <1>4, <1>5, <1>8
  DEF LendingInv, BorrowedInv, BorrowedExists, ledger, Is, Cmd
<1>11. BorrowedIsLent'
  BY <1>2, <1>3, <1>4, <1>6, <1>9
  DEF LendingInv, BorrowedInv, BorrowedIsLent, ledger, Is, Cmd
<1>12. PreparedExists'
  <2> SUFFICES ASSUME NEW p \in OpIds, worker'[p] = "PREPARED"
               PROVE  \/ M'[Cmd(p).target] \in {"CREATING", "ACTIVE"}
                      \/ Cmd(p).target \in unrouted'
    BY <1>2 DEF PreparedExists, ledger, Cmd
  <2>1. p # o /\ worker[p] = "PREPARED" /\ Active(p) /\ Cmd(p) # None
    BY <1>5, PreparedIsAdd DEF Is
  <2> QED
    BY <1>1, <1>4, <1>6, <2>1 DEF LendingInv, BorrowedInv, PreparedExists
<1>13. RolledBackIsGone'
  <2> SUFFICES ASSUME NEW p \in OpIds, Is(p, "ADD"),
                      worker'[p] = "RELEASED" \/ release_evidence[p] # None
               PROVE  \/ M'[Cmd(p).target] = "RELEASED"
                      \/ M'[Cmd(p).target] = None /\ (Lapsed(p)' \/ LeaseUsedUp(p)')
    BY <1>2 DEF RolledBackIsGone, ledger, Is, Cmd
  <2>1. p # o /\ worker'[p] = worker[p]
    BY <1>1, <1>5 DEF Is
  <2>2. \/ M[Cmd(p).target] = "RELEASED"
        \/ M[Cmd(p).target] = None /\ (Lapsed(p) \/ LeaseUsedUp(p))
    BY <2>1 DEF LendingInv, BorrowedInv, RolledBackIsGone
  <2>3. Cmd(p).target # r /\ Cmd(p).target \in Replicas
    BY <1>3, <1>6, <2>2 DEF Is
  <2> QED
    BY <1>4, <1>9, <2>2, <2>3
<1>14. RemovedIsGone'
  <2> SUFFICES ASSUME NEW p \in OpIds, Is(p, "REMOVE"), p \in releases'
               PROVE  M'[Cmd(p).target] = "RELEASED"
    BY <1>2 DEF RemovedIsGone, ledger, Is, Cmd
  <2>1. CASE p = o
    BY <1>3, <1>7, <2>1 DEF r
  <2>2. CASE p # o
    <3>1. M[Cmd(p).target] = "RELEASED"
      BY <1>5, <2>2 DEF LendingInv, BorrowedInv, RemovedIsGone
    <3> QED
      BY <1>3, <1>4, <1>6, <3>1 DEF Is
  <2> QED
    BY <2>1, <2>2
<1>15. AddedServes'
  <2> SUFFICES ASSUME NEW p \in OpIds, Is(p, "ADD"), worker'[p] = "SUCCEEDED",
                      last[Cmd(p).lease_id] = "DONATE"
               PROVE  \/ M'[Cmd(p).target] = "ACTIVE" \/ Cmd(p).target \in unrouted'
                      \/ \E q \in OpIds :
                           /\ Is(q, "REMOVE") /\ Active(q) /\ Cmd(q).target = Cmd(p).target
                           /\ \/ M'[Cmd(p).target] \in {"DRAINING", "QUARANTINED"}
                              \/ q \in releases'
    BY <1>2 DEF AddedServes, ledger, Is, Cmd
  <2>1. CASE Cmd(p).target = r
    BY <1>1, <1>3, <2>1 DEF r
  <2>2. CASE Cmd(p).target # r
    <3>1. /\ M'[Cmd(p).target] = M[Cmd(p).target] /\ worker'[p] = worker[p]
          /\ Cmd(p).target \in unrouted' <=> Cmd(p).target \in unrouted
      BY <1>1, <1>4, <1>5, <1>6, <2>2 DEF Is
    <3> QED
      BY <3>1 DEF LendingInv, BorrowedInv, AddedServes, OwnStep
  <2> QED
    BY <2>1, <2>2
<1> QED
  BY <1>10, <1>11, <1>12, <1>13, <1>14, <1>15 DEF BorrowedInv

(* The worker of an ADD: it takes the GPUs of the lease only while the       *)
(* ledger has not closed the ADD, and reports what has become of them.       *)
LEMMA AddStep ==
  ASSUME LendingInv, NEW o \in OpIds, Active(o), OwnStep(o), worker'[o] # None,
         Cmd(o).kind = "ADD",
         M[Cmd(o).target] \in {None, "CREATING", "ACTIVE"},
         M'[Cmd(o).target] # None,
         M[Cmd(o).target] = None /\ M'[Cmd(o).target] # "RELEASED" =>
           ~ Lapsed(o) /\ ~ LeaseUsedUp(o),
         M'[Cmd(o).target] = "RELEASED" => using'[Cmd(o).target] = {},
         using'[Cmd(o).target] \in {{}, using[Cmd(o).target], LeaseGpus(o)},
         worker'[o] = "PREPARED" => M'[Cmd(o).target] \in {"CREATING", "ACTIVE"},
         worker'[o] = "RELEASED" => M'[Cmd(o).target] = "RELEASED",
         worker'[o] = "SUCCEEDED" => M'[Cmd(o).target] = "ACTIVE"
  PROVE  BorrowedInv'
<1> DEFINE r == Cmd(o).target
<1>1. /\ Is(o, "ADD") /\ r \in Borrowed /\ Outstanding(o)
      /\ \A p \in OpIds : Active(p) /\ Cmd(p).target = r => p = o
      /\ \A p \in OpIds : Is(p, "ADD") /\ Cmd(p).target = r => p = o
  BY OwnTarget, StagedFacts, AddIsUnique, ActiveFacts DEF Is
<1>2. UNCHANGED ledger /\ \A p \in OpIds : p # o => (Active(p)' <=> Active(p))
  BY SameLedger DEF OwnStep, Active
<1>3. M[r] # "RELEASED"
  BY LendingAssumption DEF ReplicaStates
<1>4. \A q \in Replicas : q # r => /\ M'[q] = M[q] /\ using'[q] = using[q]
                                   /\ q \in unrouted' <=> q \in unrouted
  BY DEF OwnStep
<1>5. \A p \in OpIds : p # o => worker'[p] = worker[p] /\ (p \in releases' <=> p \in releases)
  BY DEF OwnStep
<1>6. \A p \in OpIds : Cmd(p) # None => Cmd(p).target \in Replicas
  BY StagedFacts
<1>7. release_evidence[o] = None \/ M'[r] = "RELEASED"
  BY <1>1, <1>3 DEF LendingInv, BorrowedInv, RolledBackIsGone
<1>8. worker[o] # None /\ Borrowed \subseteq Replicas
  BY ActiveFacts DEF Borrowed
<1>9. \A p \in OpIds : /\ Lapsed(p)' <=> Lapsed(p)
                       /\ LeaseUsedUp(p) => LeaseUsedUp(p)'
                       /\ LeaseGpus(p)' = LeaseGpus(p)
  <2>1. \A p \in OpIds : M[Cmd(p).target] # None /\ Cmd(p) # None =>
          M'[Cmd(p).target] # None
    BY <1>4, <1>6
  <2> QED
    BY <1>2, <2>1 DEF ledger, Lapsed, LeaseUsedUp, StagedOf, LeaseGpus, Cmd
<1>10. BorrowedExists'
  <2>1. \A q \in Borrowed : M'[q] # None =>
          \E p \in OpIds : Is(p, "ADD") /\ Cmd(p).target = q /\ worker'[p] # None
    BY <1>1, <1>4, <1>5, <1>8 DEF LendingInv, BorrowedInv, BorrowedExists, r
  <2>2. \A q \in Borrowed : M'[q] \in {None, "RELEASED"} => using'[q] = {}
    BY <1>4, <1>8 DEF LendingInv, BorrowedInv, BorrowedExists
  <2> QED
    BY <1>2, <2>1, <2>2 DEF BorrowedExists, ledger, Is, Cmd
<1>11. BorrowedIsLent'
  <2> SUFFICES ASSUME NEW p \in OpIds, Is(p, "ADD"), using'[Cmd(p).target] # {}
               PROVE  /\ last[Cmd(p).lease_id] = "DONATE"
                      /\ borrower_targets[Cmd(p).lease_id] = Cmd(p).target
                      /\ using'[Cmd(p).target] = LeaseGpus(p)
    BY <1>2, <1>9 DEF BorrowedIsLent, ledger, Is, Cmd
  <2>1. CASE p = o
    <3>1. release_evidence[o] = None
      BY <1>7, <2>1
    <3>2. using[r] # {} => using[r] = LeaseGpus(o)
      BY <1>1 DEF LendingInv, BorrowedInv, BorrowedIsLent
    <3> QED
      BY <1>1, <2>1, <3>1, <3>2 DEF LendingInv, CommandInv, AddPending
  <2>2. CASE p # o
    <3>1. using'[Cmd(p).target] = using[Cmd(p).target]
      BY <1>1, <1>4, <1>6, <2>2 DEF Is
    <3> QED
      BY <3>1 DEF LendingInv, BorrowedInv, BorrowedIsLent
  <2> QED
    BY <2>1, <2>2
<1> HIDE DEF r
<1>12. PreparedExists'
  <2> SUFFICES ASSUME NEW p \in OpIds, worker'[p] = "PREPARED"
               PROVE  \/ M'[Cmd(p).target] \in {"CREATING", "ACTIVE"}
                      \/ Cmd(p).target \in unrouted'
    BY <1>2 DEF PreparedExists, ledger, Cmd
  <2>1. CASE p = o
    BY <2>1
  <2>2. CASE p # o
    <3>1. worker[p] = "PREPARED" /\ Active(p) /\ Cmd(p) # None
      BY <1>5, <2>2, PreparedIsAdd DEF Is
    <3> QED
      BY <1>1, <1>4, <1>6, <2>2, <3>1 DEF LendingInv, BorrowedInv, PreparedExists
  <2> QED
    BY <2>1, <2>2
<1>13. RolledBackIsGone'
  <2> SUFFICES ASSUME NEW p \in OpIds, Is(p, "ADD"),
                      worker'[p] = "RELEASED" \/ release_evidence[p] # None
               PROVE  \/ M'[Cmd(p).target] = "RELEASED"
                      \/ M'[Cmd(p).target] = None /\ (Lapsed(p)' \/ LeaseUsedUp(p)')
    BY <1>2 DEF RolledBackIsGone, ledger, Is, Cmd
  <2>1. CASE p = o
    BY <1>7, <2>1 DEF r
  <2>2. CASE p # o
    <3>1. /\ worker'[p] = worker[p] /\ M'[Cmd(p).target] = M[Cmd(p).target]
      BY <1>1, <1>4, <1>5, <1>6, <2>2 DEF Is
    <3> QED
      BY <1>9, <3>1 DEF LendingInv, BorrowedInv, RolledBackIsGone
  <2> QED
    BY <2>1, <2>2
<1>14. RemovedIsGone'
  <2> SUFFICES ASSUME NEW p \in OpIds, Is(p, "REMOVE"), p \in releases'
               PROVE  M'[Cmd(p).target] = "RELEASED"
    BY <1>2 DEF RemovedIsGone, ledger, Is, Cmd
  <2>1. p # o
    BY <1>1 DEF Is
  <2>2. M[Cmd(p).target] = "RELEASED"
    BY <1>5, <2>1 DEF LendingInv, BorrowedInv, RemovedIsGone
  <2> QED
    BY <1>3, <1>4, <1>6, <2>2 DEF Is
<1>15. AddedServes'
  <2> SUFFICES ASSUME NEW p \in OpIds, Is(p, "ADD"), worker'[p] = "SUCCEEDED",
                      last[Cmd(p).lease_id] = "DONATE", p # o
               PROVE  \/ M'[Cmd(p).target] = "ACTIVE" \/ Cmd(p).target \in unrouted'
                      \/ \E q \in OpIds :
                           /\ Is(q, "REMOVE") /\ Active(q)' /\ Cmd(q).target = Cmd(p).target
                           /\ \/ M'[Cmd(p).target] \in {"DRAINING", "QUARANTINED"}
                              \/ q \in releases'
    BY <1>2 DEF AddedServes, ledger, Is, Cmd
  <2>1. /\ M'[Cmd(p).target] = M[Cmd(p).target] /\ worker'[p] = worker[p]
        /\ Cmd(p).target \in unrouted' <=> Cmd(p).target \in unrouted
    BY <1>1, <1>4, <1>5, <1>6 DEF Is
  <2>2. \A q \in OpIds : Is(q, "REMOVE") => q # o
    BY <1>1 DEF Is
  <2> QED
    BY <1>2, <1>5, <2>1, <2>2 DEF LendingInv, BorrowedInv, AddedServes
<1> QED
  BY <1>10, <1>11, <1>12, <1>13, <1>14, <1>15 DEF BorrowedInv

(* An action of a worker is a step on its own target. *)
LEMMA MakesOwnStep ==
  ASSUME LendingInv, NEW o \in OpIds, Active(o), UNCHANGED gsVars, sent' = sent,
         NEW w, Becomes(o, w), NEW x, M' = [M EXCEPT ![Cmd(o).target] = x],
         NEW y, using' = [using EXCEPT ![Cmd(o).target] = y],
         releases \subseteq releases', releases' \subseteq releases \cup {o},
         \/ unrouted' = unrouted /\ Cmd(o).target \notin unrouted
         \/ unrouted' = unrouted \cup {Cmd(o).target} /\ x = "DRAINING"
  PROVE  /\ OwnStep(o) /\ worker'[o] = w
         /\ M'[Cmd(o).target] = x /\ using'[Cmd(o).target] = y
<1>1. Cmd(o).target \in Replicas
  BY OwnTarget
<1>2. /\ M'[Cmd(o).target] = x /\ using'[Cmd(o).target] = y
      /\ \A r \in Replicas : r # Cmd(o).target => M'[r] = M[r] /\ using'[r] = using[r]
  BY <1>1 DEF LendingInv, LTypeOK
<1>3. worker'[o] = w /\ \A p \in OpIds : p # o => worker'[p] = worker[p]
  BY DEF LendingInv, LTypeOK, Becomes
<1>4. /\ unrouted' \subseteq Replicas
      /\ \A r \in Replicas : r # Cmd(o).target => (r \in unrouted' <=> r \in unrouted)
      /\ Cmd(o).target \in unrouted' => x = "DRAINING"
  BY <1>1 DEF LendingInv, LTypeOK
<1> QED
  BY <1>2, <1>3, <1>4 DEF OwnStep

(* The whole of a step on a native replica, or on a borrowed one. *)
LEMMA ExitStepKeeps ==
  ASSUME LendingInv, NEW o \in OpIds, Active(o), UNCHANGED gsVars, sent' = sent,
         Cmd(o).kind \in Exits, unrouted' = unrouted, Cmd(o).target \notin unrouted,
         NEW w \in {"RUNNING", "RELEASED", "UNKNOWN"}, Becomes(o, w),
         NEW x \in ReplicaStates, M' = [M EXCEPT ![Cmd(o).target] = x],
         NEW y \in SUBSET Gpus, using' = [using EXCEPT ![Cmd(o).target] = y],
         w = "RELEASED" => o \in releases',
         \/ /\ M[Cmd(o).target] = "ACTIVE" /\ x = "DRAINING"
            /\ y = using[Cmd(o).target] /\ releases' = releases
         \/ /\ M[Cmd(o).target] = "DRAINING"
            /\ x = IF Cmd(o).target \in Natives THEN "DORMANT" ELSE "RELEASED"
            /\ y = {} /\ releases' = releases \cup {o}
         \/ /\ M[Cmd(o).target] = "DRAINING" /\ x = "QUARANTINED"
            /\ y = using[Cmd(o).target] /\ releases' = releases
  PROVE  LendingInv'
<1>1. /\ OwnStep(o) /\ worker'[o] = w
      /\ M'[Cmd(o).target] = x /\ using'[Cmd(o).target] = y
  BY MakesOwnStep
<1>2. w \in Unresolved /\ w \in Unresolved \cup Resolved
  BY DEF Unresolved
<1>3. CASE Cmd(o).kind = "DONATE"
  <2>1. Cmd(o).target \in Natives
    BY <1>3, ActiveFacts, StagedFacts
  <2>2. NativeInv'
    BY <1>1, <1>2, <1>3, <2>1, DonateStep
  <2>3. BorrowedInv'
    BY <1>1, <1>3, NativeStepKeepsBorrowed
  <2> QED
    BY <1>1, <1>2, <1>3, <2>2, <2>3, OwnStepKeeps
<1>4. CASE Cmd(o).kind = "REMOVE"
  <2>1. Cmd(o).target \notin Natives
    BY <1>4, ActiveFacts, StagedFacts
  <2>2. NativeInv'
    BY <1>1, <1>4, BorrowedStepKeepsNative
  <2>3. BorrowedInv'
    BY <1>1, <1>2, <1>4, <2>1, RemoveStep
  <2> QED
    BY <1>1, <1>2, <1>4, <2>2, <2>3, OwnStepKeeps
<1> QED
  BY <1>3, <1>4 DEF Exits

(* DONATE and REMOVE: the target begins to drain. *)
LEMMA BeginExitKeeps ==
  ASSUME LendingInv, NEW o \in OpIds, BeginExit(o)
  PROVE  LendingInv'
<1>1. /\ Active(o) /\ UNCHANGED gsVars /\ sent' = sent /\ releases' = releases
      /\ Cmd(o).kind \in Exits /\ worker[o] = "RUNNING" /\ worker' = worker
      /\ unrouted' = unrouted
      /\ M[Cmd(o).target] = "ACTIVE" /\ using' = using
      /\ M' = [M EXCEPT ![Cmd(o).target] = "DRAINING"]
  BY DEF BeginExit, Running, Active, Unresolved, runnerVars
<1>2. /\ Becomes(o, "RUNNING") /\ "DRAINING" \in ReplicaStates
      /\ using[Cmd(o).target] \in SUBSET Gpus
      /\ using' = [using EXCEPT ![Cmd(o).target] = using[Cmd(o).target]]
  BY <1>1, OwnTarget DEF Becomes, LendingInv, LTypeOK, ReplicaStates
<1>3. Cmd(o).target \notin unrouted
  BY <1>1 DEF LendingInv, UnroutedDrains
<1> QED
  BY <1>1, <1>2, <1>3, ExitStepKeeps

(* DONATE and REMOVE: the runtime is gone, or nobody can tell. *)
LEMMA ReleaseExitKeeps ==
  ASSUME LendingInv, NEW o \in OpIds, ReleaseExit(o)
  PROVE  LendingInv'
<1> DEFINE r == Cmd(o).target
           x == IF r \in Natives THEN "DORMANT" ELSE "RELEASED"
<1>1. /\ Active(o) /\ Cmd(o).kind \in Exits /\ M[r] = "DRAINING"
      /\ UNCHANGED gsVars /\ sent' = sent /\ unrouted' = unrouted /\ r \notin unrouted
      /\ \/ Vacated(r, o, x) /\ Reports(o, "RELEASED")
         \/ Quarantine(o, using[r])
  BY DEF ReleaseExit, Running, Active, Unresolved, Quarantine
<1>2. CASE Vacated(r, o, x) /\ Reports(o, "RELEASED")
  <2>1. /\ M' = [M EXCEPT ![r] = x] /\ using' = [using EXCEPT ![r] = {}]
        /\ releases' = releases \cup {o} /\ o \in releases' /\ x \in ReplicaStates
        /\ {} \in SUBSET Gpus
    BY <1>2 DEF Vacated, ReplicaStates
  <2>2. PICK w \in {"RELEASED", "UNKNOWN"} : Becomes(o, w)
    BY <1>2 DEF Reports
  <2> QED
    BY <1>1, <2>1, <2>2, ExitStepKeeps
<1>3. CASE Quarantine(o, using[r])
  <2>1. /\ M' = [M EXCEPT ![r] = "QUARANTINED"]
        /\ using' = [using EXCEPT ![r] = using[r]]
        /\ releases' = releases /\ Becomes(o, "UNKNOWN")
        /\ "QUARANTINED" \in ReplicaStates /\ using[r] \in SUBSET Gpus
    BY <1>1, <1>3, OwnTarget DEF Quarantine, ReplicaStates
  <2> QED
    BY <1>1, <2>1, ExitStepKeeps
<1> QED
  BY <1>1, <1>2, <1>3

(* A step of an ADD that leaves its worker at w, and its replica in state x  *)
(* with a runtime that occupies y.                                           *)
AddEffect(o, w, x, y) ==
  /\ Active(o) /\ Cmd(o).kind = "ADD"
  /\ UNCHANGED gsVars /\ sent' = sent
  /\ w \in {"PREPARED", "RELEASED", "SUCCEEDED", "UNKNOWN"} /\ Becomes(o, w)
  /\ x \in ReplicaStates /\ M' = [M EXCEPT ![Cmd(o).target] = x]
  /\ y \in SUBSET Gpus /\ using' = [using EXCEPT ![Cmd(o).target] = y]
  /\ releases \subseteq releases' /\ releases' \subseteq releases \cup {o}
  /\ M[Cmd(o).target] \in {None, "CREATING", "ACTIVE"}
  /\ M[Cmd(o).target] = None /\ x # "RELEASED" => ~ Lapsed(o) /\ ~ LeaseUsedUp(o)
  /\ x = "RELEASED" => y = {}
  /\ y \in {{}, using[Cmd(o).target], LeaseGpus(o)}
  /\ w = "PREPARED" => x \in {"CREATING", "ACTIVE"}
  /\ w = "RELEASED" => x = "RELEASED"
  /\ w = "SUCCEEDED" => x = "ACTIVE"
  /\ \/ unrouted' = unrouted
     \/ unrouted' = unrouted \cup {Cmd(o).target} /\ x = "DRAINING"

(* The whole of a step of an ADD that changes its replica. *)
LEMMA AddStepKeeps ==
  ASSUME LendingInv, NEW o \in OpIds, NEW w, NEW x, NEW y, AddEffect(o, w, x, y)
  PROVE  LendingInv'
<1>0. Cmd(o).target \notin unrouted
  BY LendingAssumption DEF AddEffect, LendingInv, UnroutedDrains, ReplicaStates
<1>1. /\ OwnStep(o) /\ worker'[o] = w
      /\ M'[Cmd(o).target] = x /\ using'[Cmd(o).target] = y
  <2>1. \/ unrouted' = unrouted /\ Cmd(o).target \notin unrouted
        \/ unrouted' = unrouted \cup {Cmd(o).target} /\ x = "DRAINING"
    BY <1>0 DEF AddEffect
  <2>2. /\ Active(o) /\ UNCHANGED gsVars /\ sent' = sent /\ Becomes(o, w)
        /\ M' = [M EXCEPT ![Cmd(o).target] = x]
        /\ using' = [using EXCEPT ![Cmd(o).target] = y]
        /\ releases \subseteq releases' /\ releases' \subseteq releases \cup {o}
    BY DEF AddEffect
  <2> QED
    BY <2>1, <2>2, MakesOwnStep
<1>2. w \in Unresolved \cup Resolved /\ w # None /\ x # None
  BY LendingAssumption DEF AddEffect, Unresolved, Resolved
<1>3. NativeInv'
  BY <1>1, BorrowedStepKeepsNative DEF AddEffect
<1>4. BorrowedInv'
  BY <1>1, <1>2, AddStep DEF AddEffect
<1> QED
  BY <1>1, <1>2, <1>3, <1>4, OwnStepKeeps DEF AddEffect, Exits

(* ADD: the runtime is created on the GPUs of the lease, or was refused, or  *)
(* failed without a trace, or with one.                                      *)
LEMMA CreateKeeps ==
  ASSUME LendingInv, NEW o \in OpIds, Create(o)
  PROVE  LendingInv'
<1> DEFINE r == Cmd(o).target
           refused == Lapsed(o) \/ LeaseUsedUp(o)
<1>1. /\ Active(o) /\ Cmd(o).kind = "ADD" /\ M[r] = None
      /\ UNCHANGED gsVars /\ sent' = sent
  BY DEF Create, Running, Active, Unresolved, Quarantine
<1>2. /\ LeaseGpus(o) \in SUBSET Gpus /\ using[r] \in SUBSET Gpus
      /\ using = [using EXCEPT ![r] = using[r]]
      /\ r \in Borrowed /\ using[r] = {}
      /\ {"CREATING", "RELEASED", "QUARANTINED"} \subseteq ReplicaStates
  BY <1>1, OwnTarget, ActiveFacts, StagedFacts, LendingAssumption
  DEF ReplicaStates, LendingInv, BorrowedInv, BorrowedExists
<1>3. CASE /\ ~ refused /\ M' = [M EXCEPT ![r] = "CREATING"]
           /\ using' = [using EXCEPT ![r] = LeaseGpus(o)]
           /\ Reports(o, "PREPARED") /\ releases' = releases /\ unrouted' = unrouted
  <2>1. PICK w \in {"PREPARED", "UNKNOWN"} : Becomes(o, w)
    BY <1>3 DEF Reports
  <2>2. AddEffect(o, w, "CREATING", LeaseGpus(o))
    BY <1>1, <1>2, <1>3, <2>1 DEF AddEffect
  <2> QED
    BY <2>2, AddStepKeeps
<1>4. CASE /\ M' = IF refused THEN M ELSE [M EXCEPT ![r] = "RELEASED"]
           /\ Reports(o, "RELEASED") /\ using' = using /\ releases' = releases
           /\ unrouted' = unrouted
  <2>1. PICK w \in {"RELEASED", "UNKNOWN"} : Becomes(o, w)
    BY <1>4 DEF Reports
  <2>2. CASE refused
    BY <1>1, <1>4, <2>1, <2>2, WorkerOnly DEF runtimeVars
  <2>3. CASE ~ refused
    <3>1. M' = [M EXCEPT ![r] = "RELEASED"] /\ using' = [using EXCEPT ![r] = {}]
      BY <1>2, <1>4, <2>3
    <3>2. AddEffect(o, w, "RELEASED", {})
      BY <1>1, <1>2, <1>4, <2>1, <3>1 DEF AddEffect
    <3> QED
      BY <3>2, AddStepKeeps
  <2> QED
    BY <2>2, <2>3
<1>5. CASE ~ refused /\ Quarantine(o, LeaseGpus(o))
  <2>1. /\ M' = [M EXCEPT ![r] = "QUARANTINED"]
        /\ using' = [using EXCEPT ![r] = LeaseGpus(o)]
        /\ Becomes(o, "UNKNOWN") /\ releases' = releases /\ unrouted' = unrouted
    BY <1>5 DEF Quarantine
  <2>2. AddEffect(o, "UNKNOWN", "QUARANTINED", LeaseGpus(o))
    BY <1>1, <1>2, <1>5, <2>1 DEF AddEffect
  <2> QED
    BY <2>2, AddStepKeeps
<1> QED
  BY <1>3, <1>4, <1>5 DEF Create

(* ADD: the replica serves, R does not take it, or the runtime is given up. *)
LEMMA AddEndsKeep ==
  ASSUME LendingInv, NEW o \in OpIds, RetractAdd(o) \/ CommitAdd(o) \/ AddFails(o)
  PROVE  LendingInv'
<1> DEFINE r == Cmd(o).target
<1>1. /\ worker[o] = "PREPARED" /\ UNCHANGED gsVars /\ sent' = sent
  BY DEF RetractAdd, Retracted, CommitAdd, AddFails, Quarantine
<1>2. /\ Active(o) /\ Cmd(o).kind = "ADD"
      /\ M[r] \in {"CREATING", "ACTIVE"} \/ r \in unrouted
  BY <1>1, PreparedIsAdd DEF Is, LendingInv, BorrowedInv, PreparedExists
<1>3. /\ using[r] \in SUBSET Gpus /\ using = [using EXCEPT ![r] = using[r]]
      /\ r \notin unrouted => M[r] # None /\ M[r] \in {None, "CREATING", "ACTIVE"}
      /\ {"ACTIVE", "RELEASED", "QUARANTINED", "DRAINING"} \subseteq ReplicaStates
  BY <1>2, OwnTarget, LendingAssumption DEF ReplicaStates
<1>4. CASE CommitAdd(o) /\ r \notin unrouted
  <2>1. /\ M' = [M EXCEPT ![r] = "ACTIVE"] /\ using' = [using EXCEPT ![r] = using[r]]
        /\ releases \subseteq releases' /\ releases' \subseteq releases \cup {o}
        /\ unrouted' = unrouted
    BY <1>3, <1>4 DEF CommitAdd
  <2>2. PICK w \in {"SUCCEEDED", "UNKNOWN"} : Becomes(o, w)
    BY <1>4 DEF CommitAdd, Reports
  <2>3. AddEffect(o, w, "ACTIVE", using[r])
    BY <1>1, <1>2, <1>3, <1>4, <2>1, <2>2 DEF AddEffect
  <2> QED
    BY <2>3, AddStepKeeps
<1>5. CASE CommitAdd(o) /\ r \in unrouted
  <2>1. UNCHANGED <<gsVars, runtimeVars>>
    BY <1>5 DEF CommitAdd, runtimeVars
  <2>2. PICK w \in {"SUCCEEDED", "UNKNOWN"} : Becomes(o, w)
    BY <1>5 DEF CommitAdd, Reports
  <2> QED
    BY <1>1, <1>2, <1>5, <2>1, <2>2, WorkerOnly
<1>6. CASE RetractAdd(o)
  <2>1. /\ M' = [M EXCEPT ![r] = "DRAINING"] /\ using' = [using EXCEPT ![r] = using[r]]
        /\ releases' = releases /\ unrouted' = unrouted \cup {r}
        /\ Becomes(o, "UNKNOWN") /\ r \notin unrouted
    BY <1>3, <1>6 DEF RetractAdd, Retracted
  <2>2. AddEffect(o, "UNKNOWN", "DRAINING", using[r])
    BY <1>1, <1>2, <1>3, <2>1 DEF AddEffect
  <2> QED
    BY <2>2, AddStepKeeps
<1>7. CASE /\ Vacated(r, o, "RELEASED") /\ Reports(o, "RELEASED")
           /\ unrouted' = unrouted /\ r \notin unrouted
  <2>1. /\ M' = [M EXCEPT ![r] = "RELEASED"] /\ using' = [using EXCEPT ![r] = {}]
        /\ releases \subseteq releases' /\ releases' \subseteq releases \cup {o}
        /\ {} \in SUBSET Gpus
    BY <1>7 DEF Vacated
  <2>2. PICK w \in {"RELEASED", "UNKNOWN"} : Becomes(o, w)
    BY <1>7 DEF Reports
  <2>3. AddEffect(o, w, "RELEASED", {})
    BY <1>1, <1>2, <1>3, <1>7, <2>1, <2>2 DEF AddEffect
  <2> QED
    BY <2>3, AddStepKeeps
<1>8. CASE Quarantine(o, using[r]) /\ r \notin unrouted
  <2>1. /\ M' = [M EXCEPT ![r] = "QUARANTINED"]
        /\ using' = [using EXCEPT ![r] = using[r]] /\ unrouted' = unrouted
        /\ Becomes(o, "UNKNOWN") /\ releases' = releases
    BY <1>8 DEF Quarantine
  <2>2. AddEffect(o, "UNKNOWN", "QUARANTINED", using[r])
    BY <1>1, <1>2, <1>3, <1>8, <2>1 DEF AddEffect
  <2> QED
    BY <2>2, AddStepKeeps
<1> QED
  BY <1>4, <1>5, <1>6, <1>7, <1>8 DEF AddFails

(* RESTORE: the native runtime wakes, serves again, sleeps again, or is lost.*)
LEMMA RestoreKeeps ==
  ASSUME LendingInv, NEW o \in OpIds,
         Wake(o) \/ CommitWake(o) \/ RetractWake(o) \/ RestoreFails(o)
  PROVE  LendingInv'
<1> DEFINE r == Cmd(o).target
<1>1. /\ worker[o] = "RUNNING" /\ Active(o) /\ Cmd(o).kind = "RESTORE"
      /\ UNCHANGED gsVars /\ sent' = sent
  BY DEF Wake, CommitWake, RetractWake, Retracted, RestoreFails, Quarantine, Running,
         Active, Unresolved, runnerVars
<1>2. /\ r \in Natives /\ NativeGpus[r] \in SUBSET Gpus
      /\ using[r] \in {{}, NativeGpus[r]} /\ using[r] \in SUBSET Gpus
      /\ using = [using EXCEPT ![r] = using[r]]
      /\ M = [M EXCEPT ![r] = M[r]]
      /\ {"ACTIVE", "DORMANT", "QUARANTINED", "DRAINING"} \subseteq ReplicaStates
      /\ r \notin unrouted
  BY <1>1, OwnTarget, ActiveFacts, StagedFacts, LendingAssumption
  DEF ReplicaStates, LendingInv, NativeInv, NativeExists, UnroutedDrains, Wake, CommitWake,
      RetractWake, RestoreFails, Awake
<1>3. PICK w \in {"RUNNING", "COMMITTED", "RELEASED", "UNKNOWN"},
           x \in {"ACTIVE", "DORMANT", "QUARANTINED", "DRAINING"}, y \in {{}, NativeGpus[r]} :
        /\ Becomes(o, w) /\ M' = [M EXCEPT ![r] = x] /\ using' = [using EXCEPT ![r] = y]
        /\ w = "RELEASED" => x = "DORMANT"
        /\ w = "COMMITTED" => x = "ACTIVE"
        /\ \/ unrouted' = unrouted /\ x # "DRAINING"
           \/ unrouted' = unrouted \cup {r} /\ x = "DRAINING"
        /\ releases \subseteq releases' /\ releases' \subseteq releases \cup {o}
  <2>1. CASE Wake(o)
    <3>1. /\ Becomes(o, "RUNNING") /\ M' = [M EXCEPT ![r] = "DORMANT"]
          /\ using' = [using EXCEPT ![r] = NativeGpus[r]] /\ releases' = releases
          /\ unrouted' = unrouted
      BY <1>1, <1>2, <2>1 DEF Wake, Becomes, runnerVars, LendingInv, LTypeOK
    <3> QED
      BY <3>1
  <2>2. CASE CommitWake(o)
    <3>1. /\ Becomes(o, "COMMITTED") \/ Becomes(o, "UNKNOWN")
          /\ M' = [M EXCEPT ![r] = "ACTIVE"]
          /\ using' = [using EXCEPT ![r] = using[r]] /\ releases' = releases
          /\ unrouted' = unrouted
      BY <1>2, <2>2 DEF CommitWake, Reports
    <3> QED
      BY <1>2, <3>1
  <2>3. CASE RestoreFails(o) /\ Quarantine(o, using[r])
    <3>1. /\ Becomes(o, "UNKNOWN") /\ M' = [M EXCEPT ![r] = "QUARANTINED"]
          /\ using' = [using EXCEPT ![r] = using[r]] /\ releases' = releases
          /\ unrouted' = unrouted
      BY <2>3 DEF Quarantine
    <3> QED
      BY <1>2, <3>1
  <2>4. CASE RestoreFails(o) /\ ~ Quarantine(o, using[r])
    <3>1. /\ Becomes(o, "RELEASED") \/ Becomes(o, "UNKNOWN")
          /\ M' = [M EXCEPT ![r] = "DORMANT"]
          /\ \/ using' = [using EXCEPT ![r] = {}]
             \/ using' = [using EXCEPT ![r] = using[r]]
          /\ releases \subseteq releases' /\ releases' \subseteq releases \cup {o}
          /\ unrouted' = unrouted
      BY <1>2, <2>4 DEF RestoreFails, Reports
    <3> QED
      BY <1>2, <3>1
  <2>5. CASE RetractWake(o)
    <3>1. /\ Becomes(o, "UNKNOWN") /\ M' = [M EXCEPT ![r] = "DRAINING"]
          /\ using' = [using EXCEPT ![r] = using[r]] /\ releases' = releases
          /\ unrouted' = unrouted \cup {r}
      BY <1>2, <2>5 DEF RetractWake, Retracted
    <3> QED
      BY <1>2, <3>1
  <2> QED
    BY <2>1, <2>2, <2>3, <2>4, <2>5
<1>4. /\ OwnStep(o) /\ worker'[o] = w /\ M'[r] = x /\ using'[r] = y
  <2>1. \/ unrouted' = unrouted /\ r \notin unrouted
        \/ unrouted' = unrouted \cup {r} /\ x = "DRAINING"
    BY <1>2, <1>3
  <2>2. releases \subseteq releases' /\ releases' \subseteq releases \cup {o}
    BY <1>3
  <2> QED
    BY <1>1, <1>3, <2>1, <2>2, MakesOwnStep
<1>5. w \in Unresolved /\ w \in Unresolved \cup Resolved /\ x \in ReplicaStates
      /\ y \in SUBSET Gpus
  BY <1>2, <1>3 DEF Unresolved
<1>6. NativeInv'
  <2>1. x = "DRAINING" => r \in unrouted'
    BY <1>3
  <2> QED
    BY <1>1, <1>3, <1>4, <1>5, <2>1, RestoreStep
<1>7. BorrowedInv'
  BY <1>1, <1>4, NativeStepKeepsBorrowed
<1> QED
  BY <1>1, <1>3, <1>4, <1>5, <1>6, <1>7, OwnStepKeeps DEF Exits

-----------------------------------------------------------------------------
(* Steps of the policy *)

(* A step of Lending is a step of the ledger, or leaves it alone. *)
LEMMA LedgerStep ==
  ASSUME LendingInv,
         \/ \E lease \in LeaseForms : OpenLease(lease)
         \/ \E c \in CommandForms : StageOperation(c)
         \/ \E e \in EvidenceForms : AdvanceLease(e)
  PROVE  LedgerInv'
<1>1. GSNext
  BY DEF GSNext
<1> QED
  BY <1>1, NextLedgerInv DEF LendingInv

(* A new lease has no command, no stage and no part in a cycle. *)
LEMMA OpenKeeps ==
  ASSUME LendingInv, NEW lease \in LeaseForms, Open(lease)
  PROVE  LendingInv'
<1> DEFINE l == lease.lease_id
<1>1. /\ l \in LeaseIds /\ lease # None /\ leases[l] = None
      /\ leases' = [leases EXCEPT ![l] = lease]
      /\ last' = last /\ held' = held \cup {l}
      /\ UNCHANGED <<expired, operation_commands, borrower_targets,
                     release_evidence, handoff_ready_leases>>
  BY OpenEffect DEF LendingInv, Open
<1>2. UNCHANGED <<sent, worker, M, using, releases, unrouted>>
  BY DEF Open, runnerVars, runtimeVars
<1>3. LedgerInv'
  BY LedgerStep DEF Open
<1>4. LTypeOK'
  BY <1>2, <1>3 DEF LendingInv, LTypeOK, LedgerInv
<1> HIDE DEF l
<1>5. /\ leases'[l] = lease /\ \A m \in LeaseIds : m # l => leases'[m] = leases[m]
      /\ last[l] = None /\ l \notin handoff_ready_leases /\ last[l] \notin OperationKinds
  BY <1>1, LendingAssumption
  DEF LendingInv, LTypeOK, TypeOK, LeaseInv, OperationKinds
<1>6. \A p \in OpIds : Cmd(p) # None =>
        Cmd(p).lease_id # l /\ leases'[Cmd(p).lease_id] = leases[Cmd(p).lease_id]
  BY <1>1, <1>5, StagedFacts
<1>7. /\ \A p \in OpIds : /\ Cmd(p)' = Cmd(p)
                          /\ Active(p)' <=> Active(p)
                          /\ Outstanding(p)' <=> Outstanding(p)
                          /\ Lapsed(p)' <=> Lapsed(p)
                          /\ LeaseUsedUp(p)' <=> LeaseUsedUp(p)
      /\ \A p \in OpIds : Cmd(p) # None => LeaseGpus(p)' = LeaseGpus(p)
  BY <1>1, <1>2, <1>6
  DEF Cmd, Active, Outstanding, Lapsed, LeaseUsedUp, StagedOf, LeaseGpus
<1>8. JournalInv'
  BY <1>1, <1>2, <1>6, <1>7 DEF LendingInv, JournalInv, Cmd
<1>9. LeaseInv'
  BY <1>1, <1>5 DEF LendingInv, LeaseInv, Is, Cmd, OperationKinds
<1>10. CommandInv'
  BY <1>1, <1>7 DEF LendingInv, CommandInv, DonatePending, AddPending, RemovePending,
                         RestorePending, Is, Cmd
<1>11. NativeInv'
  <2>1. NativeExists'
    BY <1>1, <1>2, <1>7 DEF LendingInv, NativeInv, NativeExists, Is, Cmd
  <2>2. DonateIsFirst'
    BY <1>1, <1>2, <1>5, <1>7
    DEF LendingInv, NativeInv, DonateIsFirst, Is, Cmd, Cycle, OperationKinds
  <2>3. CycleIsExclusive'
    BY <1>1, <1>2, <1>5, <1>7
    DEF LendingInv, NativeInv, CycleIsExclusive, Is, Cmd, Cycle, OperationKinds
  <2>4. \A m \in handoff_ready_leases : leases'[m] = leases[m]
    BY <1>5 DEF LendingInv, LTypeOK, TypeOK
  <2>5. LentSleeps'
    BY <1>1, <1>2, <1>7, <2>4 DEF LendingInv, NativeInv, LentSleeps, Is, Cmd
  <2> QED
    BY <2>1, <2>2, <2>3, <2>5 DEF NativeInv
<1>12. BorrowedInv'
  BY <1>1, <1>2, <1>7
  DEF LendingInv, BorrowedInv, BorrowedExists, BorrowedIsLent, PreparedExists,
      RolledBackIsGone, RemovedIsGone, AddedServes, Is, Cmd
<1> QED
  BY <1>2, <1>3, <1>4, <1>8, <1>9, <1>10, <1>11, <1>12 DEF LendingInv, UnroutedDrains

(* A command is staged when nothing of its lease is under way, so that what  *)
(* the phase checks found is still so when its evidence comes.               *)
LEMMA SubmitKeeps ==
  ASSUME LendingInv, Serial, NEW c \in CommandForms, Submit(c)
  PROVE  LendingInv'
<1> DEFINE o == c.operation_id
           l == c.lease_id
<1>1. /\ o \in OpIds /\ l \in LeaseIds /\ c.target \in Replicas
      /\ c # None /\ c.target # None /\ c.kind \in OperationKinds
  BY CommandTyped, NoneIsAbsent
<1>2. /\ leases[l] # None /\ operation_commands[o] = None /\ last[l] # "RESTORE"
      /\ c.kind = "DONATE" => /\ last[l] # "REMOVE" /\ c.target = leases[l].donor
                              /\ l \notin handoff_ready_leases
      /\ c.kind = "ADD" => l \in handoff_ready_leases /\ borrower_targets[l] = None
      /\ c.kind = "REMOVE" => l \in handoff_ready_leases /\ borrower_targets[l] = c.target
      /\ c.kind = "RESTORE" => /\ c.target = leases[l].donor
                               /\ \A m \in held : leases[m].donor # leases[l].donor
      /\ operation_commands' = [operation_commands EXCEPT ![o] = c]
      /\ borrower_targets' = IF c.kind = "ADD"
           THEN [borrower_targets EXCEPT ![l] = c.target] ELSE borrower_targets
      /\ held' = IF c.kind = "RESTORE" THEN held \cup {l} ELSE held
      /\ last' = last
      /\ UNCHANGED <<leases, expired, release_evidence, handoff_ready_leases>>
  BY StageEffect DEF LendingInv, Submit
<1>3. sent' = sent \cup {o} /\ UNCHANGED <<worker, M, using, releases, unrouted>>
  BY DEF Submit, runtimeVars
<1>4. LedgerInv'
  BY LedgerStep DEF Submit
<1>5. LTypeOK'
  BY <1>1, <1>3, <1>4 DEF LendingInv, LTypeOK, LedgerInv
<1> HIDE DEF o, l
<1>6. /\ Cmd(o) = None /\ Cmd(o)' = c
      /\ \A p \in OpIds : p # o => Cmd(p)' = Cmd(p)
  BY <1>1, <1>2 DEF LendingInv, LTypeOK, TypeOK, Cmd
<1>7. worker[o] = None /\ release_evidence[o] = None /\ o \notin releases
  BY <1>1, <1>6 DEF LendingInv, JournalInv
<1>8. /\ ~ Active(o) /\ ~ Active(o)' /\ \A p \in OpIds : Active(p)' <=> Active(p)
      /\ \A p \in OpIds : p # o => (Outstanding(p)' <=> Outstanding(p))
  BY <1>3, <1>6, <1>7, LendingAssumption DEF Active, Outstanding
<1>9. \A p \in OpIds : Cmd(p) # None /\ Cmd(p).lease_id = l => ~ Outstanding(p)
  BY DEF Submit, PolicyAllows, StagedOf, Outstanding, l
<1>10. l \in held => c.kind # "RESTORE"
  BY <1>2
<1>11. /\ last[l] \in OperationKinds \cup {None}
       /\ (last[l] = "DONATE") <=> (l \in handoff_ready_leases)
       /\ l \in handoff_ready_leases => l \in held
       /\ last[l] = None => l \in held
  BY <1>1, <1>2, StageTyped DEF LendingInv, LeaseInv
<1>12. /\ last[l] = None => c.kind = "DONATE"
       /\ c.kind = "DONATE" => last[l] \in {None, "ADD"}
       /\ c.kind = "RESTORE" => last[l] \in {"ADD", "REMOVE"} /\ l \notin held
  BY <1>1, <1>2, <1>10, <1>11, LendingAssumption DEF OperationKinds
<1>13. JournalInv'
  <2>1. o = c.operation_id /\ l = c.lease_id
    BY DEF o, l
  <2>2. \A p \in OpIds : p \in sent' \/ worker'[p] # None => Cmd(p)' # None
    BY <1>1, <1>3, <1>6 DEF LendingInv, JournalInv
  <2>3. \A p \in OpIds : Cmd(p)' # None =>
          /\ Cmd(p)'.operation_id = p /\ leases'[Cmd(p)'.lease_id] # None
          /\ Cmd(p)'.kind \in {"DONATE", "RESTORE"} =>
               Cmd(p)'.target = leases'[Cmd(p)'.lease_id].donor
    BY <1>2, <1>6, <2>1 DEF LendingInv, JournalInv
  <2>4. \A p, q \in OpIds : Outstanding(p)' /\ Outstanding(q)'
          /\ Cmd(p)'.lease_id = Cmd(q)'.lease_id => p = q
    BY <1>6, <1>8, <1>9, <2>1 DEF LendingInv, JournalInv, Outstanding
  <2>5. \A p, q \in OpIds : Active(p)' /\ Active(q)'
          /\ Cmd(p)'.target = Cmd(q)'.target => p = q
    BY <1>6, <1>8 DEF LendingInv, JournalInv
  <2>6. \A p \in OpIds :
          /\ worker'[p] = "PREPARED" => Cmd(p)'.kind = "ADD"
          /\ worker'[p] = "COMMITTED" => Cmd(p)'.kind = "RESTORE"
          /\ worker'[p] = "RELEASED" /\ Cmd(p)'.kind \in Exits => p \in releases'
          /\ worker'[p] = "SUCCEEDED" /\ Cmd(p)'.kind # "ADD" => release_evidence'[p] # None
    <3>1. None \notin {"PREPARED", "COMMITTED", "RELEASED", "SUCCEEDED"}
      BY LendingAssumption DEF Unresolved, Resolved
    <3> QED
      BY <1>2, <1>3, <1>6, <1>7, <3>1 DEF LendingInv, JournalInv
  <2>7. \A p \in OpIds : p \in releases' \/ release_evidence'[p] # None => worker'[p] # None
    BY <1>2, <1>3 DEF LendingInv, JournalInv
  <2> QED
    BY <2>2, <2>3, <2>4, <2>5, <2>6, <2>7 DEF JournalInv
<1>14. LeaseInv'
  <2>1. ASSUME NEW m \in held', last[m] \in {"ADD", "REMOVE"}
        PROVE  \E p \in OpIds : /\ Cmd(p)' # None /\ Cmd(p)'.kind = "RESTORE"
                                /\ Cmd(p)'.lease_id = m /\ release_evidence[p] = None
    <3>1. CASE m \in held
      <4>1. PICK p \in OpIds : /\ Is(p, "RESTORE") /\ Cmd(p).lease_id = m
                               /\ release_evidence[p] = None
        BY <2>1, <3>1 DEF LendingInv, LeaseInv
      <4> QED
        BY <1>6, <4>1 DEF Is
    <3>2. CASE m \notin held
      <4>1. m = l /\ c.kind = "RESTORE"
        BY <1>2, <2>1, <3>2
      <4> QED
        BY <1>1, <1>6, <1>7, <4>1 DEF l
    <3> QED
      BY <3>1, <3>2
  <2> QED
    BY <1>2, <2>1 DEF LendingInv, LeaseInv, Is
<1>15. CommandInv'
  <2>0. o = c.operation_id /\ l = c.lease_id
    BY DEF o, l
  <2>1. \A p \in OpIds : Cmd(p)' # None /\ last[Cmd(p)'.lease_id] = None =>
          Cmd(p)'.kind = "DONATE"
    BY <1>6, <1>12, <2>0 DEF LendingInv, CommandInv, DonatePending
  <2>2. \A p \in OpIds : Is(p, "DONATE")' /\ Outstanding(p)' /\ release_evidence[p] = None =>
          last[Cmd(p)'.lease_id] \in {None, "ADD"}
    BY <1>6, <1>8, <1>12, <2>0 DEF LendingInv, CommandInv, DonatePending, Is
  <2>3. \A m \in LeaseIds : m # l => borrower_targets'[m] = borrower_targets[m]
    BY <1>2 DEF LendingInv, LTypeOK, TypeOK
  <2>4. /\ borrower_targets[l] # None => borrower_targets'[l] = borrower_targets[l]
        /\ c.kind = "ADD" => borrower_targets'[l] = c.target
    BY <1>1, <1>2 DEF LendingInv, LTypeOK, TypeOK
  <2>5. ASSUME NEW p \in OpIds, Is(p, "ADD")'
        PROVE  /\ last[Cmd(p)'.lease_id] = "DONATE" =>
                    borrower_targets'[Cmd(p)'.lease_id] # None
               /\ Outstanding(p)' /\ release_evidence[p] = None =>
                    /\ last[Cmd(p)'.lease_id] = "DONATE"
                    /\ borrower_targets'[Cmd(p)'.lease_id] = Cmd(p)'.target
    <3>1. CASE p = o
      BY <1>1, <1>2, <1>6, <1>11, <2>0, <2>4, <2>5, <3>1 DEF Is
    <3>2. CASE p # o
      <4>1. /\ Cmd(p)' = Cmd(p) /\ Is(p, "ADD") /\ (Outstanding(p)' <=> Outstanding(p))
            /\ Cmd(p).lease_id \in LeaseIds
        BY <1>6, <1>8, <2>5, <3>2, StagedFacts DEF Is
      <4> QED
        BY <1>9, <2>3, <2>4, <4>1 DEF LendingInv, CommandInv, AddPending, Is
    <3> QED
      BY <3>1, <3>2
  <2>6. ASSUME NEW p \in OpIds, Is(p, "REMOVE")'
        PROVE  /\ release_evidence[p] # None => last[Cmd(p)'.lease_id] # "DONATE"
               /\ Outstanding(p)' /\ release_evidence[p] = None =>
                    /\ last[Cmd(p)'.lease_id] = "DONATE"
                    /\ borrower_targets'[Cmd(p)'.lease_id] = Cmd(p)'.target
               /\ \E a \in OpIds : /\ Is(a, "ADD")' /\ Cmd(a)'.target = Cmd(p)'.target
                                   /\ Cmd(a)'.lease_id = Cmd(p)'.lease_id
    <3>1. CASE p = o
      <4>1. /\ c.kind = "REMOVE" /\ borrower_targets[l] = c.target
            /\ borrower_targets' = borrower_targets /\ last[l] = "DONATE"
        BY <1>2, <1>6, <1>11, <2>6, <3>1 DEF Is
      <4>2. PICK a \in OpIds : /\ Cmd(a) # None /\ Cmd(a).kind = "ADD"
                               /\ Cmd(a).lease_id = l /\ Cmd(a).target = c.target
        BY <1>1, <4>1 DEF LendingInv, LedgerInv, BorrowerTargetHasPendingAdd, Cmd
      <4>3. Cmd(a)' = Cmd(a)
        BY <1>6, <4>2
      <4> QED
        BY <1>6, <1>7, <2>0, <3>1, <4>1, <4>2, <4>3 DEF Is
    <3>2. CASE p # o
      <4>1. /\ Cmd(p)' = Cmd(p) /\ Is(p, "REMOVE") /\ (Outstanding(p)' <=> Outstanding(p))
            /\ Cmd(p).lease_id \in LeaseIds
        BY <1>6, <1>8, <2>6, <3>2, StagedFacts DEF Is
      <4>2. PICK a \in OpIds : /\ Is(a, "ADD") /\ Cmd(a).target = Cmd(p).target
                               /\ Cmd(a).lease_id = Cmd(p).lease_id
        BY <4>1 DEF LendingInv, CommandInv, RemovePending
      <4>3. Is(a, "ADD")' /\ Cmd(a)' = Cmd(a)
        BY <1>6, <4>2 DEF Is
      <4> QED
        BY <1>9, <2>3, <2>4, <4>1, <4>2, <4>3 DEF LendingInv, CommandInv, RemovePending, Is
    <3> QED
      BY <3>1, <3>2
  <2>7. \A p \in OpIds : Is(p, "RESTORE")' /\ release_evidence[p] = None =>
          Cmd(p)'.lease_id \in held' /\ last[Cmd(p)'.lease_id] \in {"ADD", "REMOVE"}
    BY <1>2, <1>6, <1>12, <2>0 DEF LendingInv, CommandInv, RestorePending, Is
  <2>8. \A p, q \in OpIds :
          Is(p, "RESTORE")' /\ release_evidence[p] = None
          /\ Is(q, "RESTORE")' /\ release_evidence[q] = None
          /\ Cmd(p)'.lease_id = Cmd(q)'.lease_id => p = q
    BY <1>6, <1>12, <2>0 DEF LendingInv, CommandInv, RestorePending, Is
  <2> QED
    BY <1>2, <2>1, <2>2, <2>5, <2>6, <2>7, <2>8
    DEF CommandInv, DonatePending, AddPending, RemovePending, RestorePending
<1>16. \A p \in OpIds : Active(p) \/ worker[p] # None \/ p \in releases
                        \/ release_evidence[p] # None => Cmd(p)' = Cmd(p)
  BY <1>6, <1>7, <1>8
<1>17. NativeInv'
  <2>1. None \notin {"RELEASED", "COMMITTED"}
    BY LendingAssumption DEF Unresolved
  <2>2. NativeExists'
    <3>1. ASSUME NEW r \in Natives, M[r] = "DRAINING"
          PROVE  \E p \in OpIds :
                   /\ Active(p)' /\ Cmd(p)'.target = r
                   /\ IF r \in unrouted THEN Is(p, "RESTORE")' ELSE Is(p, "DONATE")'
      <4>1. PICK p \in OpIds : /\ Active(p) /\ Cmd(p).target = r
                               /\ IF r \in unrouted THEN Is(p, "RESTORE") ELSE Is(p, "DONATE")
        BY <3>1 DEF LendingInv, NativeInv, NativeExists
      <4> QED
        BY <1>8, <1>16, <4>1 DEF Is
    <3> QED
      BY <1>3, <3>1 DEF LendingInv, NativeInv, NativeExists
  <2>3. DonateIsFirst'
    BY <1>2, <1>3, <1>8, <1>16 DEF LendingInv, NativeInv, DonateIsFirst, Is
  <2>4. CycleIsExclusive'
    BY <1>2, <1>3, <1>8, <1>16 DEF LendingInv, NativeInv, CycleIsExclusive, Is
  <2>5. LentSleeps'
    BY <1>2, <1>3, <1>8, <1>16, <2>1 DEF LendingInv, NativeInv, LentSleeps, Is
  <2> QED
    BY <2>2, <2>3, <2>4, <2>5 DEF NativeInv
<1>18. BorrowedInv'
  <2>1. \A p \in OpIds : p # o =>
          /\ Lapsed(p)' <=> Lapsed(p)
          /\ LeaseUsedUp(p) => LeaseUsedUp(p)'
          /\ LeaseGpus(p)' = LeaseGpus(p)
    <3>1. \A p \in OpIds : p # o /\ Cmd(p) # None =>
            StagedOf(Cmd(p).lease_id) \subseteq StagedOf(Cmd(p).lease_id)'
      BY <1>6 DEF StagedOf
    <3> QED
      BY <1>2, <1>3, <1>6, <3>1 DEF Lapsed, LeaseUsedUp, StagedOf, LeaseGpus
  <2>2. None # "RELEASED" /\ None # "PREPARED" /\ None # "SUCCEEDED"
    BY LendingAssumption DEF ReplicaStates, Unresolved, Resolved
  <2>3. BorrowedExists'
    BY <1>3, <1>16 DEF LendingInv, BorrowedInv, BorrowedExists, Is
  <2>4. BorrowedIsLent'
    <3> SUFFICES ASSUME NEW p \in OpIds, Is(p, "ADD")', using[Cmd(p)'.target] # {}
                 PROVE  /\ last[Cmd(p)'.lease_id] = "DONATE"
                        /\ borrower_targets'[Cmd(p)'.lease_id] = Cmd(p)'.target
                        /\ using[Cmd(p)'.target] = LeaseGpus(p)'
      BY <1>2, <1>3 DEF BorrowedIsLent
    <3>1. p # o
      <4> SUFFICES ASSUME p = o PROVE FALSE
        OBVIOUS
      <4>1. c.kind = "ADD" /\ using[c.target] # {} /\ c.target \in Borrowed
        BY <1>6, LendingAssumption DEF Is
      <4>2. PICK a \in OpIds : Is(a, "ADD") /\ Cmd(a).target = c.target
        BY <4>1 DEF LendingInv, BorrowedInv, BorrowedExists
      <4>3. Cmd(a) = c /\ Cmd(a).operation_id = a
        BY <4>1, <4>2, StagedFacts, LendingAssumption
        DEF Is, LendingInv, JournalInv
      <4> QED
        BY <1>6, <4>2, <4>3 DEF Is, o
    <3>2. Cmd(p)' = Cmd(p) /\ Is(p, "ADD") /\ LeaseGpus(p)' = LeaseGpus(p)
      BY <1>6, <2>1, <3>1 DEF Is
    <3>3. /\ last[Cmd(p).lease_id] = "DONATE"
          /\ borrower_targets[Cmd(p).lease_id] = Cmd(p).target
          /\ using[Cmd(p).target] = LeaseGpus(p)
          /\ Cmd(p).lease_id \in LeaseIds /\ Cmd(p).target # None
      BY <3>2, StagedFacts, NoneIsAbsent DEF LendingInv, BorrowedInv, BorrowedIsLent, Is
    <3>4. borrower_targets'[Cmd(p).lease_id] = borrower_targets[Cmd(p).lease_id]
      BY <1>2, <3>3 DEF LendingInv, LTypeOK, TypeOK
    <3> QED
      BY <3>2, <3>3, <3>4
  <2>5. PreparedExists' /\ RemovedIsGone'
    BY <1>3, <1>16, <2>2
    DEF LendingInv, BorrowedInv, PreparedExists, RemovedIsGone, Is
  <2>6. RolledBackIsGone'
    BY <1>2, <1>3, <1>6, <1>7, <2>1, <2>2
    DEF LendingInv, BorrowedInv, RolledBackIsGone, Is
  <2>7. AddedServes'
    BY <1>2, <1>3, <1>8, <1>16, <2>2 DEF LendingInv, BorrowedInv, AddedServes, Is
  <2> QED
    BY <2>3, <2>4, <2>5, <2>6, <2>7 DEF BorrowedInv
<1> QED
  BY <1>3, <1>4, <1>5, <1>13, <1>14, <1>15, <1>17, <1>18 DEF LendingInv, UnroutedDrains

-----------------------------------------------------------------------------
(* The evidence of a worker reaches the ledger *)

(* The evidence of a worker is one the ledger knows. *)
LEMMA ReportedFacts ==
  ASSUME LendingInv, NEW o \in OpIds, worker[o] \in {"RELEASED", "COMMITTED"}
  PROVE  /\ Active(o) /\ Cmd(o) # None
         /\ Reported(o) \in EvidenceForms /\ Reported(o) # None
         /\ Reported(o).operation_id = o
         /\ Reported(o).type = "RELEASED" <=> worker[o] = "RELEASED"
<1>1. Active(o) /\ Cmd(o) # None
  BY ActiveFacts DEF Active, Unresolved
<1>2. \E n \in Natives : ReportedGpus(o) = NativeGpus[n]
  BY <1>1, StagedFacts DEF ReportedGpus
<1>3. Reported(o) \in EvidenceForms
  BY <1>2, LendingAssumption DEF Reported
<1>4. /\ Reported(o).operation_id = o
      /\ Reported(o).type = "RELEASED" <=> worker[o] = "RELEASED"
  BY DEF Reported, Release, Service
<1> QED
  BY <1>1, <1>3, <1>4, NoneIsAbsent

(* The evidence is there already: the worker finishes. *)
LEMMA AdvanceAgainKeeps ==
  ASSUME LendingInv, NEW o \in OpIds, Advance(o), ReplayEvidence(Reported(o)),
         Cmd(o).kind \in Exits
  PROVE  LendingInv'
<1>1. /\ worker[o] \in {"RELEASED", "COMMITTED"} /\ Reports(o, Closes(o))
      /\ UNCHANGED <<sent, M, using, releases, unrouted>> /\ UNCHANGED gsVars
  BY DEF Advance, ReplayEvidence, runtimeVars
<1>2. /\ Active(o) /\ Cmd(o) # None /\ release_evidence[o] # None
      /\ worker[o] = "RELEASED" /\ o \in releases
  BY <1>1, ReportedFacts DEF ReplayEvidence, LendingInv, JournalInv, Exits
<1>3. PICK w \in {"SUCCEEDED", "UNKNOWN"} : Becomes(o, w)
  BY <1>1 DEF Reports, Closes
<1>4. w \in Unresolved \cup Resolved
  BY DEF Unresolved, Resolved
<1>5. /\ JournalInv' /\ LedgerInv' /\ LeaseInv' /\ CommandInv'
      /\ worker' \in [OpIds -> Unresolved \cup Resolved \cup {None}]
      /\ worker'[o] = w /\ w # None
      /\ \A p \in OpIds : p # o => worker'[p] = worker[p]
  BY <1>1, <1>2, <1>3, <1>4, JournalStep, LendingAssumption
<1>6. LTypeOK'
  BY <1>1, <1>5 DEF LendingInv, LTypeOK, LedgerInv
<1>7. /\ UNCHANGED ledger
      /\ \A p \in OpIds : Active(p)' => Active(p)
      /\ \A p \in OpIds : p # o => (Active(p)' <=> Active(p))
  BY <1>1, <1>2, <1>5, SameLedger DEF Active
<1>8. NativeInv'
  <2>1. Is(o, "DONATE") => M[Cmd(o).target] # "DRAINING"
    BY <1>2 DEF LendingInv, NativeInv, DonateIsFirst
  <2>2. ~ Is(o, "RESTORE")
    BY DEF Is, Exits
  <2> QED
    BY <1>1, <1>5, <1>7, <2>1, <2>2
    DEF LendingInv, NativeInv, NativeExists, DonateIsFirst, CycleIsExclusive,
        LentSleeps, ledger, Is, Cmd
<1>9. BorrowedInv'
  <2>1. \A p \in OpIds : /\ Lapsed(p)' <=> Lapsed(p)
                         /\ LeaseUsedUp(p)' <=> LeaseUsedUp(p)
                         /\ LeaseGpus(p)' = LeaseGpus(p)
    BY <1>1, <1>7 DEF ledger, Lapsed, LeaseUsedUp, StagedOf, LeaseGpus, Cmd
  <2>2. BorrowedExists' /\ BorrowedIsLent'
    BY <1>1, <1>5, <1>7, <2>1
    DEF LendingInv, BorrowedInv, BorrowedExists, BorrowedIsLent, ledger, Is, Cmd
  <2>3. PreparedExists' /\ RolledBackIsGone' /\ RemovedIsGone'
    BY <1>1, <1>5, <1>7, <2>1
    DEF LendingInv, BorrowedInv, PreparedExists, RolledBackIsGone, RemovedIsGone,
        ledger, Is, Cmd
  <2>4. \A p \in OpIds : Is(p, "ADD") /\ Is(o, "REMOVE")
          /\ Cmd(p).target = Cmd(o).target => last[Cmd(p).lease_id] # "DONATE"
    BY <1>2, AddIsUnique DEF LendingInv, CommandInv, RemovePending
  <2>5. AddedServes'
    <3> SUFFICES ASSUME NEW p \in OpIds, Is(p, "ADD"), worker'[p] = "SUCCEEDED",
                        last[Cmd(p).lease_id] = "DONATE"
                 PROVE  \/ M[Cmd(p).target] = "ACTIVE" \/ Cmd(p).target \in unrouted
                        \/ \E q \in OpIds :
                             /\ Is(q, "REMOVE") /\ Active(q)' /\ Cmd(q).target = Cmd(p).target
                             /\ \/ M[Cmd(p).target] \in {"DRAINING", "QUARANTINED"}
                                \/ q \in releases
      BY <1>1, <1>7 DEF AddedServes, ledger, Is, Cmd
    <3>1. worker[p] = "SUCCEEDED"
      BY <1>5 DEF Is, Exits
    <3> QED
      BY <1>7, <2>4, <3>1 DEF LendingInv, BorrowedInv, AddedServes
  <2> QED
    BY <2>2, <2>3, <2>5 DEF BorrowedInv
<1> QED
  BY <1>1, <1>5, <1>6, <1>8, <1>9 DEF LendingInv, UnroutedDrains

(* What every accepted evidence changes and leaves. *)
Accepted(o) ==
  /\ Active(o) /\ Cmd(o) # None /\ release_evidence[o] = None
  /\ release_evidence'[o] # None
  /\ \A p \in OpIds : p # o => release_evidence'[p] = release_evidence[p]
  /\ worker'[o] \in Resolved \cup {"UNKNOWN"}
  /\ \A p \in OpIds : p # o => worker'[p] = worker[p]
  /\ UNCHANGED <<leases, expired, operation_commands, sent, M, using, releases, unrouted>>

(* The journal keeps what it knows, and nothing else of the lease is under   *)
(* way.                                                                      *)
LEMMA AcceptedFacts ==
  ASSUME LendingInv, NEW o \in OpIds, Accepted(o)
  PROVE  /\ JournalInv'
         /\ \A p \in OpIds : /\ Cmd(p)' = Cmd(p)
                             /\ Lapsed(p)' <=> Lapsed(p)
                             /\ LeaseUsedUp(p)' <=> LeaseUsedUp(p)
                             /\ LeaseGpus(p)' = LeaseGpus(p)
                             /\ Active(p)' => Active(p)
                             /\ p # o => (Active(p)' <=> Active(p))
                             /\ Outstanding(p)' => Outstanding(p)
         /\ \A p \in OpIds : Outstanding(p) /\ Cmd(p).lease_id = Cmd(o).lease_id => p = o
         /\ \A p \in OpIds : Active(p) /\ Cmd(p).target = Cmd(o).target => p = o
         /\ \A k : \A p \in OpIds : Is(p, k)' <=> Is(p, k)
         /\ worker'[o] \notin {None, "PREPARED", "RELEASED", "COMMITTED"}
<1>1. Outstanding(o) /\ worker[o] # None
  BY ActiveFacts DEF Accepted
<1>2. worker'[o] \notin {None, "PREPARED", "RELEASED", "COMMITTED"}
  BY LendingAssumption DEF Accepted, Resolved, Unresolved
<1>3. \A p \in OpIds : /\ Cmd(p)' = Cmd(p)
                       /\ Lapsed(p)' <=> Lapsed(p)
                       /\ LeaseUsedUp(p)' <=> LeaseUsedUp(p)
                       /\ LeaseGpus(p)' = LeaseGpus(p)
  BY DEF Accepted, Cmd, Lapsed, LeaseUsedUp, StagedOf, LeaseGpus
<1>4. \A p \in OpIds : /\ Active(p)' => Active(p)
                       /\ p # o => (Active(p)' <=> Active(p))
                       /\ Outstanding(p)' => Outstanding(p)
  BY <1>1, <1>3 DEF Accepted, Active, Outstanding
<1>5. /\ \A p \in OpIds : Outstanding(p) /\ Cmd(p).lease_id = Cmd(o).lease_id => p = o
      /\ \A p \in OpIds : Active(p) /\ Cmd(p).target = Cmd(o).target => p = o
  BY <1>1 DEF LendingInv, JournalInv, Accepted
<1>6. \A k : \A p \in OpIds : Is(p, k)' <=> Is(p, k)
  BY <1>3 DEF Is
<1>7. JournalInv'
  BY <1>1, <1>2, <1>3, <1>4 DEF LendingInv, JournalInv, Accepted, Cmd, Exits
<1> QED
  BY <1>2, <1>3, <1>4, <1>5, <1>6, <1>7

(* A DONATE is accepted: its lease is the only one whose cycle the replica   *)
(* is in, it holds its claims, and the replica sleeps.                       *)
LEMMA DonateAccepted ==
  ASSUME LendingInv, NEW o \in OpIds, Accepted(o), Cmd(o).kind = "DONATE",
         worker[o] = "RELEASED",
         last' = [last EXCEPT ![Cmd(o).lease_id] = "DONATE"],
         UNCHANGED <<borrower_targets, held>>,
         handoff_ready_leases' = handoff_ready_leases \cup {Cmd(o).lease_id}
  PROVE  LeaseInv' /\ CommandInv' /\ NativeInv' /\ BorrowedInv'
<1> DEFINE l == Cmd(o).lease_id
           r == Cmd(o).target
<1>1. /\ l \in LeaseIds /\ leases[l] # None /\ r = leases[l].donor /\ r \in Natives
      /\ Is(o, "DONATE") /\ Active(o) /\ Outstanding(o)
      /\ release_evidence[o] = None /\ release_evidence'[o] # None
      /\ \A p \in OpIds : p # o => release_evidence'[p] = release_evidence[p]
      /\ \A p \in OpIds : p # o => worker'[p] = worker[p]
      /\ UNCHANGED <<leases, operation_commands, M, using, releases, unrouted>>
  BY StagedFacts, ActiveFacts DEF Accepted, Is
<1>2. /\ \A p \in OpIds : /\ Cmd(p)' = Cmd(p)
                          /\ Lapsed(p)' <=> Lapsed(p)
                          /\ LeaseUsedUp(p)' <=> LeaseUsedUp(p)
                          /\ LeaseGpus(p)' = LeaseGpus(p)
                          /\ Active(p)' => Active(p)
                          /\ p # o => (Active(p)' <=> Active(p))
                          /\ Outstanding(p)' => Outstanding(p)
      /\ \A p \in OpIds : Outstanding(p) /\ Cmd(p).lease_id = l => p = o
      /\ \A p \in OpIds : Active(p) /\ Cmd(p).target = r => p = o
      /\ \A k : \A p \in OpIds : Is(p, k)' <=> Is(p, k)
      /\ worker'[o] \notin {None, "PREPARED", "RELEASED"}
  BY AcceptedFacts
<1>3. last'[l] = "DONATE" /\ \A m \in LeaseIds : m # l => last'[m] = last[m]
  BY <1>1 DEF last
<1>4. o \in releases /\ M[r] = "DORMANT" /\ using[r] = {}
  BY <1>1 DEF LendingInv, JournalInv, NativeInv, DonateIsFirst, Exits
<1>5. \A m \in LeaseIds : leases[m] # None /\ leases[m].donor = r => last[m] \notin Cycle
  BY <1>1, <1>4 DEF LendingInv, NativeInv, DonateIsFirst
<1>6. last[l] = None /\ l \in held
  BY <1>1, <1>5 DEF LendingInv, CommandInv, DonatePending, LeaseInv, Cycle
<1>7. \A p \in OpIds : Cmd(p) # None /\ Cmd(p).lease_id = l => Cmd(p).kind = "DONATE"
  BY <1>6 DEF LendingInv, CommandInv, DonatePending
<1>8. \A p \in OpIds : Cmd(p) # None => Cmd(p).lease_id \in LeaseIds
  BY StagedFacts
<1> HIDE DEF l, r
<1>9. /\ handoff_ready_leases' = handoff_ready_leases \cup {l}
      /\ borrower_targets' = borrower_targets /\ held' = held
      /\ handoff_ready_leases \subseteq LeaseIds
      /\ "DONATE" # None
  BY LendingAssumption DEF l, OperationKinds, LendingInv, LTypeOK, TypeOK
<1>10. LeaseInv'
  <2>1. ASSUME NEW m \in held, last'[m] \in {"ADD", "REMOVE"}
        PROVE  \E p \in OpIds : /\ Is(p, "RESTORE") /\ Cmd(p).lease_id = m
                                /\ release_evidence'[p] = None
    <3>1. m # l /\ m \in LeaseIds
      BY <1>3, <2>1 DEF held
    <3>2. PICK p \in OpIds : /\ Is(p, "RESTORE") /\ Cmd(p).lease_id = m
                             /\ release_evidence[p] = None
      BY <1>3, <2>1, <3>1 DEF LendingInv, LeaseInv
    <3> QED
      BY <1>1, <3>2 DEF Is
  <2>2. \A m \in LeaseIds : m \in handoff_ready_leases' <=> last'[m] = "DONATE"
    BY <1>3, <1>9 DEF LendingInv, LeaseInv
  <2> QED
    BY <1>1, <1>2, <1>3, <1>6, <1>9, <2>1, <2>2 DEF LendingInv, LeaseInv
<1>11. CommandInv'
  <2>1. DonatePending'
    BY <1>1, <1>2, <1>3, <1>8, <1>9 DEF LendingInv, CommandInv, DonatePending
  <2>2. AddPending'
    BY <1>1, <1>2, <1>3, <1>7, <1>8, <1>9 DEF LendingInv, CommandInv, AddPending, Is
  <2>3. RemovePending'
    <3> SUFFICES ASSUME NEW p \in OpIds, Is(p, "REMOVE")
                 PROVE  /\ release_evidence'[p] # None => last'[Cmd(p).lease_id] # "DONATE"
                        /\ Outstanding(p)' /\ release_evidence'[p] = None =>
                             /\ last'[Cmd(p).lease_id] = "DONATE"
                             /\ borrower_targets[Cmd(p).lease_id] = Cmd(p).target
                        /\ \E a \in OpIds : /\ Is(a, "ADD") /\ Cmd(a).target = Cmd(p).target
                                            /\ Cmd(a).lease_id = Cmd(p).lease_id
      BY <1>2, <1>9 DEF RemovePending
    <3>1. p # o /\ Cmd(p).lease_id # l /\ Cmd(p).lease_id \in LeaseIds
      BY <1>1, <1>7, <1>8 DEF Is
    <3> QED
      BY <1>1, <1>2, <1>3, <3>1 DEF LendingInv, CommandInv, RemovePending
  <2>4. RestorePending'
    BY <1>1, <1>2, <1>3, <1>7, <1>8, <1>9 DEF LendingInv, CommandInv, RestorePending, Is
  <2> QED
    BY <2>1, <2>2, <2>3, <2>4 DEF CommandInv
<1>12. NativeInv'
  <2>1. NativeExists'
    BY <1>1, <1>2, <1>4 DEF LendingInv, NativeInv, NativeExists, r
  <2>2. DonateIsFirst'
    <3> SUFFICES ASSUME NEW p \in OpIds, Is(p, "DONATE"), Active(p)
                 PROVE  /\ p \in releases => /\ M[Cmd(p).target] = "DORMANT"
                                             /\ using[Cmd(p).target] = {}
                        /\ release_evidence'[p] = None
                           /\ (p \in releases \/ M[Cmd(p).target] = "DRAINING") =>
                             \A m \in LeaseIds :
                               leases[m] # None /\ leases[m].donor = Cmd(p).target =>
                                 last'[m] \notin Cycle
      BY <1>1, <1>2 DEF DonateIsFirst
    <3>1. p # o => Cmd(p).target # leases[l].donor
      BY <1>1, <1>2 DEF r, l
    <3> QED
      BY <1>1, <1>3, <3>1 DEF LendingInv, NativeInv, DonateIsFirst
  <2>3. CycleIsExclusive'
    <3>1. \A m \in LeaseIds : last'[m] \in Cycle /\ m # l =>
            last[m] \in Cycle /\ leases[m].donor # r
      BY <1>3, <1>5, LendingAssumption DEF LendingInv, LeaseInv, Cycle, OperationKinds
    <3>2. leases[l].donor = r
      BY <1>1 DEF r, l
    <3>3. ASSUME NEW m \in LeaseIds, last'[m] \in Cycle, M[leases[m].donor] = "ACTIVE"
          PROVE  \E p \in OpIds :
                   Is(p, "RESTORE") /\ Active(p)' /\ Cmd(p).target = leases[m].donor
      <4>1. m # l
        BY <1>4, <3>2, <3>3
      <4>2. PICK p \in OpIds : Is(p, "RESTORE") /\ Active(p) /\ Cmd(p).target = leases[m].donor
        BY <3>1, <3>3, <4>1 DEF LendingInv, NativeInv, CycleIsExclusive
      <4> QED
        BY <1>1, <1>2, <4>2 DEF Is
    <3> QED
      BY <1>1, <1>2, <3>1, <3>2, <3>3 DEF LendingInv, NativeInv, CycleIsExclusive
  <2>4. LentSleeps'
    <3>1. ASSUME NEW m \in handoff_ready_leases'
          PROVE  /\ M[leases[m].donor] = "DORMANT" /\ using[leases[m].donor] = {}
                 /\ \A p \in OpIds :
                      Is(p, "RESTORE") /\ Active(p)' => Cmd(p).target # leases[m].donor
      <4>1. CASE m = l
        BY <1>1, <1>2, <1>4, <4>1 DEF Is, r, l
      <4>2. CASE m # l
        BY <1>2, <1>9, <3>1, <4>2 DEF LendingInv, NativeInv, LentSleeps
      <4> QED
        BY <4>1, <4>2
    <3>2. \A p \in OpIds : Is(p, "RESTORE") => p # o /\ worker'[p] = worker[p]
      BY <1>1 DEF Is
    <3> QED
      BY <1>1, <1>2, <3>1, <3>2 DEF LendingInv, NativeInv, LentSleeps
  <2> QED
    BY <2>1, <2>2, <2>3, <2>4 DEF NativeInv
<1>13. BorrowedInv'
  <2>1. \A p \in OpIds : Is(p, "ADD") \/ Is(p, "REMOVE") =>
          /\ p # o /\ Cmd(p).lease_id # l /\ worker'[p] = worker[p]
          /\ release_evidence'[p] = release_evidence[p] /\ (Active(p)' <=> Active(p))
          /\ last'[Cmd(p).lease_id] = last[Cmd(p).lease_id]
    BY <1>1, <1>2, <1>3, <1>7, <1>8 DEF Is
  <2>2. PreparedExists'
    BY <1>1, <1>2 DEF LendingInv, BorrowedInv, PreparedExists
  <2>3. BorrowedExists' /\ BorrowedIsLent'
    BY <1>1, <1>2, <1>9, <2>1
    DEF LendingInv, BorrowedInv, BorrowedExists, BorrowedIsLent
  <2>4. RolledBackIsGone' /\ RemovedIsGone' /\ AddedServes'
    BY <1>1, <1>2, <1>9, <2>1
    DEF LendingInv, BorrowedInv, RolledBackIsGone, RemovedIsGone, AddedServes
  <2> QED
    BY <2>2, <2>3, <2>4 DEF BorrowedInv
<1> QED
  BY <1>10, <1>11, <1>12, <1>13

(* A REMOVE, or an ADD that was rolled back, is accepted: the borrower has   *)
(* given the GPUs back, and the lease gives up its claims.                   *)
LEMMA HandoffEnds ==
  ASSUME LendingInv, NEW o \in OpIds, Accepted(o), Cmd(o).kind \in {"ADD", "REMOVE"},
         worker[o] = "RELEASED",
         last' = [last EXCEPT ![Cmd(o).lease_id] = Cmd(o).kind],
         \/ borrower_targets' = borrower_targets
         \/ borrower_targets' = [borrower_targets EXCEPT ![Cmd(o).lease_id] = None],
         held' = held \ {Cmd(o).lease_id},
         handoff_ready_leases' = handoff_ready_leases \ {Cmd(o).lease_id}
  PROVE  LeaseInv' /\ CommandInv' /\ NativeInv' /\ BorrowedInv'
<1> DEFINE l == Cmd(o).lease_id
           r == Cmd(o).target
<1>1. /\ l \in LeaseIds /\ leases[l] # None /\ r \in Borrowed
      /\ Active(o) /\ Outstanding(o) /\ Cmd(o) # None
      /\ release_evidence[o] = None /\ release_evidence'[o] # None
      /\ \A p \in OpIds : p # o => release_evidence'[p] = release_evidence[p]
      /\ \A p \in OpIds : p # o => worker'[p] = worker[p]
      /\ UNCHANGED <<leases, operation_commands, M, using, releases, unrouted>>
  BY StagedFacts, ActiveFacts DEF Accepted
<1>2. /\ \A p \in OpIds : /\ Cmd(p)' = Cmd(p)
                          /\ Lapsed(p)' <=> Lapsed(p)
                          /\ LeaseUsedUp(p)' <=> LeaseUsedUp(p)
                          /\ LeaseGpus(p)' = LeaseGpus(p)
                          /\ Active(p)' => Active(p)
                          /\ p # o => (Active(p)' <=> Active(p))
                          /\ Outstanding(p)' => Outstanding(p)
      /\ \A p \in OpIds : Outstanding(p) /\ Cmd(p).lease_id = l => p = o
      /\ \A p \in OpIds : Active(p) /\ Cmd(p).target = r => p = o
      /\ \A k : \A p \in OpIds : Is(p, k)' <=> Is(p, k)
      /\ worker'[o] \notin {None, "PREPARED", "RELEASED"}
  BY AcceptedFacts
<1>3. last'[l] \in {"ADD", "REMOVE"} /\ \A m \in LeaseIds : m # l => last'[m] = last[m]
  BY <1>1 DEF last
<1>4. last[l] = "DONATE" /\ borrower_targets[l] = r
  BY <1>1 DEF LendingInv, CommandInv, AddPending, RemovePending, Is
<1>5. using[r] = {}
  <2>1. Cmd(o).kind = "REMOVE" => o \in releases
    BY DEF LendingInv, JournalInv, Exits
  <2>2. M[r] \in {None, "RELEASED"}
    BY <1>1, <2>1 DEF LendingInv, BorrowedInv, RolledBackIsGone, RemovedIsGone, Is
  <2> QED
    BY <1>1, <2>2 DEF LendingInv, BorrowedInv, BorrowedExists
<1>6. \A p \in OpIds : Cmd(p) # None => Cmd(p).lease_id \in LeaseIds
  BY StagedFacts
<1> HIDE DEF l, r
<1>7. /\ handoff_ready_leases' = handoff_ready_leases \ {l} /\ held' = held \ {l}
      /\ handoff_ready_leases \subseteq LeaseIds
      /\ \A m \in LeaseIds : m # l => borrower_targets'[m] = borrower_targets[m]
      /\ None \notin {"ADD", "REMOVE"}
  BY LendingAssumption DEF l, OperationKinds, LendingInv, LTypeOK, TypeOK
<1>8. LeaseInv'
  <2>1. ASSUME NEW m \in held', last'[m] \in {"ADD", "REMOVE"}
        PROVE  \E p \in OpIds : /\ Is(p, "RESTORE") /\ Cmd(p).lease_id = m
                                /\ release_evidence'[p] = None
    <3>1. m # l /\ m \in LeaseIds /\ m \in held
      BY <1>7, <2>1 DEF held
    <3>2. PICK p \in OpIds : /\ Is(p, "RESTORE") /\ Cmd(p).lease_id = m
                             /\ release_evidence[p] = None
      BY <1>3, <2>1, <3>1 DEF LendingInv, LeaseInv
    <3>3. p # o
      BY <3>2 DEF Is
    <3> QED
      BY <1>1, <3>2, <3>3
  <2>2. \A m \in LeaseIds : m \in handoff_ready_leases' <=> last'[m] = "DONATE"
    BY <1>3, <1>7 DEF LendingInv, LeaseInv
  <2> QED
    BY <1>1, <1>2, <1>3, <1>7, <2>1, <2>2 DEF LendingInv, LeaseInv
<1>9. CommandInv'
  <2>1. DonatePending'
    BY <1>1, <1>2, <1>3, <1>6, <1>7 DEF LendingInv, CommandInv, DonatePending
  <2>2. AddPending'
    BY <1>1, <1>2, <1>3, <1>6, <1>7 DEF LendingInv, CommandInv, AddPending, Is
  <2>3. RemovePending'
    <3> SUFFICES ASSUME NEW p \in OpIds, Is(p, "REMOVE")
                 PROVE  /\ release_evidence'[p] # None => last'[Cmd(p).lease_id] # "DONATE"
                        /\ Outstanding(p)' /\ release_evidence'[p] = None =>
                             /\ last'[Cmd(p).lease_id] = "DONATE"
                             /\ borrower_targets'[Cmd(p).lease_id] = Cmd(p).target
                        /\ \E a \in OpIds : /\ Is(a, "ADD") /\ Cmd(a).target = Cmd(p).target
                                            /\ Cmd(a).lease_id = Cmd(p).lease_id
      BY <1>2 DEF RemovePending
    <3>1. Cmd(p).lease_id \in LeaseIds
      BY <1>6 DEF Is
    <3>2. CASE Cmd(p).lease_id = l
      BY <1>1, <1>2, <1>3, <3>2 DEF LendingInv, CommandInv, RemovePending
    <3>3. CASE Cmd(p).lease_id # l
      <4>1. p # o
        BY <3>3 DEF l
      <4> QED
        BY <1>1, <1>2, <1>3, <1>7, <3>1, <3>3, <4>1 DEF LendingInv, CommandInv, RemovePending
    <3> QED
      BY <3>2, <3>3
  <2>4. \A p \in OpIds : Is(p, "RESTORE") /\ release_evidence'[p] = None =>
          /\ Cmd(p).lease_id # l /\ Cmd(p).lease_id \in LeaseIds
          /\ release_evidence[p] = None
    BY <1>1, <1>4, <1>6 DEF LendingInv, CommandInv, RestorePending, Is
  <2>5. RestorePending'
    BY <1>2, <1>3, <1>7, <2>4 DEF LendingInv, CommandInv, RestorePending
  <2> QED
    BY <2>1, <2>2, <2>3, <2>5 DEF CommandInv
<1>10. NativeInv'
  <2>1. \A p \in OpIds : Is(p, "DONATE") \/ Is(p, "RESTORE") =>
          /\ p # o /\ worker'[p] = worker[p] /\ (Active(p)' <=> Active(p))
          /\ release_evidence'[p] = release_evidence[p]
    BY <1>1, <1>2 DEF Is
  <2>2. \A m \in LeaseIds : last'[m] \in Cycle <=> last[m] \in Cycle
    BY <1>3, <1>4 DEF Cycle
  <2>3. NativeExists' /\ DonateIsFirst'
    BY <1>1, <1>2, <2>1, <2>2 DEF LendingInv, NativeInv, NativeExists, DonateIsFirst
  <2>4. CycleIsExclusive'
    BY <1>1, <1>2, <2>1, <2>2 DEF LendingInv, NativeInv, CycleIsExclusive
  <2>5. LentSleeps'
    BY <1>1, <1>2, <1>7, <2>1 DEF LendingInv, NativeInv, LentSleeps
  <2> QED
    BY <2>3, <2>4, <2>5 DEF NativeInv
<1>11. BorrowedInv'
  <2>1. BorrowedExists'
    BY <1>1, <1>2 DEF LendingInv, BorrowedInv, BorrowedExists
  <2>2. BorrowedIsLent'
    <3>1. \A p \in OpIds : Is(p, "ADD") /\ using[Cmd(p).target] # {} =>
            Cmd(p).lease_id # l /\ Cmd(p).lease_id \in LeaseIds
      BY <1>4, <1>5, <1>6 DEF LendingInv, BorrowedInv, BorrowedIsLent, Is
    <3> QED
      BY <1>1, <1>2, <1>3, <1>7, <3>1 DEF LendingInv, BorrowedInv, BorrowedIsLent
  <2>3. PreparedExists' /\ RemovedIsGone'
    BY <1>1, <1>2 DEF LendingInv, BorrowedInv, PreparedExists, RemovedIsGone
  <2>4. RolledBackIsGone'
    <3>1. \A p \in OpIds : worker'[p] = "RELEASED" \/ release_evidence'[p] # None =>
            worker[p] = "RELEASED" \/ release_evidence[p] # None
      BY <1>1, <1>2
    <3> QED
      BY <1>1, <1>2, <3>1 DEF LendingInv, BorrowedInv, RolledBackIsGone
  <2>5. AddedServes'
    <3> SUFFICES ASSUME NEW p \in OpIds, Is(p, "ADD"), worker'[p] = "SUCCEEDED",
                        last'[Cmd(p).lease_id] = "DONATE"
                 PROVE  \/ M[Cmd(p).target] = "ACTIVE" \/ Cmd(p).target \in unrouted
                        \/ \E q \in OpIds :
                             /\ Is(q, "REMOVE") /\ Active(q)' /\ Cmd(q).target = Cmd(p).target
                             /\ \/ M[Cmd(p).target] \in {"DRAINING", "QUARANTINED"}
                                \/ q \in releases
      BY <1>1, <1>2 DEF AddedServes
    <3>1. Cmd(p).lease_id # l /\ Cmd(p).lease_id \in LeaseIds
      BY <1>3, <1>6 DEF Is
    <3>2. p # o /\ last[Cmd(p).lease_id] = "DONATE"
      BY <1>3, <3>1 DEF l
    <3>3. Is(o, "REMOVE") => Cmd(p).target # Cmd(o).target
      BY <3>1, AddIsUnique DEF LendingInv, CommandInv, RemovePending, l
    <3> QED
      BY <1>1, <1>2, <3>2, <3>3 DEF LendingInv, BorrowedInv, AddedServes
  <2> QED
    BY <2>1, <2>2, <2>3, <2>4, <2>5 DEF BorrowedInv
<1> QED
  BY <1>8, <1>9, <1>10, <1>11

(* A RESTORE is accepted, whatever became of it: the claims are free again.  *)
(* Once it is committed the lease is at its end.                             *)
LEMMA RestoreAccepted ==
  ASSUME LendingInv, NEW o \in OpIds, Accepted(o), Cmd(o).kind = "RESTORE",
         worker[o] \in {"RELEASED", "COMMITTED"},
         \/ /\ worker[o] = "RELEASED"
            /\ UNCHANGED <<last, borrower_targets, handoff_ready_leases>>
         \/ /\ last' = [last EXCEPT ![Cmd(o).lease_id] = "RESTORE"]
            /\ borrower_targets' = [borrower_targets EXCEPT ![Cmd(o).lease_id] = None]
            /\ handoff_ready_leases' = handoff_ready_leases \ {Cmd(o).lease_id},
         held' = held \ {Cmd(o).lease_id}
  PROVE  LeaseInv' /\ CommandInv' /\ NativeInv' /\ BorrowedInv'
<1> DEFINE l == Cmd(o).lease_id
           r == Cmd(o).target
<1>1. /\ l \in LeaseIds /\ leases[l] # None /\ r = leases[l].donor /\ r \in Natives
      /\ Active(o) /\ Outstanding(o) /\ Is(o, "RESTORE")
      /\ release_evidence[o] = None /\ release_evidence'[o] # None
      /\ \A p \in OpIds : p # o => release_evidence'[p] = release_evidence[p]
      /\ \A p \in OpIds : p # o => worker'[p] = worker[p]
      /\ UNCHANGED <<leases, operation_commands, M, using, releases, unrouted>>
  BY StagedFacts, ActiveFacts DEF Accepted, Is
<1>2. /\ \A p \in OpIds : /\ Cmd(p)' = Cmd(p)
                          /\ Lapsed(p)' <=> Lapsed(p)
                          /\ LeaseUsedUp(p)' <=> LeaseUsedUp(p)
                          /\ LeaseGpus(p)' = LeaseGpus(p)
                          /\ Active(p)' => Active(p)
                          /\ p # o => (Active(p)' <=> Active(p))
                          /\ Outstanding(p)' => Outstanding(p)
      /\ \A p \in OpIds : Outstanding(p) /\ Cmd(p).lease_id = l => p = o
      /\ \A p \in OpIds : Active(p) /\ Cmd(p).target = r => p = o
      /\ \A k : \A p \in OpIds : Is(p, k)' <=> Is(p, k)
      /\ worker'[o] \notin {None, "PREPARED", "RELEASED", "COMMITTED"}
  BY AcceptedFacts
<1>3. /\ \A m \in LeaseIds : m # l =>
           last'[m] = last[m] /\ borrower_targets'[m] = borrower_targets[m]
      /\ last'[l] \in {last[l], "RESTORE"}
      /\ last'[l] = last[l] => worker[o] = "RELEASED" \/ last[l] = "RESTORE"
  BY <1>1 DEF last, LendingInv, LTypeOK, TypeOK
<1>4. last[l] \in {"ADD", "REMOVE"} /\ l \in held
      /\ \A p \in OpIds : Is(p, "RESTORE") /\ release_evidence[p] = None
           /\ Cmd(p).lease_id = l => p = o
  BY <1>1 DEF LendingInv, CommandInv, RestorePending
<1>5. \A p \in OpIds : Cmd(p) # None => Cmd(p).lease_id \in LeaseIds
  BY StagedFacts
<1> HIDE DEF l, r
<1>6. /\ handoff_ready_leases \ {l} \subseteq handoff_ready_leases'
      /\ handoff_ready_leases' \subseteq handoff_ready_leases
      /\ held' = held \ {l} /\ handoff_ready_leases \subseteq LeaseIds
      /\ l \notin handoff_ready_leases
      /\ None # "RESTORE" /\ None \notin {"ADD", "REMOVE"}
  BY <1>1, <1>4, LendingAssumption
  DEF l, OperationKinds, LendingInv, LTypeOK, TypeOK, LeaseInv
<1>7. LeaseInv'
  <2>1. ASSUME NEW m \in held', last'[m] \in {"ADD", "REMOVE"}
        PROVE  \E p \in OpIds : /\ Is(p, "RESTORE") /\ Cmd(p).lease_id = m
                                /\ release_evidence'[p] = None
    <3>1. m # l /\ m \in LeaseIds /\ m \in held
      BY <1>6, <2>1 DEF held
    <3>2. PICK p \in OpIds : /\ Is(p, "RESTORE") /\ Cmd(p).lease_id = m
                             /\ release_evidence[p] = None
      BY <1>3, <2>1, <3>1 DEF LendingInv, LeaseInv
    <3>3. p # o
      BY <3>1, <3>2 DEF l
    <3> QED
      BY <1>1, <3>2, <3>3
  <2>2. \A m \in LeaseIds : m \in handoff_ready_leases' <=> last'[m] = "DONATE"
    BY <1>3, <1>4, <1>6 DEF LendingInv, LeaseInv
  <2>3. \A m \in LeaseIds : leases[m] # None /\ last'[m] = None => m \in held'
    BY <1>3, <1>4, <1>6 DEF LendingInv, LeaseInv
  <2>4. \A m \in LeaseIds : leases[m] = None => last'[m] = None
    BY <1>1, <1>3 DEF LendingInv, LeaseInv
  <2>5. handoff_ready_leases' \subseteq held'
    BY <1>6 DEF LendingInv, LeaseInv
  <2> QED
    BY <1>1, <1>2, <2>1, <2>2, <2>3, <2>4, <2>5 DEF LeaseInv
<1>8. CommandInv'
  <2>1. DonatePending'
    <3>1. \A m \in LeaseIds : last'[m] = None => m # l /\ last[m] = None
      BY <1>3, <1>4, <1>6
    <3>2. \A p \in OpIds : Is(p, "DONATE") /\ Outstanding(p)' =>
            /\ release_evidence'[p] = release_evidence[p] /\ Outstanding(p)
            /\ Cmd(p).lease_id # l /\ Cmd(p).lease_id \in LeaseIds
      BY <1>1, <1>2, <1>5 DEF Is
    <3> QED
      BY <1>2, <1>3, <1>5, <3>1, <3>2 DEF LendingInv, CommandInv, DonatePending
  <2>2. AddPending'
    BY <1>1, <1>2, <1>3, <1>4, <1>5 DEF LendingInv, CommandInv, AddPending, Is
  <2>3. RemovePending'
    <3> SUFFICES ASSUME NEW p \in OpIds, Is(p, "REMOVE")
                 PROVE  /\ release_evidence'[p] # None => last'[Cmd(p).lease_id] # "DONATE"
                        /\ Outstanding(p)' /\ release_evidence'[p] = None =>
                             /\ last'[Cmd(p).lease_id] = "DONATE"
                             /\ borrower_targets'[Cmd(p).lease_id] = Cmd(p).target
                        /\ \E a \in OpIds : /\ Is(a, "ADD") /\ Cmd(a).target = Cmd(p).target
                                            /\ Cmd(a).lease_id = Cmd(p).lease_id
      BY <1>2 DEF RemovePending
    <3>1. Cmd(p).lease_id \in LeaseIds /\ p # o
      BY <1>1, <1>5 DEF Is
    <3>2. CASE Cmd(p).lease_id = l
      BY <1>1, <1>2, <1>3, <1>4, <3>1, <3>2 DEF LendingInv, CommandInv, RemovePending
    <3>3. CASE Cmd(p).lease_id # l
      BY <1>1, <1>2, <1>3, <3>1, <3>3 DEF LendingInv, CommandInv, RemovePending
    <3> QED
      BY <3>2, <3>3
  <2>4. \A p \in OpIds : Is(p, "RESTORE") /\ release_evidence'[p] = None =>
          /\ Cmd(p).lease_id # l /\ Cmd(p).lease_id \in LeaseIds
          /\ release_evidence[p] = None
    BY <1>1, <1>4, <1>5 DEF Is
  <2>5. RestorePending'
    BY <1>2, <1>3, <1>6, <2>4 DEF LendingInv, CommandInv, RestorePending
  <2> QED
    BY <2>1, <2>2, <2>3, <2>5 DEF CommandInv
<1>9. NativeInv'
  <2>1. \A p \in OpIds : Is(p, "DONATE") =>
          /\ p # o /\ (Active(p)' <=> Active(p))
          /\ release_evidence'[p] = release_evidence[p]
    BY <1>1, <1>2 DEF Is
  <2>2. \A m \in LeaseIds : last'[m] \in Cycle => last[m] \in Cycle /\ last'[m] = last[m]
    BY <1>3, <1>4 DEF Cycle
  <2>3. NativeExists' /\ DonateIsFirst'
    <3>1. M[r] \in {"DORMANT", "ACTIVE"}
      BY <1>1 DEF LendingInv, NativeInv, LentSleeps, r
    <3>2. NativeExists'
      BY <1>1, <1>2, <3>1 DEF LendingInv, NativeInv, NativeExists, r
    <3>3. DonateIsFirst'
      BY <1>1, <1>2, <2>1, <2>2 DEF LendingInv, NativeInv, DonateIsFirst
    <3> QED
      BY <3>2, <3>3
  <2>4. CycleIsExclusive'
    <3>1. ASSUME NEW m \in LeaseIds, last'[m] \in Cycle, M[leases[m].donor] = "ACTIVE"
          PROVE  \E p \in OpIds :
                   Is(p, "RESTORE") /\ Active(p)' /\ Cmd(p).target = leases[m].donor
      <4>1. PICK p \in OpIds : Is(p, "RESTORE") /\ Active(p) /\ Cmd(p).target = leases[m].donor
        BY <2>2, <3>1 DEF LendingInv, NativeInv, CycleIsExclusive
      <4>2. CASE p # o
        BY <1>2, <4>1, <4>2
      <4>3. CASE p = o
        <5>1. leases[m].donor = leases[l].donor /\ last[l] \in Cycle /\ leases[l].donor = r
          BY <1>1, <1>4, <4>1, <4>3 DEF Cycle, r, l
        <5>2. m = l
          BY <1>1, <2>2, <3>1, <5>1 DEF LendingInv, NativeInv, CycleIsExclusive, l
        <5>3. worker[o] = "RELEASED"
          BY <1>3, <1>4, <2>2, <3>1, <5>2
        <5>4. M[r] = "DORMANT"
          BY <1>1, <5>3 DEF LendingInv, NativeInv, LentSleeps, Is, r
        <5> QED
          BY <3>1, <5>1, <5>4
      <4> QED
        BY <4>2, <4>3
    <3> QED
      BY <1>1, <1>2, <2>2, <3>1 DEF LendingInv, NativeInv, CycleIsExclusive
  <2>5. LentSleeps'
    BY <1>1, <1>2, <1>6 DEF LendingInv, NativeInv, LentSleeps
  <2> QED
    BY <2>3, <2>4, <2>5 DEF NativeInv
<1>10. BorrowedInv'
  <2>1. \A p \in OpIds : Is(p, "ADD") \/ Is(p, "REMOVE") =>
          /\ p # o /\ worker'[p] = worker[p] /\ (Active(p)' <=> Active(p))
          /\ release_evidence'[p] = release_evidence[p]
          /\ Cmd(p).lease_id \in LeaseIds
    BY <1>1, <1>2, <1>5 DEF Is
  <2>2. \A m \in LeaseIds : (last[m] = "DONATE" \/ last'[m] = "DONATE") => m # l
    BY <1>3, <1>4
  <2>3. BorrowedExists' /\ BorrowedIsLent'
    <3>1. BorrowedExists'
      BY <1>1, <1>2, <2>1 DEF LendingInv, BorrowedInv, BorrowedExists
    <3>2. BorrowedIsLent'
      BY <1>1, <1>2, <1>3, <2>1, <2>2 DEF LendingInv, BorrowedInv, BorrowedIsLent
    <3> QED
      BY <3>1, <3>2
  <2>4. PreparedExists' /\ RolledBackIsGone' /\ RemovedIsGone'
    BY <1>1, <1>2, <2>1
    DEF LendingInv, BorrowedInv, PreparedExists, RolledBackIsGone, RemovedIsGone
  <2>5. AddedServes'
    BY <1>1, <1>2, <1>3, <2>1, <2>2 DEF LendingInv, BorrowedInv, AddedServes
  <2> QED
    BY <2>3, <2>4, <2>5 DEF BorrowedInv
<1> QED
  BY <1>7, <1>8, <1>9, <1>10

(* The report of a worker reaches the ledger, for the first time or again. *)
LEMMA AdvanceKeeps ==
  ASSUME LendingInv, NEW o \in OpIds, Advance(o)
  PROVE  LendingInv'
<1> DEFINE e == Reported(o)
           l == Cmd(o).lease_id
<1>1. CASE Cmd(o).kind \in Exits /\ ReplayEvidence(e)
  BY <1>1, AdvanceAgainKeeps
<1>2. CASE AdvanceLease(e)
  <2>1. /\ worker[o] \in {"RELEASED", "COMMITTED"} /\ Reports(o, Closes(o))
        /\ UNCHANGED <<sent, M, using, releases, unrouted>>
    BY DEF Advance, runtimeVars
  <2>2. /\ Active(o) /\ Cmd(o) # None /\ e \in EvidenceForms /\ e # None
        /\ e.operation_id = o /\ (e.type = "RELEASED" <=> worker[o] = "RELEASED")
    BY <2>1, ReportedFacts
  <2>3. PICK w \in Resolved \cup {"UNKNOWN"} : Becomes(o, w)
    BY <2>1 DEF Reports, Closes, Resolved
  <2>4. /\ worker'[o] = w /\ \A p \in OpIds : p # o => worker'[p] = worker[p]
        /\ worker' \in [OpIds -> Unresolved \cup Resolved \cup {None}]
    BY <2>3 DEF Becomes, LendingInv, LTypeOK, Unresolved
  <2>5. LedgerInv'
    BY <1>2, <2>2, LedgerStep
  <2>6. LTypeOK'
    BY <2>1, <2>4, <2>5 DEF LendingInv, LTypeOK, LedgerInv
  <2> HIDE DEF e
  <2>7. /\ release_evidence[o] = None
        /\ release_evidence' = [release_evidence EXCEPT ![o] = e]
        /\ UNCHANGED <<leases, expired, operation_commands>>
        /\ \/ /\ Cmd(o).kind = "DONATE" /\ e.type = "RELEASED"
              /\ last' = [last EXCEPT ![l] = "DONATE"]
              /\ UNCHANGED <<borrower_targets, held>>
              /\ handoff_ready_leases' = handoff_ready_leases \cup {l}
           \/ /\ Cmd(o).kind \in {"ADD", "REMOVE"} /\ e.type = "RELEASED"
              /\ last' = [last EXCEPT ![l] = Cmd(o).kind]
              /\ \/ borrower_targets' = borrower_targets
                 \/ borrower_targets' = [borrower_targets EXCEPT ![l] = None]
              /\ held' = held \ {l}
              /\ handoff_ready_leases' = handoff_ready_leases \ {l}
           \/ /\ Cmd(o).kind = "RESTORE" /\ held' = held \ {l}
              /\ \/ /\ e.type = "RELEASED"
                    /\ UNCHANGED <<last, borrower_targets, handoff_ready_leases>>
                 \/ /\ last' = [last EXCEPT ![l] = "RESTORE"]
                    /\ borrower_targets' = [borrower_targets EXCEPT ![l] = None]
                    /\ handoff_ready_leases' = handoff_ready_leases \ {l}
    BY <1>2, <2>2, AdvanceEffect DEF Cmd, LendingInv
  <2>8. /\ release_evidence'[o] # None
        /\ \A p \in OpIds : p # o => release_evidence'[p] = release_evidence[p]
    BY <2>2, <2>7 DEF LendingInv, LTypeOK, TypeOK
  <2>9. Accepted(o)
    BY <2>1, <2>2, <2>3, <2>4, <2>7, <2>8 DEF Accepted
  <2>10. LeaseInv' /\ CommandInv' /\ NativeInv' /\ BorrowedInv'
    BY <2>1, <2>2, <2>7, <2>9, DonateAccepted, HandoffEnds, RestoreAccepted
  <2>11. JournalInv'
    BY <2>9, AcceptedFacts
  <2> QED
    BY <2>1, <2>5, <2>6, <2>10, <2>11 DEF LendingInv, UnroutedDrains
<1> QED
  BY <1>1, <1>2 DEF Advance

-----------------------------------------------------------------------------
(* The invariant *)

(* All native replicas serve, and nothing is known of any lease. *)
LEMMA InitLendingInv == LInit => LendingInv
<1> SUFFICES ASSUME LInit PROVE LendingInv
  OBVIOUS
<1>1. LedgerInv /\ TypeOK
  BY InitLedgerInv, InitTypeOK DEF LInit
<1>2. /\ \A o \in OpIds : Cmd(o) = None /\ worker[o] = None /\ release_evidence[o] = None
      /\ \A l \in LeaseIds : leases[l] = None /\ last[l] = None
      /\ handoff_ready_leases = {} /\ held = {} /\ releases = {} /\ sent = {}
      /\ unrouted = {}
  BY DEF LInit, GSInit, Cmd, last, LastKind, held
<1>3. /\ \A o \in OpIds : ~ Active(o) /\ ~ Outstanding(o)
      /\ \A k : \A o \in OpIds : ~ Is(o, k)
      /\ None \notin {"PREPARED", "COMMITTED", "RELEASED", "SUCCEEDED"}
      /\ None \notin Cycle
  BY <1>2, LendingAssumption
  DEF Active, Outstanding, Is, Unresolved, Resolved, Cycle, OperationKinds
<1>4. /\ \A r \in Natives : M[r] = "ACTIVE" /\ using[r] = NativeGpus[r] /\ r \in Replicas
      /\ \A r \in Borrowed : M[r] = None /\ using[r] = {}
      /\ None # "ACTIVE"
  BY LendingAssumption DEF LInit, Borrowed, ReplicaStates
<1>5. LTypeOK
  <2>1. M \in [Replicas -> ReplicaStates \cup {None}]
    BY DEF LInit, ReplicaStates
  <2>2. using \in [Replicas -> SUBSET Gpus]
    BY LendingAssumption DEF LInit
  <2> QED
    BY <1>1, <2>1, <2>2 DEF LInit, LTypeOK
<1>6. JournalInv
  BY <1>2, <1>3 DEF JournalInv
<1>7. LeaseInv
  BY <1>2, <1>3, LendingAssumption DEF LeaseInv, OperationKinds
<1>8. CommandInv
  BY <1>2, <1>3 DEF CommandInv, DonatePending, AddPending, RemovePending, RestorePending
<1>9. NativeInv
  BY <1>2, <1>3, <1>4
  DEF NativeInv, NativeExists, DonateIsFirst, CycleIsExclusive, LentSleeps
<1>10. BorrowedInv
  BY <1>2, <1>3, <1>4
  DEF BorrowedInv, BorrowedExists, BorrowedIsLent, PreparedExists, RolledBackIsGone,
      RemovedIsGone, AddedServes
<1> QED
  BY <1>1, <1>2, <1>5, <1>6, <1>7, <1>8, <1>9, <1>10 DEF LendingInv, UnroutedDrains

(* Every step keeps the invariant, when the policy is serial. *)
LEMMA NextLendingInv ==
  ASSUME Serial, LendingInv, [Next]_vars
  PROVE  LendingInv'
<1>1. CASE UNCHANGED vars
  <2>1. /\ UNCHANGED gsVars /\ UNCHANGED <<sent, worker, M, using, releases, unrouted>>
    BY <1>1 DEF vars, runnerVars, runtimeVars
  <2>2. UNCHANGED ledger
    BY <2>1, SameLedger
  <2>3. LedgerInv' /\ LeaseInv' /\ CommandInv'
    BY <2>1, QuietLedger
  <2>4. LTypeOK' /\ JournalInv'
    BY <2>1, <2>2, <2>3
    DEF LendingInv, LTypeOK, LedgerInv, JournalInv, ledger, Cmd, Active, Outstanding
  <2>5. NativeInv'
    BY <2>1, <2>2
    DEF LendingInv, NativeInv, NativeExists, DonateIsFirst, CycleIsExclusive,
        LentSleeps, ledger, Is, Cmd, Active
  <2>6. BorrowedInv'
    BY <2>1, <2>2
    DEF LendingInv, BorrowedInv, BorrowedExists, BorrowedIsLent, PreparedExists,
        RolledBackIsGone, RemovedIsGone, AddedServes, Lapsed, LeaseUsedUp,
        StagedOf, LeaseGpus, ledger, Is, Cmd, Active
  <2> QED
    BY <2>1, <2>3, <2>4, <2>5, <2>6 DEF LendingInv, UnroutedDrains
<1>2. ASSUME NEW o \in OpIds, WorkerStep(o) PROVE LendingInv'
  BY <1>2, BeginKeeps, ReportsKeep, BeginExitKeeps, ReleaseExitKeeps, CreateKeeps,
     AddEndsKeep, RestoreKeeps, AdvanceKeeps
  DEF WorkerStep
<1>3. ASSUME NEW c \in CommandForms, Submit(c) PROVE LendingInv'
  BY <1>3, SubmitKeeps
<1>4. ASSUME NEW lease \in LeaseForms, Open(lease) PROVE LendingInv'
  BY <1>4, OpenKeeps
<1> QED
  BY <1>1, <1>2, <1>3, <1>4, SendingKeeps, AttachAndExpireKeep DEF Next

(* The invariant of the lending cycle. *)
LEMMA LendingInvariant == ASSUME Serial PROVE Spec => []LendingInv
BY InitLendingInv, NextLendingInv, PTL DEF Spec

-----------------------------------------------------------------------------
(* Who owns the GPUs that are lent *)

(* From the donor's RELEASED to the borrower's a lease owns all its claims,  *)
(* and a borrowed runtime occupies GPUs only under a lease that owns them.   *)
THEOREM LentGpusAreOwned == ASSUME Serial PROVE Spec => []LentIsOwned
<1>1. LendingInv => LentIsOwned
  <2> SUFFICES ASSUME LendingInv PROVE LentIsOwned
    OBVIOUS
  <2>1. LTypeOK
    BY DEF LendingInv
  <2>2. \A l \in handoff_ready_leases : Holds(l, leases[l])
    BY DEF LendingInv, LeaseInv, held
  <2>3. ASSUME NEW o \in OpIds, Cmd(o) # None, Cmd(o).kind = "ADD",
               NEW g \in using[Cmd(o).target]
        PROVE  active_gpu_owner[g] = Cmd(o).lease_id
    <3>1. /\ last[Cmd(o).lease_id] = "DONATE" /\ g \in LeaseGpus(o)
          /\ Cmd(o).lease_id \in LeaseIds
      BY <2>3, StagedFacts DEF LendingInv, BorrowedInv, BorrowedIsLent, Is
    <3>2. Cmd(o).lease_id \in handoff_ready_leases
      BY <3>1 DEF LendingInv, LeaseInv
    <3> QED
      BY <2>2, <3>1, <3>2 DEF Holds, LeaseGpus
  <2> QED
    BY <2>1, <2>2, <2>3 DEF LentIsOwned
<1> QED
  BY <1>1, LendingInvariant, PTL

-----------------------------------------------------------------------------
(* The way back of a donor *)

(* A lease whose donor has given its GPUs: the borrower is still to come, or *)
(* is there.                                                                 *)
LEMMA LentHasWayBack ==
  ASSUME LendingInv, NEW l \in LeaseIds, Dormant(l), last[l] = "DONATE"
  PROVE  WayBack(l) \/ Stranded(l)
<1>1. /\ leases[l] # None /\ l \in handoff_ready_leases
      /\ LastKind(l) = "DONATE"
      /\ \A o \in StagedOf(l) : worker[o] \in Resolved
  BY DEF LendingInv, LeaseInv, Dormant, last
<1>2. \A o \in OpIds : Cmd(o) # None /\ Cmd(o).lease_id = l => worker[o] \in Resolved
  BY <1>1 DEF StagedOf
<1>3. CASE borrower_targets[l] = None /\ l \notin expired
  <2>1. PICK r \in Borrowed :
          \A c \in CommandForms : c.kind = "ADD" /\ c.target = r => c.lease_id = l
    BY LendingAssumption
  <2>2. ASSUME M[r] # None PROVE FALSE
    <3>1. PICK o \in OpIds : Is(o, "ADD") /\ Cmd(o).target = r
      BY <2>2 DEF LendingInv, BorrowedInv, BorrowedExists
    <3>2. Cmd(o).lease_id = l
      BY <2>1, <3>1, StagedFacts DEF Is
    <3> QED
      BY <1>3, <3>1, <3>2 DEF LendingInv, CommandInv, AddPending
  <2>3. Admits(l, "ADD", r)
    BY <1>1, <1>3 DEF Admits, PhaseAllows, AddAllowed
  <2> QED
    BY <2>2, <2>3 DEF WayBack
<1>4. CASE borrower_targets[l] = None /\ l \in expired
  BY <1>4 DEF Stranded
<1>5. CASE borrower_targets[l] # None
  <2> DEFINE r == borrower_targets[l]
  <2>1. PICK o \in OpIds : /\ Is(o, "ADD") /\ Cmd(o).lease_id = l
                           /\ Cmd(o).target = r /\ release_evidence[o] = None
    BY <1>5 DEF LendingInv, LedgerInv, BorrowerTargetHasPendingAdd, Is, Cmd
  <2>2. worker[o] \in Resolved /\ o \in StagedOf(l)
    BY <1>2, <2>1 DEF StagedOf, Is
  <2>3. CASE worker[o] = "FAILED"
    BY <2>1, <2>2, <2>3 DEF Stranded, Is
  <2>4. CASE worker[o] = "SUCCEEDED"
    <3>1. ASSUME NEW p \in OpIds, Is(p, "REMOVE"), Active(p), Cmd(p).target = r
          PROVE  FALSE
      <4>1. Cmd(p).lease_id = l
        BY <2>1, <3>1, AddIsUnique DEF LendingInv, CommandInv, RemovePending
      <4> QED
        BY <1>2, <3>1, <4>1, ActiveFacts
    <3>2. M[r] = "ACTIVE" \/ r \in unrouted
      BY <2>1, <2>4, <3>1 DEF LendingInv, BorrowedInv, AddedServes
    <3>3. r \in Borrowed
      BY <2>1, StagedFacts DEF Is
    <3>4. Admits(l, "REMOVE", r)
      BY <1>1 DEF Admits, PhaseAllows, RemoveAllowed
    <3> QED
      BY <3>2, <3>3, <3>4 DEF WayBack, Stranded
  <2> QED
    BY <2>2, <2>3, <2>4 DEF Resolved
<1> QED
  BY <1>3, <1>4, <1>5

(* A lease whose borrower has given the GPUs back: its claims are free for a *)
(* RESTORE, unless one keeps them or another lease has them.                 *)
LEMMA ReturnedHasWayBack ==
  ASSUME LendingInv, NEW l \in LeaseIds, Dormant(l), last[l] \in {"ADD", "REMOVE"}
  PROVE  WayBack(l) \/ Stranded(l)
<1>1. /\ leases[l] # None /\ leases[l] \in LeaseForms /\ LastKind(l) # "RESTORE"
      /\ \A o \in StagedOf(l) : worker[o] \in Resolved
  BY DEF Dormant, last, LendingInv, LTypeOK, TypeOK
<1>2. CASE l \in held
  <2>1. PICK o \in OpIds : /\ Is(o, "RESTORE") /\ Cmd(o).lease_id = l
                           /\ release_evidence[o] = None
    BY <1>2 DEF LendingInv, LeaseInv
  <2>2. o \in StagedOf(l) /\ worker[o] # "SUCCEEDED"
    BY <2>1 DEF StagedOf, Is, LendingInv, JournalInv
  <2>3. worker[o] = "FAILED"
    BY <1>1, <2>2 DEF Resolved
  <2> QED
    BY <2>1, <2>2, <2>3 DEF Stranded, Is
<1>3. CASE l \notin held
  <2>1. Unheld(l, leases[l])
    BY <1>1, <1>3 DEF held, LendingInv, LedgerInv, ClaimsMoveTogether
  <2>2. SUFFICES ASSUME \A g \in GpusOf(leases[l]) : active_gpu_owner[g] \in {None, l}
                 PROVE  WayBack(l)
    BY DEF Stranded
  <2>3. \A g \in GpusOf(leases[l]) : active_gpu_owner[g] = None
    BY <2>1, <2>2 DEF Unheld
  <2>4. ASSUME NEW b \in BundlesOf(leases[l]), active_bundle_owner[b] # None
        PROVE  FALSE
    <3> DEFINE m == active_bundle_owner[b]
    <3>1. b \in Bundles /\ m \in LeaseIds
      BY <1>1, <2>4, ClaimsTyped DEF LendingInv, LTypeOK, TypeOK
    <3>2. /\ leases[m] # None /\ leases[m] \in LeaseForms /\ b \in BundlesOf(leases[m])
      BY <2>4, <3>1 DEF LendingInv, LedgerInv, LTypeOK, TypeOK, ClaimsMoveTogether
    <3> HIDE DEF m
    <3>3. leases[m].donor = leases[l].donor
      BY <1>1, <3>2, LendingAssumption
    <3>4. GpusOf(leases[m]) = GpusOf(leases[l]) /\ GpusOf(leases[l]) # {}
      BY <1>1, <3>2, <3>3, LeaseOfDonor
    <3>5. Holds(m, leases[m])
      BY <3>1, <3>2 DEF m, Unheld, LendingInv, LedgerInv, ClaimsMoveTogether
    <3> QED
      BY <2>3, <3>1, <3>4, <3>5, NoneIsAbsent DEF Holds
  <2>5. Admits(l, "RESTORE", leases[l].donor)
    BY <1>1, <2>3, <2>4 DEF Admits, PhaseAllows, RestoreAllowed, Unclaimed
  <2> QED
    BY <2>5 DEF WayBack
<1> QED
  BY <1>2, <1>3

(* A donor that sleeps for a lease whose operations are all resolved can be  *)
(* brought back by commands the ledger admits, except where it is stranded.  *)
THEOREM DonorCanReturn == ASSUME Serial PROVE Spec => []DonorHasWayBack
<1>1. LendingInv => DonorHasWayBack
  <2> SUFFICES ASSUME LendingInv, NEW l \in LeaseIds, Dormant(l)
               PROVE  WayBack(l) \/ Stranded(l)
    BY DEF DonorHasWayBack
  <2>1. release_history[l] # <<>> /\ last[l] = LastKind(l) /\ last[l] # "RESTORE"
    BY DEF Dormant, last
  <2>2. last[l] \in {"DONATE", "ADD", "REMOVE"}
    BY <2>1, StageTyped DEF LendingInv, OperationKinds
  <2> QED
    BY <2>2, LentHasWayBack, ReturnedHasWayBack
<1> QED
  BY <1>1, LendingInvariant, PTL

-----------------------------------------------------------------------------
(* Lending implements GpuUse *)

(* A native runtime occupies GPUs of its own; a borrowed one those of the    *)
(* donor of a lease that is handed over to it.                               *)
LEMMA UserOfGpu ==
  ASSUME LendingInv, NEW q \in Replicas, NEW g \in using[q]
  PROVE  \/ q \in Natives /\ g \in NativeGpus[q]
         \/ /\ q \in Borrowed
            /\ \E l \in handoff_ready_leases :
                 /\ borrower_targets[l] = q /\ g \in NativeGpus[leases[l].donor]
<1>1. CASE q \in Natives
  BY <1>1 DEF LendingInv, NativeInv, NativeExists
<1>2. CASE q \notin Natives
  <2>1. q \in Borrowed /\ M[q] # None
    BY <1>2 DEF Borrowed, LendingInv, BorrowedInv, BorrowedExists
  <2>2. PICK o \in OpIds : Is(o, "ADD") /\ Cmd(o).target = q
    BY <2>1 DEF LendingInv, BorrowedInv, BorrowedExists
  <2>3. /\ last[Cmd(o).lease_id] = "DONATE" /\ g \in LeaseGpus(o)
        /\ borrower_targets[Cmd(o).lease_id] = q
    BY <2>2 DEF LendingInv, BorrowedInv, BorrowedIsLent
  <2>4. /\ Cmd(o).lease_id \in handoff_ready_leases
        /\ LeaseGpus(o) = NativeGpus[leases[Cmd(o).lease_id].donor]
    BY <2>2, <2>3, StagedFacts DEF LendingInv, LeaseInv, Is
  <2> QED
    BY <2>1, <2>3, <2>4
<1> QED
  BY <1>1, <1>2

(* Nobody occupies the GPUs of a native replica that RESTORE wakes. *)
LEMMA WakesOnFreeGpus ==
  ASSUME LendingInv, NEW o \in OpIds, Active(o), Is(o, "RESTORE"),
         using[Cmd(o).target] = {}, NEW g \in NativeGpus[Cmd(o).target],
         NEW q \in Replicas
  PROVE  g \notin using[q]
<1> SUFFICES ASSUME g \in using[q] PROVE FALSE
  OBVIOUS
<1>1. Cmd(o).target \in Natives
  BY StagedFacts DEF Is
<1>2. CASE q \in Natives /\ g \in NativeGpus[q]
  <2>1. q = Cmd(o).target
    BY <1>1, <1>2, LendingAssumption
  <2> QED
    BY <2>1
<1>3. ASSUME NEW l \in handoff_ready_leases, g \in NativeGpus[leases[l].donor]
      PROVE  FALSE
  <2>1. leases[l] \in LeaseForms
    BY DEF LendingInv, LTypeOK, TypeOK, LeaseInv, held
  <2>2. leases[l].donor = Cmd(o).target
    BY <1>1, <1>3, <2>1, LendingAssumption
  <2> QED
    BY <2>2 DEF LendingInv, NativeInv, LentSleeps
<1> QED
  BY <1>2, <1>3, UserOfGpu

(* Nobody occupies the GPUs on which an ADD creates its replica. *)
LEMMA CreatesOnFreeGpus ==
  ASSUME LendingInv, NEW o \in OpIds, Active(o), Is(o, "ADD"),
         M[Cmd(o).target] = None, ~ Lapsed(o), ~ LeaseUsedUp(o),
         NEW g \in LeaseGpus(o), NEW q \in Replicas
  PROVE  g \notin using[q]
<1> DEFINE l == Cmd(o).lease_id
<1> SUFFICES ASSUME g \in using[q] PROVE FALSE
  OBVIOUS
<1>1. /\ Cmd(o).target \in Borrowed /\ l \in LeaseIds
      /\ leases[l].donor \in Natives /\ g \in NativeGpus[leases[l].donor]
  BY StagedFacts DEF Is
<1>2. release_evidence[o] = None
  BY LendingAssumption DEF LendingInv, BorrowedInv, RolledBackIsGone, ReplicaStates
<1>3. last[l] = "DONATE" /\ borrower_targets[l] = Cmd(o).target
  BY <1>2, ActiveFacts DEF LendingInv, CommandInv, AddPending
<1>4. l \in handoff_ready_leases /\ using[leases[l].donor] = {}
  BY <1>1, <1>3 DEF LendingInv, LeaseInv, NativeInv, LentSleeps
<1>5. CASE q \in Natives /\ g \in NativeGpus[q]
  <2>1. q = leases[l].donor
    BY <1>1, <1>5, LendingAssumption
  <2> QED
    BY <1>4, <2>1
<1>6. ASSUME NEW m \in handoff_ready_leases, borrower_targets[m] = q,
             g \in NativeGpus[leases[m].donor]
      PROVE  FALSE
  <2>1. leases[m] \in LeaseForms /\ m \in LeaseIds /\ last[m] = "DONATE"
    BY DEF LendingInv, LTypeOK, TypeOK, LeaseInv, held
  <2>2. leases[m].donor = leases[l].donor
    BY <1>1, <1>6, <2>1, LeaseOfDonor, LendingAssumption
  <2>3. m = l
    BY <1>1, <1>3, <2>1, <2>2 DEF LendingInv, NativeInv, CycleIsExclusive, Cycle
  <2>4. using[Cmd(o).target] = {}
    BY <1>1 DEF LendingInv, BorrowedInv, BorrowedExists
  <2> QED
    BY <1>3, <1>6, <2>3, <2>4
<1> QED
  BY <1>5, <1>6, UserOfGpu

(* What a change of one runtime is for the GPUs. *)
LEMMA UsingStep ==
  ASSUME LendingInv, NEW r \in Replicas, NEW y \in SUBSET Gpus,
         using' = [using EXCEPT ![r] = y],
         \/ y = {} \/ y = using[r]
         \/ using[r] = {} /\ \A g \in y, q \in Replicas : g \notin using[q]
  PROVE  Use!Next \/ users' = users
<1>1. using \in [Replicas -> SUBSET Gpus]
  BY DEF LendingInv, LTypeOK
<1>2. CASE y = using[r]
  BY <1>1, <1>2 DEF users
<1>3. CASE y = {}
  <2>1. \A g \in Gpus : {q \in Replicas : g \in using'[q]}
                          = {q \in Replicas : g \in using[q]} \ {r}
    BY <1>1, <1>3
  <2>2. users' = [g \in Gpus |-> users[g] \ {r}]
    BY <2>1 DEF users
  <2> QED
    BY <2>2 DEF Use!Next, Use!Vacate
<1>4. CASE using[r] = {} /\ \A g \in y, q \in Replicas : g \notin using[q]
  <2>1. \A g \in y : users[g] = {}
    BY <1>4 DEF users
  <2>2. \A g \in Gpus : {q \in Replicas : g \in using'[q]}
                          = IF g \in y THEN {r} ELSE {q \in Replicas : g \in using[q]}
    BY <1>1, <1>4
  <2>3. users' = [g \in Gpus |-> IF g \in y THEN {r} ELSE users[g]]
    BY <2>2 DEF users
  <2> QED
    BY <2>1, <2>3 DEF Use!Next, Use!Occupy
<1> QED
  BY <1>2, <1>3, <1>4

(* At the start every native runtime occupies its own GPUs. *)
LEMMA InitUse == LInit => Use!Init
<1> SUFFICES ASSUME LInit PROVE Use!Init
  OBVIOUS
<1>1. users \in [Gpus -> SUBSET Replicas]
  BY DEF users
<1>2. ASSUME NEW g \in Gpus, NEW p \in users[g], NEW q \in users[g] PROVE p = q
  <2>1. /\ p \in Replicas /\ g \in using[p]
        /\ q \in Replicas /\ g \in using[q]
    BY <1>2 DEF users
  <2>2. p \in Natives /\ g \in NativeGpus[p] /\ q \in Natives /\ g \in NativeGpus[q]
    BY <2>1 DEF LInit
  <2> QED
    BY <2>2, LendingAssumption
<1> QED
  BY <1>1, <1>2 DEF Use!Init

(* A DONATE, REMOVE, ADD or RESTORE that ends gives up all GPUs or none. *)
LEMMA EndingUse ==
  ASSUME LendingInv, NEW o \in OpIds, Active(o),
         ReleaseExit(o) \/ AddFails(o) \/ RestoreFails(o)
  PROVE  Use!Next \/ users' = users
<1> DEFINE r == Cmd(o).target
<1>1. r \in Replicas
  BY ActiveFacts, StagedFacts
<1>2. using' = [using EXCEPT ![r] = {}] \/ using' = [using EXCEPT ![r] = using[r]]
      \/ using' = using
  BY DEF ReleaseExit, AddFails, RestoreFails, Vacated, Quarantine
<1>3. using[r] \in SUBSET Gpus
  BY <1>1 DEF LendingInv, LTypeOK
<1>4. CASE using' = using
  BY <1>4 DEF users
<1> QED
  BY <1>1, <1>2, <1>3, <1>4, UsingStep

(* An ADD creates its replica on the GPUs of its lease. *)
LEMMA CreatingUse ==
  ASSUME LendingInv, NEW o \in OpIds, Active(o), Create(o)
  PROVE  Use!Next \/ users' = users
<1> DEFINE r == Cmd(o).target
<1>1. /\ r \in Replicas /\ Cmd(o) # None /\ LeaseGpus(o) \subseteq Gpus
      /\ r \in Borrowed
  <2>1. Is(o, "ADD")
    BY ActiveFacts DEF Create, Running, Is
  <2>2. /\ r \in Borrowed /\ leases[Cmd(o).lease_id].donor \in Natives
        /\ LeaseGpus(o) = NativeGpus[leases[Cmd(o).lease_id].donor]
    BY <2>1, StagedFacts DEF Is
  <2> QED
    BY <2>1, <2>2, LendingAssumption DEF Is, Borrowed
<1>2. Is(o, "ADD") /\ M[r] = None
  BY <1>1 DEF Create, Running, Is
<1>3. using[r] = {}
  BY <1>1, <1>2 DEF LendingInv, BorrowedInv, BorrowedExists
<1>4. CASE using' = using
  BY <1>4 DEF users
<1>5. CASE /\ ~ Lapsed(o) /\ ~ LeaseUsedUp(o)
           /\ using' = [using EXCEPT ![r] = LeaseGpus(o)]
  <2>1. \A g \in LeaseGpus(o), q \in Replicas : g \notin using[q]
    BY <1>2, <1>5, CreatesOnFreeGpus
  <2> QED
    BY <1>1, <1>3, <1>5, <2>1, UsingStep
<1> QED
  BY <1>4, <1>5 DEF Create, Quarantine

(* A RESTORE wakes its replica on the GPUs of its own. *)
LEMMA WakingUse ==
  ASSUME LendingInv, NEW o \in OpIds, Active(o), Wake(o)
  PROVE  Use!Next \/ users' = users
<1> DEFINE r == Cmd(o).target
<1>1. Is(o, "RESTORE") /\ using' = [using EXCEPT ![r] = NativeGpus[r]]
  BY ActiveFacts DEF Wake, Running, Is
<1>2. r \in Natives /\ r \in Replicas /\ NativeGpus[r] \subseteq Gpus
  BY <1>1, StagedFacts, LendingAssumption DEF Is
<1>3. CASE using[r] = NativeGpus[r]
  BY <1>1, <1>2, <1>3, UsingStep
<1>4. CASE using[r] = {}
  <2>1. \A g \in NativeGpus[r], q \in Replicas : g \notin using[q]
    BY <1>1, <1>4, WakesOnFreeGpus
  <2> QED
    BY <1>1, <1>2, <1>4, <2>1, UsingStep
<1> QED
  BY <1>2, <1>3, <1>4 DEF LendingInv, NativeInv, NativeExists

(* Every step of Lending is a step of GpuUse, or changes no GPU. *)
LEMMA UseStep ==
  ASSUME LendingInv, [Next]_vars
  PROVE  [Use!Next]_users
<1>1. ASSUME using' = using PROVE users' = users
  BY <1>1 DEF users
<1>2. ASSUME NEW o \in OpIds, WorkerStep(o) PROVE Use!Next \/ users' = users
  <2>1. CASE ReleaseExit(o) \/ AddFails(o) \/ RestoreFails(o)
    <3>1. Active(o)
      BY <2>1 DEF ReleaseExit, AddFails, RestoreFails, Running, Active, Unresolved
    <3> QED
      BY <2>1, <3>1, EndingUse
  <2>2. CASE Create(o)
    <3>1. Active(o)
      BY <2>2 DEF Create, Running, Active, Unresolved
    <3> QED
      BY <2>2, <3>1, CreatingUse
  <2>3. CASE Wake(o)
    <3>1. Active(o)
      BY <2>3 DEF Wake, Running, Active, Unresolved
    <3> QED
      BY <2>3, <3>1, WakingUse
  <2>4. CASE \/ Begin(o) \/ Reopen(o) \/ GoesUnknown(o) \/ ExitRefused(o)
             \/ BeginExit(o) \/ ReleaseAgain(o) \/ AddRefused(o) \/ CreateAgain(o)
             \/ RetractAdd(o) \/ CommitAdd(o) \/ CommitWake(o) \/ RetractWake(o)
             \/ Advance(o)
    <3>1. using' = using
      BY <2>4
      DEF Begin, Reopen, GoesUnknown, ExitRefused, BeginExit, ReleaseAgain,
          AddRefused, CreateAgain, RetractAdd, CommitAdd, CommitWake, RetractWake,
          Retracted, Advance, runtimeVars
    <3> QED
      BY <1>1, <3>1
  <2> QED
    BY <1>2, <2>1, <2>2, <2>3, <2>4 DEF WorkerStep
<1>3. CASE \/ UNCHANGED vars
           \/ \E t \in Tasks, h \in Handles : Attach(t, h)
           \/ \E lease \in LeaseForms : Open(lease)
           \/ \E l \in LeaseIds : Expire(l)
           \/ \E c \in CommandForms : Submit(c) \/ Resubmit(c)
           \/ \E o \in OpIds : Lose(o)
  <2>1. using' = using
    BY <1>3 DEF vars, Attach, Open, Expire, Submit, Resubmit, Lose, runtimeVars
  <2> QED
    BY <1>1, <2>1
<1> QED
  BY <1>2, <1>3 DEF Next

(* Lending implements GpuUse: a runtime comes only onto GPUs that nobody     *)
(* occupies, and gives up all of its GPUs at once.                           *)
THEOREM LendingIsExclusive == ASSUME Serial PROVE Spec => GpusAreExclusive
BY LendingInvariant, InitUse, UseStep, PTL DEF Spec, GpusAreExclusive, Use!Spec

-----------------------------------------------------------------------------
(* The ledger that Lending uses is the one above *)

(* What a TaskRunner reports is evidence the ledger knows the form of, when  *)
(* it has staged the command and opened its lease.                           *)
LEMMA ReportIsEvidence ==
  ASSUME TypeOK, NEW o \in OpIds, Cmd(o) # None, leases[Cmd(o).lease_id] # None
  PROVE  Reported(o) \in EvidenceForms
<1>1. leases[Cmd(o).lease_id] \in LeaseForms
  BY CommandTyped DEF TypeOK, Cmd
<1>2. \E n \in Natives : ReportedGpus(o) = NativeGpus[n]
  BY <1>1, LendingAssumption DEF ReportedGpus, LeaseGpus
<1> QED
  BY <1>2, LendingAssumption DEF Reported

(* Every step of Lending is a step of the ledger, or leaves it alone. *)
LEMMA LedgerStepOfLending ==
  ASSUME TypeOK, [Next]_vars
  PROVE  [GSNext]_gsVars
<1>1. ASSUME NEW o \in OpIds, Advance(o) PROVE [GSNext]_gsVars
  <2> DEFINE e == Reported(o)
  <2>1. CASE ReplayEvidence(e)
    BY <2>1 DEF ReplayEvidence
  <2>2. CASE AdvanceLease(e)
    <3>1. e.operation_id = o
      BY DEF Reported, Service, Release
    <3>2. Cmd(o) # None /\ leases[Cmd(o).lease_id] # None
      BY <2>2, <3>1
      DEF AdvanceLease, AdvanceDonate, AdvanceRemove, RollBackAdd, RollBackRestore,
          CommitRestore, EvidenceAccepted, Cmd
    <3>3. e \in EvidenceForms
      BY <3>2, ReportIsEvidence
    <3> QED
      BY <2>2, <3>3 DEF GSNext
  <2> QED
    BY <1>1, <2>1, <2>2 DEF Advance
<1>2. ASSUME NEW o \in OpIds, WorkerStep(o), ~ Advance(o) PROVE UNCHANGED gsVars
  BY <1>2
  DEF WorkerStep, Begin, Reopen, GoesUnknown, ExitRefused, BeginExit, ReleaseExit,
      ReleaseAgain, AddRefused, Create, CreateAgain, RetractAdd, CommitAdd, AddFails,
      Wake, CommitWake, RetractWake, RestoreFails, Retracted, Quarantine
<1>3. ASSUME NEW t \in Tasks, NEW h \in Handles, Attach(t, h) PROVE GSNext
  BY <1>3 DEF Attach, GSNext
<1>4. ASSUME NEW lease \in LeaseForms, Open(lease) PROVE GSNext
  BY <1>4 DEF Open, GSNext
<1>5. ASSUME NEW l \in LeaseIds, Expire(l) PROVE GSNext
  BY <1>5 DEF Expire, GSNext
<1>6. ASSUME NEW c \in CommandForms, Submit(c) \/ Resubmit(c) PROVE GSNext
  BY <1>6 DEF Submit, Resubmit, GSNext
<1>7. ASSUME NEW o \in OpIds, Lose(o) PROVE UNCHANGED gsVars
  BY <1>7 DEF Lose
<1>8. CASE UNCHANGED vars
  BY <1>8 DEF vars
<1> QED
  BY <1>1, <1>2, <1>3, <1>4, <1>5, <1>6, <1>7, <1>8 DEF Next

(* Whatever the policy, Lending implements the ledger under the open callers *)
(* of GroupScheduler: what is proved of GSSpec holds in every lending cycle. *)
THEOREM LendingUsesLedger == Spec => GSSpec
<1>1. LInit => GSInit /\ TypeOK
  BY InitTypeOK DEF LInit
<1>2. TypeOK /\ [Next]_vars => TypeOK' /\ [GSNext]_gsVars
  BY LedgerStepOfLending, NextTypeOK
<1> QED
  BY <1>1, <1>2, PTL DEF Spec, GSSpec
=============================================================================
