----------------------- MODULE ReplicaSyncGateProofs ------------------------
(***************************************************************************)
(* Proofs about the replica synchronisation gate, for any number of        *)
(* coroutines, operations and acquisitions.                                *)
(***************************************************************************)
EXTENDS ReplicaSyncGate, SequenceTheorems, TLAPS

(* What makes mutual exclusion inductive: _epoch is fresh at every           *)
(* acquisition, so the only lease equal to _owner is the one in use, and a   *)
(* caller that has been given the gate acts for an operation.                *)
EpochsFence ==
  /\ owner # None => owner.epoch = epoch
  /\ \A p \in Callers : lease[p] # None => lease[p].epoch <= epoch
  /\ \A p \in Callers :
       owner # None /\ lease[p] = owner => pc[p] \in {"held", "guarded"}
  /\ \A p \in Callers : Waits(p) => op[p] # None
  /\ lastWrite <= epoch

GateInv ==
  /\ TypeOK
  /\ MutualExclusion
  /\ BlockedAdmitsOnlyBlocker
  /\ EpochsFence

(* A GateOwner record is never mistaken for the absence of an owner. *)
LEMMA OwnerRecord ==
  ASSUME NEW o \in OpIds, NEW n \in Nat
  PROVE  /\ [op |-> o, epoch |-> n] \in GateOwner
         /\ [op |-> o, epoch |-> n] # None
         /\ None \notin GateOwner
BY GateAssumption DEF GateOwner

(* A new gate satisfies the inductive invariant. *)
LEMMA InitGateInv == Init => GateInv
<1> SUFFICES ASSUME Init PROVE GateInv
  OBVIOUS
<1>1. TypeOK
  BY DEF Init, TypeOK, PcValues
<1>2. MutualExclusion /\ BlockedAdmitsOnlyBlocker /\ EpochsFence
  BY GateAssumption DEF Init, MutualExclusion, BlockedAdmitsOnlyBlocker,
     EpochsFence, InGate, Waits
<1> QED
  BY <1>1, <1>2 DEF GateInv

(* Taking the free gate at a fresh epoch, with a lease or for recovery. *)
LEMMA TakeKeepsInv ==
  ASSUME GateInv, NEW p \in Callers, NEW o \in OpIds,
         holder = None, ~ InGate(p), blocked \in {None, o},
         waiters' \in Seq(Callers),
         Own(p, o), op' = [op EXCEPT ![p] = o],
         UNCHANGED <<blocked, lastWrite>>,
         \/ /\ lease' = [lease EXCEPT ![p] = [op |-> o, epoch |-> epoch + 1]]
            /\ Goto(p, "held")
         \/ /\ lease' = lease
            /\ Goto(p, "recovery")
  PROVE  GateInv'
<1> DEFINE new == [op |-> o, epoch |-> epoch + 1]
<1>1. /\ new \in GateOwner /\ new # None /\ new.epoch = epoch + 1 /\ new.op = o
      /\ epoch \in Nat /\ epoch' = epoch + 1 /\ owner' = new /\ holder' = p
      /\ p # None
  BY OwnerRecord, GateAssumption DEF GateInv, TypeOK, Own
<1>2. TypeOK'
  <2> HIDE DEF new
  <2>1. lease' \in [Callers -> GateOwner \cup {None}]
    BY <1>1 DEF GateInv, TypeOK, new
  <2>2. pc' \in [Callers -> PcValues]
    BY DEF GateInv, TypeOK, Goto, PcValues
  <2>3. /\ op' \in [Callers -> OpIds \cup {None}]
        /\ epoch' \in Nat
    BY <1>1 DEF GateInv, TypeOK
  <2> QED
    BY <1>1, <2>1, <2>2, <2>3 DEF GateInv, TypeOK
<1>3. \A q \in Callers : q # p => ~ InGate(q) /\ pc'[q] = pc[q]
                                  /\ lease'[q] = lease[q] /\ op'[q] = op[q]
  BY GateAssumption DEF GateInv, MutualExclusion, TypeOK, Goto
<1>4. \A q \in Callers : lease[q] # new
  BY <1>1 DEF GateInv, EpochsFence, TypeOK, GateOwner
<1>5. MutualExclusion'
  BY <1>1, <1>3 DEF GateInv, MutualExclusion, TypeOK, InGate, Goto
<1>6. BlockedAdmitsOnlyBlocker'
  BY <1>1 DEF BlockedAdmitsOnlyBlocker
<1>7. EpochsFence'
  <2>1. ASSUME NEW q \in Callers, lease'[q] # None
        PROVE  lease'[q].epoch <= epoch'
    BY <1>1, <1>3, <2>1 DEF GateInv, EpochsFence, TypeOK, GateOwner
  <2>2. ASSUME NEW q \in Callers, lease'[q] = owner'
        PROVE  pc'[q] \in {"held", "guarded"}
    <3>1. q = p
      BY <1>1, <1>3, <1>4, <2>2
    <3>2. lease' # lease
      BY <1>1, <1>4, <2>2
    <3> QED
      BY <3>1, <3>2 DEF GateInv, TypeOK, Goto
  <2>3. ASSUME NEW q \in Callers, Waits(q)' PROVE op'[q] # None
    BY <1>3, <2>3, GateAssumption DEF GateInv, EpochsFence, TypeOK, Waits, Goto
  <2>4. lastWrite' <= epoch'
    BY <1>1 DEF GateInv, EpochsFence, TypeOK
  <2> QED
    BY <1>1, <2>1, <2>2, <2>3, <2>4 DEF EpochsFence
<1> QED
  BY <1>2, <1>5, <1>6, <1>7 DEF GateInv

(* Leaving the gate, whatever becomes of the latch. *)
LEMMA LeaveKeepsInv ==
  ASSUME GateInv, NEW p \in Callers, holder = p,
         owner' = None, holder' = None, Goto(p, "idle"),
         blocked' \in OpIds \cup {None},
         UNCHANGED <<waiters, epoch, op, lease, lastWrite>>
  PROVE  GateInv'
<1>1. TypeOK'
  BY DEF GateInv, TypeOK, Goto, PcValues
<1>2. \A q \in Callers : q # p => ~ InGate(q) /\ pc'[q] = pc[q]
  BY DEF GateInv, MutualExclusion, TypeOK, Goto
<1>3. MutualExclusion'
  BY <1>2, GateAssumption DEF GateInv, MutualExclusion, TypeOK, InGate, Goto
<1>4. BlockedAdmitsOnlyBlocker' /\ EpochsFence'
  BY <1>2 DEF GateInv, BlockedAdmitsOnlyBlocker, EpochsFence, TypeOK, Waits, Goto
<1> QED
  BY <1>1, <1>3, <1>4 DEF GateInv

(* A caller outside the gate joins or leaves the queue. *)
LEMMA QueueKeepsInv ==
  ASSUME GateInv, NEW p \in Callers, ~ InGate(p),
         waiters' \in Seq(Callers),
         \/ op' = op /\ Goto(p, "idle")
         \/ \E o \in OpIds :
              /\ op' = [op EXCEPT ![p] = o]
              /\ Goto(p, "acquiring") \/ Goto(p, "reconciling"),
         UNCHANGED <<holder, owner, epoch, blocked, lease, lastWrite>>
  PROVE  GateInv'
<1>1. TypeOK'
  BY DEF GateInv, TypeOK, Goto, PcValues
<1>2. /\ ~ InGate(p)'
      /\ \A q \in Callers : q # p => pc'[q] = pc[q] /\ op'[q] = op[q]
  BY DEF GateInv, TypeOK, Goto, InGate
<1>3. MutualExclusion'
  BY <1>2 DEF GateInv, MutualExclusion, InGate
<1>4. BlockedAdmitsOnlyBlocker'
  BY DEF GateInv, BlockedAdmitsOnlyBlocker
<1>5. EpochsFence'
  <2>1. ASSUME NEW q \in Callers, owner # None, lease[q] = owner
        PROVE  pc'[q] \in {"held", "guarded"}
    BY <1>2, <2>1 DEF GateInv, EpochsFence, InGate
  <2>2. ASSUME NEW q \in Callers, Waits(q)' PROVE op'[q] # None
    BY <1>2, <2>2, GateAssumption DEF GateInv, EpochsFence, TypeOK, Waits, Goto
  <2> QED
    BY <2>1, <2>2 DEF GateInv, EpochsFence
<1> QED
  BY <1>1, <1>3, <1>4, <1>5 DEF GateInv

(* Only the caller inside the gate has an active lease. *)
LEMMA ActiveIsHolder ==
  ASSUME GateInv, NEW p \in Callers, lease[p] # None, IsActive(lease[p])
  PROVE  holder = p /\ owner = lease[p] /\ pc[p] \in {"held", "guarded"}
BY DEF GateInv, MutualExclusion, EpochsFence, IsActive, InGate

(* Leaving the queue keeps it a sequence of callers. *)
LEMMA QueueTyped ==
  ASSUME TypeOK, NEW p \in Callers
  PROVE  /\ Append(waiters, p) \in Seq(Callers)
         /\ waiters # <<>> => Tail(waiters) \in Seq(Callers)
         /\ \A i \in DOMAIN waiters : Without(waiters, i) \in Seq(Callers)
<1>1. \A i \in DOMAIN waiters :
        /\ SubSeq(waiters, 1, i - 1) \in Seq(Callers)
        /\ SubSeq(waiters, i + 1, Len(waiters)) \in Seq(Callers)
  BY DEF TypeOK
<1> QED
  BY <1>1 DEF TypeOK, Without

(* Every step of a coroutine preserves the inductive invariant. *)
LEMMA NextGateInv == GateInv /\ [Next]_gateVars => GateInv'
<1> SUFFICES ASSUME GateInv, [Next]_gateVars PROVE GateInv'
  OBVIOUS
<1> USE DEF InGate
<1>0. TypeOK
  BY DEF GateInv
<1>1. CASE UNCHANGED gateVars
  BY <1>1 DEF gateVars, GateInv, TypeOK, MutualExclusion,
              BlockedAdmitsOnlyBlocker, EpochsFence, Waits
<1>2. ASSUME NEW p \in Callers, NEW o \in OpIds, AcquireAtOnce(p, o)
      PROVE  GateInv'
  <2>1. holder = None /\ ~ InGate(p) /\ blocked = None
    BY <1>2 DEF AcquireAtOnce, AcquireAllowed, LockFree
  <2> QED
    BY <1>0, <1>2, <2>1, TakeKeepsInv DEF AcquireAtOnce, TypeOK
<1>3. ASSUME NEW p \in Callers, NEW o \in OpIds, AcquireWait(p, o)
      PROVE  GateInv'
  BY <1>0, <1>3, QueueTyped, QueueKeepsInv DEF AcquireWait
<1>4. ASSUME NEW p \in Callers, NEW o \in OpIds, ReconcileAtOnce(p, o)
      PROVE  GateInv'
  <2>1. holder = None /\ ~ InGate(p)
    BY <1>4 DEF ReconcileAtOnce, LockFree
  <2> QED
    BY <1>0, <1>4, <2>1, TakeKeepsInv DEF ReconcileAtOnce, TypeOK
<1>5. ASSUME NEW p \in Callers, NEW o \in OpIds, ReconcileWait(p, o)
      PROVE  GateInv'
  BY <1>0, <1>5, QueueTyped, QueueKeepsInv DEF ReconcileWait
<1>6. ASSUME NEW p \in Callers, AcquireWakes(p) PROVE GateInv'
  <2>1. /\ holder = None /\ ~ InGate(p) /\ waiters' \in Seq(Callers)
        /\ op[p] \in OpIds /\ op' = op /\ op' = [op EXCEPT ![p] = op[p]]
    BY <1>0, <1>6, QueueTyped
    DEF AcquireWakes, Woken, GateInv, EpochsFence, Waits, TypeOK
  <2>2. CASE blocked # None
    BY <1>6, <2>1, <2>2, QueueKeepsInv DEF AcquireWakes
  <2>3. CASE blocked = None
    BY <1>6, <2>1, <2>3, TakeKeepsInv DEF AcquireWakes
  <2> QED
    BY <2>2, <2>3
<1>7. ASSUME NEW p \in Callers, AcquireTimesOut(p) PROVE GateInv'
  BY <1>0, <1>7, QueueTyped, QueueKeepsInv DEF AcquireTimesOut
<1>8. ASSUME NEW p \in Callers, Release(p) PROVE GateInv'
  <2>1. holder = p
    BY <1>8, ActiveIsHolder DEF Release
  <2> QED
    BY <1>0, <1>8, <2>1, LeaveKeepsInv DEF Release, TypeOK
<1>9. ASSUME NEW p \in Callers, Block(p) PROVE GateInv'
  <2>1. owner = lease[p] /\ lease[p] \in GateOwner
    BY <1>0, <1>9, ActiveIsHolder DEF Block, TypeOK
  <2>2. blocked' \in OpIds /\ blocked' = owner.op
    BY <1>9, <2>1 DEF Block, GateOwner
  <2> QED
    BY <1>9, <2>2 DEF Block, GateInv, TypeOK, MutualExclusion,
                      BlockedAdmitsOnlyBlocker, EpochsFence, Waits
<1>10. ASSUME NEW p \in Callers,
              GuardBegins(p) \/ GuardEnds(p)
       PROVE  GateInv'
  <2>1. /\ pc[p] \in {"held", "guarded"} /\ holder = p /\ owner = lease[p]
        /\ owner # None
    BY <1>10, ActiveIsHolder, GateAssumption
    DEF GuardBegins, GuardEnds, GateInv, MutualExclusion
  <2>2. /\ pc'[p] \in {"held", "guarded"}
        /\ \A q \in Callers : q # p => pc'[q] = pc[q]
        /\ pc' \in [Callers -> PcValues]
        /\ UNCHANGED <<holder, waiters, owner, epoch, blocked, op, lease>>
    BY <1>0, <1>10 DEF GuardBegins, GuardEnds, Goto, TypeOK, PcValues
  <2>3. lastWrite' \in Nat /\ lastWrite' <= epoch
    <3>1. lastWrite' = lastWrite \/ lastWrite' = owner.epoch
      BY <1>10, <2>1 DEF GuardBegins, GuardEnds
    <3> QED
      BY <1>0, <2>1, <3>1 DEF GateInv, EpochsFence, TypeOK
  <2>4. TypeOK'
    BY <1>0, <2>2, <2>3 DEF TypeOK
  <2>5. MutualExclusion'
    BY <2>1, <2>2 DEF GateInv, MutualExclusion
  <2>6. BlockedAdmitsOnlyBlocker' /\ EpochsFence'
    BY <2>1, <2>2, <2>3 DEF GateInv, BlockedAdmitsOnlyBlocker, EpochsFence,
                            Waits
  <2> QED
    BY <2>4, <2>5, <2>6 DEF GateInv
<1>11. ASSUME NEW p \in Callers, ReconcileWakes(p) PROVE GateInv'
  <2>1. /\ holder = None /\ ~ InGate(p) /\ waiters' \in Seq(Callers)
        /\ op[p] \in OpIds /\ op' = op /\ op' = [op EXCEPT ![p] = op[p]]
    BY <1>0, <1>11, QueueTyped
    DEF ReconcileWakes, Woken, GateInv, EpochsFence, Waits, TypeOK
  <2>2. CASE blocked # op[p]
    BY <1>11, <2>1, <2>2, QueueKeepsInv DEF ReconcileWakes
  <2>3. CASE blocked = op[p]
    BY <1>11, <2>1, <2>3, TakeKeepsInv DEF ReconcileWakes
  <2> QED
    BY <2>2, <2>3
<1>12. ASSUME NEW p \in Callers, ReconcileEnds(p) PROVE GateInv'
  <2>1. holder = p
    BY <1>12 DEF ReconcileEnds, GateInv, MutualExclusion
  <2> QED
    BY <1>0, <1>12, <2>1, LeaveKeepsInv DEF ReconcileEnds, TypeOK
<1> QED
  BY <1>1, <1>2, <1>3, <1>4, <1>5, <1>6, <1>7, <1>8, <1>9, <1>10, <1>11, <1>12
  DEF Next

(* The inductive invariant holds throughout. *)
LEMMA GateInvariant == Spec => []GateInv
BY InitGateInv, NextGateInv, PTL DEF Spec

(* Owner, latch, waiters and leases keep their shapes: an owner is always a  *)
(* full GateOwner record and only coroutines of the task are in the queue.   *)
THEOREM GateTypeCorrect == Spec => []TypeOK
<1>1. GateInv => TypeOK
  BY DEF GateInv
<1> QED
  BY <1>1, GateInvariant, PTL

(* Never two coroutines inside the gate, and the one inside is the one that  *)
(* _owner and the newest lease describe.                                     *)
THEOREM GateExcludes == Spec => []MutualExclusion
<1>1. GateInv => MutualExclusion
  BY DEF GateInv
<1> QED
  BY <1>1, GateInvariant, PTL

(* A BLOCKED gate is owned by nobody but the operation that blocked it.      *)
THEOREM BlockedGateFences == Spec => []BlockedAdmitsOnlyBlocker
<1>1. GateInv => BlockedAdmitsOnlyBlocker
  BY DEF GateInv
<1> QED
  BY <1>1, GateInvariant, PTL

(* The BLOCKED latch is cleared by the reconciliation of the operation that  *)
(* set it, and by nothing else.                                              *)
THEOREM OnlyReconciliationUnblocks == Spec => LatchClearedByBlocker
<1>1. ASSUME GateInv, [Next]_gateVars, blocked # None, blocked' # blocked
      PROVE  /\ blocked' = None
             /\ \E p \in Callers :
                  pc[p] = "recovery" /\ op[p] = blocked /\ pc'[p] = "idle"
  <2>1. PICK p \in Callers : Block(p) \/ ReconcileEnds(p)
    BY <1>1 DEF Next, gateVars, AcquireAtOnce, AcquireWait, ReconcileAtOnce,
       ReconcileWait, AcquireWakes, AcquireTimesOut, Release, GuardBegins,
       GuardEnds, ReconcileWakes
  <2>2. CASE Block(p)
    <3>1. owner = lease[p] /\ owner # None /\ blocked' = owner.op
      BY <1>1, <2>2, ActiveIsHolder DEF Block
    <3> QED
      BY <1>1, <3>1 DEF GateInv, BlockedAdmitsOnlyBlocker
  <2>3. CASE ReconcileEnds(p)
    <3>1. pc[p] = "recovery" /\ blocked' = None /\ pc'[p] = "idle"
      BY <1>1, <2>3 DEF ReconcileEnds, Goto, GateInv, TypeOK
    <3>2. owner # None /\ owner.op = op[p]
      BY <1>1, <3>1, GateAssumption DEF GateInv, MutualExclusion, InGate
    <3> QED
      BY <1>1, <3>1, <3>2 DEF GateInv, BlockedAdmitsOnlyBlocker
  <2> QED
    BY <2>1, <2>2, <2>3
<1>2. GateInv /\ [Next]_gateVars =>
        [blocked # None /\ blocked' # blocked =>
           /\ blocked' = None
           /\ \E p \in Callers :
                pc[p] = "recovery" /\ op[p] = blocked /\ pc'[p] = "idle"]_gateVars
  BY <1>1
<1> QED
  BY <1>2, GateInvariant, PTL DEF Spec, LatchClearedByBlocker

(* Guarded writes are committed in the order of the gate's epochs: a lease   *)
(* that was released or superseded commits nothing.                          *)
THEOREM WritesAreFenced == Spec => WritesFollowEpochs
<1>1. ASSUME GateInv, [Next]_gateVars
      PROVE  [lastWrite' >= lastWrite /\ lastWrite' <= epoch]_gateVars
  <2>1. CASE lastWrite' = lastWrite
    BY <1>1, <2>1 DEF GateInv, EpochsFence, TypeOK
  <2>2. CASE lastWrite' # lastWrite
    <3>1. PICK p \in Callers : GuardEnds(p)
      BY <1>1, <2>2 DEF Next, gateVars, AcquireAtOnce, AcquireWait,
         ReconcileAtOnce, ReconcileWait, AcquireWakes, AcquireTimesOut,
         Release, Block, GuardBegins, ReconcileWakes, ReconcileEnds
    <3>2. lastWrite' = lease[p].epoch /\ lease[p] = owner /\ owner # None
      BY <1>1, <2>2, <3>1, GateAssumption
      DEF GuardEnds, GateInv, MutualExclusion, InGate
    <3> QED
      BY <1>1, <3>2 DEF GateInv, EpochsFence, TypeOK
  <2> QED
    BY <2>1, <2>2
<1> QED
  BY <1>1, GateInvariant, PTL DEF Spec, WritesFollowEpochs
=============================================================================
