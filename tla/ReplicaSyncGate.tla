-------------------------- MODULE ReplicaSyncGate ---------------------------
(***************************************************************************)
(* The gate G of one task: a fair asyncio lock that serialises native      *)
(* weight synchronisation, ADD, DONATE/REMOVE and RESTORE, with an epoch   *)
(* that fences old leases and a BLOCKED latch for side effects whose       *)
(* outcome is unknown.                                                     *)
(*                                                                         *)
(* Coroutines interleave only where the code awaits: while they wait for   *)
(* the lock, inside a guarded call, and inside the reconciliation          *)
(* callback.  A coroutine keeps its GateLease after releasing it and may   *)
(* try to use it again.                                                    *)
(***************************************************************************)
EXTENDS Naturals, Sequences

CONSTANTS
  Callers,   \* coroutines of the Trainer actor that use the gate
  OpIds,     \* operation_ids they act for
  MaxEpoch,  \* bound on _epoch: how often the gate may be asked for
  None       \* no owner, no lease, not blocked

ASSUME GateAssumption ==
  /\ MaxEpoch \in Nat
  /\ None \notin OpIds
  /\ None \notin Callers
  /\ None \notin [op : OpIds, epoch : Nat]

VARIABLES
  holder,    \* caller for whom _lock is locked, or None
  waiters,   \* FIFO of callers suspended in _lock.acquire()
  owner,     \* _owner: operation and epoch, or None
  epoch,     \* _epoch
  blocked,   \* _blocked_operation_id, or None when HEALTHY
  pc,        \* where each caller is
  op,        \* operation each caller last acted for, or None
  lease,     \* GateLease.owner each caller was last given, or None
  lastWrite  \* epoch of the last guarded write that was committed

gateVars == <<holder, waiters, owner, epoch, blocked, pc, op, lease, lastWrite>>

GateOwner == [op : OpIds, epoch : Nat]

PcValues == {"idle", "acquiring", "reconciling", "held", "guarded", "recovery"}

TypeOK ==
  /\ holder \in Callers \cup {None}
  /\ waiters \in Seq(Callers)
  /\ owner \in GateOwner \cup {None}
  /\ epoch \in Nat
  /\ blocked \in OpIds \cup {None}
  /\ pc \in [Callers -> PcValues]
  /\ op \in [Callers -> OpIds \cup {None}]
  /\ lease \in [Callers -> GateOwner \cup {None}]
  /\ lastWrite \in Nat

Init ==
  /\ holder = None
  /\ waiters = <<>>
  /\ owner = None
  /\ epoch = 0
  /\ blocked = None
  /\ pc = [p \in Callers |-> "idle"]
  /\ op = [p \in Callers |-> None]
  /\ lease = [p \in Callers |-> None]
  /\ lastWrite = 0

(* Faulty variant: the epoch of the lease is not compared. *)
IsActiveAnyEpoch(o) == owner # None /\ owner.op = o.op /\ holder # None

IsActive(o) == owner = o /\ holder # None

Goto(p, label) == pc' = [pc EXCEPT ![p] = label]

(* A caller gets past _lock.acquire() at once when nobody holds or awaits    *)
(* the lock, and otherwise queues.                                           *)
LockFree == holder = None /\ waiters = <<>>

(* The bound limits new calls only, so that everyone who waits can be served. *)
WithinBound == epoch + Len(waiters) < MaxEpoch

(* Faulty variant: a waiter runs on although the lock is still held. *)
WokenEarly(p) == waiters # <<>> /\ Head(waiters) = p

(* First in the queue, and the lock has been released. *)
Woken(p) == holder = None /\ waiters # <<>> /\ Head(waiters) = p

(* Faulty variant: the lock is taken in the name of the operation. *)
OwnByOperation(p, o) ==
  /\ holder' = o
  /\ epoch' = epoch + 1
  /\ owner' = [op |-> o, epoch |-> epoch + 1]

Own(p, o) ==
  /\ holder' = p
  /\ epoch' = epoch + 1
  /\ owner' = [op |-> o, epoch |-> epoch + 1]

-----------------------------------------------------------------------------
(* acquire *)

AcquireAllowed(o) == blocked = None /\ (owner # None => owner.op # o)

AcquireAtOnce(p, o) ==
  /\ pc[p] = "idle"
  /\ WithinBound
  /\ AcquireAllowed(o)
  /\ LockFree
  /\ Own(p, o)
  /\ lease' = [lease EXCEPT ![p] = [op |-> o, epoch |-> epoch + 1]]
  /\ op' = [op EXCEPT ![p] = o]
  /\ Goto(p, "held")
  /\ UNCHANGED <<waiters, blocked, lastWrite>>

AcquireWait(p, o) ==
  /\ pc[p] = "idle"
  /\ WithinBound
  /\ AcquireAllowed(o)
  /\ ~ LockFree
  /\ waiters' = Append(waiters, p)
  /\ op' = [op EXCEPT ![p] = o]
  /\ Goto(p, "acquiring")
  /\ UNCHANGED <<holder, owner, epoch, blocked, lease, lastWrite>>

(* Faulty variant: a woken waiter does not look at the latch again. *)
AcquireWakesUnchecked(p) ==
  /\ pc[p] = "acquiring"
  /\ Woken(p)
  /\ waiters' = Tail(waiters)
  /\ Own(p, op[p])
  /\ lease' = [lease EXCEPT ![p] = [op |-> op[p], epoch |-> epoch + 1]]
  /\ Goto(p, "held")
  /\ UNCHANGED <<blocked, op, lastWrite>>

(* The wake-up re-check: the previous owner may have blocked the gate. *)
AcquireWakes(p) ==
  /\ pc[p] = "acquiring"
  /\ Woken(p)
  /\ waiters' = Tail(waiters)
  /\ \/ /\ blocked # None
        /\ Goto(p, "idle")
        /\ UNCHANGED <<holder, owner, epoch, lease>>
     \/ /\ blocked = None
        /\ Own(p, op[p])
        /\ lease' = [lease EXCEPT ![p] = [op |-> op[p], epoch |-> epoch + 1]]
        /\ Goto(p, "held")
  /\ UNCHANGED <<blocked, op, lastWrite>>

Without(s, i) == SubSeq(s, 1, i - 1) \o SubSeq(s, i + 1, Len(s))

(* Faulty variant: a waiter that timed out stays in the queue. *)
TimesOutInQueue(p) ==
  /\ pc[p] = "acquiring"
  /\ Goto(p, "idle")
  /\ UNCHANGED <<holder, waiters, owner, epoch, blocked, op, lease, lastWrite>>

(* GateTimeoutError: the waiter gives up its place. *)
AcquireTimesOut(p) ==
  /\ pc[p] = "acquiring"
  /\ \E i \in DOMAIN waiters : waiters[i] = p /\ waiters' = Without(waiters, i)
  /\ Goto(p, "idle")
  /\ UNCHANGED <<holder, owner, epoch, blocked, op, lease, lastWrite>>

-----------------------------------------------------------------------------
(* A lease in use *)

(* Faulty variant: releasing a lease resets the latch. *)
ReleaseResets(p) ==
  /\ pc[p] \in {"held", "idle"}
  /\ lease[p] # None
  /\ IsActive(lease[p])
  /\ owner' = None
  /\ holder' = None
  /\ blocked' = None
  /\ Goto(p, "idle")
  /\ UNCHANGED <<waiters, epoch, op, lease, lastWrite>>

Release(p) ==
  /\ pc[p] \in {"held", "idle"}
  /\ lease[p] # None
  /\ IsActive(lease[p])
  /\ owner' = None
  /\ holder' = None
  /\ Goto(p, "idle")
  /\ UNCHANGED <<waiters, epoch, blocked, op, lease, lastWrite>>

(* Callers block in their except clause and release in the finally after it. *)
Block(p) ==
  /\ pc[p] \in {"held", "idle"}
  /\ lease[p] # None
  /\ IsActive(lease[p])
  /\ blocked' = lease[p].op
  /\ UNCHANGED <<holder, waiters, owner, epoch, pc, op, lease, lastWrite>>

GuardBegins(p) ==
  /\ pc[p] \in {"held", "idle"}
  /\ lease[p] # None
  /\ IsActive(lease[p])
  /\ Goto(p, "guarded")
  /\ UNCHANGED <<holder, waiters, owner, epoch, blocked, op, lease, lastWrite>>

(* The result of the guarded call is used only if the lease is still active  *)
(* and the gate healthy when the call returns; the call may also fail.       *)
GuardEnds(p) ==
  /\ pc[p] = "guarded"
  /\ Goto(p, "held")
  /\ \/ /\ IsActive(lease[p]) /\ blocked = None
        /\ lastWrite' = lease[p].epoch
     \/ UNCHANGED lastWrite
  /\ UNCHANGED <<holder, waiters, owner, epoch, blocked, op, lease>>

-----------------------------------------------------------------------------
(* reconcile *)

ReconcileAtOnce(p, o) ==
  /\ pc[p] = "idle"
  /\ WithinBound
  /\ blocked = o
  /\ LockFree
  /\ Own(p, o)
  /\ op' = [op EXCEPT ![p] = o]
  /\ Goto(p, "recovery")
  /\ UNCHANGED <<waiters, blocked, lease, lastWrite>>

ReconcileWait(p, o) ==
  /\ pc[p] = "idle"
  /\ WithinBound
  /\ blocked = o
  /\ ~ LockFree
  /\ waiters' = Append(waiters, p)
  /\ op' = [op EXCEPT ![p] = o]
  /\ Goto(p, "reconciling")
  /\ UNCHANGED <<holder, owner, epoch, blocked, lease, lastWrite>>

(* Another reconciler may have cleared the latch, or another operation may   *)
(* have set it again, while this one waited.                                 *)
ReconcileWakes(p) ==
  /\ pc[p] = "reconciling"
  /\ Woken(p)
  /\ waiters' = Tail(waiters)
  /\ \/ /\ blocked # op[p]
        /\ Goto(p, "idle")
        /\ UNCHANGED <<holder, owner, epoch>>
     \/ /\ blocked = op[p]
        /\ Own(p, op[p])
        /\ Goto(p, "recovery")
  /\ UNCHANGED <<blocked, op, lease, lastWrite>>

(* The callback returned: that is the proof that clears the latch.  When it  *)
(* raises, the latch stays.                                                  *)
ReconcileEnds(p) ==
  /\ pc[p] = "recovery"
  /\ blocked' \in {None, blocked}
  /\ owner' = None
  /\ holder' = None
  /\ Goto(p, "idle")
  /\ UNCHANGED <<waiters, epoch, op, lease, lastWrite>>

-----------------------------------------------------------------------------
Next ==
  \/ \E p \in Callers, o \in OpIds :
       \/ AcquireAtOnce(p, o)
       \/ AcquireWait(p, o)
       \/ ReconcileAtOnce(p, o)
       \/ ReconcileWait(p, o)
  \/ \E p \in Callers :
       \/ AcquireWakes(p)
       \/ AcquireTimesOut(p)
       \/ Release(p)
       \/ Block(p)
       \/ GuardBegins(p)
       \/ GuardEnds(p)
       \/ ReconcileWakes(p)
       \/ ReconcileEnds(p)

(* The event loop resumes a woken coroutine; a guarded call or a             *)
(* reconciliation callback ends, and the finally clause of every caller      *)
(* releases its lease.                                                       *)
Fairness ==
  \A p \in Callers :
    /\ WF_gateVars(AcquireWakes(p))
    /\ WF_gateVars(ReconcileWakes(p))
    /\ SF_gateVars(Release(p))
    /\ WF_gateVars(GuardEnds(p))
    /\ WF_gateVars(ReconcileEnds(p))

Spec == Init /\ [][Next]_gateVars

FairSpec == Spec /\ Fairness

-----------------------------------------------------------------------------
(* Properties *)

Waits(p) == pc[p] \in {"acquiring", "reconciling"}

InGate(p) == pc[p] \in {"held", "guarded", "recovery"}

(* At most one coroutine is between acquire and release, or inside a         *)
(* reconciliation callback, and it is the one _owner describes: the old      *)
(* lease of a coroutine that released can neither keep nor drop the lock of  *)
(* its successor.                                                            *)
MutualExclusion ==
  /\ \A p \in Callers : InGate(p) <=> holder = p
  /\ holder = None <=> owner = None
  /\ \A p \in Callers :
       pc[p] \in {"held", "guarded"} => lease[p] = owner
  /\ \A p \in Callers : pc[p] = "recovery" => owner.op = op[p]

(* While the gate is BLOCKED the only operation that can own it is the one   *)
(* that blocked it: waiters queued before the block are turned away, and     *)
(* recovery belongs to the blocking operation.                               *)
BlockedAdmitsOnlyBlocker ==
  blocked # None /\ owner # None => owner.op = blocked

(* The latch is cleared only by the end of a reconciliation that runs for    *)
(* the operation that set it ("There is deliberately no boolean reset"), and *)
(* one operation never takes over another operation's latch.                 *)
LatchClearedByBlocker ==
  [][blocked # None /\ blocked' # blocked =>
       /\ blocked' = None
       /\ \E p \in Callers :
            pc[p] = "recovery" /\ op[p] = blocked /\ pc'[p] = "idle"]_gateVars

(* A guarded write is committed only by the newest lease: once a later epoch *)
(* has written, no earlier lease writes again.                               *)
WritesFollowEpochs == [][lastWrite' >= lastWrite /\ lastWrite' <= epoch]_gateVars

(* Every coroutine that waits for the gate stops waiting: it gets it, is     *)
(* turned away or times out.                                                 *)
WaitersAreServed ==
  \A p \in Callers : Waits(p) ~> ~ Waits(p)
=============================================================================
