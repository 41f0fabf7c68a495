------------------------- MODULE MessageQueueProofs -------------------------
(***************************************************************************)
(* Proofs about the completion message queue, for any number of producers, *)
(* samples, failures and termination signals and any queue size.           *)
(***************************************************************************)
EXTENDS MessageQueue, SequenceTheorems, FiniteSetTheorems, TLAPS

Completed(s) == rows[s] # None /\ rows[s].dropped_oldest # None

(* What makes the at-most-once promise inductive: a sample without a row was *)
(* never put, and the row of the put in flight is provisional.               *)
LedgerInv ==
  /\ \A s \in Samples : rows[s] = None => enqueued[s] = 0
  /\ \A s \in Samples : Completed(s) => enqueued[s] = 1
  /\ AtMostOnce
  /\ lock # None =>
       /\ sending[lock] # None
       /\ rows[sending[lock][1]] # None
       /\ ~ Completed(sending[lock][1])
       /\ enqueued[sending[lock][1]] = 0

(* What makes the order inductive: the numbers are used up, and the put in   *)
(* flight has a number above every number in the queue.                      *)
OrderInv ==
  /\ \A s \in Samples : rows[s] # None => rows[s].seq < next_seq
  /\ \A i \in DOMAIN queue : queue[i] # None =>
       /\ rows[queue[i]] # None
       /\ lock # None => rows[queue[i]].seq < rows[sending[lock][1]].seq
  /\ SequenceIsQueueOrder

(* The account of the discarded entries. *)
DropsInv ==
  /\ IsFiniteSet(Told)
  /\ Cardinality(Told) <= dropped
  /\ dropped <= Cardinality(Told) + failures + ends

QueueInv == TypeOK /\ LedgerInv /\ OrderInv /\ DropsInv

(* A provisional row is a row, so it is never mistaken for its absence. *)
LEMMA ProvisionalIsRow ==
  ASSUME next_seq \in Nat, NEW d \in Digests
  PROVE  /\ Provisional(d) \in Row
         /\ Provisional(d) # None
         /\ Provisional(d).seq = next_seq
         /\ Provisional(d).dropped_oldest = None
<1>1. Provisional(d) \in Row
  BY DEF Provisional, Row
<1> QED
  BY <1>1, QueueAssumption DEF Provisional

(* The native put appends one entry; a full queue loses its oldest first. *)
LEMMA NativePutShifts ==
  ASSUME TypeOK, NEW x \in Samples \cup {None}, NativePut(x)
  PROVE  \E k \in {0, 1} :
           /\ k = IF Full THEN 1 ELSE 0
           /\ k <= Len(queue)
           /\ queue' \in Seq(Samples \cup {None})
           /\ Len(queue') = Len(queue) - k + 1
           /\ Len(queue') <= MaxQueue
           /\ \A i \in 1..(Len(queue) - k) : queue'[i] = queue[i + k]
           /\ queue'[Len(queue) - k + 1] = x
           /\ dropped' = dropped + k
<1> DEFINE T == Samples \cup {None}
<1>0. queue \in Seq(T) /\ Len(queue) \in Nat /\ Len(queue) <= MaxQueue
      /\ MaxQueue \in Nat /\ MaxQueue > 0 /\ dropped \in Nat
  BY QueueAssumption, LenProperties DEF TypeOK
<1>1. CASE Full
  <2>1. queue # << >>
    BY <1>0, <1>1 DEF Full
  <2>2. /\ Tail(queue) \in Seq(T)
        /\ Len(Tail(queue)) = Len(queue) - 1
        /\ \A i \in 1..Len(Tail(queue)) : Tail(queue)[i] = queue[i + 1]
    BY <1>0, <2>1, HeadTailProperties
  <2>3. queue' = Append(Tail(queue), x)
    BY <1>1 DEF NativePut
  <2>4. /\ queue' \in Seq(T)
        /\ Len(queue') = Len(Tail(queue)) + 1
        /\ \A i \in 1..Len(Tail(queue)) : queue'[i] = Tail(queue)[i]
        /\ queue'[Len(Tail(queue)) + 1] = x
    BY <2>2, <2>3, AppendProperties
  <2>5. dropped' = dropped + 1 /\ 1 <= Len(queue)
    BY <1>0, <1>1 DEF NativePut, Full
  <2> QED
    BY <1>0, <1>1, <2>2, <2>4, <2>5
<1>2. CASE ~ Full
  <2>1. queue' = Append(queue, x)
    BY <1>2 DEF NativePut
  <2>2. /\ queue' \in Seq(T)
        /\ Len(queue') = Len(queue) + 1
        /\ \A i \in 1..Len(queue) : queue'[i] = queue[i]
        /\ queue'[Len(queue) + 1] = x
    BY <1>0, <2>1, AppendProperties
  <2>3. dropped' = dropped + 0 /\ Len(queue) < MaxQueue
    BY <1>0, <1>2 DEF NativePut, Full
  <2> QED
    BY <1>0, <1>2, <2>2, <2>3
<1> QED
  BY <1>1, <1>2

(* An empty queue satisfies the inductive invariant. *)
LEMMA InitQueueInv == Init => QueueInv
<1> SUFFICES ASSUME Init PROVE QueueInv
  OBVIOUS
<1>1. TypeOK
  BY QueueAssumption DEF Init, TypeOK
<1>2. LedgerInv /\ OrderInv
  BY DEF Init, LedgerInv, OrderInv, AtMostOnce, SequenceIsQueueOrder, Completed
<1>3. Told = {}
  BY DEF Init, Told
<1>4. DropsInv
  BY <1>3, FS_EmptySet DEF Init, DropsInv
<1> QED
  BY <1>1, <1>2, <1>4 DEF QueueInv

(* A call of put_sample, and its end as a duplicate, change no evidence. *)
LEMMA SendKeepsInv ==
  ASSUME QueueInv, NEW p \in Producers, lock # p,
         sending' \in [Producers -> (Samples \X Digests) \cup {None}],
         \A q \in Producers : q # p => sending'[q] = sending[q],
         UNCHANGED <<queue, rows, next_seq, lock, enqueued, dropped, failures, ends>>
  PROVE  QueueInv'
<1>1. TypeOK'
  BY DEF QueueInv, TypeOK
<1>2. lock # None => lock \in Producers /\ sending'[lock] = sending[lock]
  BY DEF QueueInv, TypeOK
<1>3. LedgerInv' /\ OrderInv'
  BY <1>2 DEF QueueInv, LedgerInv, OrderInv, AtMostOnce, SequenceIsQueueOrder, Completed
<1>4. DropsInv'
  BY DEF QueueInv, DropsInv, Told
<1> QED
  BY <1>1, <1>3, <1>4 DEF QueueInv

(* The row is reserved, with a number above every number in the queue. *)
LEMMA ReserveKeepsInv ==
  ASSUME QueueInv, NEW p \in Producers, Reserve(p)
  PROVE  QueueInv'
<1> DEFINE s == sending[p][1]
           d == sending[p][2]
<1>1. /\ s \in Samples /\ d \in Digests /\ next_seq \in Nat
      /\ rows[s] = None /\ lock = None /\ p # None
      /\ lock' = p /\ next_seq' = next_seq + 1
      /\ rows' = [rows EXCEPT ![s] = Provisional(d)]
      /\ UNCHANGED <<queue, sending, enqueued, dropped, failures, ends>>
      /\ sending[p] # None
  BY QueueAssumption DEF QueueInv, TypeOK, Reserve, Unlocked
<1>2. /\ Provisional(d) \in Row
      /\ Provisional(d) # None
      /\ Provisional(d).seq = next_seq
      /\ Provisional(d).dropped_oldest = None
  BY <1>1, ProvisionalIsRow
<1>3. /\ rows'[s] = Provisional(d)
      /\ \A t \in Samples : t # s => rows'[t] = rows[t]
  BY <1>1 DEF QueueInv, TypeOK
<1>4. TypeOK'
  BY <1>1, <1>2 DEF QueueInv, TypeOK
<1>5. LedgerInv'
  BY <1>1, <1>2, <1>3 DEF QueueInv, LedgerInv, AtMostOnce, Completed
<1>6. \A i \in DOMAIN queue : queue[i] # None =>
        /\ queue[i] \in Samples /\ queue[i] # s
        /\ rows[queue[i]] \in Row /\ rows[queue[i]].seq < next_seq
  BY <1>1 DEF QueueInv, OrderInv, TypeOK
<1>7. OrderInv'
  <2>1. \A t \in Samples : rows'[t] # None => rows'[t].seq < next_seq'
    <3> SUFFICES ASSUME NEW t \in Samples, rows'[t] # None
                 PROVE  rows'[t].seq < next_seq + 1
      BY <1>1
    <3>1. CASE t = s
      BY <1>1, <1>2, <1>3, <3>1
    <3>2. CASE t # s
      <4>1. rows[t].seq < next_seq /\ rows[t].seq \in Nat
        BY <1>3, <3>2 DEF QueueInv, OrderInv, TypeOK, Row
      <4> QED
        BY <1>1, <1>3, <3>2, <4>1
    <3> QED
      BY <3>1, <3>2
  <2>2. \A i \in DOMAIN queue' : queue'[i] # None =>
          rows'[queue'[i]] # None /\ rows'[queue'[i]].seq < rows'[s].seq
    BY <1>1, <1>2, <1>3, <1>6 DEF QueueInv, OrderInv
  <2>3. SequenceIsQueueOrder'
    BY <1>1, <1>3, <1>6 DEF QueueInv, OrderInv, SequenceIsQueueOrder
  <2> QED
    BY <1>1, <2>1, <2>2, <2>3 DEF OrderInv
<1>8. Told' = Told
  BY <1>1, <1>2, <1>3, QueueAssumption DEF Told
<1>9. DropsInv'
  BY <1>1, <1>8 DEF QueueInv, DropsInv
<1> QED
  BY <1>4, <1>5, <1>7, <1>9 DEF QueueInv

(* The queue after a native put of the sample in flight, or of the           *)
(* termination signal: the order is kept because the lock spans the put.     *)
LEMMA NativePutKeepsOrder ==
  ASSUME TypeOK, OrderInv, NEW x \in Samples \cup {None}, NativePut(x),
         x # None => /\ rows[x] # None
                     /\ \A i \in DOMAIN queue :
                          queue[i] # None => rows[queue[i]].seq < rows[x].seq,
         \A s \in Samples : rows[s] # None =>
                            rows'[s] # None /\ rows'[s].seq = rows[s].seq
  PROVE  /\ \A i \in DOMAIN queue' :
              queue'[i] # None => /\ rows'[queue'[i]] # None
                                  /\ \/ queue'[i] = x
                                     \/ \E j \in DOMAIN queue : queue'[i] = queue[j]
         /\ SequenceIsQueueOrder'
<1>1. PICK k \in {0, 1} :
        /\ k <= Len(queue)
        /\ queue' \in Seq(Samples \cup {None})
        /\ Len(queue') = Len(queue) - k + 1
        /\ \A i \in 1..(Len(queue) - k) : queue'[i] = queue[i + k]
        /\ queue'[Len(queue) - k + 1] = x
  BY NativePutShifts
<1>2. /\ DOMAIN queue = 1..Len(queue) /\ Len(queue) \in Nat
      /\ DOMAIN queue' = 1..(Len(queue) - k + 1)
  BY <1>1, LenProperties DEF TypeOK
<1>3. \A j \in DOMAIN queue : queue[j] # None =>
        /\ queue[j] \in Samples
        /\ rows'[queue[j]] # None
        /\ rows'[queue[j]].seq = rows[queue[j]].seq
  BY ElementOfSeq, <1>2 DEF TypeOK, OrderInv
<1>4. x # None => rows'[x] # None /\ rows'[x].seq = rows[x].seq
  OBVIOUS
<1>5. \A i \in DOMAIN queue' :
        \/ i = Len(queue) - k + 1 /\ queue'[i] = x
        \/ i \in 1..(Len(queue) - k) /\ i + k \in DOMAIN queue
           /\ queue'[i] = queue[i + k]
  BY <1>1, <1>2
<1>6. ASSUME NEW i \in DOMAIN queue', NEW j \in DOMAIN queue',
             i < j, queue'[i] # None, queue'[j] # None
      PROVE  rows'[queue'[i]].seq < rows'[queue'[j]].seq
  <2>1. i \in 1..(Len(queue) - k) /\ i + k \in DOMAIN queue
        /\ queue'[i] = queue[i + k]
    BY <1>1, <1>2, <1>5, <1>6
  <2>2. CASE queue'[j] = x
    BY <1>3, <1>4, <1>6, <2>1, <2>2
  <2>3. CASE j + k \in DOMAIN queue /\ queue'[j] = queue[j + k]
    <3>1. i + k < j + k
      BY <1>1, <1>2, <1>6
    <3> QED
      BY <1>3, <1>6, <2>1, <2>3, <3>1 DEF OrderInv, SequenceIsQueueOrder
  <2> QED
    BY <1>5, <2>2, <2>3
<1>7. SequenceIsQueueOrder'
  BY <1>6 DEF SequenceIsQueueOrder
<1> QED
  BY <1>3, <1>4, <1>5, <1>7

(* The lock is released: nothing of the order then depends on it. *)
LEMMA PutOrder ==
  ASSUME QueueInv, NEW p \in Producers, lock = p, lock' = None,
         next_seq' = next_seq,
         NativePut(sending[p][1]) \/ UNCHANGED queue,
         \A s \in Samples :
           /\ rows[s] = None => rows'[s] = None
           /\ rows[s] # None => rows'[s] # None /\ rows'[s].seq = rows[s].seq
  PROVE  OrderInv'
<1>1. /\ sending[p][1] \in Samples /\ sending[p][1] # None
      /\ rows[sending[p][1]] # None /\ lock # None
  BY QueueAssumption DEF QueueInv, TypeOK, LedgerInv
<1>2. \A s \in Samples : rows'[s] # None => rows'[s].seq < next_seq'
  BY DEF QueueInv, OrderInv
<1>3. CASE NativePut(sending[p][1])
  <2>1. \A i \in DOMAIN queue : queue[i] # None =>
          rows[queue[i]].seq < rows[sending[p][1]].seq
    BY <1>1 DEF QueueInv, OrderInv
  <2>2. /\ \A i \in DOMAIN queue' : queue'[i] # None => rows'[queue'[i]] # None
        /\ SequenceIsQueueOrder'
    BY <1>1, <1>3, <2>1, NativePutKeepsOrder DEF QueueInv
  <2> QED
    BY <1>2, <2>2 DEF OrderInv
<1>4. CASE UNCHANGED queue
  <2>1. \A i \in DOMAIN queue : queue[i] # None => queue[i] \in Samples
    BY ElementOfSeq, LenProperties DEF QueueInv, TypeOK
  <2>2. SequenceIsQueueOrder'
    BY <1>4, <2>1 DEF QueueInv, OrderInv, SequenceIsQueueOrder
  <2> QED
    BY <1>2, <1>4, <2>1, <2>2 DEF QueueInv, OrderInv
<1> QED
  BY <1>3, <1>4

(* The outcomes of a native put: recorded, raised or not recorded. *)
LEMMA PutKeepsInv ==
  ASSUME QueueInv, NEW p \in Producers, Put(p)
  PROVE  QueueInv'
<1> DEFINE s == sending[p][1]
<1>1. /\ s \in Samples /\ s # None /\ p # None /\ lock = p /\ lock' = None
      /\ rows[s] \in Row /\ rows[s] # None /\ rows[s].dropped_oldest = None
      /\ enqueued[s] = 0
      /\ sending' = [sending EXCEPT ![p] = None]
      /\ next_seq' = next_seq /\ ends' = ends
  BY QueueAssumption DEF QueueInv, TypeOK, LedgerInv, Completed, Put
<1>2. \/ /\ NativePut(s) /\ enqueued' = [enqueued EXCEPT ![s] = @ + 1]
         /\ rows' = [rows EXCEPT ![s].dropped_oldest = Full]
         /\ failures' = failures
      \/ /\ NativePut(s) /\ enqueued' = [enqueued EXCEPT ![s] = @ + 1]
         /\ rows' = rows
         /\ failures' = failures + 1
      \/ /\ UNCHANGED <<queue, dropped, enqueued>>
         /\ rows' = rows
         /\ failures' = failures + 1
  <2>1. [rows EXCEPT ![s] = AfterFailure(@)] = rows
    BY <1>1 DEF AfterFailure, QueueInv, TypeOK
  <2> QED
    BY <2>1 DEF Put, Fails
<1>3. /\ Full \in BOOLEAN
      /\ [rows[s] EXCEPT !.dropped_oldest = Full] \in Row
      /\ [rows[s] EXCEPT !.dropped_oldest = Full] # None
      /\ [rows[s] EXCEPT !.dropped_oldest = Full].seq = rows[s].seq
      /\ [rows[s] EXCEPT !.dropped_oldest = Full].dropped_oldest = Full
  <2>1. Full \in BOOLEAN
    BY DEF Full
  <2>2. ASSUME NEW b \in BOOLEAN
        PROVE  /\ [rows[s] EXCEPT !.dropped_oldest = b] \in Row
               /\ [rows[s] EXCEPT !.dropped_oldest = b] # None
               /\ [rows[s] EXCEPT !.dropped_oldest = b].seq = rows[s].seq
               /\ [rows[s] EXCEPT !.dropped_oldest = b].dropped_oldest = b
    <3>1. [rows[s] EXCEPT !.dropped_oldest = b] \in Row
      BY <1>1 DEF Row
    <3> QED
      BY <1>1, <3>1, QueueAssumption DEF Row
  <2> QED
    BY <2>1, <2>2
<1>4. /\ rows'[s] \in Row /\ rows'[s] # None /\ rows'[s].seq = rows[s].seq
      /\ \A t \in Samples : t # s => rows'[t] = rows[t]
      /\ rows' \in [Samples -> Row \cup {None}]
  BY <1>1, <1>2, <1>3 DEF QueueInv, TypeOK
<1>5. TypeOK'
  <2>1. queue' \in Seq(Samples \cup {None}) /\ Len(queue') <= MaxQueue
        /\ dropped' \in Nat
    BY <1>1, <1>2, NativePutShifts DEF QueueInv, TypeOK
  <2>2. enqueued' \in [Samples -> Nat] /\ failures' \in Nat
    BY <1>1, <1>2 DEF QueueInv, TypeOK
  <2> QED
    BY <1>1, <1>4, <2>1, <2>2 DEF QueueInv, TypeOK
<1>6. LedgerInv'
  <2>1. enqueued'[s] \in {0, 1} /\ \A t \in Samples : t # s => enqueued'[t] = enqueued[t]
    BY <1>1, <1>2 DEF QueueInv, TypeOK
  <2>2. rows'[s].dropped_oldest # None => enqueued'[s] = 1
    BY <1>1, <1>2 DEF QueueInv, TypeOK
  <2> QED
    BY <1>1, <1>4, <2>1, <2>2 DEF QueueInv, LedgerInv, AtMostOnce, Completed
<1>7. OrderInv'
  BY <1>1, <1>2, <1>4, PutOrder
<1>8. DropsInv'
  <2>1. /\ IsFiniteSet(Told) /\ Cardinality(Told) \in Nat /\ s \notin Told
        /\ IsFiniteSet(Told \cup {s})
        /\ Cardinality(Told \cup {s}) = Cardinality(Told) + 1
        /\ dropped \in Nat /\ failures \in Nat /\ ends \in Nat
        /\ Cardinality(Told) <= dropped
        /\ dropped <= Cardinality(Told) + failures + ends
    <3>1. s \notin Told
      BY <1>1, QueueAssumption DEF Told
    <3> QED
      BY <3>1, FS_AddElement, FS_CardinalityType DEF QueueInv, DropsInv, TypeOK
  <2>2. CASE NativePut(s) /\ rows' = [rows EXCEPT ![s].dropped_oldest = Full]
             /\ failures' = failures
    <3>1. rows'[s].dropped_oldest = Full
      BY <1>1, <1>3, <2>2 DEF QueueInv, TypeOK
    <3>2. CASE Full
      <4>1. rows'[s].dropped_oldest = TRUE
        BY <3>1, <3>2
      <4>2. Told' = Told \cup {s}
        BY <1>1, <1>4, <4>1 DEF Told
      <4>3. dropped' = dropped + 1
        BY <2>2, <3>2 DEF NativePut
      <4> QED
        BY <1>1, <2>1, <2>2, <4>2, <4>3 DEF DropsInv
    <3>3. CASE ~ Full
      <4>1. rows'[s].dropped_oldest = FALSE
        BY <3>1, <3>3
      <4>2. Told' = Told
        BY <1>1, <1>4, <2>1, <4>1 DEF Told
      <4>3. dropped' = dropped + 0
        BY <2>2, <3>3 DEF NativePut
      <4> QED
        BY <1>1, <2>1, <2>2, <4>2, <4>3 DEF DropsInv
    <3> QED
      BY <3>2, <3>3
  <2>3. CASE rows' = rows /\ failures' = failures + 1
             /\ (NativePut(s) \/ dropped' = dropped)
    <3>1. Told' = Told
      BY <2>3 DEF Told
    <3>2. dropped' \in {dropped, dropped + 1}
      BY <2>1, <2>3 DEF NativePut
    <3> QED
      BY <1>1, <2>1, <2>3, <3>1, <3>2 DEF DropsInv
  <2> QED
    BY <1>2, <2>2, <2>3
<1> QED
  BY <1>5, <1>6, <1>7, <1>8 DEF QueueInv

(* The termination signal takes a place in the queue and no row. *)
LEMMA PutEndKeepsInv ==
  ASSUME QueueInv, PutEnd
  PROVE  QueueInv'
<1>1. TypeOK'
  <2>1. queue' \in Seq(Samples \cup {None}) /\ Len(queue') <= MaxQueue
        /\ dropped' \in Nat
    BY NativePutShifts DEF QueueInv, TypeOK, PutEnd
  <2> QED
    BY <2>1 DEF QueueInv, TypeOK, PutEnd
<1>2. LedgerInv'
  BY DEF QueueInv, LedgerInv, PutEnd, AtMostOnce, Completed
<1>3. OrderInv'
  <2>1. /\ \A i \in DOMAIN queue' :
              queue'[i] # None => /\ rows'[queue'[i]] # None
                                  /\ \E j \in DOMAIN queue : queue'[i] = queue[j]
        /\ SequenceIsQueueOrder'
    <3>1. TypeOK /\ OrderInv /\ NativePut(None) /\ rows' = rows
      BY DEF QueueInv, PutEnd
    <3> QED
      BY <3>1, NativePutKeepsOrder
  <2> QED
    BY <2>1 DEF QueueInv, OrderInv, PutEnd
<1>4. DropsInv'
  <2>1. Told' = Told
    BY DEF Told, PutEnd
  <2>2. dropped' \in {dropped, dropped + 1} /\ dropped \in Nat
    BY DEF QueueInv, TypeOK, PutEnd, NativePut
  <2>3. Cardinality(Told) \in Nat
    BY FS_CardinalityType DEF QueueInv, DropsInv
  <2> QED
    BY <2>1, <2>2, <2>3 DEF QueueInv, DropsInv, TypeOK, PutEnd
<1> QED
  BY <1>1, <1>2, <1>3, <1>4 DEF QueueInv

(* Taking the oldest entry keeps the order of the others. *)
LEMMA GetKeepsInv ==
  ASSUME QueueInv, Get
  PROVE  QueueInv'
<1>1. /\ queue' \in Seq(Samples \cup {None})
      /\ Len(queue') = Len(queue) - 1 /\ Len(queue) \in Nat
      /\ DOMAIN queue' = 1..Len(queue') /\ DOMAIN queue = 1..Len(queue)
      /\ \A i \in 1..Len(queue') : queue'[i] = queue[i + 1]
  BY HeadTailProperties, LenProperties DEF QueueInv, TypeOK, Get
<1>2. \A i \in DOMAIN queue' : i + 1 \in DOMAIN queue /\ queue'[i] = queue[i + 1]
  BY <1>1
<1>3. TypeOK'
  BY <1>1, QueueAssumption DEF QueueInv, TypeOK, Get
<1>4. LedgerInv'
  BY DEF QueueInv, LedgerInv, Get, AtMostOnce, Completed
<1>5. SequenceIsQueueOrder'
  <2> SUFFICES ASSUME NEW i \in DOMAIN queue', NEW j \in DOMAIN queue',
                      i < j, queue'[i] # None, queue'[j] # None
               PROVE  rows[queue'[i]].seq < rows[queue'[j]].seq
    BY DEF SequenceIsQueueOrder, Get
  <2>1. i + 1 < j + 1
    BY <1>1
  <2> QED
    BY <1>2, <2>1 DEF QueueInv, OrderInv, SequenceIsQueueOrder
<1>6. OrderInv'
  BY <1>2, <1>5 DEF QueueInv, OrderInv, Get
<1>7. DropsInv'
  BY DEF QueueInv, DropsInv, Told, Get
<1> QED
  BY <1>3, <1>4, <1>6, <1>7 DEF QueueInv

(* Every step of the producers, of the queue and of its reader keeps the     *)
(* inductive invariant.                                                      *)
LEMMA NextQueueInv == QueueInv /\ [Next]_vars => QueueInv'
<1> SUFFICES ASSUME QueueInv, [Next]_vars PROVE QueueInv'
  OBVIOUS
<1>1. ASSUME NEW p \in Producers, NEW s \in Samples, NEW d \in Digests, Send(p, s, d)
      PROVE  QueueInv'
  <2>1. lock # p
    BY <1>1, QueueAssumption DEF QueueInv, LedgerInv, Send
  <2> QED
    BY <1>1, <2>1, SendKeepsInv DEF Send, QueueInv, TypeOK
<1>2. ASSUME NEW p \in Producers, Duplicate(p) PROVE QueueInv'
  BY <1>2, SendKeepsInv DEF Duplicate, QueueInv, TypeOK
<1>3. ASSUME NEW p \in Producers, Reserve(p) PROVE QueueInv'
  BY <1>3, ReserveKeepsInv
<1>4. ASSUME NEW p \in Producers, Put(p) PROVE QueueInv'
  BY <1>4, PutKeepsInv
<1>5. CASE PutEnd
  BY <1>5, PutEndKeepsInv
<1>6. CASE Get
  BY <1>6, GetKeepsInv
<1>7. CASE UNCHANGED vars
  BY <1>7 DEF vars, QueueInv, TypeOK, LedgerInv, OrderInv, DropsInv, AtMostOnce,
     SequenceIsQueueOrder, Completed, Told
<1> QED
  BY <1>1, <1>2, <1>3, <1>4, <1>5, <1>6, <1>7 DEF Next

(* The inductive invariant holds in every reachable state. *)
LEMMA QueueInvariant == Spec => []QueueInv
BY InitQueueInv, NextQueueInv, PTL DEF Spec

(* put_sample_once keeps its name: whatever producers send, however often    *)
(* and after whichever failure, a sample enters the queue once at most.      *)
THEOREM SampleEntersOnce == Spec => []AtMostOnce
<1>1. QueueInv => AtMostOnce
  BY DEF QueueInv, LedgerInv
<1> QED
  BY <1>1, QueueInvariant, PTL

(* The evidence of a put is true, and accounts for the discarded entries.    *)
THEOREM EvidenceIsTrue == Spec => []EvidenceIsTruthful
<1>1. QueueInv => EvidenceIsTruthful
  BY DEF QueueInv, LedgerInv, DropsInv, EvidenceIsTruthful, Completed
<1> QED
  BY <1>1, QueueInvariant, PTL

(* completion_seq orders the queue, although the number is drawn before the  *)
(* put is awaited and other producers run meanwhile.                         *)
THEOREM NumbersOrderTheQueue == Spec => []SequenceIsQueueOrder
<1>1. QueueInv => SequenceIsQueueOrder
  BY DEF QueueInv, OrderInv
<1> QED
  BY <1>1, QueueInvariant, PTL

(* A completed row is never changed: a repeated call gets the same answer.   *)
THEOREM EvidenceNeverChanges == Spec => EvidenceIsStable
<1>1. ASSUME QueueInv, [Next]_vars, NEW s \in Samples, Completed(s)
      PROVE  rows'[s] = rows[s]
  <2>1. ASSUME NEW p \in Producers, Reserve(p) PROVE rows'[s] = rows[s]
    BY <1>1, <2>1 DEF Reserve, QueueInv, TypeOK, Completed
  <2>2. ASSUME NEW p \in Producers, Put(p) PROVE rows'[s] = rows[s]
    <3>1. sending[p][1] # s
      BY <1>1, <2>2, QueueAssumption DEF Put, QueueInv, LedgerInv
    <3> QED
      BY <1>1, <2>2, <3>1 DEF Put, AfterFailure, QueueInv, TypeOK
  <2> QED
    BY <1>1, <2>1, <2>2 DEF Next, vars, Send, Duplicate, PutEnd, Get
<1>2. QueueInv /\ [Next]_vars =>
        [\A s \in Samples : rows[s] # None /\ rows[s].dropped_oldest # None
           => rows'[s] = rows[s]]_vars
  BY <1>1 DEF Completed
<1> QED
  BY <1>2, QueueInvariant, PTL DEF Spec, EvidenceIsStable
=============================================================================
