---------------------------- MODULE MessageQueue ----------------------------
(***************************************************************************)
(* MultiTaskMessageQueue: put_sample_once admits every completed sample to *)
(* the bounded native queue at most once, however often its producer sends *)
(* it again.  A row of the completion ledger is reserved before the native *)
(* put is awaited and completed after it; the lock spans both.             *)
(***************************************************************************)
EXTENDS Naturals, Sequences, FiniteSets

CONSTANTS
  Producers,   \* put_sample calls that may run at the same time
  Samples,     \* logical sample ids
  Digests,     \* payload digests
  MaxQueue,    \* max_queue_size of the native queue
  MaxFailures, \* bound on native puts and ledger updates that raise
  MaxEnds,     \* bound on termination signals
  None

(* A row of completion_evidence. *)
Row == [digest : Digests, seq : Nat, dropped_oldest : BOOLEAN \cup {None}]

ASSUME QueueAssumption ==
  /\ MaxQueue \in Nat \ {0}
  /\ MaxFailures \in Nat
  /\ MaxEnds \in Nat
  /\ None \notin Samples \cup Producers \cup BOOLEAN
  /\ None \notin Row /\ None \notin Samples \X Digests

VARIABLES
  queue,     \* native queue of samples; None is the termination signal
  rows,      \* completion_evidence: sample -> row, or None
  next_seq,  \* _next_completion_seq
  lock,      \* producer that holds _completion_lock, or None
  sending,   \* sample and digest each producer is putting, or None
  enqueued,  \* how often each sample was put into the queue (history)
  dropped,   \* how many entries the native queue discarded (history)
  failures,  \* failures so far
  ends       \* termination signals so far

vars == <<queue, rows, next_seq, lock, sending, enqueued, dropped, failures, ends>>

TypeOK ==
  /\ queue \in Seq(Samples \cup {None}) /\ Len(queue) <= MaxQueue
  /\ rows \in [Samples -> Row \cup {None}]
  /\ next_seq \in Nat
  /\ lock \in Producers \cup {None}
  /\ sending \in [Producers -> (Samples \X Digests) \cup {None}]
  /\ enqueued \in [Samples -> Nat]
  /\ dropped \in Nat /\ failures \in Nat /\ ends \in Nat

Init ==
  /\ queue = <<>>
  /\ rows = [s \in Samples |-> None]
  /\ next_seq = 0
  /\ lock = None
  /\ sending = [p \in Producers |-> None]
  /\ enqueued = [s \in Samples |-> 0]
  /\ dropped = 0
  /\ failures = 0
  /\ ends = 0

Fails == failures < MaxFailures /\ failures' = failures + 1

Send(p, s, d) ==
  /\ sending[p] = None
  /\ sending' = [sending EXCEPT ![p] = <<s, d>>]
  /\ UNCHANGED <<queue, rows, next_seq, lock, enqueued, dropped, failures, ends>>

Unlocked == lock = None

(* Faulty variant: a duplicate overwrites the digest of the first. *)
DuplicateOverwrites(p) ==
  /\ sending[p] # None /\ lock # p
  /\ Unlocked
  /\ rows[sending[p][1]] # None
  /\ rows' = [rows EXCEPT ![sending[p][1]].digest = sending[p][2]]
  /\ sending' = [sending EXCEPT ![p] = None]
  /\ UNCHANGED <<queue, next_seq, lock, enqueued, dropped, failures, ends>>

(* The sample is known: its evidence is returned again, or the call raises   *)
(* because the digest differs or the row is unresolved.                      *)
Duplicate(p) ==
  /\ sending[p] # None /\ lock # p
  /\ Unlocked
  /\ rows[sending[p][1]] # None
  /\ sending' = [sending EXCEPT ![p] = None]
  /\ UNCHANGED <<queue, rows, next_seq, lock, enqueued, dropped, failures, ends>>

(* Faulty variant: the row claims an outcome before the put. *)
ProvisionalAsFinal(d) == [digest |-> d, seq |-> next_seq, dropped_oldest |-> FALSE]

(* The row of a new sample, before the native put is awaited. *)
Provisional(d) == [digest |-> d, seq |-> next_seq, dropped_oldest |-> None]

(* Faulty variant: the sequence number is not used up. *)
ReserveSameNumber(p) ==
  /\ sending[p] # None /\ lock # p
  /\ Unlocked
  /\ rows[sending[p][1]] = None
  /\ rows' = [rows EXCEPT ![sending[p][1]] = Provisional(sending[p][2])]
  /\ lock' = p
  /\ UNCHANGED <<queue, next_seq, sending, enqueued, dropped, failures, ends>>

Reserve(p) ==
  /\ sending[p] # None /\ lock # p
  /\ Unlocked
  /\ rows[sending[p][1]] = None
  /\ rows' = [rows EXCEPT ![sending[p][1]] = Provisional(sending[p][2])]
  /\ next_seq' = next_seq + 1
  /\ lock' = p
  /\ UNCHANGED <<queue, sending, enqueued, dropped, failures, ends>>

(* The native queue discards its oldest entry when it is full. *)
Full == Len(queue) >= MaxQueue

NativePut(x) ==
  /\ queue' = Append(IF Full THEN Tail(queue) ELSE queue, x)
  /\ dropped' = dropped + (IF Full THEN 1 ELSE 0)

(* Faulty variant: the reservation of a failed put is removed. *)
RemovedAfterFailure(row) == None

(* The row after a native put that raised: it stays as it is. *)
AfterFailure(row) == row

Put(p) ==
  LET s == sending[p][1]
      Enqueue == NativePut(s) /\ enqueued' = [enqueued EXCEPT ![s] = @ + 1]
  IN  /\ lock = p
      /\ \/ (* put and recorded *)
            /\ Enqueue
            /\ rows' = [rows EXCEPT ![s].dropped_oldest = Full]
            /\ UNCHANGED failures
         \/ (* the put raised, with or without effect on the queue *)
            /\ Fails
            /\ Enqueue \/ UNCHANGED <<queue, dropped, enqueued>>
            /\ rows' = [rows EXCEPT ![s] = AfterFailure(@)]
         \/ (* put, and the evidence could not be recorded *)
            /\ Fails
            /\ Enqueue
            /\ UNCHANGED rows
      /\ lock' = None
      /\ sending' = [sending EXCEPT ![p] = None]
      /\ UNCHANGED <<next_seq, ends>>

(* The termination signal bypasses the ledger. *)
PutEnd ==
  /\ ends < MaxEnds
  /\ ends' = ends + 1
  /\ NativePut(None)
  /\ UNCHANGED <<rows, next_seq, lock, sending, enqueued, failures>>

Get ==
  /\ queue # <<>>
  /\ queue' = Tail(queue)
  /\ UNCHANGED <<rows, next_seq, lock, sending, enqueued, dropped, failures, ends>>

Next ==
  \/ \E p \in Producers, s \in Samples, d \in Digests : Send(p, s, d)
  \/ \E p \in Producers : Duplicate(p)
  \/ \E p \in Producers : Reserve(p)
  \/ \E p \in Producers : Put(p)
  \/ PutEnd
  \/ Get

Spec == Init /\ [][Next]_vars

-----------------------------------------------------------------------------
(* Properties *)

(* However often a sample is sent, by whichever producer and after whichever *)
(* failure, the trainer can get it once at most.                             *)
AtMostOnce == \A s \in Samples : enqueued[s] <= 1

(* The samples whose producers were told that the put discarded an entry.    *)
Told == {s \in Samples : rows[s] # None /\ rows[s].dropped_oldest = TRUE}

(* A completed row is evidence of an enqueue, and of a discarded entry if it *)
(* says so: the drops the producers are told of, with those that failures    *)
(* and termination signals can hide, account for what the queue discarded.   *)
EvidenceIsTruthful ==
  /\ TypeOK
  /\ \A s \in Samples : rows[s] # None /\ rows[s].dropped_oldest # None
                        => enqueued[s] = 1
  /\ Cardinality(Told) <= dropped
  /\ dropped <= Cardinality(Told) + failures + ends

(* The sequence numbers of the evidence are the order of the queue, although *)
(* the ledger and the queue are changed on either side of an await.          *)
SequenceIsQueueOrder ==
  \A i, j \in DOMAIN queue :
    i < j /\ queue[i] # None /\ queue[j] # None
      => rows[queue[i]].seq < rows[queue[j]].seq

(* Evidence that was returned once is returned forever. *)
EvidenceIsStable ==
  [][\A s \in Samples : rows[s] # None /\ rows[s].dropped_oldest # None
       => rows'[s] = rows[s]]_vars
=============================================================================
