------------------------ MODULE ParameterAuditProofs ------------------------
(***************************************************************************)
(* Proofs about the audit of weight transfers, for any number of workers,  *)
(* ranks, parameters, versions and failures.                               *)
(***************************************************************************)
EXTENDS ParameterAudit, SequenceTheorems, TLAPS

(* Bytes that a transfer may have sent: the actor's, of the version of its   *)
(* label unless training has overtaken it, and of a synchronisation those    *)
(* of the published weights.                                                 *)
Sent(b) ==
  \E v \in 0..version, k \in 0..MaxLocal :
    /\ b = <<v, k>>
    /\ v = steps \/ version > steps
    /\ ~ bootstrap => v = steps /\ k = 0

(* A manifest that a rank advertises, once the stream is sent, is of it.     *)
SourceIsSent ==
  sourced /\ phase # "idle" /\ sent = "done" =>
    \A r \in Ranks : source[r].complete =>
      \E b \in Bytes : Sent(b) /\ source[r].parameters = Whole(b)

(* What a transfer that is under way may touch: its receivers are the        *)
(* members, or a target that is none, and no other worker receives.  The     *)
(* training that waits for a synchronisation has not gone past its version.  *)
TransferInv ==
  /\ \A w \in Workers : stray[w] = "own" => recv[w] = "none"
  /\ due => local = 0
  /\ phase # "idle" =>
       /\ ~ blocked
       /\ ~ bootstrap => targets = Members /\ steps = version /\ due
       /\ \A w \in Workers : recv[w] # "none" => w \in targets

(* A member has one state of the actor, of the version that E has for it. *)
MembersLoaded ==
  sourced /\ (phase = "idle" \/ bootstrap) /\ ~ blocked =>
    \A w \in Members : \E k \in 0..MaxLocal : weights[w] = Whole(<<effective[w], k>>)

(* A receiving worker has loaded what its manifest lists. *)
LoadedIsListed ==
  phase # "idle" => \A w \in Workers : recv[w] # "none" =>
    \A i \in 1..Len(manifest[w].parameters) :
      weights[w][i] = manifest[w].parameters[i]

(* What the comparison of the manifests has established. *)
VerdictInv ==
  phase = "validated" =>
    /\ \A w \in targets : recv[w] = "done" /\ manifest[w].parameters # <<>>
    /\ \A w, u \in targets : manifest[w].parameters = manifest[u].parameters
    /\ sourced => \E b \in Bytes :
         Sent(b) /\ \A w \in targets : manifest[w].parameters = Whole(b)

AuditInv ==
  /\ ReceivingIsIncomplete
  /\ MembersLoaded
  /\ SourceIsSent
  /\ TransferInv
  /\ LoadedIsListed
  /\ VerdictInv

(* The manifests that the actors write. *)
LEMMA ManifestForms ==
  ASSUME NEW m \in Manifest
  PROVE  /\ Len(m.parameters) \in Nat
         /\ [m EXCEPT !.complete = TRUE] \in Manifest
         /\ [m EXCEPT !.complete = TRUE].parameters = m.parameters
         /\ [m EXCEPT !.complete = TRUE].steps = m.steps
<1>1. m.parameters \in Seq(Bytes)
  BY DEF Manifest
<1>2. Len(m.parameters) \in Nat
  BY <1>1, LenProperties
<1> QED
  BY <1>2 DEF Manifest

(* One more parameter in a manifest. *)
LEMMA ManifestGrows ==
  ASSUME NEW m \in Manifest, NEW b \in Bytes
  PROVE  LET n == Len(m.parameters) + 1
             g == [m EXCEPT !.parameters = Append(@, b)]
         IN  /\ g \in Manifest /\ Len(g.parameters) = n
             /\ g.complete = m.complete /\ g.steps = m.steps
             /\ g.parameters[n] = b
             /\ \A i \in 1..Len(m.parameters) : g.parameters[i] = m.parameters[i]
<1> DEFINE q == Append(m.parameters, b)
<1>1. m.parameters \in Seq(Bytes)
  BY DEF Manifest
<1>2. /\ q \in Seq(Bytes)
      /\ Len(q) = Len(m.parameters) + 1
      /\ \A i \in 1..Len(m.parameters) : q[i] = m.parameters[i]
      /\ q[Len(m.parameters) + 1] = b
  BY <1>1, AppendProperties
<1> HIDE DEF q
<1>3. /\ [m EXCEPT !.parameters = q] \in Manifest
      /\ [m EXCEPT !.parameters = q].parameters = q
      /\ [m EXCEPT !.parameters = q].complete = m.complete
      /\ [m EXCEPT !.parameters = q].steps = m.steps
  BY <1>2 DEF Manifest
<1> QED
  BY <1>2, <1>3 DEF q

(* Streams of bytes, damaged or whole. *)
LEMMA Streams ==
  /\ Garbage \in Bytes
  /\ \A v \in 0..MaxVersion, k \in 0..MaxLocal : <<v, k>> \in Bytes
  /\ \A b \in Bytes : /\ Whole(b) \in [1..Parameters -> Bytes]
                      /\ Whole(b) \in Seq(Bytes) /\ Len(Whole(b)) = Parameters
                      /\ \A i \in 1..Parameters : Whole(b)[i] = b
<1>1. /\ Garbage \in Bytes
      /\ \A v \in 0..MaxVersion, k \in 0..MaxLocal : <<v, k>> \in Bytes
  BY DEF Bytes
<1>2. ASSUME NEW b \in Bytes
      PROVE  /\ Whole(b) \in [1..Parameters -> Bytes]
             /\ Whole(b) \in Seq(Bytes) /\ Len(Whole(b)) = Parameters
             /\ \A i \in 1..Parameters : Whole(b)[i] = b
  <2>1. Whole(b) = [i \in 1..Parameters |-> b] /\ Parameters \in Nat
    BY AuditAssumption DEF Whole
  <2>2. Whole(b) \in Seq(Bytes)
    BY <2>1, IsASeq
  <2>3. Len(Whole(b)) = Parameters
    BY <2>1, <2>2, LenProperties
  <2> QED
    BY <2>1, <2>2, <2>3
<1> QED
  BY <1>1, <1>2

(* A manifest that is about to be filled, and one of a whole stream. *)
LEMMA ManifestBegins ==
  ASSUME TypeOK
  PROVE  /\ Fresh \in Manifest /\ Fresh.complete = FALSE
         /\ Fresh.parameters = <<>> /\ Len(Fresh.parameters) = 0
         /\ Current \in Bytes
         /\ [complete |-> TRUE, steps |-> steps, parameters |-> Whole(Current)] \in Manifest
<1>1. steps \in 0..MaxVersion /\ version \in 0..MaxVersion /\ local \in 0..MaxLocal
  BY AuditAssumption DEF TypeOK
<1>2. Current \in Bytes
  BY <1>1, Streams DEF Current
<1>3. Whole(Current) \in Seq(Bytes)
  BY <1>2, Streams
<1>4. <<>> \in Seq(Bytes) /\ Len(<<>>) = 0
  OBVIOUS
<1> QED
  BY <1>1, <1>2, <1>3, <1>4 DEF Fresh, Manifest

(* Training starts in the inductive invariant. *)
LEMMA InitAuditInv == Init => AuditInv
<1> SUFFICES ASSUME Init PROVE AuditInv
  OBVIOUS
<1>1. NoManifest \in Manifest /\ NoManifest.complete = FALSE
      /\ Len(NoManifest.parameters) = 0
  BY DEF NoManifest, Manifest
<1>2. TypeOK
  <2>1. FlagsOK
    BY DEF Init, FlagsOK
  <2>2. Whole(<<0, 0>>) \in [1..Parameters -> Bytes]
    BY Streams, AuditAssumption
  <2> QED
    BY <1>1, <2>1, <2>2, AuditAssumption DEF Init, TypeOK
<1>3. ReceivingIsIncomplete
  BY <1>2 DEF Init, ReceivingIsIncomplete
<1>6. MembersLoaded
  <2>1. ASSUME NEW w \in Members
        PROVE  weights[w] = Whole(<<effective[w], 0>>) /\ 0 \in 0..MaxLocal
    <3>1. w \in Workers /\ effective[w] = 0 /\ weights[w] = Whole(<<0, 0>>)
      BY DEF Init, Members
    <3> QED
      BY <3>1, AuditAssumption
  <2> QED
    BY <2>1 DEF MembersLoaded
<1>4. SourceIsSent
  BY <1>1 DEF Init, SourceIsSent
<1>5. TransferInv /\ LoadedIsListed /\ VerdictInv
  BY DEF Init, TransferInv, LoadedIsListed, VerdictInv
<1> QED
  BY <1>3, <1>4, <1>5, <1>6 DEF AuditInv

(* A step of one receiving worker.  The hypotheses say what the step may     *)
(* write: no complete manifest while it receives, bytes that its manifest    *)
(* lists, and nothing that a verdict rests on.                               *)
LEMMA WorkerKeepsInv ==
  ASSUME AuditInv, NEW w \in Workers,
         UNCHANGED <<trainVars, sourced, effective, blocked, transferVars, source, sent>>,
         faults' \in 0..MaxFaults,
         recv' \in [Workers -> {"none", "running", "consumed", "done", "failed"}],
         manifest' \in [Workers -> Manifest],
         stray' \in [Workers -> {"no", "own", "old"}],
         weights' \in [Workers -> [1..Parameters -> Bytes]],
         \A u \in Workers : u # w =>
           /\ recv'[u] = recv[u] /\ manifest'[u] = manifest[u]
           /\ stray'[u] = stray[u] /\ weights'[u] = weights[u],
         Len(manifest'[w].parameters) <= Parameters,
         recv'[w] \in {"running", "consumed", "failed"} => ~ manifest'[w].complete,
         stray'[w] = "own" => recv'[w] = "none",
         phase # "idle" /\ recv'[w] # "none" => w \in targets,
         phase # "idle" /\ recv'[w] # "none" =>
           \A i \in 1..Len(manifest'[w].parameters) :
             weights'[w][i] = manifest'[w].parameters[i],
         phase = "validated" =>
           recv'[w] = recv[w] /\ manifest'[w].parameters = manifest[w].parameters,
         weights'[w] = weights[w] \/ (phase = "transfer" /\ w \in targets)
  PROVE  AuditInv'
<1>0. /\ phase' = phase /\ steps' = steps /\ targets' = targets /\ bootstrap' = bootstrap
      /\ sourced' = sourced /\ blocked' = blocked /\ effective' = effective
  BY DEF trainVars, transferVars
<1>1. TypeOK
  BY DEF AuditInv, ReceivingIsIncomplete
<1>2. Members' = Members /\ targets' = targets /\ targets \subseteq Workers
  BY <1>1 DEF Members, trainVars, transferVars, TypeOK
<1>3. TypeOK'
  <2>1. FlagsOK'
    BY <1>1 DEF TypeOK, FlagsOK, trainVars, transferVars
  <2>2. \A u \in Workers : Len(manifest'[u].parameters) <= Parameters
    BY <1>1 DEF TypeOK
  <2> QED
    BY <1>0, <1>1, <1>2, <2>1, <2>2 DEF TypeOK, trainVars, transferVars
<1>4. ReceivingIsIncomplete'
  BY <1>1, <1>3 DEF AuditInv, ReceivingIsIncomplete
<1>5. MembersLoaded'
  <2> SUFFICES ASSUME sourced, phase = "idle" \/ bootstrap, ~ blocked,
                      NEW u \in Members
               PROVE  \E k \in 0..MaxLocal : weights'[u] = Whole(<<effective[u], k>>)
    BY <1>0, <1>2 DEF MembersLoaded
  <2>1. /\ \E k \in 0..MaxLocal : weights[u] = Whole(<<effective[u], k>>)
        /\ u \in Workers
    BY DEF AuditInv, MembersLoaded, Members
  <2>2. u = w => weights'[w] = weights[w]
    BY <1>1 DEF TypeOK
  <2> QED
    BY <1>1, <2>1, <2>2
<1>6. SourceIsSent' /\ TransferInv'
  BY <1>1, <1>2 DEF AuditInv, SourceIsSent, Sent, TransferInv, trainVars, transferVars
<1>7. LoadedIsListed'
  <2> SUFFICES ASSUME phase # "idle", NEW u \in Workers, recv'[u] # "none",
                      NEW i \in 1..Len(manifest'[u].parameters)
               PROVE  weights'[u][i] = manifest'[u].parameters[i]
    BY <1>0 DEF LoadedIsListed
  <2>1. CASE u = w
    BY <2>1
  <2>2. CASE u # w
    BY <1>1, <2>2 DEF AuditInv, LoadedIsListed
  <2> QED
    BY <2>1, <2>2
<1>8. VerdictInv'
  <2> SUFFICES ASSUME phase = "validated" PROVE VerdictInv'
    BY DEF VerdictInv, trainVars, transferVars
  <2>1. \A u \in targets : /\ recv'[u] = recv[u]
                           /\ manifest'[u].parameters = manifest[u].parameters
    BY <1>1, <1>2
  <2>2. \A b : Sent(b)' <=> Sent(b)
    BY DEF Sent, trainVars, transferVars
  <2>3. /\ \A u \in targets : recv[u] = "done" /\ manifest[u].parameters # <<>>
        /\ \A u, v \in targets : manifest[u].parameters = manifest[v].parameters
        /\ sourced => \E b \in Bytes :
             Sent(b) /\ \A u \in targets : manifest[u].parameters = Whole(b)
    BY DEF AuditInv, VerdictInv
  <2> QED
    BY <1>0, <2>1, <2>2, <2>3 DEF VerdictInv
<1> QED
  BY <1>4, <1>5, <1>6, <1>7, <1>8 DEF AuditInv

(* Spending a failure stays within the bound. *)
LEMMA FaultsBounded ==
  ASSUME TypeOK, Spend \/ UNCHANGED faults
  PROVE  faults' \in 0..MaxFaults
BY AuditAssumption DEF TypeOK, Spend

(* The steps of a receiver. *)
LEMMA ReceiverKeepsInv ==
  ASSUME AuditInv, NEW w \in Workers,
         \/ ReceiveStarts(w) \/ Receive(w) \/ StreamEnds(w)
         \/ ReceiveEnds(w) \/ ReceiveFails(w) \/ StrayEnds(w)
  PROVE  AuditInv'
<1>1. TypeOK /\ manifest[w] \in Manifest /\ Len(manifest[w].parameters) <= Parameters
  BY DEF AuditInv, ReceivingIsIncomplete, TypeOK
<1>2. /\ recv[w] \in {"running", "consumed", "failed"} => ~ manifest[w].complete
      /\ stray[w] = "own" => recv[w] = "none"
      /\ phase # "idle" /\ recv[w] # "none" => w \in targets
      /\ phase # "idle" /\ recv[w] # "none" =>
           \A i \in 1..Len(manifest[w].parameters) :
             weights[w][i] = manifest[w].parameters[i]
  BY DEF AuditInv, ReceivingIsIncomplete, TransferInv, LoadedIsListed
<1>3. /\ [manifest[w] EXCEPT !.complete = TRUE] \in Manifest
      /\ [manifest[w] EXCEPT !.complete = TRUE].parameters = manifest[w].parameters
  BY <1>1, ManifestForms
<1>4. CASE ReceiveStarts(w)
  <2>1. /\ manifest' = [manifest EXCEPT ![w] = Fresh]
        /\ Fresh \in Manifest /\ ~ Fresh.complete /\ Len(Fresh.parameters) = 0
    BY <1>1, <1>4, ManifestBegins DEF ReceiveStarts, Published
  <2>2. /\ recv' \in [Workers -> {"none", "running", "consumed", "done", "failed"}]
        /\ manifest' \in [Workers -> Manifest] /\ manifest'[w] = Fresh
        /\ stray' \in [Workers -> {"no", "own", "old"}] /\ stray'[w] # "own"
        /\ \A u \in Workers : u # w =>
             recv'[u] = recv[u] /\ manifest'[u] = manifest[u] /\ stray'[u] = stray[u]
    BY <1>1, <1>4, <2>1 DEF ReceiveStarts, TypeOK
  <2>3. phase = "transfer" /\ w \in targets /\ weights' = weights
    BY <1>4 DEF ReceiveStarts
  <2>4. weights \in [Workers -> [1..Parameters -> Bytes]] /\ Parameters \in Nat
    BY <1>1, AuditAssumption DEF TypeOK
  <2>5. /\ UNCHANGED <<trainVars, sourced, effective, blocked, transferVars, source, sent>>
        /\ faults' \in 0..MaxFaults
    BY <1>1, <1>4, FaultsBounded DEF ReceiveStarts
  <2> QED
    BY <2>1, <2>2, <2>3, <2>4, <2>5, WorkerKeepsInv
<1>5. CASE Receive(w)
  <2> DEFINE n == Len(manifest[w].parameters) + 1
  <2>1. PICK b \in {Current, Garbage} :
          /\ IF b = Current THEN UNCHANGED faults ELSE Spend
          /\ manifest' = [manifest EXCEPT ![w].parameters = Append(@, b)]
          /\ weights' = [weights EXCEPT ![w][n] = b]
    BY <1>5 DEF Receive
  <2> DEFINE g == [manifest[w] EXCEPT !.parameters = Append(@, b)]
  <2>2. /\ b \in Bytes /\ n \in 1..Parameters /\ Len(manifest[w].parameters) \in Nat
        /\ 1..Len(manifest[w].parameters) = 1..n \ {n} /\ Parameters \in Nat
    <3>1. Len(manifest[w].parameters) \in Nat
      BY <1>1, ManifestForms
    <3>2. b \in Bytes
      BY <1>1, <2>1, Streams, ManifestBegins
    <3> QED
      BY <1>1, <1>5, <3>1, <3>2, AuditAssumption DEF Receive
  <2>3. /\ g \in Manifest /\ Len(g.parameters) = n
        /\ g.complete = manifest[w].complete
        /\ g.parameters[n] = b
        /\ \A i \in 1..Len(manifest[w].parameters) : g.parameters[i] = manifest[w].parameters[i]
    BY <1>1, <2>2, ManifestGrows
  <2>4. /\ manifest' = [manifest EXCEPT ![w] = g]
        /\ weights' = [weights EXCEPT ![w] = [weights[w] EXCEPT ![n] = b]]
    BY <2>1
  <2> HIDE DEF g, n
  <2>5. /\ manifest' \in [Workers -> Manifest] /\ manifest'[w] = g
        /\ weights' \in [Workers -> [1..Parameters -> Bytes]]
        /\ weights'[w] = [weights[w] EXCEPT ![n] = b]
        /\ \A u \in Workers : u # w => manifest'[u] = manifest[u] /\ weights'[u] = weights[u]
    <3>1. [weights[w] EXCEPT ![n] = b] \in [1..Parameters -> Bytes]
      BY <1>1, <2>2 DEF TypeOK
    <3> QED
      BY <1>1, <2>3, <2>4, <3>1 DEF TypeOK
  <2>6. /\ phase = "transfer" /\ recv[w] = "running" /\ w \in targets
        /\ recv' = recv /\ stray' = stray
        /\ UNCHANGED <<trainVars, sourced, effective, blocked, transferVars, source, sent>>
    BY <1>2, <1>5 DEF Receive
  <2>7. weights[w] \in [1..Parameters -> Bytes]
    BY <1>1 DEF TypeOK
  <2>8. \A i \in 1..n : weights'[w][i] = g.parameters[i]
    <3> SUFFICES ASSUME NEW i \in 1..n PROVE weights'[w][i] = g.parameters[i]
      OBVIOUS
    <3>1. CASE i = n
      BY <2>2, <2>3, <2>5, <2>7, <3>1
    <3>2. CASE i # n
      <4>1. i \in 1..Len(manifest[w].parameters) /\ i \in 1..Parameters
        BY <2>2, <3>2
      <4>2. weights[w][i] = manifest[w].parameters[i]
        BY <1>2, <2>6, <4>1
      <4> QED
        BY <2>3, <2>5, <2>7, <3>2, <4>1, <4>2
    <3> QED
      BY <3>1, <3>2
  <2>9. faults' \in 0..MaxFaults
    BY <1>1, <2>1, FaultsBounded
  <2>10. /\ recv' \in [Workers -> {"none", "running", "consumed", "done", "failed"}]
         /\ stray' \in [Workers -> {"no", "own", "old"}]
    BY <1>1, <2>6 DEF TypeOK
  <2>11. /\ Len(manifest'[w].parameters) <= Parameters
         /\ ~ manifest'[w].complete
         /\ \A i \in 1..Len(manifest'[w].parameters) :
              weights'[w][i] = manifest'[w].parameters[i]
    BY <1>2, <2>2, <2>3, <2>5, <2>6, <2>8
  <2> QED
    BY <1>2, <2>5, <2>6, <2>9, <2>10, <2>11, WorkerKeepsInv
<1>6. CASE StreamEnds(w) \/ ReceiveFails(w)
  <2>1. /\ phase = "transfer" /\ recv[w] \in {"running", "consumed"}
        /\ recv' \in [Workers -> {"none", "running", "consumed", "done", "failed"}]
        /\ recv'[w] \in {"consumed", "failed"}
        /\ \A u \in Workers : u # w => recv'[u] = recv[u]
    BY <1>1, <1>6 DEF StreamEnds, ReceiveFails, TypeOK
  <2>2. /\ manifest' = manifest /\ stray' = stray /\ weights' = weights
        /\ UNCHANGED <<trainVars, sourced, effective, blocked, transferVars, source, sent>>
        /\ faults' \in 0..MaxFaults
    BY <1>1, <1>6, FaultsBounded DEF StreamEnds, ReceiveFails
  <2>3. /\ manifest \in [Workers -> Manifest]
        /\ stray \in [Workers -> {"no", "own", "old"}]
        /\ weights \in [Workers -> [1..Parameters -> Bytes]]
    BY <1>1 DEF TypeOK
  <2> QED
    BY <1>1, <1>2, <2>1, <2>2, <2>3, WorkerKeepsInv
<1>7. CASE ReceiveEnds(w)
  <2>1. /\ phase = "transfer" /\ recv[w] = "consumed"
        /\ recv' \in [Workers -> {"none", "running", "consumed", "done", "failed"}]
        /\ manifest' \in [Workers -> Manifest]
        /\ manifest'[w].parameters = manifest[w].parameters
        /\ \/ recv'[w] = "done"
           \/ recv'[w] = "failed" /\ manifest' = manifest
        /\ \A u \in Workers : u # w => recv'[u] = recv[u] /\ manifest'[u] = manifest[u]
    <3>1. \/ /\ recv' = [recv EXCEPT ![w] = "done"]
             /\ manifest' = [manifest EXCEPT ![w] = [manifest[w] EXCEPT !.complete = TRUE]]
          \/ /\ recv' = [recv EXCEPT ![w] = "failed"]
             /\ manifest' = manifest
      BY <1>7 DEF ReceiveEnds
    <3>2. phase = "transfer" /\ recv[w] = "consumed"
      BY <1>7 DEF ReceiveEnds
    <3> HIDE <1>7
    <3>3. /\ recv \in [Workers -> {"none", "running", "consumed", "done", "failed"}]
          /\ manifest \in [Workers -> Manifest]
      BY <1>1 DEF TypeOK
    <3>4. CASE /\ recv' = [recv EXCEPT ![w] = "done"]
               /\ manifest' = [manifest EXCEPT ![w] = [manifest[w] EXCEPT !.complete = TRUE]]
      BY <1>3, <3>2, <3>3, <3>4
    <3>5. CASE recv' = [recv EXCEPT ![w] = "failed"] /\ manifest' = manifest
      BY <3>2, <3>3, <3>5
    <3> QED
      BY <3>1, <3>4, <3>5
  <2>2. /\ stray' = stray /\ weights' = weights
        /\ UNCHANGED <<trainVars, sourced, effective, blocked, transferVars, source, sent>>
        /\ faults' \in 0..MaxFaults
    BY <1>1, <1>7, FaultsBounded DEF ReceiveEnds
  <2>3. /\ stray \in [Workers -> {"no", "own", "old"}]
        /\ weights \in [Workers -> [1..Parameters -> Bytes]]
    BY <1>1 DEF TypeOK
  <2> QED
    BY <1>1, <1>2, <2>1, <2>2, <2>3, WorkerKeepsInv
<1>8. CASE StrayEnds(w)
  <2>1. /\ manifest' \in [Workers -> Manifest]
        /\ manifest'[w].parameters = manifest[w].parameters
        /\ stray[w] # "own" => manifest'[w] = manifest[w]
        /\ stray' \in [Workers -> {"no", "own", "old"}] /\ stray'[w] = "no"
        /\ \A u \in Workers : u # w => stray'[u] = stray[u] /\ manifest'[u] = manifest[u]
    <3>1. /\ MarksOwn(w) \in Manifest
          /\ MarksOwn(w).parameters = manifest[w].parameters
          /\ stray[w] # "own" => MarksOwn(w) = manifest[w]
      BY <1>1, <1>3 DEF MarksOwn
    <3> QED
      BY <1>1, <1>8, <3>1 DEF StrayEnds, TypeOK
  <2>2. /\ recv' = recv /\ weights' = weights
        /\ UNCHANGED <<trainVars, sourced, effective, blocked, transferVars, source, sent>>
        /\ faults' \in 0..MaxFaults
    BY <1>1, <1>8, FaultsBounded DEF StrayEnds
  <2>3. /\ recv \in [Workers -> {"none", "running", "consumed", "done", "failed"}]
        /\ weights \in [Workers -> [1..Parameters -> Bytes]]
    BY <1>1 DEF TypeOK
  <2> QED
    BY <1>1, <1>2, <2>1, <2>2, <2>3, WorkerKeepsInv
<1> QED
  BY <1>4, <1>5, <1>6, <1>7, <1>8

(* Training goes on: only a bootstrap can be overtaken, and what it sent is  *)
(* then of its label or of an older version than training has reached.       *)
LEMMA TrainingKeepsInv ==
  ASSUME AuditInv, OptimizerStep \/ NewVersion
  PROVE  AuditInv'
<1>1. /\ UNCHANGED <<sourced, effective, blocked, phase, steps, targets, bootstrap,
                     sender, source, sent, recv, manifest, stray, weights, faults>>
      /\ phase = "idle" \/ bootstrap
  BY DEF OptimizerStep, NewVersion, Training, transferVars, receiverVars
<1>2. Members' = Members /\ TypeOK
  BY <1>1 DEF Members, AuditInv, ReceivingIsIncomplete
<1>3. /\ version' \in 0..MaxVersion /\ version \in 0..version'
      /\ local' \in 0..MaxLocal /\ due' \in BOOLEAN
      /\ due' => local' = 0
  <2>1. CASE OptimizerStep
    BY <1>2, <2>1, AuditAssumption DEF OptimizerStep, Training, TypeOK, FlagsOK
  <2>2. CASE NewVersion
    BY <1>2, <2>2, AuditAssumption DEF NewVersion, TypeOK, FlagsOK
  <2> QED
    BY <2>1, <2>2
<1>4. TypeOK'
  <2>1. FlagsOK'
    BY <1>1, <1>2, <1>3 DEF TypeOK, FlagsOK
  <2>2. steps \in 0..version'
    BY <1>2, <1>3 DEF TypeOK
  <2> QED
    BY <1>1, <1>2, <1>3, <2>1, <2>2 DEF TypeOK
<1>5. ReceivingIsIncomplete' /\ LoadedIsListed'
  BY <1>1, <1>4 DEF AuditInv, ReceivingIsIncomplete, LoadedIsListed
<1>6. MembersLoaded'
  BY <1>1, <1>2 DEF AuditInv, MembersLoaded
<1>7. TransferInv'
  BY <1>1, <1>2, <1>3 DEF AuditInv, TransferInv
<1>8. ASSUME phase # "idle", NEW b, Sent(b) PROVE Sent(b)'
  <2>1. PICK v \in 0..version, k \in 0..MaxLocal :
          /\ b = <<v, k>>
          /\ v = steps \/ version > steps
          /\ ~ bootstrap => v = steps /\ k = 0
    BY <1>8 DEF Sent
  <2>2. v \in 0..version' /\ (v = steps \/ version' > steps)
    BY <1>2, <1>3, <2>1 DEF TypeOK
  <2> QED
    BY <1>1, <2>1, <2>2 DEF Sent
<1>9. SourceIsSent'
  BY <1>1, <1>8 DEF AuditInv, SourceIsSent
<1>10. VerdictInv'
  BY <1>1, <1>8 DEF AuditInv, VerdictInv
<1> QED
  BY <1>5, <1>6, <1>7, <1>9, <1>10 DEF AuditInv

(* A member leaves E and loses its weights. *)
LEMMA LeaveKeepsInv ==
  ASSUME AuditInv, NEW w \in Workers, Leave(w)
  PROVE  AuditInv'
<1>1. /\ UNCHANGED <<version, local, due, sourced, blocked, phase, steps, targets, bootstrap,
                     sender, source, sent, recv, manifest, stray, faults>>
      /\ phase = "idle"
      /\ effective' = [effective EXCEPT ![w] = None]
      /\ weights' = [weights EXCEPT ![w] = Whole(Garbage)]
  BY DEF Leave, trainVars, transferVars
<1>2. TypeOK
  BY DEF AuditInv, ReceivingIsIncomplete
<1>3. TypeOK'
  <2>1. FlagsOK'
    BY <1>1, <1>2 DEF TypeOK, FlagsOK
  <2>2. effective' \in [Workers -> 0..MaxVersion \cup {None}]
    BY <1>1, <1>2 DEF TypeOK
  <2>3. weights' \in [Workers -> [1..Parameters -> Bytes]]
    BY <1>1, <1>2, Streams DEF TypeOK
  <2> QED
    BY <1>1, <1>2, <2>1, <2>2, <2>3 DEF TypeOK
<1>4. ReceivingIsIncomplete' /\ SourceIsSent'
  BY <1>1, <1>3 DEF AuditInv, ReceivingIsIncomplete, SourceIsSent
<1>5. MembersLoaded'
  <2>1. \A u \in Members' : /\ u \in Members /\ weights'[u] = weights[u]
                            /\ effective'[u] = effective[u]
    BY <1>1, <1>2 DEF Members, TypeOK
  <2> QED
    BY <1>1, <2>1 DEF AuditInv, MembersLoaded
<1>6. TransferInv' /\ LoadedIsListed' /\ VerdictInv'
  BY <1>1 DEF AuditInv, TransferInv, LoadedIsListed, VerdictInv
<1> QED
  BY <1>4, <1>5, <1>6 DEF AuditInv

(* A transfer begins, to all members or to a target that is none. *)
LEMMA BeginsKeepsInv ==
  ASSUME AuditInv, NEW ws \in SUBSET Workers, NEW r \in Ranks, Begins(ws, r),
         \/ bootstrap' = FALSE /\ ws = Members /\ due
         \/ bootstrap' = TRUE /\ ws \cap Members = {}
  PROVE  AuditInv'
<1>1. /\ UNCHANGED <<version, local, due, sourced, effective, blocked, source, manifest, stray,
                     weights, faults>>
      /\ phase = "idle" /\ ~ blocked /\ phase' = "transfer" /\ steps' = version
      /\ targets' = ws /\ sender' = r /\ sent' = "no"
      /\ recv' = [w \in Workers |-> "none"]
  BY DEF Begins, trainVars
<1>2. TypeOK /\ Members' = Members
  BY <1>1 DEF AuditInv, ReceivingIsIncomplete, Members
<1>3. TypeOK'
  <2>1. FlagsOK'
    BY <1>1, <1>2 DEF TypeOK, FlagsOK
  <2>2. /\ version \in 0..version
        /\ recv' \in [Workers -> {"none", "running", "consumed", "done", "failed"}]
    BY <1>1, <1>2 DEF TypeOK
  <2> QED
    BY <1>1, <1>2, <2>1, <2>2 DEF TypeOK
<1>4. ReceivingIsIncomplete' /\ SourceIsSent'
  BY <1>1, <1>3 DEF AuditInv, ReceivingIsIncomplete, SourceIsSent
<1>5. MembersLoaded'
  BY <1>1, <1>2 DEF AuditInv, MembersLoaded
<1>6. TransferInv' /\ LoadedIsListed' /\ VerdictInv'
  BY <1>1, <1>2 DEF AuditInv, TransferInv, LoadedIsListed, VerdictInv
<1> QED
  BY <1>4, <1>5, <1>6 DEF AuditInv

(* The stream is sent: the owner of a complete manifest has sent it all. *)
LEMMA SendKeepsInv ==
  ASSUME AuditInv, SendWeights
  PROVE  AuditInv'
<1> DEFINE full == [complete |-> TRUE, steps |-> steps, parameters |-> Whole(Current)]
<1>1. /\ UNCHANGED <<version, local, due, sourced, effective, blocked, phase, steps, targets,
                     bootstrap, sender, recv, manifest, stray, weights>>
      /\ sent' \in {"done", "failed"}
      /\ Spend \/ UNCHANGED faults
      /\ phase = "transfer"
  BY DEF SendWeights, trainVars, transferVars, receiverVars
<1>2. \/ source' = source
      \/ \E done \in BOOLEAN :
           source' = [r \in Ranks |-> IF done /\ r = sender THEN full ELSE Fresh]
  BY DEF SendWeights
<1>3. TypeOK /\ Members' = Members
  BY <1>1 DEF AuditInv, ReceivingIsIncomplete, Members
<1>4. /\ Fresh \in Manifest /\ Fresh.complete = FALSE
      /\ full \in Manifest /\ full.parameters = Whole(Current) /\ Current \in Bytes
  BY <1>3, ManifestBegins
<1> HIDE DEF full
<1>5. source' \in [Ranks -> Manifest]
  BY <1>2, <1>3, <1>4 DEF TypeOK
<1>6. TypeOK'
  <2>1. FlagsOK'
    BY <1>1, <1>3 DEF TypeOK, FlagsOK
  <2>2. faults' \in 0..MaxFaults
    BY <1>1, <1>3, FaultsBounded
  <2> QED
    BY <1>1, <1>3, <1>5, <2>1, <2>2 DEF TypeOK
<1>7. SourceIsSent'
  <2>1. /\ version \in 0..version /\ local \in 0..MaxLocal
        /\ version = steps \/ version > steps
        /\ ~ bootstrap => version = steps /\ local = 0
    BY <1>1, <1>3, AuditAssumption DEF TypeOK, AuditInv, TransferInv
  <2>2. Sent(Current)' /\ Current' = Current
    BY <1>1, <2>1 DEF Sent, Current
  <2>3. sourced /\ sent' = "done" => \E done \in BOOLEAN :
          source' = [r \in Ranks |-> IF done /\ r = sender THEN full ELSE Fresh]
    BY DEF SendWeights, full
  <2> SUFFICES ASSUME sourced, sent' = "done", NEW r \in Ranks, source'[r].complete
               PROVE  \E b \in Bytes : Sent(b)' /\ source'[r].parameters = Whole(b)
    BY <1>1 DEF SourceIsSent
  <2>4. source'[r] \in {full, Fresh}
    BY <2>3
  <2>5. source'[r] = full
    BY <1>4, <2>4
  <2> QED
    BY <1>4, <2>2, <2>5
<1>8. ReceivingIsIncomplete' /\ LoadedIsListed'
  BY <1>1, <1>6 DEF AuditInv, ReceivingIsIncomplete, LoadedIsListed
<1>9. MembersLoaded'
  BY <1>1, <1>3 DEF AuditInv, MembersLoaded
<1>10. TransferInv' /\ VerdictInv'
  BY <1>1, <1>3 DEF AuditInv, TransferInv, VerdictInv
<1> QED
  BY <1>7, <1>8, <1>9, <1>10 DEF AuditInv

(* The manifests are compared.  With a manifest of the source, that is the   *)
(* whole stream; the receivers have loaded what theirs list.                 *)
LEMMA ValidateKeepsInv ==
  ASSUME AuditInv, ValidateParameterSync
  PROVE  AuditInv'
<1>1. /\ UNCHANGED <<version, local, due, sourced, effective, blocked, steps, targets,
                     bootstrap, sender, source, sent, recv, manifest, stray, weights,
                     faults>>
      /\ phase = "transfer" /\ phase' = "validated" /\ Validates
      /\ sent = "done" /\ \A w \in targets : recv[w] = "done"
  BY DEF ValidateParameterSync, trainVars, receiverVars, Returned
<1>2. TypeOK /\ Members' = Members
  BY <1>1 DEF AuditInv, ReceivingIsIncomplete, Members
<1>3. TypeOK'
  <2>1. FlagsOK'
    BY <1>1, <1>2 DEF TypeOK, FlagsOK
  <2> QED
    BY <1>1, <1>2, <2>1 DEF TypeOK
<1>4. ReceivingIsIncomplete' /\ SourceIsSent' /\ LoadedIsListed'
  BY <1>1, <1>3 DEF AuditInv, ReceivingIsIncomplete, SourceIsSent, LoadedIsListed, Sent
<1>5. MembersLoaded' /\ TransferInv'
  BY <1>1, <1>2 DEF AuditInv, MembersLoaded, TransferInv
<1>6. ASSUME sourced
      PROVE  \E b \in Bytes : Sent(b) /\ \A w \in targets : manifest[w].parameters = Whole(b)
  <2>1. PICK r \in Ranks : /\ source[r].complete
                           /\ \A w \in targets : source[r].parameters = manifest[w].parameters
    BY <1>1, <1>6 DEF Validates, SourceManifests, ManifestMismatches
  <2> QED
    BY <1>1, <1>6, <2>1 DEF AuditInv, SourceIsSent
<1>7. VerdictInv'
  BY <1>1, <1>6 DEF VerdictInv, Validates, ValidManifest, Sent
<1> QED
  BY <1>4, <1>5, <1>7 DEF AuditInv

(* What the receivers of a validated transfer have loaded. *)
LEMMA ValidatedIsLoaded ==
  ASSUME AuditInv, sourced, phase = "validated"
  PROVE  \E b \in Bytes : Sent(b) /\ \A w \in targets : weights[w] = Whole(b)
<1>1. TypeOK
  BY DEF AuditInv, ReceivingIsIncomplete
<1>2. PICK b \in Bytes : Sent(b) /\ \A w \in targets : manifest[w].parameters = Whole(b)
  BY DEF AuditInv, VerdictInv
<1>3. ASSUME NEW w \in targets PROVE weights[w] = Whole(b)
  <2>1. w \in Workers /\ recv[w] = "done" /\ manifest[w].parameters = Whole(b)
    BY <1>1, <1>2 DEF AuditInv, VerdictInv, TypeOK
  <2>2. \A i \in 1..Len(Whole(b)) : weights[w][i] = Whole(b)[i]
    BY <2>1 DEF AuditInv, LoadedIsListed
  <2>3. weights[w] \in [1..Parameters -> Bytes] /\ Whole(b) \in [1..Parameters -> Bytes]
    BY <1>1, <2>1, Streams DEF TypeOK
  <2>4. Len(Whole(b)) = Parameters
    BY Streams
  <2> QED
    BY <2>2, <2>3, <2>4
<1> QED
  BY <1>2, <1>3

(* E records the version: every receiver holds it to the last parameter. *)
LEMMA RecordKeepsInv ==
  ASSUME AuditInv, RecordVersion
  PROVE  AuditInv'
<1>1. /\ UNCHANGED <<version, local, sourced, blocked, steps, bootstrap,
                     sender, source, sent, recv, manifest, stray, weights, faults>>
      /\ due' \in BOOLEAN /\ (due' => due)
      /\ phase = "validated" /\ steps = version /\ phase' = "idle" /\ targets' = {}
      /\ effective' = [w \in Workers |-> IF w \in targets THEN version ELSE effective[w]]
  BY DEF RecordVersion, receiverVars
<1>2. TypeOK
  BY <1>1 DEF AuditInv, ReceivingIsIncomplete
<1>3. TypeOK'
  <2>1. FlagsOK'
    BY <1>1, <1>2 DEF TypeOK, FlagsOK
  <2>2. effective' \in [Workers -> 0..MaxVersion \cup {None}]
    BY <1>1, <1>2 DEF TypeOK
  <2> QED
    BY <1>1, <1>2, <2>1, <2>2 DEF TypeOK
<1>4. ReceivingIsIncomplete' /\ SourceIsSent'
  BY <1>1, <1>3 DEF AuditInv, ReceivingIsIncomplete, SourceIsSent
<1>5. MembersLoaded'
  <2> SUFFICES ASSUME sourced, NEW w \in Members'
               PROVE  \E k \in 0..MaxLocal : weights[w] = Whole(<<effective'[w], k>>)
    BY <1>1 DEF MembersLoaded
  <2>1. w \in Workers /\ effective'[w] # None
    BY DEF Members
  <2>2. CASE w \in targets
    <3>1. PICK b \in Bytes : Sent(b) /\ weights[w] = Whole(b)
      BY <1>1, <2>2, ValidatedIsLoaded
    <3>2. \E k \in 0..MaxLocal : b = <<version, k>>
      BY <1>1, <1>2, <3>1 DEF Sent, TypeOK
    <3> QED
      BY <1>1, <2>1, <2>2, <3>1, <3>2
  <2>3. CASE w \notin targets
    <3>1. w \in Members /\ effective'[w] = effective[w]
      BY <1>1, <2>1, <2>3 DEF Members
    <3>2. bootstrap /\ ~ blocked
      BY <1>1, <2>3, <3>1 DEF AuditInv, TransferInv
    <3> QED
      BY <3>1, <3>2 DEF AuditInv, MembersLoaded
  <2> QED
    BY <2>2, <2>3
<1>6. TransferInv' /\ LoadedIsListed' /\ VerdictInv'
  BY <1>1 DEF AuditInv, TransferInv, LoadedIsListed, VerdictInv
<1> QED
  BY <1>4, <1>5, <1>6 DEF AuditInv

(* A transfer ends without effect on E: the gate is blocked, or a bootstrap  *)
(* gives its target up, which is no member.                                  *)
LEMMA FailureKeepsInv ==
  ASSUME AuditInv, CommitRefused \/ TransferFails
  PROVE  AuditInv'
<1>1. /\ UNCHANGED <<version, local, due, sourced, effective, steps, bootstrap,
                     sender, source, sent, manifest, faults>>
      /\ phase # "idle" /\ phase' = "idle" /\ targets' = {}
  BY DEF CommitRefused, TransferFails, trainVars, receiverVars
<1>2. TypeOK /\ Members' = Members
  BY <1>1 DEF AuditInv, ReceivingIsIncomplete, Members
<1>3. /\ recv' \in [Workers -> {"none", "running", "consumed", "done", "failed"}]
      /\ stray' \in [Workers -> {"no", "own", "old"}]
      /\ \A w \in Workers : recv'[w] \in {"none", recv[w]}
      /\ \A w \in Workers : stray'[w] = "own" => recv'[w] = "none"
  <2>1. CASE CommitRefused
    BY <1>2, <2>1 DEF CommitRefused, receiverVars, TypeOK, AuditInv, TransferInv
  <2>2. CASE TransferFails
    BY <1>2, <2>2 DEF TransferFails, TypeOK
  <2> QED
    BY <2>1, <2>2
<1>4. /\ weights' \in [Workers -> [1..Parameters -> Bytes]]
      /\ blocked' \/ (bootstrap /\ \A w \in Workers \ targets : weights'[w] = weights[w])
      /\ blocked' \in BOOLEAN
  <2>1. CASE CommitRefused
    BY <1>2, <2>1 DEF CommitRefused, receiverVars, TypeOK
  <2>2. CASE TransferFails
    <3>1. weights' \in [Workers -> [1..Parameters -> Bytes]]
      BY <1>2, <2>2, Streams DEF TransferFails, TypeOK
    <3> QED
      BY <1>2, <2>2, <3>1 DEF TransferFails, TypeOK
  <2> QED
    BY <2>1, <2>2
<1>5. TypeOK'
  <2>1. FlagsOK'
    BY <1>1, <1>2, <1>4 DEF TypeOK, FlagsOK
  <2> QED
    BY <1>1, <1>2, <1>3, <1>4, <2>1 DEF TypeOK
<1>6. ReceivingIsIncomplete' /\ SourceIsSent'
  BY <1>1, <1>3, <1>5 DEF AuditInv, ReceivingIsIncomplete, SourceIsSent
<1>7. MembersLoaded'
  <2> SUFFICES ASSUME sourced, ~ blocked', NEW w \in Members
               PROVE  \E k \in 0..MaxLocal : weights'[w] = Whole(<<effective[w], k>>)
    BY <1>1, <1>2 DEF MembersLoaded
  <2>1. bootstrap /\ w \in Workers \ targets /\ ~ blocked
    BY <1>1, <1>2, <1>4 DEF TypeOK, Members, AuditInv, TransferInv
  <2> QED
    BY <1>4, <2>1 DEF AuditInv, MembersLoaded
<1>8. TransferInv' /\ LoadedIsListed' /\ VerdictInv'
  BY <1>1, <1>3 DEF AuditInv, TransferInv, LoadedIsListed, VerdictInv
<1> QED
  BY <1>6, <1>7, <1>8 DEF AuditInv

(* Every step of training, transfer and verdict keeps the inductive          *)
(* invariant.                                                                *)
LEMMA NextAuditInv == AuditInv /\ [Next]_vars => AuditInv'
<1> SUFFICES ASSUME AuditInv, [Next]_vars PROVE AuditInv'
  OBVIOUS
<1>1. ASSUME NEW r \in Ranks, Synchronise(r) PROVE AuditInv'
  <2>1. Members \in SUBSET Workers
    BY DEF Members
  <2> QED
    BY <1>1, <2>1, BeginsKeepsInv DEF Synchronise
<1>2. ASSUME NEW w \in Workers, NEW r \in Ranks, Bootstrap(w, r) PROVE AuditInv'
  <2>1. {w} \in SUBSET Workers /\ {w} \cap Members = {}
    BY <1>2 DEF Members, Bootstrap
  <2> QED
    BY <1>2, <2>1, BeginsKeepsInv DEF Bootstrap
<1>3. CASE UNCHANGED vars
  BY <1>3 DEF vars, trainVars, transferVars, receiverVars, AuditInv, ReceivingIsIncomplete,
     TypeOK, FlagsOK, Sent, MembersLoaded, Members, SourceIsSent, TransferInv,
     LoadedIsListed, VerdictInv
<1> QED
  BY <1>1, <1>2, <1>3, TrainingKeepsInv, LeaveKeepsInv, SendKeepsInv,
     ReceiverKeepsInv, ValidateKeepsInv, RecordKeepsInv, FailureKeepsInv DEF Next

(* The inductive invariant holds in every reachable state. *)
LEMMA AuditInvariant == Spec => []AuditInv
BY InitAuditInv, NextAuditInv, PTL DEF Spec

(* A worker that receives advertises no complete manifest, whichever         *)
(* abandoned transfer of its own ends meanwhile.                             *)
THEOREM NoStaleManifest == Spec => []ReceivingIsIncomplete
<1>1. AuditInv => ReceivingIsIncomplete
  BY DEF AuditInv
<1> QED
  BY <1>1, AuditInvariant, PTL

(* With source validation, what E records is what the members have loaded,   *)
(* to the last parameter and whatever the transport lost or damaged: one     *)
(* state of the actor from the recorded version on and before the next, and  *)
(* after a synchronisation exactly the published one.                        *)
THEOREM RecordedIsLoaded == Spec => []MembersHoldTheirVersion
<1>1. AuditInv => MembersHoldTheirVersion
  <2> SUFFICES ASSUME AuditInv PROVE MembersHoldTheirVersion
    OBVIOUS
  <2>1. sourced /\ (phase = "idle" \/ bootstrap) /\ ~ blocked =>
          \A w \in Members :
            \E k \in 0..MaxLocal : weights[w] = Whole(<<effective[w], k>>)
    BY DEF AuditInv, MembersLoaded
  <2>2. ASSUME sourced, phase = "validated", ~ bootstrap, NEW w \in targets
        PROVE  weights[w] = Whole(<<version, 0>>)
    <3>1. PICK b \in Bytes : Sent(b) /\ weights[w] = Whole(b)
      BY <2>2, ValidatedIsLoaded
    <3>2. steps = version
      BY <2>2 DEF AuditInv, TransferInv
    <3>3. b = <<version, 0>>
      BY <2>2, <3>1, <3>2 DEF Sent
    <3> QED
      BY <3>1, <3>3
  <2> QED
    BY <2>1, <2>2 DEF MembersHoldTheirVersion
<1> QED
  BY <1>1, AuditInvariant, PTL

(* Without it, a validated transfer has still loaded something, and the same *)
(* in every receiver.                                                        *)
THEOREM ReceiversAgree == Spec => []ValidatedReceiversAgree
<1>1. AuditInv => ValidatedReceiversAgree
  <2> SUFFICES ASSUME AuditInv, phase = "validated" PROVE ValidatedReceiversAgree
    BY DEF ValidatedReceiversAgree
  <2>1. TypeOK /\ targets \subseteq Workers /\ Parameters \in Nat \ {0}
    BY AuditAssumption DEF AuditInv, ReceivingIsIncomplete, TypeOK
  <2>2. CASE targets = {}
    BY <2>1, <2>2 DEF ValidatedReceiversAgree
  <2>3. ASSUME NEW v \in targets PROVE ValidatedReceiversAgree
    <3> DEFINE n == Len(manifest[v].parameters)
    <3>1. n \in 1..Parameters
      <4>1. manifest[v].parameters \in Seq(Bytes) /\ manifest[v].parameters # <<>>
            /\ n <= Parameters
        BY <2>1 DEF TypeOK, Manifest, AuditInv, VerdictInv
      <4>2. n \in Nat /\ n # 0
        BY <4>1, LenProperties, EmptySeq
      <4> QED
        BY <2>1, <4>1, <4>2
    <3>2. \A w \in targets :
            /\ Len(manifest[w].parameters) = n
            /\ \A i \in 1..n : weights[w][i] = manifest[v].parameters[i]
      <4> SUFFICES ASSUME NEW w \in targets
                   PROVE  /\ Len(manifest[w].parameters) = n
                          /\ \A i \in 1..n : weights[w][i] = manifest[v].parameters[i]
        OBVIOUS
      <4>1. manifest[w].parameters = manifest[v].parameters /\ recv[w] = "done"
        BY DEF AuditInv, VerdictInv
      <4>2. \A i \in 1..Len(manifest[w].parameters) :
              weights[w][i] = manifest[w].parameters[i]
        BY <2>1, <4>1 DEF AuditInv, LoadedIsListed
      <4> QED
        BY <4>1, <4>2
    <3> HIDE DEF n
    <3> QED
      BY <3>1, <3>2 DEF ValidatedReceiversAgree
  <2> QED
    BY <2>2, <2>3
<1> QED
  BY <1>1, AuditInvariant, PTL
=============================================================================
