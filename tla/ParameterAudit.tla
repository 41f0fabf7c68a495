--------------------------- MODULE ParameterAudit ---------------------------
(***************************************************************************)
(* The audit of weight transfers.  A transfer under the gate G sends the   *)
(* parameters of one version from a training rank to receiving workers:    *)
(* all effective members in a native synchronisation, one pending target   *)
(* in a bootstrap.  Sender and receivers keep a manifest of what went by,  *)
(* and the checkpoint manager compares the manifests before E records the  *)
(* version.                                                                *)
(*                                                                         *)
(* A transfer carries the label of the version that was current when it    *)
(* began, and the tensors that the training actors have when they send.    *)
(* Training goes on between the two as far as the trainer's event loop and *)
(* its own synchronisations let it.  A parameter is its position in the    *)
(* stream; its bytes are the version they belong to and the number of      *)
(* optimizer steps since that version; a digest stands for the bytes.      *)
(*                                                                         *)
(* Receiver validation is on, source validation may be.  The transport may *)
(* lose the end of a stream, deliver other bytes or fail.                  *)
(***************************************************************************)
EXTENDS Integers, Sequences

CONSTANTS
  Workers,      \* receiving checkpoint engine workers
  Ranks,        \* training ranks that may own the stream
  Parameters,   \* number of parameters
  MaxVersion,   \* bound: versions that training publishes
  MaxLocal,     \* optimizer steps before the last of a version (trigger_parameter_sync_step)
  MaxFaults,    \* bound: failures in a behaviour
  None

ASSUME AuditAssumption ==
  /\ Parameters \in Nat \ {0}
  /\ MaxVersion \in Nat /\ MaxLocal \in Nat /\ MaxFaults \in Nat
  /\ None \notin 0..MaxVersion

VARIABLES
  version,     \* current_param_version
  local,       \* optimizer steps since it began: local_trigger_step - 1
  due,         \* the version is not synchronised yet, and training waits
  sourced,     \* source_validation_enabled
  effective,   \* E: loaded version of each member, None for others
  blocked,     \* G is BLOCKED by a failed synchronisation
  phase,       \* of the transfer: idle, transfer, validated
  steps,       \* its version: global_steps
  targets,     \* its receivers
  bootstrap,   \* it is for a pending target
  sender,      \* rank whose stream is sent
  source,      \* _source_manifest of each rank
  sent,        \* send_weights: no, done or failed
  recv,        \* receiver: none, running, consumed, done or failed
  manifest,    \* _last_parameter_manifest
  stray,       \* an abandoned update_weights is yet to end: no, own, old
  weights,     \* what the server of each worker has loaded
  faults

trainVars == <<version, local, due>>
transferVars == <<phase, steps, targets, bootstrap, sender>>
receiverVars == <<recv, manifest, stray, weights>>
vars == <<trainVars, sourced, effective, blocked, transferVars, source, sent,
          receiverVars, faults>>

(* Bytes of no version: damaged, or never loaded. *)
Garbage == <<-1, 0>>

Bytes == (0..MaxVersion) \X (0..MaxLocal) \cup {Garbage}

Manifest == [complete : BOOLEAN, steps : 0..MaxVersion \cup {-1},
             parameters : Seq(Bytes)]

Members == {w \in Workers : effective[w] # None}

FlagsOK ==
  /\ due \in BOOLEAN /\ sourced \in BOOLEAN
  /\ blocked \in BOOLEAN /\ bootstrap \in BOOLEAN

TypeOK ==
  /\ version \in 0..MaxVersion /\ local \in 0..MaxLocal
  /\ FlagsOK
  /\ effective \in [Workers -> 0..MaxVersion \cup {None}]
  /\ phase \in {"idle", "transfer", "validated"}
  /\ steps \in 0..version /\ sent \in {"no", "done", "failed"}
  /\ targets \subseteq Workers
  /\ bootstrap /\ phase # "idle" => targets \cap Members = {}
  /\ sender \in Ranks
  /\ source \in [Ranks -> Manifest] /\ manifest \in [Workers -> Manifest]
  /\ \A w \in Workers : Len(manifest[w].parameters) <= Parameters
  /\ recv \in [Workers -> {"none", "running", "consumed", "done", "failed"}]
  /\ stray \in [Workers -> {"no", "own", "old"}]
  /\ weights \in [Workers -> [1..Parameters -> Bytes]]
  /\ faults \in 0..MaxFaults

NoManifest == [complete |-> FALSE, steps |-> -1, parameters |-> <<>>]

(* The whole stream of parameters with these bytes. *)
Whole(b) == [i \in 1..Parameters |-> b]

Fresh == [complete |-> FALSE, steps |-> steps, parameters |-> <<>>]

(* Training starts with all native replicas loaded. *)
Init ==
  /\ version = 0 /\ local = 0 /\ due = FALSE /\ sourced \in BOOLEAN
  /\ effective = [w \in Workers |-> 0]
  /\ blocked = FALSE
  /\ phase = "idle" /\ steps = 0 /\ targets = {} /\ bootstrap = FALSE
  /\ sender \in Ranks
  /\ source = [r \in Ranks |-> NoManifest] /\ sent = "no"
  /\ recv = [w \in Workers |-> "none"]
  /\ manifest = [w \in Workers |-> NoManifest]
  /\ stray = [w \in Workers |-> "no"]
  /\ weights = [w \in Workers |-> Whole(<<0, 0>>)]
  /\ faults = 0

Spend == faults < MaxFaults /\ faults' = faults + 1

(* A call of the transfer has started, and all of them have returned. *)
Begun == sent # "no" \/ \E w \in targets : recv[w] # "none"
Returned == sent = "done" /\ \A w \in targets : recv[w] = "done"

-----------------------------------------------------------------------------
(* Around the transfers *)

(* The training loop shares the trainer's event loop with a bootstrap: it    *)
(* runs while the target is prepared and after the answers, and cannot while *)
(* ray.get waits for them.  It waits for its own synchronisation.            *)
Training ==
  /\ ~ due
  /\ phase = "idle" \/ (bootstrap /\ (~ Begun \/ Returned))

(* The actors have new weights under the same version. *)
OptimizerStep ==
  /\ Training /\ local < MaxLocal
  /\ local' = local + 1
  /\ UNCHANGED <<version, due, sourced, effective, blocked, transferVars, source,
                 sent, receiverVars, faults>>

(* The step that completes the next version, whose synchronisation follows.  *)
NewVersion ==
  /\ Training /\ version < MaxVersion
  /\ version' = version + 1 /\ local' = 0 /\ due' = TRUE
  /\ UNCHANGED <<sourced, effective, blocked, transferVars, source, sent,
                 receiverVars, faults>>

(* remove_effective; the replica then sleeps and loses its weights. *)
Leave(w) ==
  /\ phase = "idle" /\ effective[w] # None
  /\ effective' = [effective EXCEPT ![w] = None]
  /\ weights' = [weights EXCEPT ![w] = Whole(Garbage)]
  /\ UNCHANGED <<trainVars, sourced, blocked, transferVars, source, sent, recv,
                 manifest, stray, faults>>

-----------------------------------------------------------------------------
(* The transfer *)

Begins(ws, r) ==
  /\ phase = "idle" /\ ~ blocked
  /\ ws # {}
  /\ phase' = "transfer" /\ steps' = version /\ targets' = ws /\ sender' = r
  /\ sent' = "no"
  /\ recv' = [w \in Workers |-> "none"]
  /\ UNCHANGED <<trainVars, sourced, effective, blocked, source, manifest, stray,
                 weights, faults>>

Synchronise(r) == due /\ bootstrap' = FALSE /\ Begins(Members, r)

Bootstrap(w, r) ==
  /\ effective[w] = None
  /\ bootstrap' = TRUE
  /\ Begins({w}, r)

(* What the training actors send if they are asked now. *)
Current == <<version, local>>

(* send_weights: every rank drops its last manifest, the owner of the stream *)
(* fills a new one, under the label that the transfer was given.             *)
SendWeights ==
  LET Audit(done) == IF sourced
                     THEN source' = [r \in Ranks |->
                            IF done /\ r = sender
                            THEN [complete |-> TRUE, steps |-> steps,
                                  parameters |-> Whole(Current)]
                            ELSE Fresh]
                     ELSE UNCHANGED source
  IN
  /\ phase = "transfer" /\ sent = "no"
  /\ \/ Audit(TRUE) /\ sent' = "done" /\ UNCHANGED faults
     \/ \E done \in BOOLEAN : Audit(done) /\ sent' = "failed" /\ Spend
  /\ UNCHANGED <<trainVars, sourced, effective, blocked, transferVars, receiverVars>>

(* "Publish this attempt before any await." *)
Published(w) == Fresh

ReceiveStarts(w) ==
  /\ phase = "transfer" /\ w \in targets /\ recv[w] = "none"
  /\ recv' = [recv EXCEPT ![w] = "running"]
  /\ manifest' = [manifest EXCEPT ![w] = Published(w)]
  /\ stray' = [stray EXCEPT ![w] = IF @ = "no" THEN @ ELSE "old"]
  /\ UNCHANGED <<trainVars, sourced, effective, blocked, transferVars, source, sent,
                 weights, faults>>

(* One parameter is hashed and handed to the server. *)
Receive(w) ==
  LET n == Len(manifest[w].parameters) + 1 IN
  /\ phase = "transfer" /\ recv[w] = "running"
  /\ n <= Parameters
  /\ \E b \in {Current, Garbage} :
       /\ IF b = Current THEN UNCHANGED faults ELSE Spend
       /\ manifest' = [manifest EXCEPT ![w].parameters = Append(@, b)]
       /\ weights' = [weights EXCEPT ![w][n] = b]
  /\ UNCHANGED <<trainVars, sourced, effective, blocked, transferVars, source, sent,
                 recv, stray>>

(* The server has asked for more and the stream has ended, too soon perhaps. *)
StreamEnds(w) ==
  /\ phase = "transfer" /\ recv[w] = "running"
  /\ IF Len(manifest[w].parameters) = Parameters THEN UNCHANGED faults ELSE Spend
  /\ recv' = [recv EXCEPT ![w] = "consumed"]
  /\ UNCHANGED <<trainVars, sourced, effective, blocked, transferVars, source, sent,
                 manifest, stray, weights>>

Consumed(w) == manifest[w].parameters # <<>>

ReceiveEnds(w) ==
  /\ phase = "transfer" /\ recv[w] = "consumed"
  /\ IF Consumed(w)
     THEN /\ recv' = [recv EXCEPT ![w] = "done"]
          /\ manifest' = [manifest EXCEPT ![w].complete = TRUE]
     ELSE /\ recv' = [recv EXCEPT ![w] = "failed"]
          /\ UNCHANGED manifest
  /\ UNCHANGED <<trainVars, sourced, effective, blocked, transferVars, source, sent,
                 stray, weights, faults>>

(* The receiver raises, or its server stops before the stream has ended. *)
ReceiveFails(w) ==
  /\ phase = "transfer" /\ recv[w] \in {"running", "consumed"}
  /\ Spend
  /\ recv' = [recv EXCEPT ![w] = "failed"]
  /\ UNCHANGED <<trainVars, sourced, effective, blocked, transferVars, source, sent,
                 manifest, stray, weights>>

(* Faulty variant: completion is noted in the manifest of the day. *)
MarksCurrent(w) == [manifest[w] EXCEPT !.complete = TRUE]

(* The manifest an abandoned update_weights marks complete is its own. *)
MarksOwn(w) ==
  IF stray[w] = "own" THEN [manifest[w] EXCEPT !.complete = TRUE] ELSE manifest[w]

StrayEnds(w) ==
  /\ stray[w] # "no"
  /\ stray' = [stray EXCEPT ![w] = "no"]
  /\ manifest' = [manifest EXCEPT ![w] = MarksOwn(w)]
  /\ UNCHANGED <<trainVars, sourced, effective, blocked, transferVars, source, sent,
                 recv, weights, faults>>

-----------------------------------------------------------------------------
(* The manager's verdict *)

ValidManifest(m) == m.complete /\ m.parameters # <<>>

(* Faulty variant: only parameters that both manifests have are compared. *)
MismatchesInCommon(expected, actual) ==
  \E i \in DOMAIN expected.parameters \cap DOMAIN actual.parameters :
    expected.parameters[i] # actual.parameters[i]

(* A parameter that only one of the manifests has is a mismatch, too. *)
ManifestMismatches(expected, actual) == expected.parameters # actual.parameters

(* The first complete manifest of the training ranks. *)
SourceManifests == {source[r] : r \in {q \in Ranks : source[q].complete}}

(* Faulty variant: the receivers are not compared with each other. *)
ValidatesEach ==
  /\ \A w \in targets : ValidManifest(manifest[w]) /\ manifest[w].steps = steps
  /\ sourced => \E m \in SourceManifests :
       /\ ValidManifest(m) /\ m.steps = steps
       /\ \A w \in targets : ~ ManifestMismatches(m, manifest[w])

Validates ==
  /\ \A w \in targets : ValidManifest(manifest[w]) /\ manifest[w].steps = steps
  /\ sourced => \E m \in SourceManifests :
       /\ ValidManifest(m) /\ m.steps = steps
       /\ \A w \in targets : ~ ManifestMismatches(m, manifest[w])
  /\ \A w, u \in targets : manifest[w].parameters = manifest[u].parameters

ValidateParameterSync ==
  /\ phase = "transfer" /\ Returned
  /\ Validates
  /\ phase' = "validated"
  /\ UNCHANGED <<trainVars, sourced, effective, blocked, steps, targets, bootstrap,
                 sender, source, sent, receiverVars, faults>>

(* mark_all_loaded_version of the effective members, or commit_pending. *)
RecordVersion ==
  /\ phase = "validated" /\ steps = version
  /\ effective' = [w \in Workers |-> IF w \in targets THEN version ELSE effective[w]]
  /\ phase' = "idle" /\ targets' = {}
  /\ due' = (bootstrap /\ due)
  /\ UNCHANGED <<version, local, sourced, blocked, steps, bootstrap, sender, source,
                 sent, receiverVars, faults>>

(* commit_pending refuses a bootstrap that training has overtaken; the       *)
(* lifecycle operation blocks the gate.                                      *)
CommitRefused ==
  /\ phase = "validated" /\ steps # version
  /\ phase' = "idle" /\ targets' = {}
  /\ blocked' = TRUE
  /\ UNCHANGED <<trainVars, sourced, effective, steps, bootstrap, sender, source, sent,
                 receiverVars, faults>>

(* A call or the validation has failed.  A synchronisation blocks the gate,  *)
(* a bootstrap puts its target to sleep.  finalize ends the transport; a     *)
(* receiver that has the whole stream is still to end.                       *)
TransferFails ==
  /\ phase = "transfer"
  /\ \/ faults > 0 /\ ~ Returned
     \/ Returned /\ ~ Validates
  /\ phase' = "idle" /\ targets' = {}
  /\ blocked' = ~ bootstrap
  /\ stray' = [w \in Workers |-> IF recv[w] = "consumed" /\ Consumed(w) THEN "own"
                                 ELSE stray[w]]
  /\ recv' = [w \in Workers |-> "none"]
  /\ weights' = [w \in Workers |-> IF bootstrap /\ w \in targets
                                   THEN Whole(Garbage)
                                   ELSE weights[w]]
  /\ UNCHANGED <<trainVars, sourced, effective, steps, bootstrap, sender, source, sent,
                 manifest, faults>>

-----------------------------------------------------------------------------
Next ==
  \/ OptimizerStep \/ NewVersion
  \/ \E w \in Workers : Leave(w)
  \/ \E r \in Ranks : Synchronise(r)
  \/ \E w \in Workers, r \in Ranks : Bootstrap(w, r)
  \/ SendWeights
  \/ \E w \in Workers : ReceiveStarts(w) \/ Receive(w) \/ StreamEnds(w)
                        \/ ReceiveEnds(w) \/ ReceiveFails(w) \/ StrayEnds(w)
  \/ ValidateParameterSync \/ RecordVersion \/ CommitRefused \/ TransferFails

Spec == Init /\ [][Next]_vars

-----------------------------------------------------------------------------
(* Properties *)

(* With source validation E never claims a version that a member does not    *)
(* have to the last parameter, whatever the transport lost or damaged and    *)
(* however far training went on between the label and the stream: "E records *)
(* a published version only after all enabled receiver/source checks have    *)
(* succeeded".  A member holds one state of the actor, never a mixture: the  *)
(* published weights after a synchronisation, and after a bootstrap these or *)
(* the weights some optimizer steps later, short of the next version.        *)
MembersHoldTheirVersion ==
  /\ sourced /\ (phase = "idle" \/ bootstrap) /\ ~ blocked =>
       \A w \in Members : \E k \in 0..MaxLocal : weights[w] = Whole(<<effective[w], k>>)
  /\ sourced /\ phase = "validated" /\ ~ bootstrap =>
       \A w \in targets : weights[w] = Whole(<<version, 0>>)

(* A worker that receives advertises no complete manifest: neither the one   *)
(* of the last transfer nor one that an abandoned transfer has finished      *)
(* meanwhile ("must not leave the previous transfer advertised as complete").*)
ReceivingIsIncomplete ==
  /\ TypeOK
  /\ \A w \in Workers : recv[w] \in {"running", "consumed", "failed"} =>
       ~ manifest[w].complete

(* What a validated transfer has loaded is not nothing and the same in every *)
(* receiver, even without a manifest of the source.                          *)
ValidatedReceiversAgree ==
  phase = "validated" => \E n \in 1..Parameters :
    \A w, u \in targets : /\ Len(manifest[w].parameters) = n
                          /\ \A i \in 1..n : weights[w][i] = weights[u][i]
=============================================================================
