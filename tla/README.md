# Verification of the multi-task scheduler

Several reinforcement-learning tasks share accelerators. A task whose rollout
replicas are idle *donates* one: the replica goes to sleep, its GPUs are lent
under a lease, another task *adds* a borrowed replica on them, *removes* it
again, and the donor *restores* its own. This directory models the parts of
`src/src/multi_task_scheduler` that decide who may use a GPU, which replica
serves requests with which weights, and what happens to them when a call, a
reply or a runtime action fails. TLC checks the modules on small instances, and
TLAPS proves, for all instances, the safety of every component and what the
composition of the ledger with its task runners promises; liveness is model-checked.

## 1. Inventory

| Component | State | Operations | Talks to |
|---|---|---|---|
| `GroupScheduler` (one actor for all tasks) | attached task runners, idle reports, leases, owners of claims, bundles and GPUs, staged commands, borrower targets, handoff-ready leases, evidence, history | `attach_task`, `detach_task`, `submit_idle_report`, `open_lease`, `submit_operation`, `advance_lease` | calls each TaskRunner's `submit_operation`; is called back with evidence |
| `TaskRunner` and `OperationJournal` (one per task) | command and status per operation, lease snapshots, worker threads | `submit_operation`, `query_operation`, the worker `_execute_operation` | calls Rollouter, Trainer and GroupScheduler |
| `Trainer` | the gate G, `current_param_version` | `bootstrap_and_publish`, `restore_and_publish`, `remove_and_commit`, `reconcile_exit`, `_fit_update_weights` | checkpoint manager, Rollouter |
| `ReplicaSyncGate` G | lock, waiters, owner and epoch, BLOCKED latch | `acquire`, `guard`, `release`, `block`, `reconcile` | held across the Trainer's remote calls |
| `CheckpointEngineManager` E | effective members with versions, pending targets, confirmed bootstraps | `register_pending`, `bootstrap_target`, `commit_pending`, `remove_effective`, `discard_pending` | checkpoint workers, replicas |
| `Rollouter` | bindings of operations to targets, FORCE recovery records, idle reporter | `prepare_replica`, `prepare_exit`, `commit_service_change`, `finalize_release` | Manager, load balancer |
| `LLMServerManager` M and C | replica kind and state, service lists, creation results, release evidence | `create_borrowed_replica`, `sleep`, `destroy`, `activate_service`, `deactivate_service` | replicas |
| Load balancer R | server pool and counters, routes, attempts, continuation proofs, drains | `acquire_server`, `release_server`, `confirm_continuation`, `commit_ready`, `begin_drain`, `finish_remove` | called by clients and Rollouter |
| Generation client | release fences | acquire, generate, confirm, release | load balancer, server |
| `MessageQueue` | native queue, SQLite table of completions | `put_sample` | producers, the training loop |
| Replica and HTTP server (one runtime) | Ray actors, handles and names noted for the proof of death; noted sleep stage, admission gate | create, destroy with proof, sleep, staged wake, admit | vLLM engine, Ray |
| Checkpoint workers and engine | manifests of what was sent and received | `update_weights`, `send_weights`, manifest queries | NCCL/HCCL, checkpoint manager |
| Idle reporter (in the Rollouter) | signature and time of the last report | one round per second | GroupScheduler |

What is hard: every arrow between two actors can lose a call or a reply, and the
code's answer is to mark the operation UNKNOWN and to repeat it exactly; state is
read before an `await` and used after it; four owners (E, M, C, R) must change in
an order that never lets a request reach a replica without current weights or
without a runtime; requests end, are aborted and are released late while a replica
drains; waiters of the gate outlive the block of the gate; ownership of GPUs
outlives leases, expiry and detached tasks; Ray acknowledges a kill before the
actor is dead; a call that timed out is handled later all the same. `hazards` in `PROJECT.json` lists the
lines where each of these bites and the properties that watch it.

What makes each component correct:

* ledger: a lease is held whole or not at all, ownership ends only by evidence of
  the owning lease, evidence counts once;
* gate: one owner, a fenced writer never commits, a BLOCKED gate is opened only by
  the operation that blocked it, nobody waits forever;
* lifecycle: what serves is synchronised, what is released is out of service and
  physically free, FAILED means no effect, every worker ends, every UNKNOWN can be
  resolved;
* requests: no runtime disappears under a request, the counters are exact, a FORCE
  hand-over is complete, drains end;
* queue: at most once, and truthful, stable, ordered evidence;
* lending as a whole: a GPU has one occupant at a time, and a donor that sleeps can
  be brought back;
* runtime: no request in an engine that sleeps, no service without loaded weights,
  no release without dead actors;
* session: who is ready is registered, who is gone is forgotten, donations leave the
  capacity that production needs, reports are fresh or retracted;
* audit: E never claims a version that a member does not have to the last parameter.

## 2. Modules

| Module | Models | Notes |
|---|---|---|
| `GroupScheduler` | `scheduler/group_scheduler.py`, `orchestration/contracts.py` | one action per method and branch of `advance_lease` |
| `GroupSchedulerProofs` | | five theorems about the ledger, four about `Lending` |
| `ReplicaSyncGate` | `orchestration/replica_sync_gate.py` | `asyncio.Lock` with its FIFO of waiters is external |
| `ReplicaSyncGateProofs` | | five theorems |
| `LoadBalancer` | `rollout/load_balancer.py` | operators on R; no specification of its own |
| `RequestHandoff` | clients and drains of `rollouter.py` | extends `LoadBalancer` and composes it with its callers |
| `RequestHandoffProofs` | | three theorems |
| `TaskLifecycle` | `operation_journal.py`, `task_runner.py`, `trainer.py`, `rollouter.py`, `llm_server_manager.py`, `checkpoint_engine_manager.py` | one replica through all its owners, with faults |
| `TaskLifecycleProofs` | | four theorems |
| `MessageQueue` | `message_queue.py` | ledger around an external native queue |
| `MessageQueueProofs` | | four theorems |
| `Lending` | `task_runner.py`, `llm_server_manager.py` and the acceptance driver around the ledger | extends `GroupScheduler`: ledger, task runners, runtimes and the GPUs they occupy |
| `GpuUse` | | what lending promises; `Lending` implements it (`GpusAreExclusive`) |
| `ReplicaRuntime` | `rollout/replica.py`, `rollout/http_server.py`, `bootstrap_target` | one replica, its server, engine and actors |
| `ReplicaRuntimeProofs` | | five theorems |
| `TaskSession` | attach and detach in `task_runner.py`, the idle loop in `rollouter.py`, the scheduler's side of both | time in seconds |
| `TaskSessionProofs` | | five theorems |
| `ParameterAudit` | `checkpoint_engine_worker.py`, `hccl_checkpoint_engine.py`, manifests of `checkpoint_engine_manager.py`, `_fit_update_weights` | transfers over an unreliable transport |
| `ParameterAuditProofs` | | three theorems |
| `MC*` | | instances: model values, the forms of commands and evidence, symmetry |

Each `.cfg` only gives values to constants. The type invariant of a module is checked
as a conjunct of one of its safety invariants, or by itself in `ledger` and `gate`. Operators whose comment starts with
"Faulty variant" are deliberate mistakes; they stand before the definition they
distort and are used to confirm that the properties notice them.

### How the state corresponds to the code

**GroupScheduler.** The variables carry the attribute names of the class;
dictionaries are functions with `None` for a missing key. Time enters twice and is
a bit in both places: a report is fresh until `ReportAges`, a lease is unexpired
until `LeaseExpires`. The callers are arbitrary: commands, leases and evidence are
drawn from the constant sets `CommandForms`, `LeaseForms` and `EvidenceForms`, so
the scheduler is checked against callers that may present anything at any time.
`StageOperation` is `submit_operation` for a new command, with the intent recorded
before the call that may fail; `ReplayOperation` is the exact replay, which skips
the phase checks as the code does.

**ReplicaSyncGate.** `holder` and `waiters` are the lock, `owner`/`epoch`/`blocked`
the attributes, `lease[p]` the lease object a coroutine keeps, also after it
released. An acquisition is two actions, because the gate can be blocked between
the request and the wake-up. `guard` is two actions around the awaited call;
`lastWrite` records the epoch of the last committed result.

**RequestHandoff.** Servers are chosen by the inherited pool in a way the code does
not control, so `ClientAcquires` takes any server of the pool. The release in flight
is `fence[r]`; it stays there until the actor executes it, however late.
`SyncAborts` is the abort that ordinary weight synchronisation causes. FORCE is
split where its answer can be lost: `ForceSnapshot`, then `AbortAnswered` or
`AbortAnswerLost`.

**TaskLifecycle.** One replica of one kind, one journal, one worker. `pc` is the
step at which the worker (or the Trainer or Rollouter method it waits for) stands.
A remote call is `CallCommitServiceChange` or `CallFinalizeRelease`: it runs and
answers, runs and loses its answer, or does not run. Each failure costs one of
`MaxFaults`. `gpu` is what the runtime really is (held, free, or unsure) and is read
by no guard. Exits use the natural drain; FORCE is in `RequestHandoff`. The group
scheduler is one bit, whether the target's lease is out, written as `advance_lease`
would.

**MessageQueue.** `rows` is the SQLite table, `lock` the asyncio lock, `enqueued[s]`
counts how often a sample entered the native queue. A failing put may or may not
have changed the queue.

**Lending.** All variables of the ledger, and for the task runners: `sent`, the
commands on their way (a command may be lost, late, and sent again by an exact
replay), `worker[o]`, the journal's status with what the worker is about to report,
`M` and `releases` of the managers, and `using[r]`, the GPUs that the runtime of `r`
really occupies. No guard of the program reads `using`. A worker has the outcomes
that `TaskLifecycle` shows for it, each with or without its effect when it ends
UNKNOWN. The policy that opens leases and submits commands is outside the
repository; `Serial` is the rule of the acceptance driver, which waits for an
operation before it submits the next one of the lease. The refinement mapping to
`GpuUse` is `users[g]`, the set of replicas whose runtime occupies `g`.
`unrouted` are the replicas that the load balancer refused to publish and the
Rollouter retracted, when that answer was lost (`RetractAdd`, `RetractWake`). The
replay of such an ADD finds a DRAINING replica, takes it for an exit that is already
done, and answers SERVICE_COMMITTED: `CommitAdd` reports success and the replica stays
DRAINING without a route. The drain of a later REMOVE raises `KeyError`
(`load_balancer.py:238`), so the REMOVE is bound to its target and stays UNKNOWN. The
replay of a retracted RESTORE is refused and stays UNKNOWN. The model does not follow
E: an unrouted ADD may be reported a success also when the Trainer had already dropped
its member, where the code stays UNKNOWN, which has fewer behaviours.

**ReplicaRuntime.** `pc` is the point of the call under way; a request may pass the
gate (`admitting`) and enter the engine (`inside`) between any two steps. `engine` is
what is allocated, `stage` what the server has noted; they differ after a call that
took effect and failed. `actor`, `held` and `named` are the Ray actors, the handles
the replica keeps and the names whose death it must prove. `M` decides which call may
come next, as the lifecycle does. The commit of a native replica is three steps:
`CommitNative` calls the full wake, `WakeFully` opens the server's gate
(`http_server.py:285`) while `M` is still DORMANT, and `Activate` publishes the state
(`rollouter.py:1012`); the answer may be lost between any two, and the Trainer may give
up meanwhile (`RestoreAbandoned`). A RESTORE that fails is quarantined by a call that
may be lost itself (`trainer.py:569`): the replica then stays DORMANT with a partly
awake runtime and `pc` is `fenced`, because the operation keeps G BLOCKED.

**TaskSession.** `mail` is the queue of calls from the TaskRunner to the scheduler,
which Ray executes in order even when the caller has stopped waiting. The report is
sent on another channel by the Rollouter's loop; `call` and `callAge` are the report
under way, `signature` and `sentAge` what the loop remembers, `report` what the
scheduler holds. `unreported` marks that a replica left without a report naming it.

**ParameterAudit.** A parameter is a position in the stream, its bytes are a state of
the training actor or garbage, and a digest is the bytes. A state of the actor is a
version and the number of optimizer steps since (`local`). `manifest` and `source`
are the manifests of receivers and training ranks, `weights` what each server has
really loaded. An `update_weights` whose caller has failed may end later (`stray`)
and marks its own manifest, not the current one.

The label of a transfer and its bytes are separate: `steps` is the version that the
Trainer reads when the transfer begins, and `send_weights` streams what the actors hold
when it runs (`Current`). What training may do in between is this module's main
assumption, and it does not come from the gate, which orders synchronisations and
bootstraps but no optimizer step (`docs/simplified-fusion-contract.md:64`):

* a native synchronisation is called by the training loop, which waits for it, and right
  after the step that completed a version (`local_trigger_step` is 1 again,
  `trainer.py:65`), so training stands still from `NewVersion` to `RecordVersion`
  (`due`);
* a bootstrap is called by an operation while the training loop goes on. Training runs
  between the read of the label and the first remote call of the transfer, where the
  code awaits (`checkpoint_engine_manager.py:425-463`), and after the last has returned;
  it does not run while `ray.get` blocks the Trainer's event loop
  (`checkpoint_engine_manager.py:481-505`);
* VERL's own order, optimizer step and then version, is external. An optimizer step is
  one step of the event loop: one that is spread over several awaits could begin before
  a transfer and end after it, and nothing in this repository excludes that.

So a bootstrap may record version `v` for weights that are some optimizer steps ahead
of `v`, and `MembersHoldTheirVersion` says exactly this: a member holds one state of
the actor, at most `MaxLocal` steps after the version E records, and the published
state itself after a synchronisation. The repository's documents name the same gap.

## 3. Runs

| Run | Configuration | Shows |
|---|---|---|
| `ledger` | 2 leases with overlapping bundles and GPUs, 5 operation ids in 7 commands | ownership, wholeness and history of leases under any order of commands and evidence |
| `gate` | 3 coroutines, 2 operations, 4 epochs, with fairness | exclusion, fencing and the latch; waiters are served |
| `handoff` | 2 requests, a native and a borrowed replica, 3 operations, retention 1, with fairness | counters, hand-over, nobody stranded, drains end |
| `lifecycle` | either kind, 4 operations, 3 faults, 3 versions, with fairness | consistency of E, M, C, R and the runtime; workers end |
| `queue` | 2 producers, 3 samples, 2 digests, queue of 2, 2 failures | at most once, evidence |
| `lending` | a native replica, two borrowers, 2 leases on its GPU, one of which expires, 7 operation ids in 10 commands, serial policy | `GpuUse` is implemented; handed-over GPUs stay reserved; a donor whose operations are resolved is stranded only in the four named ways |
| `runtime` | either kind, 2 requests, 3 faults | sleeping, waking and destroying one runtime |
| `session` | 3 replicas, production needs 2, periods of 5 and 10 s, 2 lost messages, with fairness | registration, donation and freshness of reports |
| `audit` | 2 receivers, 2 ranks, 2 parameters, 2 versions, an optimizer step after each, 2 faults | what E records was loaded, as far as the label tells |

Three further runs each check one statement that a document or comment of the
repository makes and the code does not keep; TLC finds the counterexample, and
`findings` in `PROJECT.json` quotes the statement.

* `lending_restaged`: with a policy that does not wait, two DONATE operations of one
  lease are staged; the second is delivered after the lease was restored and closed.
  The replay meets no phase checks, the lease is handed over again without claims,
  and a borrower and the donor come to occupy one GPU.
* `lifecycle_resleep`: the second rollback of one RESTORE returns the stored
  evidence of the first while the runtime is awake.
* `lifecycle_replay`: one reply is lost after the effect, and replaying never
  resolves the operation (liveness under `FairSpec`, one fault). It happens to
  RESTORE (the committed publication has dropped the binding that a replay looks
  for), to exits (the route that a replay drains is gone) and to a rolled back ADD
  (the replay finds the stored creation result and no runtime, and blocks the gate).

Disagreements met while modelling that have no run of their own:

* a failed ADD gives the lease's GPUs back and discards the hand-off
  (`group_scheduler.py:418`); a comment at `trainer.py:341` expects the hand-off to
  be preserved. `LentIsOwned` depends on what the code does;
* "not published" is answered by `commit_service_change` and lost: the replay takes
  the DRAINING replica for an exit and confirms a publication without a route
  (`rollouter.py:1039`). `Lending` and `TaskLifecycle` model it, and it is the third
  case of `Stranded`;
* `current_param_version` is read for `bootstrap_target` and again for
  `commit_pending` (`trainer.py:506, 533`); a new version in between blocks the
  gate with no failure at all (`CommitRefused` in `ParameterAudit`), and optimizer
  steps short of a new version go unnoticed (`MembersHoldTheirVersion`);
* a weights wake that takes effect and fails before its stage is noted is rolled back
  by a sleep that only looks whether the engine sleeps, and the replica rests DORMANT
  with its weights allocated (`http_server.py:163`); it is one of the exceptions in
  `DormantIsInert`. The other is a failed RESTORE whose quarantine was lost: its
  replica is DORMANT and partly awake while its operation keeps the gate BLOCKED
  (`trainer.py:570`);
* the first report of a surplus whose acknowledgement is lost leaves no signature, so
  a surplus that vanishes then is not retracted and ages out instead
  (`rollouter.py:497`); `AcknowledgedRetraction` excludes it by `unsure`;
* a lease that expires between DONATE and ADD admits no command at all, so its donor
  cannot be restored (`group_scheduler.py:133`); it is the first case of `Stranded`.

A smaller disagreement needs no run: the comment above the reservation in
`message_queue.py` says that a failed put removes the reservation, the comment at the
put says that it stays. It stays, and `AtMostOnce` depends on it.

### Bounds

`MaxEpoch` bounds acquisitions: four allow a holder, a queue of two, a block and a
recovery, followed by a new owner, and the proofs hold without the bound's value. `SettledRetention = 1` keeps the collector busy;
`GcBatch = 2` makes a batch larger than the overflow. Four operations allow a
replica to be donated, restored, donated and restored again, or added and removed
with two failed attempts; each counterexample we know needs at most three
operations and three faults. `MaxVersion` 2 allows a version between bootstrap and
commit and another before publication. A queue of two overflows with three samples,
and one termination signal (`MaxEnds`) can displace an entry. In the ledger, no
bound is needed: operation ids are used once. In `lending` the ten commands are a
full cycle of each lease and a second DONATE, REMOVE and RESTORE; the second borrower
can meet the first lease at every point of its cycle. Three faults in `runtime` let a
clean-up fail that a failed roll-back started. Two lost messages in `session` hit a
report and its repetition, two faults in `audit` damage both receivers in the same
way, or damage one and abandon another; one optimizer step (`MaxLocal`) tells the bytes
of a bootstrap from its label. Two parameters are enough for a stream
to be cut or damaged in the middle. With three replicas and a need of two a report in
`session` names one candidate: several donations from one report are covered by the
theorem `ReportedDonationsAreFree`, which has no bound on replicas, and not by the run
(a fourth replica takes it beyond five minutes). The waits of the TaskRunner end in
answers or in timeouts; any other error of the attach call ends the actor
(`task_runner.py:550`) and is not modelled.

Deadlock is not checked where the system legitimately stops: epochs, versions or
operation ids are used up, clients that have finished are idle, a runtime is
destroyed or quarantined, a blocked gate awaits an operator. The ledger and
the queue are checked for deadlock.

### Fairness

* gate: every coroutine that holds the gate goes on (each remote call under it
  ends), and the event loop runs a woken waiter or its timeout.
* requests: generations end (token limits), clients report and release in `finally`
  blocks, the actor executes the releases sent to it, and the Rollouter's drain loop
  polls every 50-100 ms. Nothing forces clients to acquire, nor the scheduler to
  drain.
* lifecycle: a running thread goes on, an UNKNOWN operation is submitted again,
  admitted requests settle, and the training loop synchronises a new version. No
  fault is ever forced.
* session: the scheduler handles the calls that were sent to it, and the waits of the
  TaskRunner are bounded by timeouts. Training need not end, and time need not pass.

## 4. Proofs

`GroupSchedulerProofs` assumes only `LedgerAssumption`: the forms are of their
types, leases are well formed as `Lease.__post_init__` requires, and `None` is not a
member of the sets it stands beside. The inductive invariant `LedgerInv` joins the
three invariants with `EvidenceHasCommand`: evidence is recorded only for a staged
command. Without it a command staged later could find evidence in its place, which
breaks both the history and the borrower's target. The argument:

* reserving a lease whose bundles and GPUs are all unclaimed, and freeing exactly
  what the lease holds, keep every lease whole (`ReserveKeepsWhole`,
  `FreeKeepsWhole`); every other action leaves the owners alone;
* evidence is accepted once, and appended to the history of its own lease once
  (`AppendedHistory`, `AcceptKeepsHistory`);
* a target is set by an ADD that is staged while there is none, and forgotten by
  the rollback of an ADD or the commit of a RESTORE;
* `OwnershipIsEvidenced` is an action property: under `LedgerInv` only the branches
  of `advance_lease` take an owner away, and they hold the evidence.

The second part of the module is about `Lending`. `LendingUsesLedger` says, for
every policy, that a lending cycle is a behaviour of `GSSpec`: a TaskRunner only
presents evidence that the ledger knows (`ReportIsEvidence`), so that the five
theorems above hold in it. The other three, `LentGpusAreOwned`, `LendingIsExclusive`
and `DonorCanReturn`, have the hypothesis `Serial`; `lending_restaged` shows that
exclusivity is lost without it. They assume `LendingAssumption`, which holds of the
program for these reasons:

* a native replica has GPUs and a placement group of its own with a single bundle
  (`rollouter.py:364` refuses any other), and a lease is for the whole replica: two
  leases that share a bundle have the same donor;
* ADD and REMOVE are for borrowed replicas, DONATE and RESTORE for native ones, and
  the key of a borrowed replica is drawn for one ADD, so that no two ADDs have the
  same target, and for every lease there is a key that is not used with another;
* the evidence of `OperationEvidence.now` is among the forms, and `None` is no state.

The invariant `LendingInv` adds to `LedgerInv` what relates the ledger to the journals
and the journals to the runtimes. It reads the ledger through `last[l]`, the kind of
the last operation in the history of `l`, and `held`, the leases that own all their
claims.

* `JournalInv`: a command on its way, or in a journal, is staged. At most one
  operation of a target is active (the journal's rule, `JournalFree`) and at most one
  of a lease is outstanding (the policy's rule). A worker reports what its kind can,
  and an exit that reports a release has its evidence in the Manager.
* `LeaseInv`: a lease is handed over exactly while its last operation is a DONATE,
  and holds its claims then; after the borrower is gone it holds them only for
  a RESTORE that is still to be answered.
* `CommandInv` says what the ledger still looks like when the evidence of an
  outstanding command comes. An outstanding DONATE finds a lease that is fresh
  or was rolled back, never one that is handed over or closed: this is where a
  policy that does not wait fails. An ADD and a REMOVE find the hand-over and
  themselves as the borrower's target; a RESTORE finds its claims.
* `NativeInv`: a native replica is in the cycle of one lease at a time
  (`CycleIsExclusive`), and sleeps with no RESTORE under way while it is lent
  (`LentSleeps`). `DonateIsFirst` covers the gap between the sleep and the ledger's
  knowledge of it: a DONATE that drains its target, or has put it to sleep, is for a
  replica that no lease has in its cycle.
* `BorrowedInv`: a borrowed runtime occupies GPUs only as the borrower of a lease
  that is handed over to it (`BorrowedIsLent`). A release that an ADD reports is real
  or follows a refusal that stays one (`RolledBackIsGone`: an expired lease stays
  expired, and a lease that was used stays used), so that no replay creates a runtime
  after the claims have been given back. A replica whose ADD succeeded serves
  until a REMOVE has begun (`AddedServes`), unless it is one that R refused: an
  unrouted replica is DRAINING, and neither an exit nor the end of its ADD frees it
  (`UnroutedDrains`).

TLC checks the parts on the instance of `lending` (168,964 states). The proof has one
lemma for each kind of step: the steps of a worker that leave its target alone
(`WorkerOnly`), those on a native target (`DonateStep`, `RestoreStep`), on a borrowed
one (`AddStep`, `RemoveStep`), and the evidence that the ledger accepts
(`DonateAccepted`, `HandoffEnds`, `RestoreAccepted`); a step on one kind of target
leaves the invariant of the other kind alone (`NativeStepKeepsBorrowed`,
`BorrowedStepKeepsNative`).

From `LendingInv`, `LentIsOwned` is immediate. For the refinement `UserOfGpu` says who
can occupy a GPU: its own native replica, or the borrower of a lease that is handed
over. A RESTORE wakes its replica while no lease of it is handed over
(`WakesOnFreeGpus`), and an ADD creates a runtime on the GPUs of a donor that sleeps,
under the only lease that is in its cycle (`CreatesOnFreeGpus`); every other change
gives all GPUs up or keeps them (`UsingStep`). For `DonorHasWayBack` the
last operation of the lease decides: after a DONATE the ADD with an unused key, or the
REMOVE of the borrower that serves, is admitted (`LentHasWayBack`); after an ADD or a
REMOVE the claims are free for a RESTORE (`ReturnedHasWayBack`), or `Stranded` says
why not. It is a statement about states in which the operations of the lease are
resolved; that the policy submits the command, and that the command succeeds, is not
claimed. An operation that stays UNKNOWN through every replay (run `lifecycle_replay`)
is outside its premise: it holds the donor as well, and an operator has to act.

`ReplicaSyncGateProofs` assumes only `GateAssumption` (`None` is no caller,
operation or record; the bound is a natural number). Mutual exclusion is not
inductive: a lease object that was released could equal the current owner. The
invariant `GateInv` adds `EpochsFence`: the owner has the newest epoch, no lease has
a newer one, and the lease that equals the owner belongs to a coroutine that is
inside. Every acquisition is `TakeKeepsInv`, every departure `LeaveKeepsInv`, every
change of the queue `QueueKeepsInv`.

`GateTypeCorrect` is the type part of the same invariant.

`MessageQueueProofs` assumes `QueueAssumption`: the queue holds at least one entry,
and `None` is no sample, producer, row or Boolean. `QueueInv` has three parts.
`LedgerInv` says that a sample without a row was never put and that the row of the
put under the lock is provisional: without it a failed put, whose row stays, could
be put again. `OrderInv` says that all numbers drawn are below `next_seq` and that
the put under the lock has a number above every number in the queue. `DropsInv`
counts: each displaced entry is in a row, or was displaced by a put that failed or
by a termination signal. The native put is one lemma for the queue with room and the
queue that displaces its head.

`ReplicaRuntimeProofs` assumes that the two kinds are the ones the code knows and
that the bounds are natural numbers. None of the four invariants is inductive alone;
they are proved together with `NativeInv` and `BorrowedInv`, which say what holds at
each point of a call. For a native replica: the gate is closed from the barrier on,
the barrier has let all admitted requests into the engine, the drain has let them
out, and the transfer of a bootstrap comes before the full wake, so that the gate opens
on loaded weights although the replica is not yet ACTIVE. For a borrowed one:
an actor has its name noted before it has a handle, so an actor without a name was
never made, is dead, or is the worker that the failed creation takes back; the death
of every named actor is proved before RELEASED.

`ParameterAuditProofs` assumes at least one parameter. `AuditInv` follows the bytes:
a complete source manifest of the transfer lists one whole state of the actor, of the
version on its label and at most `MaxLocal` steps later, and the state at the label
exactly when it is a synchronisation (`Sent`, `SourceIsSent`); this is where the
scheduling of training enters (`TrainingKeepsInv`). A receiving worker has loaded what
its manifest lists (`LoadedIsListed`), a validated transfer has equal manifests, equal
to the source's if there is one (`VerdictInv`), and a member keeps what it loaded
(`MembersLoaded`).
`TransferInv` keeps the rest of the workers out: while a synchronisation is under
way its receivers are all the members, and an abandoned `update_weights` that ends
late writes to its own manifest and never to the one of the transfer.

`RequestHandoffProofs` assumes `LBAssumption` and `HandoffAssumption`: replicas have
servers of their own, and a task starts with at least one (native) replica, which
the statement about an empty pool needs. `HandoffsInv` relates three parties.
`AttemptInv` makes the load balancer's attempt and the client agree: a client that
generates or holds an aborted output has an ADMITTED attempt at that server, a
release in flight belongs to an idle client, and the server of an unsettled attempt
is in service. `RouteInv` and `DrainInv` tie routes, pool and drains to the phase of
each replica. The counters then change with the set they count
(`PoolCounted`, `SettledCounted`; only finitely many requests are known at a time).
For FORCE, `HandoffInv` says that until the drain ends each aborted request has
proved its hand-off or still holds its output: when no attempt at the server is
unsettled, the second case is impossible. This is why numbers are enough for the
code.

`TaskLifecycleProofs` assumes `LifecycleAssumption`: operation ids are numbers, and
`None` and the owner of native synchronisation are none. `LifecycleInv` has one part
per owner. `JournalInv`: one operation is open at a time, and the worker's control
point belongs to its kind. `FreshInv`: an operation that has not started has left
nothing behind. `GateInv`: the operation that blocks the gate is open, and has what its
replay looks for. `VersionInv`: a member of E is never behind the last synchronised version,
and nothing is routed that is no member. `ServiceInv`: what the state in M allows of
route, lists, requests and runtime. `EntryInv` and `ExitInv`: how far an open
entry or exit has come, also when it is UNKNOWN; these carry the facts over the loss
of an answer to the replay. Each action has a lemma that it keeps
the eight parts; the remote calls have lemmas of their own (`ExitCall`, `EntryCall`,
`FinalizeCall`) that say what they do whether they answer or not.

`TaskSessionProofs` assumes that the list of replicas has no repetition, that
capacities are positive, and that `None` is none of the values it stands beside.
`SessionInv` has these parts:

* `MailInv` lists the contents of the mail at each stage of the TaskRunner. The
  compensating detach is always behind the attach, also when the attach was never
  acknowledged, which gives `SchedulerKnowsReadyTasks` and `NoGhostRegistration` (the
  safety half of `GoneIsForgotten`);
* `DonationInv`: with `Need` replicas required for the capacity that is committed,
  the last `Need` of the list (`Kept`) are never offered, so no number of
  donations from old reports can take them. `KeptIsNeeded` and `KeptIsCapacity` are
  the arithmetic of the rounding, `CandidatesSpareKept` the counting;
* `LoopInv` and `RetractInv`: what the loop remembers of the last report;
* `AgeInv` bounds the age of the report in each state of the loop. It needs
  `RepeatsInTime`, a hypothesis of `ReportsStayFresh` alone: the delay of a call is
  less than the period, and period, delay and one round per lost report fit
  into the scheduler's limit. The configuration of `session` meets the bound with
  equality: 5 + 1 + 2 * 2 = 10 seconds; the code's 5 and 10 seconds allow two lost
  reports in a row when a call takes at most a second, and not three. `MaxDelay` is
  what this rests on: the scheduler is single-threaded and may wait for a TaskRunner
  for `CONTROL_RPC_TIMEOUT_S`, and a report that it keeps waiting longer than the bound
  is outside the statement.

Only model-checked is liveness (`WaitersAreServed`, `DrainsComplete`, `WorkersEnd`,
the liveness of `GoneIsForgotten`, and the refuted `UnknownResolves`): fairness and
ENABLED are outside the prover's reach. Every safety invariant, action property and
refinement that a passing run checks has a theorem.

## 5. Not modelled

* the hashing of tensors and the collective itself; token budgets, digests of
  prefixes and payloads (equal or different is all the models keep);
* the field-by-field validation of placement specs and of the configuration
  (`runtime_profile.py`), discovery of the scheduler and creation of a task's
  components: they run once, in a fixed order, and keep no state of their own;
* `finalize` of the HCCL engine beyond its success or failure;
* the crash of a whole task, of a native replica's actors or of the scheduler: the
  code persists nothing but the completion table and has no recovery for them.
  Borrowed actors may die at any time;
* several operations of one task at a time: its replicas share the gate and the
  journal. `TaskLifecycle` follows one replica, and other operations appear only
  through the gate's BLOCKED latch and native synchronisation; `Lending` has several
  replicas, and workers reduced to their outcomes;
* helpers for tests, and acceptance scripts other than the driver's rule above.

## 6. Plan

The plan is carried out: every part of the core is modelled, each hazard but one has a
property (the order in which the scheduler records and sends a command has a note
instead), and the safety of every component and of the lending cycle is proved. What could be
added:

1. a policy between `Serial` and none: the proof uses only that an operation which
   is not resolved has no successor of the same lease, and `LendingInv` shows where
   (`DonatePending`, `RestorePending`). Whether a policy that orders only the DONATEs
   and RESTOREs of a lease is enough is open;
2. a refinement from `TaskLifecycle` to the worker of `Lending`, which is now an
   abstraction made by hand, justified in the comments of its actions;
3. several operations of one task under one gate.
