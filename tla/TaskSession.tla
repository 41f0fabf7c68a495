---------------------------- MODULE TaskSession -----------------------------
(***************************************************************************)
(* The session of one task at the group scheduler: the TaskRunner attaches *)
(* with three waits and a reconciliation, runs, and detaches; meanwhile    *)
(* the Rollouter's loop reports replicas that are idle, and the policy     *)
(* donates reported ones.                                                  *)
(*                                                                         *)
(* The scheduler handles the calls of one caller in the order in which     *)
(* they were made; a call that timed out is still handled.  Time advances  *)
(* in the seconds of the loop.                                             *)
(***************************************************************************)
EXTENDS Integers, Sequences, FiniteSets

CONSTANTS
  Order,        \* the task's replicas in the order of registration
  PerReplica,   \* concurrent_samples_per_replica
  MaxRequired,  \* max_required_samples
  RefreshS,     \* an unchanged report is repeated after this time
  MaxAgeS,      \* _IDLE_REPORT_MAX_AGE_S
  MaxDelay,     \* bound: seconds a report may be under way
  MaxFaults,    \* bound: lost reports and lost answers
  None

Replicas == {Order[i] : i \in DOMAIN Order}

Calls == {"attach", "query", "detach"}
Report == [cands : SUBSET Replicas, age : 0..MaxAgeS + 1]

ASSUME SessionAssumption ==
  /\ Order \in Seq(Replicas)
  /\ \A i, j \in DOMAIN Order : Order[i] = Order[j] => i = j
  /\ PerReplica \in Nat \ {0} /\ MaxRequired \in Nat \ {0}
  /\ RefreshS \in Nat /\ MaxAgeS \in Nat /\ MaxDelay \in Nat /\ MaxFaults \in Nat
  /\ None \notin Report \cup {"attached", "present", "absent", "detached"}
  /\ \A S \in SUBSET Replicas : S # None

VARIABLES
  run,         \* TaskRunner: starting, attaching, querying, undoing, ready, over
  waits,       \* timeouts of the attach call
  mail,        \* calls of the TaskRunner that the scheduler has not handled
  answer,      \* its answer to the last one it has
  registered,  \* task_runners has the session
  report,      \* idle report: candidates and age, or None
  paused,      \* native production is paused
  active,      \* replicas that are ACTIVE in M
  serving,     \* replicas in the service lists of C
  granted,     \* DONATE operations accepted and not yet begun
  unreported,  \* a replica has left without a report that names it
  loop,        \* idle loop: idle, sending, done, refused or ended
  due,         \* its next round is due
  call,        \* candidates of the report under way
  callAge,     \* time since it was sent
  signature,   \* _idle_report_signature, or None
  sentAge,     \* time since _idle_report_last_sent
  unsure,      \* a report failed and no later one has been acknowledged
  faults

runnerVars == <<run, waits>>
gsVars == <<registered, report>>
taskVars == <<paused, active, serving, granted, unreported>>
loopVars == <<loop, due, call, callAge, signature, sentAge, unsure>>
vars == <<runnerVars, mail, answer, gsVars, taskVars, loopVars, faults>>

FlagsOK ==
  /\ registered \in BOOLEAN /\ paused \in BOOLEAN /\ unreported \in BOOLEAN
  /\ due \in BOOLEAN /\ unsure \in BOOLEAN

TypeOK ==
  /\ FlagsOK
  /\ run \in {"starting", "attaching", "querying", "undoing", "ready", "over"}
  /\ waits \in 0..3
  /\ mail \in Seq(Calls) /\ Len(mail) <= 3
  /\ answer \in {None, "attached", "present", "absent", "detached"}
  /\ report \in Report \cup {None}
  /\ active \subseteq serving /\ serving \subseteq Replicas
  /\ granted \subseteq Replicas
  /\ loop \in {"idle", "sending", "done", "refused", "ended"}
  /\ call \subseteq Replicas
  /\ callAge \in 0..MaxDelay
  /\ signature \in ((SUBSET Replicas) \ {{}}) \cup {None}
  /\ sentAge \in 0..RefreshS
  /\ faults \in 0..MaxFaults

Init ==
  /\ run = "starting" /\ waits = 0 /\ mail = <<>> /\ answer = None
  /\ registered = FALSE /\ report = None
  /\ paused = FALSE /\ active = Replicas /\ serving = Replicas
  /\ granted = {} /\ unreported = FALSE
  /\ loop = "idle" /\ due = FALSE /\ call = {} /\ callAge = 0
  /\ signature = None /\ sentAge = 0 /\ unsure = FALSE
  /\ faults = 0

-----------------------------------------------------------------------------
(* The TaskRunner *)

Send(c) == mail' = Append(mail, c) /\ answer' = None

Attach ==
  /\ run = "starting"
  /\ Send("attach")
  /\ run' = "attaching"
  /\ UNCHANGED <<waits, gsVars, taskVars, loopVars, faults>>

(* Faulty variant: after the last timeout the attach is taken for granted. *)
AttachConfirmedLate ==
  /\ \/ run = "attaching" /\ answer = "attached"
     \/ run = "querying"
  /\ run' = "ready" /\ waits' = 0 /\ answer' = None
  /\ UNCHANGED <<mail, gsVars, taskVars, loopVars, faults>>

(* The answer arrives, or the ledger shows this very actor. *)
Attached ==
  /\ \/ run = "attaching" /\ answer = "attached"
     \/ run = "querying" /\ answer = "present"
  /\ run' = "ready" /\ waits' = 0 /\ answer' = None
  /\ UNCHANGED <<mail, gsVars, taskVars, loopVars, faults>>

(* The same call is waited for three times, then the ledger is read. *)
AttachTimesOut ==
  /\ run = "attaching"
  /\ waits' = waits + 1
  /\ IF waits < 2 THEN UNCHANGED <<run, mail, answer>>
     ELSE run' = "querying" /\ Send("query")
  /\ UNCHANGED <<gsVars, taskVars, loopVars, faults>>

(* Faulty variant: an attach that was not confirmed is simply given up. *)
QueryGivesUp ==
  /\ run = "querying"
  /\ run' = "undoing"
  /\ UNCHANGED <<waits, mail, answer, gsVars, taskVars, loopVars, faults>>

(* Without an answer a compensating detach is queued behind the attach. *)
QueryFails ==
  /\ run = "querying"
  /\ run' = "undoing" /\ Send("detach")
  /\ UNCHANGED <<waits, gsVars, taskVars, loopVars, faults>>

(* Acknowledged or not, the start has failed. *)
Undone ==
  /\ run = "undoing"
  /\ run' = "over"
  /\ UNCHANGED <<waits, mail, answer, gsVars, taskVars, loopVars, faults>>

(* run() ends or fails: no more operations are taken, then it detaches. *)
Finish ==
  /\ run = "ready"
  /\ run' = "over" /\ Send("detach")
  /\ UNCHANGED <<waits, gsVars, taskVars, loopVars, faults>>

-----------------------------------------------------------------------------
(* The group scheduler *)

HandleAttach ==
  /\ mail # <<>> /\ Head(mail) = "attach"
  /\ mail' = Tail(mail)
  /\ registered' = TRUE /\ answer' = "attached"
  /\ UNCHANGED <<runnerVars, report, taskVars, loopVars, faults>>

HandleQuery ==
  /\ mail # <<>> /\ Head(mail) = "query"
  /\ mail' = Tail(mail)
  /\ answer' = IF registered THEN "present" ELSE "absent"
  /\ UNCHANGED <<runnerVars, gsVars, taskVars, loopVars, faults>>

HandleDetach ==
  /\ mail # <<>> /\ Head(mail) = "detach"
  /\ mail' = Tail(mail)
  /\ registered' = FALSE /\ report' = None /\ answer' = "detached"
  /\ UNCHANGED <<runnerVars, taskVars, loopVars, faults>>

(* A report replaces the last one; without registration it is refused. *)
HandleReport ==
  /\ loop = "sending"
  /\ IF registered
     THEN report' = [cands |-> call, age |-> 0] /\ loop' = "done"
     ELSE loop' = "refused" /\ UNCHANGED report
  /\ UNCHANGED <<runnerVars, mail, answer, registered, taskVars, due, call, callAge,
                 signature, sentAge, unsure, faults>>

Fresh == report # None /\ report.age <= MaxAgeS

(* A DONATE of the policy: if there is a report, it is recent and names the  *)
(* replica.  The TaskRunner takes operations while it runs.                  *)
Donate(n) ==
  /\ registered /\ run = "ready"
  /\ report # None => Fresh /\ n \in report.cands
  /\ granted' = granted \cup {n}
  /\ unreported' = (unreported \/ report = None)
  /\ UNCHANGED <<runnerVars, mail, answer, gsVars, paused, active, serving,
                 loopVars, faults>>

-----------------------------------------------------------------------------
(* The Rollouter *)

Min2(a, b) == IF a < b THEN a ELSE b

(* max_concurrent_samples of so many servers. *)
Capacity(servers) == Min2(Cardinality(servers) * PerReplica, MaxRequired)

(* Faulty variant: the division rounds down. *)
RequiredFloor(capacity) == capacity \div PerReplica

RequiredActive(capacity) == (capacity + PerReplica - 1) \div PerReplica

(* The active replicas that M lists before n. *)
ActiveBefore(n) ==
  {m \in active : \E i, j \in DOMAIN Order : i < j /\ m = Order[i] /\ n = Order[j]}

(* collect_idle_candidates: the surplus over what the committed capacity     *)
(* needs, from the front of the list.                                        *)
Candidates ==
  LET surplus == Cardinality(active) - RequiredActive(Capacity(serving))
  IN IF paused THEN {n \in active : Cardinality(ActiveBefore(n)) < surplus} ELSE {}

(* Native production pauses and resumes. *)
Produce ==
  /\ paused' = ~ paused
  /\ UNCHANGED <<runnerVars, mail, answer, gsVars, active, serving, granted,
                 unreported, loopVars, faults>>

(* prepare_exit of a donated replica, or its refusal. *)
BeginExit(n) ==
  /\ n \in granted
  /\ granted' = granted \ {n}
  /\ active' = active \ {n}
  /\ UNCHANGED <<runnerVars, mail, answer, gsVars, paused, serving, unreported,
                 loopVars, faults>>

(* commit_service_change leaves C and updates the capacity. *)
CommitExit(n) ==
  /\ n \in serving \ active
  /\ serving' = serving \ {n}
  /\ UNCHANGED <<runnerVars, mail, answer, gsVars, paused, active, granted,
                 unreported, loopVars, faults>>

(* RESTORE commits M and C together. *)
Return(n) ==
  /\ run = "ready" /\ n \notin serving
  /\ active' = active \cup {n} /\ serving' = serving \cup {n}
  /\ UNCHANGED <<runnerVars, mail, answer, gsVars, paused, granted, unreported,
                 loopVars, faults>>

-----------------------------------------------------------------------------
(* _idle_report_loop *)

(* Faulty variant: a report that did not change is not repeated. *)
NeverDue(cands) == cands # signature

ReportDue(cands) == cands # signature \/ sentAge >= RefreshS

LoopIs(l) == loop' = l /\ due' = FALSE

(* One round: send what is due, retract what was reported, or nothing. *)
Round ==
  /\ loop = "idle" /\ due
  /\ \/ /\ IF Candidates = {} THEN signature # None ELSE ReportDue(Candidates)
        /\ LoopIs("sending")
        /\ call' = Candidates /\ callAge' = 0
     \/ /\ IF Candidates = {} THEN signature = None ELSE ~ ReportDue(Candidates)
        /\ LoopIs("idle")
        /\ UNCHANGED <<call, callAge>>
  /\ UNCHANGED <<runnerVars, mail, answer, gsVars, taskVars, signature, sentAge,
                 unsure, faults>>

(* Faulty variant: a retraction counts as done when it fails. *)
ForgetsRetraction ==
  /\ signature' = (IF call = {} THEN None ELSE signature)
  /\ UNCHANGED <<sentAge, unsure>>

(* The answer is an exception: nothing is noted, the next round tries again. *)
ReportFailed ==
  /\ unsure' = (unsure \/ call # {})
  /\ UNCHANGED <<signature, sentAge>>

ReportReturns ==
  /\ \/ /\ loop = "done"
        /\ signature' = (IF call = {} THEN None ELSE call)
        /\ sentAge' = (IF call = {} THEN 0 ELSE Min2(callAge, RefreshS))
        /\ unsure' = FALSE
        /\ UNCHANGED faults
     \/ loop = "refused" /\ ReportFailed /\ UNCHANGED faults
     \/ /\ loop \in {"sending", "done"}
        /\ faults < MaxFaults /\ faults' = faults + 1
        /\ ReportFailed
  /\ LoopIs("idle")
  /\ call' = {} /\ callAge' = 0
  /\ UNCHANGED <<runnerVars, mail, answer, gsVars, taskVars>>

(* Native fit is over, before or after run() is: the loop ends and retracts  *)
(* nothing.                                                                  *)
LoopEnds ==
  /\ loop = "idle" /\ run \in {"ready", "over"}
  /\ LoopIs("ended")
  /\ signature' = None /\ sentAge' = 0
  /\ UNCHANGED <<runnerVars, mail, answer, gsVars, taskVars, call, callAge, unsure,
                 faults>>

(* A second passes.  The loop, once fit is running, has its round in it. *)
Tick ==
  /\ ~ due
  /\ loop = "sending" \/ loop = "done" \/ loop = "refused" => callAge < MaxDelay
  /\ due' = (loop = "idle" /\ run \in {"ready", "over"})
  /\ callAge' = IF loop \in {"idle", "ended"} THEN callAge ELSE callAge + 1
  /\ sentAge' = IF signature = None THEN 0 ELSE Min2(sentAge + 1, RefreshS)
  /\ report' = IF report = None THEN None
               ELSE [cands |-> report.cands, age |-> Min2(report.age + 1, MaxAgeS + 1)]
  /\ UNCHANGED <<runnerVars, mail, answer, registered, taskVars, loop, call,
                 signature, unsure, faults>>

-----------------------------------------------------------------------------
RunnerStep == Attach \/ Attached \/ AttachTimesOut \/ QueryFails \/ Undone \/ Finish

Handle == HandleAttach \/ HandleQuery \/ HandleDetach

LoopStep == Round \/ HandleReport \/ ReportReturns \/ LoopEnds

Next ==
  \/ RunnerStep \/ Handle \/ LoopStep \/ Tick \/ Produce
  \/ \E n \in Replicas : Donate(n) \/ BeginExit(n) \/ CommitExit(n) \/ Return(n)

Spec == Init /\ [][Next]_vars

(* The actors handle their calls, and no wait of the TaskRunner is endless;  *)
(* nothing makes training end.                                               *)
Fairness == WF_vars(Handle) /\ WF_vars(AttachTimesOut) /\ WF_vars(Undone)

FairSpec == Spec /\ Fairness

-----------------------------------------------------------------------------
(* Properties *)

(* A TaskRunner that takes operations is registered, however late its attach *)
(* and the answers were: the scheduler can always reach what it has started. *)
ReadyIsRegistered == TypeOK /\ (run = "ready" => registered)

(* Donations alone never cost the task capacity: as long as replicas leave   *)
(* only because a report named them, the replicas that are left serve as     *)
(* many samples as all of them did, even though reports are seconds old,     *)
(* several donations share a report and begin late.                          *)
DonationsKeepCapacity == ~ unreported => Capacity(active) = Capacity(Replicas)

(* When the loop has nothing reported and no report of it has failed, the    *)
(* scheduler holds no candidate of the task.                                 *)
AcknowledgedRetraction ==
  loop # "ended" /\ signature = None /\ ~ unsure =>
    loop # "idle" \/ report = None \/ report.cands = {}

(* What the loop believes reported is donatable: the report the scheduler    *)
(* holds is repeated or retracted before it gets too old, even when a report *)
(* or its answer is lost on the way.                                         *)
SurplusStaysFresh == run = "ready" /\ signature # None => Fresh

(* A session that is over is forgotten, for good: no attach that was handled *)
(* late and no report of the loop brings it back ("prevents a later ghost    *)
(* registration").                                                           *)
GoneIsForgotten == run = "over" ~> [](~ registered /\ report = None)

=============================================================================
