-------------------------- MODULE TaskSessionProofs --------------------------
(***************************************************************************)
(* Proofs about the session of a task, for any number of replicas, any     *)
(* capacity and any periods of the idle loop.                              *)
(***************************************************************************)
EXTENDS TaskSession, FiniteSetTheorems, TLAPS

(* run() has not begun to take operations, or never will. *)
EarlyRuns == {"starting", "attaching", "querying", "undoing"}

(* The calls that wait at the scheduler. *)
NoCall == Len(mail) = 0
OneCall(c) == Len(mail) = 1 /\ mail[1] = c
TwoCalls(c, d) == Len(mail) = 2 /\ mail[1] = c /\ mail[2] = d
ThreeCalls(c, d, e) == Len(mail) = 3 /\ mail[1] = c /\ mail[2] = d /\ mail[3] = e

(* The calls the TaskRunner has made, and what the scheduler has made of     *)
(* them: a detach is always behind the attach it undoes.                     *)
MailInv ==
  /\ run = "starting" => NoCall /\ ~ registered /\ waits = 0
  /\ run = "attaching" =>
       /\ waits \in 0..2
       /\ \/ OneCall("attach") /\ ~ registered /\ answer = None
          \/ NoCall /\ registered
  /\ run = "querying" =>
       \/ TwoCalls("attach", "query") /\ ~ registered /\ answer = None
       \/ OneCall("query") /\ registered /\ answer # "present"
       \/ NoCall /\ registered
  /\ run = "ready" => NoCall /\ registered
  /\ run \in {"undoing", "over"} =>
       \/ ThreeCalls("attach", "query", "detach")
       \/ TwoCalls("query", "detach")
       \/ OneCall("detach")
       \/ NoCall /\ ~ registered

(* The loop reports nothing before the task runs. *)
LoopInv ==
  /\ run \in EarlyRuns => loop = "idle" /\ ~ due /\ signature = None
  /\ report # None => registered /\ run \notin EarlyRuns
  /\ run = "ready" => loop # "refused"
  /\ loop = "ended" => signature = None

(* While nothing is noted as reported and no report has failed, the          *)
(* scheduler has no candidate; a report it has just taken is the one sent.   *)
RetractInv ==
  /\ loop \in {"idle", "sending", "refused"} /\ signature = None /\ ~ unsure =>
       report = None \/ report.cands = {}
  /\ loop = "done" => report = None \/ report.cands = call

(* The time that the reports lost so far have cost: each is noticed after    *)
(* MaxDelay, and the next round is a second later.                           *)
Slack == faults * (MaxDelay + 1)

(* What the five and ten seconds of the code must satisfy for reports to be  *)
(* repeated in time.                                                         *)
RepeatsInTime ==
  /\ MaxDelay < RefreshS
  /\ RefreshS + MaxDelay + MaxFaults * (MaxDelay + 1) <= MaxAgeS

(* While the task runs, how old the report can be in each state of the loop. *)
AgeInv ==
  /\ run = "ready" /\ loop = "done" => report # None /\ report.age <= callAge
  /\ run = "ready" /\ signature # None =>
       /\ report # None
       /\ sentAge < RefreshS => report.age <= sentAge
       /\ sentAge < RefreshS /\ loop \in {"sending", "done"} => callAge <= sentAge
       /\ loop = "idle" /\ ~ due /\ sentAge = RefreshS => report.age < RefreshS + Slack
       /\ loop = "idle" /\ due => report.age <= RefreshS + Slack
       /\ loop \in {"sending", "done"} => report.age <= RefreshS + callAge + Slack

(* How many replicas the committed capacity needs, and the ones that are     *)
(* never offered: the last of the list.                                      *)
Need == RequiredActive(Capacity(Replicas))

Kept == {Order[i] : i \in Len(Order) - Need + 1 .. Len(Order)}

(* No replica of Kept is offered, granted or gone, as long as every donation *)
(* was from a report.                                                        *)
DonationInv ==
  ~ unreported =>
    /\ Kept \subseteq active
    /\ granted \cap Kept = {} /\ call \cap Kept = {}
    /\ report # None => report.cands \cap Kept = {}

SessionInv ==
  /\ TypeOK
  /\ MailInv
  /\ LoopInv
  /\ RetractInv
  /\ RepeatsInTime => AgeInv
  /\ DonationInv

-----------------------------------------------------------------------------
(* Capacity and candidates *)

(* Rounding up: so many replicas serve the capacity, and one less do not. *)
LEMMA CeilingCovers ==
  ASSUME NEW c \in Nat, NEW p \in Nat, p > 0
  PROVE  LET q == (c + p - 1) \div p
         IN /\ q \in Nat
            /\ q * p >= c
            /\ \A n \in Nat : c <= n * p => q <= n
<1> DEFINE q == (c + p - 1) \div p
           m == (c + p - 1) % p
<1>1. q \in Int /\ m \in 0..(p - 1) /\ c + p - 1 = p * q + m
  OBVIOUS
<1> HIDE DEF q, m
<1>2. q * p >= c
  BY <1>1
<1>3. q \in Nat
  BY <1>1, <1>2
<1>4. ASSUME NEW n \in Nat, c <= n * p
      PROVE  q <= n
  BY <1>1, <1>4
<1> QED
  BY <1>2, <1>3, <1>4 DEF q

LEMMA ReplicasAreCounted ==
  IsFiniteSet(Replicas) /\ Cardinality(Replicas) = Len(Order) /\ Len(Order) \in Nat
<1>1. Order \in Seq(Replicas) /\ Len(Order) \in Nat /\ DOMAIN Order = 1..Len(Order)
  BY SessionAssumption
<1>2. IsFiniteSet(1..Len(Order)) /\ Cardinality(1..Len(Order)) = Len(Order)
  BY <1>1, FS_Interval
<1>3. Order \in Bijection(1..Len(Order), Replicas)
  BY <1>1, SessionAssumption DEF Bijection, Injection, Surjection, IsInjective, Replicas
<1> QED
  BY <1>1, <1>2, <1>3, FS_Bijection DEF ExistsBijection

(* The replicas that are never offered are as many as the capacity needs. *)
LEMMA KeptIsNeeded ==
  /\ Need \in Nat /\ Need <= Len(Order)
  /\ Need * PerReplica >= Capacity(Replicas)
  /\ Kept \subseteq Replicas /\ IsFiniteSet(Kept) /\ Cardinality(Kept) = Need
<1> DEFINE c == Capacity(Replicas)
           low == Len(Order) - Need + 1
<1>1. /\ PerReplica \in Nat /\ PerReplica > 0 /\ MaxRequired \in Nat
      /\ Cardinality(Replicas) = Len(Order) /\ Len(Order) \in Nat
      /\ DOMAIN Order = 1..Len(Order)
  BY ReplicasAreCounted, SessionAssumption
<1>2. c \in Nat /\ c <= Len(Order) * PerReplica
  BY <1>1 DEF Capacity, Min2
<1>3. Need \in Nat /\ Need <= Len(Order) /\ Need * PerReplica >= c
  <2> HIDE DEF c
  <2>1. Need = (c + PerReplica - 1) \div PerReplica
    BY DEF Need, RequiredActive, c
  <2> QED
    BY <1>1, <1>2, <2>1, CeilingCovers
<1>4. /\ low \in Int /\ low >= 1
      /\ IsFiniteSet(low..Len(Order)) /\ Cardinality(low..Len(Order)) = Need
  BY <1>1, <1>3, FS_Interval
<1>5. Kept \subseteq Replicas
  <2>1. \A i \in low..Len(Order) : i \in DOMAIN Order
    BY <1>1, <1>4
  <2> QED
    BY <2>1 DEF Kept, Replicas
<1>6. [i \in low..Len(Order) |-> Order[i]] \in Bijection(low..Len(Order), Kept)
  BY <1>1, <1>4, SessionAssumption
     DEF Bijection, Injection, Surjection, IsInjective, Kept
<1> QED
  BY <1>3, <1>4, <1>5, <1>6, FS_Bijection DEF ExistsBijection

(* As long as those are left, nothing of the capacity is lost. *)
LEMMA KeptIsCapacity ==
  ASSUME NEW S \in SUBSET Replicas, Kept \subseteq S
  PROVE  Capacity(S) = Capacity(Replicas)
<1>1. /\ IsFiniteSet(S) /\ Cardinality(S) \in Nat /\ Cardinality(S) >= Need
      /\ Cardinality(S) <= Cardinality(Replicas) /\ Cardinality(Replicas) \in Nat
  BY ReplicasAreCounted, KeptIsNeeded, FS_Subset, FS_CardinalityType
<1>2. /\ PerReplica \in Nat /\ PerReplica > 0 /\ MaxRequired \in Nat
      /\ Need \in Nat /\ Need * PerReplica >= Capacity(Replicas)
  BY KeptIsNeeded, SessionAssumption
<1> DEFINE s == Cardinality(S)
           t == Cardinality(Replicas)
<1> HIDE DEF s, t
<1>3. /\ s * PerReplica >= Need * PerReplica /\ s * PerReplica <= t * PerReplica
      /\ s * PerReplica \in Nat /\ t * PerReplica \in Nat /\ Need * PerReplica \in Nat
  BY <1>1, <1>2 DEF s, t
<1> QED
  BY <1>2, <1>3 DEF Capacity, Min2, s, t

(* What the loop reports is never one of them: they are the last ones of the *)
(* list, and the surplus ends before them.                                   *)
LEMMA CandidatesSpareKept ==
  ASSUME active \subseteq serving, serving \subseteq Replicas, Kept \subseteq active
  PROVE  Candidates \cap Kept = {}
<1> SUFFICES ASSUME NEW n \in Candidates, n \in Kept
             PROVE  FALSE
  OBVIOUS
<1>1. RequiredActive(Capacity(serving)) = Need
  BY KeptIsCapacity DEF Need
<1>2. n \in active /\ Cardinality(ActiveBefore(n)) < Cardinality(active) - Need
  BY <1>1 DEF Candidates
<1>3. active \ ActiveBefore(n) \subseteq Kept
  <2>1. PICK j \in Len(Order) - Need + 1 .. Len(Order) : n = Order[j]
    BY DEF Kept
  <2>2. /\ Len(Order) \in Nat /\ DOMAIN Order = 1..Len(Order)
        /\ Need \in Nat /\ Need <= Len(Order)
    BY KeptIsNeeded, SessionAssumption
  <2> SUFFICES ASSUME NEW m \in active, m \notin ActiveBefore(n)
               PROVE  m \in Kept
    OBVIOUS
  <2>3. PICK i \in 1..Len(Order) : m = Order[i]
    BY <2>2 DEF Replicas
  <2>4. ~ (i < j)
    BY <2>1, <2>2, <2>3 DEF ActiveBefore
  <2> QED
    BY <2>1, <2>2, <2>3, <2>4 DEF Kept
<1>4. /\ IsFiniteSet(active) /\ IsFiniteSet(ActiveBefore(n))
      /\ Cardinality(active) \in Nat /\ Cardinality(ActiveBefore(n)) \in Nat
  <2>1. IsFiniteSet(active)
    BY ReplicasAreCounted, FS_Subset
  <2>2. ActiveBefore(n) \in SUBSET active
    BY DEF ActiveBefore
  <2> QED
    BY <2>1, <2>2, FS_Subset, FS_CardinalityType
<1>5. Cardinality(active \ ActiveBefore(n)) <= Need
  BY <1>3, KeptIsNeeded, FS_Subset
<1>6. Cardinality(active \ ActiveBefore(n)) >= Cardinality(active) - Cardinality(ActiveBefore(n))
  <2> DEFINE A == active \ ActiveBefore(n)
             B == ActiveBefore(n)
  <2>1. IsFiniteSet(A) /\ A \cup B = active /\ A \cap B = {}
    BY <1>4, FS_Subset DEF ActiveBefore
  <2>2. Cardinality(A \cup B) = Cardinality(A) + Cardinality(B) - Cardinality(A \cap B)
    BY <1>4, <2>1, FS_Union
  <2>3. Cardinality(A) \in Nat /\ Cardinality(B) \in Nat /\ Cardinality(A \cap B) = 0
    BY <1>4, <2>1, FS_CardinalityType, FS_EmptySet
  <2>4. Cardinality(active) = Cardinality(A) + Cardinality(B) - 0
    BY <2>1, <2>2, <2>3
  <2> HIDE DEF A
  <2>5. Cardinality(A) >= Cardinality(active) - Cardinality(B)
    BY <2>3, <2>4
  <2> QED
    BY <2>5 DEF A
<1>7. Cardinality(active \ ActiveBefore(n)) \in Nat /\ Need \in Nat
  BY <1>4, FS_Subset, FS_CardinalityType, KeptIsNeeded
<1> QED
  BY <1>2, <1>4, <1>5, <1>6, <1>7

-----------------------------------------------------------------------------
(* The calls of the TaskRunner *)

(* A call is queued behind the others, and the first one is handled. *)
LEMMA MailSteps ==
  ASSUME mail \in Seq(Calls)
  PROVE  /\ Len(mail) \in Nat
         /\ \A c \in Calls : mail' = Append(mail, c) =>
              /\ mail' \in Seq(Calls) /\ Len(mail') = Len(mail) + 1
              /\ mail'[Len(mail) + 1] = c
              /\ \A i \in 1..Len(mail) : mail'[i] = mail[i]
         /\ mail # <<>> /\ mail' = Tail(mail) =>
              /\ mail' \in Seq(Calls) /\ Len(mail) > 0 /\ Len(mail') = Len(mail) - 1
              /\ \A i \in 1..(Len(mail) - 1) : mail'[i] = mail[i + 1]
              /\ Head(mail) = mail[1]
OBVIOUS

(* What the steps of the loop, of the policy and of production leave alone. *)
LEMMA CallsUntouched ==
  ASSUME \/ LoopStep \/ Tick \/ Produce
         \/ \E n \in Replicas : Donate(n) \/ BeginExit(n) \/ CommitExit(n) \/ Return(n)
         \/ UNCHANGED vars
  PROVE  UNCHANGED <<run, waits, mail, answer, registered>>
BY DEF LoopStep, Round, HandleReport, ReportReturns, LoopEnds, Tick, Produce, Donate,
       BeginExit, CommitExit, Return, runnerVars, gsVars, vars

LEMMA StepKeepsMail ==
  ASSUME TypeOK, MailInv, [Next]_vars
  PROVE  MailInv'
<1>1. mail \in Seq(Calls)
  BY DEF TypeOK
<1>2. CASE Attach
  BY <1>2, <1>1, MailSteps
     DEF Attach, MailInv, Send, Calls, gsVars, NoCall, OneCall, TwoCalls, ThreeCalls
<1>3. CASE Attached
  BY <1>3, <1>1, MailSteps, SessionAssumption
     DEF Attached, MailInv, gsVars, NoCall, OneCall, TwoCalls, ThreeCalls
<1>4. CASE AttachTimesOut
  <2>1. /\ waits \in 0..2 /\ registered' = registered
        /\ \/ OneCall("attach") /\ ~ registered
           \/ NoCall /\ registered
        /\ answer = None \/ registered
    BY <1>4 DEF AttachTimesOut, MailInv, gsVars
  <2>2. CASE waits < 2
    BY <1>4, <2>1, <2>2 DEF AttachTimesOut, MailInv, NoCall, OneCall
  <2>3. CASE ~ (waits < 2)
    <3>1. run' = "querying" /\ mail' = Append(mail, "query") /\ answer' = None
      BY <1>4, <2>3 DEF AttachTimesOut, Send
    <3>2. CASE OneCall("attach") /\ ~ registered
      <4>1. TwoCalls("attach", "query")'
        BY <1>1, <3>1, <3>2, MailSteps DEF OneCall, TwoCalls, Calls
      <4> QED
        BY <2>1, <3>1, <3>2, <4>1 DEF MailInv
    <3>3. CASE NoCall /\ registered
      <4>1. OneCall("query")'
        BY <1>1, <3>1, <3>3, MailSteps DEF NoCall, OneCall, Calls
      <4> QED
        BY <2>1, <3>1, <3>3, <4>1, SessionAssumption DEF MailInv
    <3> QED
      BY <2>1, <3>2, <3>3
  <2> QED
    BY <2>2, <2>3
<1>5. CASE QueryFails
  BY <1>5, <1>1, MailSteps
     DEF QueryFails, MailInv, Send, Calls, gsVars, NoCall, OneCall, TwoCalls, ThreeCalls
<1>6. CASE Undone
  BY <1>6, <1>1, MailSteps
     DEF Undone, MailInv, gsVars, NoCall, OneCall, TwoCalls, ThreeCalls
<1>7. CASE Finish
  BY <1>7, <1>1, MailSteps
     DEF Finish, MailInv, Send, Calls, gsVars, NoCall, OneCall, TwoCalls, ThreeCalls
<1>8. CASE Handle
  <2>1. /\ Len(mail) \in Nat /\ Len(mail) > 0 /\ Len(mail') = Len(mail) - 1
        /\ \A i \in 1..(Len(mail) - 1) : mail'[i] = mail[i + 1]
        /\ run' = run /\ waits' = waits
    BY <1>1, <1>8, MailSteps DEF Handle, HandleAttach, HandleQuery, HandleDetach, runnerVars
  <2>2. CASE HandleAttach
    <3>1. mail[1] = "attach" /\ registered' = TRUE
      BY <1>1, <2>2, MailSteps DEF HandleAttach
    <3>2. CASE run = "attaching"
      BY <2>1, <3>1, <3>2 DEF MailInv, NoCall, OneCall
    <3>3. CASE run = "querying"
      <4>1. TwoCalls("attach", "query")
        BY <2>1, <3>1, <3>3 DEF MailInv, NoCall, OneCall
      <4>2. OneCall("query")'
        BY <2>1, <4>1 DEF OneCall, TwoCalls
      <4>3. answer' # "present"
        BY <2>2 DEF HandleAttach
      <4> QED
        BY <2>1, <3>1, <3>3, <4>2, <4>3 DEF MailInv
    <3>4. CASE run \in {"undoing", "over"}
      <4>1. ThreeCalls("attach", "query", "detach")
        BY <2>1, <3>1, <3>4 DEF MailInv, NoCall, OneCall, TwoCalls
      <4>2. TwoCalls("query", "detach")'
        BY <2>1, <4>1 DEF TwoCalls, ThreeCalls
      <4> QED
        BY <2>1, <3>4, <4>2 DEF MailInv
    <3>5. run \notin {"starting", "ready"}
      BY <2>1 DEF MailInv, NoCall
    <3> QED
      BY <2>1, <3>2, <3>3, <3>4, <3>5 DEF MailInv
  <2>3. CASE HandleQuery
    <3>1. mail[1] = "query" /\ registered' = registered
      BY <1>1, <2>3, MailSteps DEF HandleQuery, gsVars
    <3>2. CASE run = "querying"
      <4>1. OneCall("query") /\ registered
        BY <2>1, <3>1, <3>2 DEF MailInv, NoCall, TwoCalls
      <4>2. NoCall'
        BY <2>1, <4>1 DEF OneCall, NoCall
      <4> QED
        BY <2>1, <3>1, <3>2, <4>1, <4>2 DEF MailInv
    <3>3. CASE run \in {"undoing", "over"}
      <4>1. TwoCalls("query", "detach")
        BY <2>1, <3>1, <3>3 DEF MailInv, NoCall, OneCall, ThreeCalls
      <4>2. OneCall("detach")'
        BY <2>1, <4>1 DEF OneCall, TwoCalls
      <4> QED
        BY <2>1, <3>3, <4>2 DEF MailInv
    <3>4. run \notin {"starting", "attaching", "ready"}
      BY <2>1, <3>1 DEF MailInv, NoCall, OneCall
    <3> QED
      BY <2>1, <3>2, <3>3, <3>4 DEF MailInv
  <2>4. CASE HandleDetach
    <3>1. mail[1] = "detach" /\ registered' = FALSE
      BY <1>1, <2>4, MailSteps DEF HandleDetach
    <3>2. run \notin {"starting", "attaching", "querying", "ready"}
      BY <2>1, <3>1 DEF MailInv, NoCall, OneCall, TwoCalls
    <3>3. CASE run \in {"undoing", "over"}
      <4>1. OneCall("detach")
        BY <2>1, <3>1, <3>3 DEF MailInv, NoCall, TwoCalls, ThreeCalls
      <4>2. NoCall'
        BY <2>1, <4>1 DEF OneCall, NoCall
      <4> QED
        BY <2>1, <3>1, <3>3, <4>2 DEF MailInv
    <3> QED
      BY <2>1, <3>2, <3>3 DEF MailInv
  <2> QED
    BY <1>8, <2>2, <2>3, <2>4 DEF Handle
<1>9. CASE UNCHANGED <<run, waits, mail, answer, registered>>
  BY <1>9 DEF MailInv, NoCall, OneCall, TwoCalls, ThreeCalls
<1> QED
  BY <1>2, <1>3, <1>4, <1>5, <1>6, <1>7, <1>8, <1>9, CallsUntouched
     DEF Next, RunnerStep

-----------------------------------------------------------------------------
(* Types *)

LEMMA StepKeepsFlags ==
  ASSUME FlagsOK, [Next]_vars
  PROVE  FlagsOK'
<1>1. CASE RunnerStep
  BY <1>1 DEF RunnerStep, Attach, Attached, AttachTimesOut, QueryFails, Undone, Finish,
              FlagsOK, gsVars, taskVars, loopVars
<1>2. CASE Handle
  BY <1>2 DEF Handle, HandleAttach, HandleQuery, HandleDetach, FlagsOK, gsVars, taskVars,
              loopVars
<1>3. CASE LoopStep
  BY <1>3 DEF LoopStep, Round, HandleReport, ReportReturns, ReportFailed, LoopEnds, LoopIs,
              FlagsOK, gsVars, taskVars
<1>4. CASE Tick \/ Produce
  BY <1>4 DEF Tick, Produce, FlagsOK, gsVars, taskVars, loopVars
<1>5. CASE \E n \in Replicas : Donate(n) \/ BeginExit(n) \/ CommitExit(n) \/ Return(n)
  BY <1>5 DEF Donate, BeginExit, CommitExit, Return, FlagsOK, gsVars, loopVars
<1>6. CASE UNCHANGED vars
  BY <1>6 DEF vars, FlagsOK, gsVars, taskVars, loopVars
<1> QED
  BY <1>1, <1>2, <1>3, <1>4, <1>5, <1>6 DEF Next

LEMMA StepKeepsTypes ==
  ASSUME TypeOK, MailInv, [Next]_vars
  PROVE  TypeOK'
<1>1. FlagsOK' /\ MailInv'
  BY StepKeepsFlags, StepKeepsMail DEF TypeOK
<1>2. mail' \in Seq(Calls)
  BY MailSteps, CallsUntouched
     DEF TypeOK, Next, RunnerStep, Attach, Attached, AttachTimesOut, QueryFails, Undone,
         Finish, Send, Calls, Handle, HandleAttach, HandleQuery, HandleDetach
<1>3. /\ run' \in {"starting", "attaching", "querying", "undoing", "ready", "over"}
      /\ waits' \in 0..3
      /\ answer' \in {None, "attached", "present", "absent", "detached"}
  <2>1. CASE RunnerStep
    BY <2>1 DEF TypeOK, MailInv, RunnerStep, Attach, Attached, AttachTimesOut, QueryFails,
                Undone, Finish, Send
  <2>2. CASE Handle
    BY <2>2 DEF TypeOK, Handle, HandleAttach, HandleQuery, HandleDetach, runnerVars
  <2> QED
    BY <2>1, <2>2, CallsUntouched DEF TypeOK, Next
<1>4. Len(mail') <= 3
  <2>1. Len(mail') \in {0, 1, 2, 3}
    BY <1>1, <1>3 DEF MailInv, NoCall, OneCall, TwoCalls, ThreeCalls
  <2>2. \A n \in {0, 1, 2, 3} : n <= 3
    OBVIOUS
  <2> QED
    BY <2>1, <2>2
<1>5. /\ active' \subseteq serving' /\ serving' \subseteq Replicas
      /\ granted' \subseteq Replicas
  <2>1. CASE \E n \in Replicas : Donate(n) \/ BeginExit(n) \/ CommitExit(n) \/ Return(n)
    BY <2>1 DEF TypeOK, Donate, BeginExit, CommitExit, Return
  <2>2. CASE UNCHANGED <<active, serving, granted>>
    BY <2>2 DEF TypeOK
  <2> QED
    BY <2>1, <2>2 DEF Next, RunnerStep, Attach, Attached, AttachTimesOut, QueryFails, Undone,
       Finish, Handle, HandleAttach, HandleQuery, HandleDetach, LoopStep, Round, HandleReport,
       ReportReturns, LoopEnds, Tick, Produce, taskVars, vars
<1>6. /\ loop' \in {"idle", "sending", "done", "refused", "ended"}
      /\ call' \subseteq Replicas
      /\ callAge' \in 0..MaxDelay
      /\ signature' \in ((SUBSET Replicas) \ {{}}) \cup {None}
      /\ sentAge' \in 0..RefreshS
      /\ report' \in Report \cup {None}
      /\ faults' \in 0..MaxFaults
  <2>1. CASE Round
    <3>1. Candidates \subseteq Replicas
      BY DEF Candidates, TypeOK
    <3> QED
      BY <2>1, <3>1, SessionAssumption DEF TypeOK, Round, LoopIs, gsVars
  <2>2. CASE HandleReport
    BY <2>2, SessionAssumption DEF TypeOK, HandleReport, Report
  <2>3. CASE ReportReturns
    <3>1. Min2(callAge, RefreshS) \in 0..RefreshS
      BY SessionAssumption DEF TypeOK, Min2
    <3>2. /\ loop' = "idle" /\ call' = {} /\ callAge' = 0 /\ report' = report
          /\ signature' = signature \/ signature' = None \/ (call # {} /\ signature' = call)
          /\ sentAge' \in {sentAge, 0, Min2(callAge, RefreshS)}
          /\ faults' = faults \/ (faults < MaxFaults /\ faults' = faults + 1)
      BY <2>3 DEF ReportReturns, ReportFailed, LoopIs, gsVars
    <3>3. signature' \in ((SUBSET Replicas) \ {{}}) \cup {None}
      BY <3>2 DEF TypeOK
    <3>4. callAge' \in 0..MaxDelay /\ sentAge' \in 0..RefreshS /\ faults' \in 0..MaxFaults
      BY <3>1, <3>2, SessionAssumption DEF TypeOK
    <3> QED
      BY <3>2, <3>3, <3>4 DEF TypeOK
  <2>4. CASE LoopEnds
    BY <2>4, SessionAssumption DEF TypeOK, LoopEnds, LoopIs, gsVars
  <2>5. CASE Tick
    <3>1. callAge' \in 0..MaxDelay
      BY <2>5, SessionAssumption DEF TypeOK, Tick
    <3>2. sentAge' \in 0..RefreshS
      BY <2>5, SessionAssumption DEF TypeOK, Tick, Min2
    <3>3. report' \in Report \cup {None}
      BY <2>5, SessionAssumption DEF TypeOK, Tick, Min2, Report
    <3> QED
      BY <2>5, <3>1, <3>2, <3>3 DEF TypeOK, Tick
  <2>6. CASE HandleDetach
    BY <2>6 DEF TypeOK, HandleDetach, loopVars
  <2>7. CASE UNCHANGED <<loop, call, callAge, signature, sentAge, report, faults>>
    BY <2>7 DEF TypeOK
  <2> QED
    BY <2>1, <2>2, <2>3, <2>4, <2>5, <2>6, <2>7
       DEF Next, RunnerStep, Attach, Attached, AttachTimesOut, QueryFails, Undone, Finish,
           Handle, HandleAttach, HandleQuery, LoopStep, Produce, Donate, BeginExit,
           CommitExit, Return, gsVars, loopVars, vars
<1> QED
  BY <1>1, <1>2, <1>3, <1>4, <1>5, <1>6 DEF TypeOK

-----------------------------------------------------------------------------
(* The report loop *)

(* What the steps outside the loop leave alone. *)
LEMMA LoopUntouched ==
  ASSUME \/ RunnerStep \/ HandleAttach \/ HandleQuery \/ Produce
         \/ \E n \in Replicas : Donate(n) \/ BeginExit(n) \/ CommitExit(n) \/ Return(n)
         \/ UNCHANGED vars
  PROVE  UNCHANGED <<report, loop, due, call, callAge, signature, sentAge, unsure, faults>>
BY DEF RunnerStep, Attach, Attached, AttachTimesOut, QueryFails, Undone, Finish,
       HandleAttach, HandleQuery, Produce, Donate, BeginExit, CommitExit, Return,
       gsVars, loopVars, vars

(* Which way run() goes. *)
LEMMA RunnerMoves ==
  ASSUME Next \/ UNCHANGED vars
  PROVE  /\ run' \in EarlyRuns => run \in EarlyRuns
         /\ run' = "ready" => run \in EarlyRuns \cup {"ready"}
         /\ run \in EarlyRuns /\ run' \notin EarlyRuns => RunnerStep
<1>1. CASE RunnerStep
  BY <1>1 DEF RunnerStep, Attach, Attached, AttachTimesOut, QueryFails, Undone, Finish,
              EarlyRuns
<1>2. CASE run' = run
  BY <1>2
<1>3. CASE Handle
  BY <1>2, <1>3 DEF Handle, HandleAttach, HandleQuery, HandleDetach, runnerVars
<1> QED
  BY <1>1, <1>2, <1>3, CallsUntouched DEF Next

LEMMA StepKeepsLoop ==
  ASSUME TypeOK, MailInv, LoopInv, [Next]_vars
  PROVE  LoopInv'
<1>1. MailInv'
  BY StepKeepsMail
<1>2. CASE RunnerStep \/ HandleAttach \/ HandleQuery \/ Produce \/ UNCHANGED vars
           \/ \E n \in Replicas : Donate(n) \/ BeginExit(n) \/ CommitExit(n) \/ Return(n)
  <2>1. registered => registered'
    BY <1>2, CallsUntouched
       DEF RunnerStep, Attach, Attached, AttachTimesOut, QueryFails, Undone, Finish,
           HandleAttach, HandleQuery, gsVars
  <2> QED
    BY <1>2, <2>1, LoopUntouched, RunnerMoves DEF LoopInv, Next, Handle
<1>3. CASE HandleDetach
  <2>1. /\ report' = None /\ run' = run
        /\ loop' = loop /\ due' = due /\ signature' = signature
    BY <1>3 DEF HandleDetach, runnerVars, loopVars
  <2> QED
    BY <2>1 DEF LoopInv
<1>4. CASE LoopStep \/ Tick
  <2>1. run' = run /\ registered' = registered
    BY <1>4, CallsUntouched
  <2>2. CASE run \in EarlyRuns
    <3>1. loop = "idle" /\ ~ due /\ signature = None
      BY <2>2 DEF LoopInv
    <3>2. Tick
      BY <1>4, <2>2, <3>1 DEF LoopStep, Round, HandleReport, ReportReturns, LoopEnds, EarlyRuns
    <3>3. loop' = "idle" /\ due' = FALSE /\ signature' = None /\ (report = None => report' = None)
      BY <2>2, <3>1, <3>2 DEF Tick, EarlyRuns
    <3> QED
      BY <2>1, <2>2, <3>3 DEF LoopInv
  <2>3. CASE run \notin EarlyRuns
    <3>1. report' # None => registered
      BY <1>4 DEF LoopInv, LoopStep, Round, HandleReport, ReportReturns, LoopEnds, Tick, gsVars
    <3>2. run = "ready" => loop' # "refused"
      <4>1. run = "ready" => registered
        BY DEF MailInv
      <4> QED
        BY <1>4, <4>1 DEF LoopInv, LoopStep, Round, HandleReport, ReportReturns, LoopEnds, Tick,
           LoopIs
    <3>3. loop' = "ended" => signature' = None
      BY <1>4 DEF LoopInv, LoopStep, Round, HandleReport, ReportReturns, LoopEnds, Tick, LoopIs
    <3> QED
      BY <2>1, <2>3, <3>1, <3>2, <3>3 DEF LoopInv, EarlyRuns
  <2> QED
    BY <2>2, <2>3
<1> QED
  BY <1>2, <1>3, <1>4 DEF Next, Handle

LEMMA StepKeepsRetraction ==
  ASSUME TypeOK, RetractInv, [Next]_vars
  PROVE  RetractInv'
<1>1. CASE RunnerStep \/ HandleAttach \/ HandleQuery \/ Produce \/ UNCHANGED vars
           \/ \E n \in Replicas : Donate(n) \/ BeginExit(n) \/ CommitExit(n) \/ Return(n)
  BY <1>1, LoopUntouched DEF RetractInv
<1>2. CASE HandleDetach
  BY <1>2 DEF HandleDetach, RetractInv, loopVars
<1>3. CASE Round
  BY <1>3 DEF Round, LoopIs, RetractInv, gsVars
<1>4. CASE HandleReport
  BY <1>4 DEF HandleReport, RetractInv
<1>5. CASE ReportReturns
  <2>1. loop' = "idle" /\ report' = report
    BY <1>5 DEF ReportReturns, LoopIs, gsVars
  <2>2. CASE loop = "done" /\ signature' = (IF call = {} THEN None ELSE call)
    BY <2>1, <2>2, SessionAssumption DEF RetractInv, TypeOK
  <2>3. CASE loop \in {"sending", "done", "refused"} /\ ReportFailed
    BY <2>1, <2>3 DEF RetractInv, ReportFailed
  <2> QED
    BY <1>5, <2>2, <2>3 DEF ReportReturns
<1>6. CASE LoopEnds
  BY <1>6 DEF LoopEnds, LoopIs, RetractInv
<1>7. CASE Tick
  <2>1. /\ loop' = loop /\ call' = call /\ signature' = signature /\ unsure' = unsure
        /\ report = None => report' = None
        /\ report # None => report'.cands = report.cands
    BY <1>7 DEF Tick
  <2> QED
    BY <2>1 DEF RetractInv
<1> QED
  BY <1>1, <1>2, <1>3, <1>4, <1>5, <1>6, <1>7 DEF Next, Handle, LoopStep

(* A replica is granted from the report, and leaves once it is granted. *)
LEMMA StepKeepsDonations ==
  ASSUME TypeOK, DonationInv, [Next]_vars
  PROVE  DonationInv'
<1>1. CASE \E n \in Replicas : Donate(n) \/ BeginExit(n) \/ CommitExit(n) \/ Return(n)
  <2>1. call' = call /\ report' = report
    BY <1>1, LoopUntouched
  <2>2. PICK n \in Replicas : Donate(n) \/ BeginExit(n) \/ CommitExit(n) \/ Return(n)
    BY <1>1
  <2>3. CASE Donate(n)
    <3>1. granted' = granted \cup {n} /\ active' = active
      BY <2>3 DEF Donate
    <3>2. ~ unreported' => ~ unreported /\ report # None /\ n \in report.cands
      BY <2>3 DEF Donate
    <3> QED
      BY <2>1, <3>1, <3>2 DEF DonationInv
  <2>4. CASE BeginExit(n)
    BY <2>1, <2>4 DEF BeginExit, DonationInv
  <2>5. CASE CommitExit(n) \/ Return(n)
    BY <2>1, <2>5 DEF CommitExit, Return, DonationInv
  <2> QED
    BY <2>2, <2>3, <2>4, <2>5
<1>2. CASE RunnerStep \/ Handle \/ LoopStep \/ Tick \/ Produce \/ UNCHANGED vars
  <2>1. active' = active /\ granted' = granted /\ unreported' = unreported
    BY <1>2 DEF RunnerStep, Attach, Attached, AttachTimesOut, QueryFails, Undone, Finish,
       Handle, HandleAttach, HandleQuery, HandleDetach, LoopStep, Round, HandleReport,
       ReportReturns, LoopEnds, Tick, Produce, taskVars, vars
  <2>2. CASE RunnerStep \/ HandleAttach \/ HandleQuery \/ Produce \/ UNCHANGED vars
    BY <2>1, <2>2, LoopUntouched DEF DonationInv
  <2>3. CASE HandleDetach
    BY <2>1, <2>3 DEF HandleDetach, DonationInv, loopVars
  <2>4. CASE Round
    <3>1. report' = report /\ (call' = call \/ call' = Candidates)
      BY <2>4 DEF Round, gsVars
    <3>2. ~ unreported => Candidates \cap Kept = {}
      BY CandidatesSpareKept DEF TypeOK, DonationInv
    <3> QED
      BY <2>1, <3>1, <3>2 DEF DonationInv
  <2>5. CASE HandleReport
    <3>1. call' = call /\ (report' = report \/ report' = [cands |-> call, age |-> 0])
      BY <2>5 DEF HandleReport
    <3> QED
      BY <2>1, <3>1 DEF DonationInv
  <2>6. CASE ReportReturns
    BY <2>1, <2>6 DEF ReportReturns, DonationInv, gsVars
  <2>7. CASE LoopEnds
    BY <2>1, <2>7 DEF LoopEnds, DonationInv, gsVars
  <2>8. CASE Tick
    <3>1. /\ call' = call
          /\ report' # None => report # None /\ report'.cands = report.cands
      BY <2>8 DEF Tick
    <3> QED
      BY <2>1, <3>1 DEF DonationInv
  <2> QED
    BY <1>2, <2>2, <2>3, <2>4, <2>5, <2>6, <2>7, <2>8 DEF Handle, LoopStep
<1> QED
  BY <1>1, <1>2 DEF Next

-----------------------------------------------------------------------------
(* The age of a report *)

LEMMA StepKeepsAge ==
  ASSUME TypeOK, MailInv, LoopInv, RepeatsInTime, AgeInv, [Next]_vars
  PROVE  AgeInv'
<1>1. /\ Slack \in Nat /\ MaxDelay \in Nat /\ RefreshS \in Nat /\ MaxDelay < RefreshS
      /\ callAge \in 0..MaxDelay /\ sentAge \in 0..RefreshS
      /\ faults' = faults => Slack' = Slack
      /\ faults' = faults + 1 => Slack' = Slack + MaxDelay + 1
  BY SessionAssumption DEF TypeOK, Slack, RepeatsInTime
<1>2. report # None => report.age \in Nat
  BY SessionAssumption DEF TypeOK, Report
<1> HIDE DEF Slack
<1>3. CASE RunnerStep \/ HandleAttach \/ HandleQuery \/ Produce \/ UNCHANGED vars
           \/ \E n \in Replicas : Donate(n) \/ BeginExit(n) \/ CommitExit(n) \/ Return(n)
  <2>1. UNCHANGED <<report, loop, due, call, callAge, signature, sentAge, unsure, faults>>
    BY <1>3, LoopUntouched
  <2>2. Slack' = Slack
    BY <1>1, <2>1
  <2>3. CASE run' = "ready" /\ run \in EarlyRuns
    BY <2>1, <2>3 DEF AgeInv, LoopInv
  <2>4. CASE run' # "ready" \/ run = "ready"
    BY <2>1, <2>2, <2>4 DEF AgeInv
  <2> QED
    BY <1>3, <2>3, <2>4, RunnerMoves DEF Next, Handle
<1>4. CASE HandleDetach
  <2>1. run # "ready" /\ run' = run
    BY <1>4 DEF HandleDetach, MailInv, NoCall, TypeOK, runnerVars
  <2> QED
    BY <2>1 DEF AgeInv
<1>5. CASE LoopStep \/ Tick
  <2> SUFFICES ASSUME run = "ready"
               PROVE  AgeInv'
    BY <1>5, CallsUntouched DEF AgeInv
  <2>1. run' = "ready" /\ registered
    BY <1>5, CallsUntouched DEF MailInv
  <2>2. CASE Round
    <3>1. /\ report' = report /\ signature' = signature /\ sentAge' = sentAge
          /\ faults' = faults
          /\ \/ loop' = "sending" /\ callAge' = 0
             \/ /\ loop' = "idle" /\ (signature # None => sentAge < RefreshS)
      BY <1>1, <2>2 DEF Round, LoopIs, ReportDue, gsVars
    <3>2. loop = "idle" /\ due
      BY <2>2 DEF Round
    <3>3. due' = FALSE /\ Slack' = Slack
      BY <1>1, <2>2, <3>1 DEF Round, LoopIs
    <3> QED
      BY <1>1, <1>2, <2>1, <3>1, <3>2, <3>3 DEF AgeInv
  <2>3. CASE HandleReport
    <3>1. /\ report' = [cands |-> call, age |-> 0] /\ loop' = "done" /\ loop = "sending"
          /\ callAge' = callAge /\ signature' = signature /\ sentAge' = sentAge
          /\ faults' = faults
      BY <2>1, <2>3 DEF HandleReport
    <3>2. report' # None /\ report'.age = 0 /\ Slack' = Slack
      BY <1>1, <3>1, SessionAssumption DEF Report, TypeOK
    <3> QED
      BY <1>1, <2>1, <3>1, <3>2 DEF AgeInv
  <2>4. CASE ReportReturns
    <3>1. loop' = "idle" /\ due' = FALSE /\ report' = report /\ loop \in {"sending", "done"}
      BY <2>4 DEF ReportReturns, LoopIs, LoopInv, gsVars
    <3>2. CASE /\ loop = "done" /\ faults' = faults
               /\ signature' = (IF call = {} THEN None ELSE call)
               /\ sentAge' = (IF call = {} THEN 0 ELSE Min2(callAge, RefreshS))
      BY <1>1, <1>2, <2>1, <3>1, <3>2 DEF AgeInv, Min2
    <3>3. CASE faults' = faults + 1 /\ ReportFailed
      <4>1. Slack' = Slack + MaxDelay + 1 /\ signature' = signature /\ sentAge' = sentAge
        BY <1>1, <3>3 DEF ReportFailed
      <4> QED
        BY <1>1, <1>2, <2>1, <3>1, <4>1 DEF AgeInv
    <3> QED
      BY <2>4, <3>2, <3>3 DEF ReportReturns, LoopInv
  <2>5. CASE LoopEnds
    BY <2>5 DEF LoopEnds, LoopIs, AgeInv
  <2>6. CASE Tick
    <3>1. /\ loop' = loop /\ signature' = signature /\ faults' = faults /\ ~ due
          /\ report = None => report' = None
      BY <2>6 DEF Tick
    <3>2. /\ loop \in {"sending", "done"} => callAge' = callAge + 1
          /\ signature # None => sentAge' = Min2(sentAge + 1, RefreshS)
      BY <2>6 DEF Tick
    <3>3. report # None => report' # None /\ report'.age \in Nat /\ report'.age <= report.age + 1
      <4> SUFFICES ASSUME report # None
                   PROVE  report' # None /\ report'.age \in Nat /\ report'.age <= report.age + 1
        OBVIOUS
      <4>1. report' = [cands |-> report.cands, age |-> Min2(report.age + 1, MaxAgeS + 1)]
        BY <2>6 DEF Tick
      <4>2. report.cands \in SUBSET Replicas /\ report.age \in 0..MaxAgeS + 1
        BY DEF TypeOK, Report
      <4>3. /\ Min2(report.age + 1, MaxAgeS + 1) \in 0..MaxAgeS + 1
            /\ Min2(report.age + 1, MaxAgeS + 1) <= report.age + 1
        BY <4>2, SessionAssumption DEF Min2
      <4>4. report' \in Report
        BY <4>1, <4>2, <4>3 DEF Report
      <4> QED
        BY <4>1, <4>3, <4>4, SessionAssumption
    <3>4. loop = "idle" => due' = TRUE
      BY <2>1, <2>6 DEF Tick
    <3>5. Slack' = Slack
      BY <1>1, <3>1
    <3> QED
      BY <1>1, <1>2, <2>1, <3>1, <3>2, <3>3, <3>4, <3>5 DEF AgeInv, Min2
  <2> QED
    BY <1>5, <2>2, <2>3, <2>4, <2>5, <2>6 DEF LoopStep
<1> QED
  BY <1>3, <1>4, <1>5 DEF Next, Handle

-----------------------------------------------------------------------------
(* Theorems *)

LEMMA SessionAlways == Spec => []SessionInv
<1>1. Init => SessionInv
  <2> SUFFICES ASSUME Init
               PROVE  SessionInv
    OBVIOUS
  <2>1. FlagsOK
    BY DEF Init, FlagsOK
  <2>2. TypeOK
    BY <2>1, SessionAssumption DEF Init, TypeOK, Calls
  <2>3. MailInv
    BY DEF Init, MailInv, NoCall
  <2>4. LoopInv
    BY DEF Init, LoopInv
  <2>5. RetractInv
    BY DEF Init, RetractInv
  <2>6. AgeInv
    BY DEF Init, AgeInv
  <2>7. DonationInv
    BY KeptIsNeeded DEF Init, DonationInv
  <2> QED
    BY <2>2, <2>3, <2>4, <2>5, <2>6, <2>7 DEF SessionInv
<1>2. SessionInv /\ [Next]_vars => SessionInv'
  <2> SUFFICES ASSUME SessionInv, [Next]_vars
               PROVE  SessionInv'
    OBVIOUS
  <2>1. TypeOK' /\ MailInv'
    BY StepKeepsTypes, StepKeepsMail DEF SessionInv
  <2>2. LoopInv' /\ RetractInv'
    BY StepKeepsLoop, StepKeepsRetraction DEF SessionInv
  <2>3. RepeatsInTime => AgeInv'
    BY StepKeepsAge DEF SessionInv
  <2>4. DonationInv'
    BY StepKeepsDonations DEF SessionInv
  <2> QED
    BY <2>1, <2>2, <2>3, <2>4 DEF SessionInv, RepeatsInTime
<1> QED
  BY <1>1, <1>2, PTL DEF Spec

(* ReadyIsRegistered: whatever the waits of _attach_task_with_reconciliation *)
(* see of the attach and of the ledger, a TaskRunner that takes operations   *)
(* is registered.                                                            *)
THEOREM SchedulerKnowsReadyTasks == Spec => []ReadyIsRegistered
<1>1. SessionInv => ReadyIsRegistered
  BY DEF SessionInv, MailInv, ReadyIsRegistered
<1> QED
  BY <1>1, SessionAlways, PTL

(* The safety half of GoneIsForgotten: when run() is over and the scheduler  *)
(* has handled its calls, there is neither a registration nor a report of    *)
(* the session; the compensating detach is always behind the attach.         *)
THEOREM NoGhostRegistration ==
  Spec => [](run = "over" /\ mail = <<>> => ~ registered /\ report = None)
<1>1. SessionInv => (run = "over" /\ mail = <<>> => ~ registered /\ report = None)
  BY DEF SessionInv, MailInv, NoCall, OneCall, TwoCalls, ThreeCalls, LoopInv
<1> QED
  BY <1>1, SessionAlways, PTL

(* DonationsKeepCapacity, for every number of replicas and every capacity:   *)
(* collect_idle_candidates offers only replicas before the last Need ones of *)
(* the list, so no number of donations from reports of any age costs         *)
(* capacity.                                                                 *)
THEOREM ReportedDonationsAreFree == Spec => []DonationsKeepCapacity
<1>1. SessionInv => DonationsKeepCapacity
  BY KeptIsCapacity DEF SessionInv, TypeOK, DonationInv, DonationsKeepCapacity
<1> QED
  BY <1>1, SessionAlways, PTL

(* AcknowledgedRetraction: _idle_report_loop forgets a report only after the *)
(* scheduler has acknowledged its retraction.                                *)
THEOREM RetractionsAreRemembered == Spec => []AcknowledgedRetraction
<1>1. SessionInv => AcknowledgedRetraction
  BY DEF SessionInv, TypeOK, LoopInv, RetractInv, AcknowledgedRetraction
<1> QED
  BY <1>1, SessionAlways, PTL

(* SurplusStaysFresh, whenever the periods satisfy RepeatsInTime: the ten    *)
(* seconds of the scheduler cover the five of the loop and one round for     *)
(* each report that is lost.                                                 *)
THEOREM ReportsStayFresh == Spec => [](RepeatsInTime => SurplusStaysFresh)
<1>1. SessionInv => (RepeatsInTime => SurplusStaysFresh)
  <2> SUFFICES ASSUME SessionInv, RepeatsInTime, run = "ready", signature # None
               PROVE  Fresh
    BY DEF SurplusStaysFresh
  <2>1. report # None /\ report.age \in Nat
    BY SessionAssumption DEF SessionInv, TypeOK, Report, AgeInv
  <2>2. report.age <= RefreshS + MaxDelay + Slack
    <3>1. loop \in {"idle", "sending", "done"}
      BY DEF SessionInv, TypeOK, LoopInv
    <3>2. sentAge \in 0..RefreshS /\ callAge \in 0..MaxDelay /\ Slack \in Nat
      BY SessionAssumption DEF SessionInv, TypeOK, Slack
    <3> QED
      BY <2>1, <3>1, <3>2, SessionAssumption DEF SessionInv, AgeInv
  <2>3. Slack <= MaxFaults * (MaxDelay + 1) /\ Slack \in Nat
    BY SessionAssumption DEF SessionInv, TypeOK, Slack
  <2> QED
    BY <2>1, <2>2, <2>3, SessionAssumption DEF RepeatsInTime, Fresh
<1> QED
  BY <1>1, SessionAlways, PTL
=============================================================================
