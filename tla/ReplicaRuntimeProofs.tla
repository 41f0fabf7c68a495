------------------------ MODULE ReplicaRuntimeProofs ------------------------
(***************************************************************************)
(* Proofs about one vLLM replica, its server and its actors, for any       *)
(* number of requests and failures.                                        *)
(***************************************************************************)
EXTENDS ReplicaRuntime, TLAPS

(* The points of the calls that only a native, or only a borrowed, replica   *)
(* gets; a bootstrap is common to both.                                      *)
SleepPoints == {"sleep", "barrier", "drain", "doze"}
BootstrapPoints == {"transfer", "resume", "confirm"}
CommitPoints == {"wake", "activate", "fenced"}
CreationPoints == {"plan", "worker", "undo", "undone", "launch", "validate"}
CleanupPoints == {"shutdown", "stop", "kill", "clean", "again"}

(* The server of a native replica.  Its gate is closed before the barrier,   *)
(* and stays so until a full wake after a transfer: so a request that is     *)
(* past the gate when it closes is the last, and the barrier and the drain   *)
(* meet every one.  Once the full wake has opened it the memory is back.     *)
NativeInv ==
  kind = "NATIVE" =>
    /\ pc \in {"rest"} \cup SleepPoints \cup BootstrapPoints \cup CommitPoints
    /\ M \notin {None, "CREATING"}
    /\ Up /\ engine # "none"
    /\ pc \in {"barrier", "drain", "doze"} => paused
    /\ pc \in {"drain", "doze"} => admitting = 0
    /\ pc = "doze" => inside = 0
    /\ pc \in BootstrapPoints => M = "DORMANT"
    /\ pc \in SleepPoints /\ caller = "bootstrap" => M = "DORMANT"
    /\ pc \in {"resume", "confirm", "wake", "activate"} => content = "loaded"
    /\ pc = "wake" => M \in {"DORMANT", "QUARANTINED"} /\ paused
    /\ pc = "activate" => M \in {"DORMANT", "QUARANTINED"} /\ engine = "resident"
    /\ pc = "fenced" => M = "DORMANT"
    /\ ready => M = "DORMANT" /\ pc = "rest" /\ content = "loaded"

(* The actors of a borrowed one.  Every actor has its name noted before it   *)
(* has a handle; one without a name has not been made, or is dead, or the    *)
(* creation is about to take it back.                                        *)
BorrowedInv ==
  kind = "BORROWED" =>
    /\ pc \in {"rest"} \cup BootstrapPoints \cup CreationPoints \cup CleanupPoints
    /\ pc # "rest" => M \in {"CREATING", "DRAINING"}
    /\ M = None => ~ ready /\ named = {} /\ \A a \in Actors : actor[a] = "never"
    /\ pc \in CreationPoints \cup BootstrapPoints => ~ ready
    /\ pc = "plan" => named = {}
    /\ pc \in {"worker", "launch"} => "server" \in named
    /\ held \subseteq named
    /\ \A a \in Actors \ named :
         \/ actor[a] \in {"never", "dead"}
         \/ a = "worker" /\ pc \in {"undo", "undone"}
    /\ verified => M = "RELEASED"
    /\ pc = "clean" /\ ~ unproven => "server" \notin named \/ actor["server"] = "dead"
    /\ pc = "resume" => content = "loaded"
    /\ (pc = "rest" /\ M = "CREATING" /\ ready) \/ M = "ACTIVE" \/ pc = "confirm"
         => (actor["server"] = "alive" => engine = "resident" /\ content = "loaded")

RuntimeInv ==
  /\ NoRequestInSleepingEngine
  /\ DormantIsInert
  /\ ServesLoadedWeights
  /\ ReleasedIsDead
  /\ NativeInv
  /\ BorrowedInv

(* A new replica satisfies the inductive invariant. *)
LEMMA InitRuntimeInv == Init => RuntimeInv
<1> SUFFICES ASSUME Init PROVE RuntimeInv
  OBVIOUS
<1> USE RuntimeAssumption DEF Init, TypeOK, ReplicaStates, Actors, Up, Sleeping
<1>1. FlagsOK
  BY DEF FlagsOK
<1>2. DormantIsInert
  BY <1>1 DEF DormantIsInert
<1>3. NoRequestInSleepingEngine /\ ServesLoadedWeights /\ ReleasedIsDead
  BY DEF NoRequestInSleepingEngine, ServesLoadedWeights, ReleasedIsDead
<1>4. NativeInv /\ BorrowedInv
  BY DEF NativeInv, BorrowedInv, SleepPoints, BootstrapPoints, CommitPoints,
     CreationPoints, CleanupPoints
<1> QED
  BY <1>2, <1>3, <1>4 DEF RuntimeInv

(* Every flag stays a flag. *)
LEMMA FlagsKept ==
  ASSUME FlagsOK, Next
  PROVE  FlagsOK'
<1> USE DEF FlagsOK, serverVars, proofVars
<1>1. CASE Arrive
  BY <1>1 DEF Arrive
<1>2. CASE Enter
  BY <1>2 DEF Enter
<1>3. CASE End
  BY <1>3 DEF End
<1>4. CASE LeaveService
  BY <1>4 DEF LeaveService
<1>5. CASE FinalizeNative
  BY <1>5 DEF FinalizeNative
<1>6. CASE Sleep
  BY <1>6 DEF Sleep, Close
<1>7. CASE Barrier
  BY <1>7 DEF Barrier
<1>8. CASE Drain
  BY <1>8 DEF Drain
<1>9. CASE Doze
  BY <1>9 DEF Doze
<1>10. CASE WakeWeights
  BY <1>10 DEF WakeWeights, Close, BootstrapFails
<1>11. CASE CommitNative
  BY <1>11 DEF CommitNative, Close
<1>12. CASE Transfer
  BY <1>12 DEF Transfer, BootstrapFails
<1>13. CASE ResumeKv
  BY <1>13 DEF ResumeKv, BootstrapFails
<1>14. CASE Confirm
  BY <1>14 DEF Confirm, BootstrapFails
<1>15. CASE Create
  BY <1>15 DEF Create
<1>16. CASE Plan
  BY <1>16 DEF Plan, CleanUp
<1>17. CASE CreateWorker
  BY <1>17 DEF CreateWorker, CleanUp
<1>18. CASE UndoWorker
  BY <1>18 DEF UndoWorker
<1>19. CASE UndoEnds
  BY <1>19 DEF UndoEnds, CleanUp
<1>20. CASE Launch
  BY <1>20 DEF Launch, CleanUp
<1>21. CASE Validate
  BY <1>21 DEF Validate, CleanUp
<1>22. CASE ReleaseKv
  BY <1>22 DEF ReleaseKv
<1>23. CASE CommitBorrowed
  BY <1>23 DEF CommitBorrowed
<1>24. CASE FinalizeBorrowed
  BY <1>24 DEF FinalizeBorrowed
<1>25. CASE Shutdown
  BY <1>25 DEF Shutdown, Close
<1>26. CASE Stop
  BY <1>26 DEF Stop
<1>27. CASE StopEnds
  BY <1>27 DEF StopEnds, AwaitDead
<1>28. CASE CleanupEnds
  BY <1>28 DEF CleanupEnds, AwaitDead
<1>29. CASE CleanUpAgain
  BY <1>29 DEF CleanUpAgain, CleanUp
<1>30. ASSUME NEW a \in Actors, Dies(a) PROVE FlagsOK'
  BY <1>30 DEF Dies
<1>31. CASE WakeFully
  BY <1>31 DEF WakeFully
<1>32. CASE Activate
  BY <1>32 DEF Activate
<1>33. CASE RestoreFails
  BY <1>33 DEF RestoreFails
<1>34. CASE RestoreAbandoned
  BY <1>34 DEF RestoreAbandoned
<1> QED
  BY <1>1, <1>2, <1>3, <1>4, <1>5, <1>6, <1>7, <1>8, <1>9, <1>10, <1>11,
     <1>12, <1>13, <1>14, <1>15, <1>16, <1>17, <1>18, <1>19, <1>20, <1>21,
     <1>22, <1>23, <1>24, <1>25, <1>26, <1>27, <1>28, <1>29, <1>30, <1>31,
     <1>32, <1>33, <1>34
     DEF Next, RequestStep, NativeStep, BorrowedStep

(* Requests, and the exit from service.  A request that comes finds the gate *)
(* open, so a native engine is fully awake.                                  *)
LEMMA RequestKeepsInv ==
  ASSUME RuntimeInv, FlagsOK',
         Arrive \/ Enter \/ End \/ LeaveService
  PROVE  RuntimeInv'
<1> USE RuntimeAssumption DEF RuntimeInv, DormantIsInert, TypeOK, ReplicaStates,
       NoRequestInSleepingEngine, ServesLoadedWeights, ReleasedIsDead,
       NativeInv, BorrowedInv, SleepPoints, BootstrapPoints, CommitPoints,
       CreationPoints, CleanupPoints, Actors, Up, Sleeping, serverVars,
       requestVars, engineVars, actorVars, proofVars, Spend, Goto, Raises
<1>1. CASE Arrive
  BY <1>1 DEF Arrive
<1>2. CASE Enter
  BY <1>2 DEF Enter
<1>3. CASE End
  BY <1>3 DEF End
<1>4. CASE LeaveService
  BY <1>4 DEF LeaveService
<1> QED
  BY <1>1, <1>2, <1>3, <1>4

(* Sleep, wake and commit of a native replica. *)
LEMMA NativeKeepsInv ==
  ASSUME RuntimeInv, FlagsOK',
         FinalizeNative \/ Sleep \/ Barrier \/ Drain \/ Doze \/
         WakeWeights
  PROVE  RuntimeInv'
<1> USE RuntimeAssumption DEF RuntimeInv, DormantIsInert, TypeOK, ReplicaStates,
       NoRequestInSleepingEngine, ServesLoadedWeights, ReleasedIsDead,
       NativeInv, BorrowedInv, SleepPoints, BootstrapPoints, CommitPoints,
       CreationPoints, CleanupPoints, Actors, Up, Sleeping, serverVars,
       requestVars, engineVars, actorVars, proofVars, Spend, Goto, Raises
<1>1. CASE FinalizeNative
  BY <1>1 DEF FinalizeNative
<1>2. CASE Sleep
  BY <1>2 DEF Sleep, Close, SleepFails, SleepReturns, Fence
<1>3. CASE Barrier
  BY <1>3 DEF Barrier, SleepFails, Fence
<1>4. CASE Drain
  BY <1>4 DEF Drain, SleepFails, Fence
<1>5. CASE Doze
  BY <1>5 DEF Doze, SleepFails, SleepReturns, Fence
<1>6. CASE WakeWeights
  BY <1>6 DEF WakeWeights, Close, BootstrapFails
<1> QED
  BY <1>1, <1>2, <1>3, <1>4, <1>5, <1>6

(* The commit of a native RESTORE: the full wake opens the server, then the  *)
(* Rollouter publishes it; or the operation ends without a proven outcome.   *)
LEMMA CommitKeepsInv ==
  ASSUME RuntimeInv, FlagsOK',
         CommitNative \/ WakeFully \/ Activate \/ RestoreFails \/ RestoreAbandoned
  PROVE  RuntimeInv'
<1> USE RuntimeAssumption DEF RuntimeInv, DormantIsInert, TypeOK, ReplicaStates,
       NoRequestInSleepingEngine, ServesLoadedWeights, ReleasedIsDead,
       NativeInv, BorrowedInv, SleepPoints, BootstrapPoints, CommitPoints,
       CreationPoints, CleanupPoints, Actors, Up, Sleeping, serverVars,
       requestVars, engineVars, actorVars, proofVars, Spend, Goto, Raises
<1>1. CASE CommitNative
  BY <1>1 DEF CommitNative, Close
<1>2. CASE WakeFully
  BY <1>2 DEF WakeFully
<1>3. CASE Activate
  BY <1>3 DEF Activate
<1>4. CASE RestoreFails
  BY <1>4 DEF RestoreFails, Fence
<1>5. CASE RestoreAbandoned
  BY <1>5 DEF RestoreAbandoned
<1> QED
  BY <1>1, <1>2, <1>3, <1>4, <1>5

(* The weights are transferred, the KV cache comes back, the target confirms. *)
LEMMA BootstrapKeepsInv ==
  ASSUME RuntimeInv, FlagsOK',
         Transfer \/ ResumeKv \/ Confirm
  PROVE  RuntimeInv'
<1> USE RuntimeAssumption DEF RuntimeInv, DormantIsInert, TypeOK, ReplicaStates,
       NoRequestInSleepingEngine, ServesLoadedWeights, ReleasedIsDead,
       NativeInv, BorrowedInv, SleepPoints, BootstrapPoints, CommitPoints,
       CreationPoints, CleanupPoints, Actors, Up, Sleeping, serverVars,
       requestVars, engineVars, actorVars, proofVars, Spend, Goto, Raises
<1>1. CASE Transfer
  BY <1>1 DEF Transfer, BootstrapFails
<1>2. CASE ResumeKv
  BY <1>2 DEF ResumeKv, BootstrapFails
<1>3. CASE Confirm
  BY <1>3 DEF Confirm, BootstrapFails
<1> QED
  BY <1>1, <1>2, <1>3

(* The creation of a borrowed replica, with every failure of a step. *)
LEMMA CreationKeepsInv ==
  ASSUME RuntimeInv, FlagsOK',
         Create \/ Plan \/ CreateWorker \/ UndoWorker \/ UndoEnds \/
         Launch \/ Validate
  PROVE  RuntimeInv'
<1> USE RuntimeAssumption DEF RuntimeInv, DormantIsInert, TypeOK, ReplicaStates,
       NoRequestInSleepingEngine, ServesLoadedWeights, ReleasedIsDead,
       NativeInv, BorrowedInv, SleepPoints, BootstrapPoints, CommitPoints,
       CreationPoints, CleanupPoints, Actors, Up, Sleeping, serverVars,
       requestVars, engineVars, actorVars, proofVars, Spend, Goto, Raises
<1>1. CASE Create
  BY <1>1 DEF Create
<1>2. CASE Plan
  <2>1. TypeOK'
    <3>1. /\ actor' \in [Actors -> {"never", "alive", "dying", "dead"}]
          /\ held' \subseteq Actors /\ named' \subseteq Actors
      BY <1>2 DEF Plan
    <3>2. faults' \in 0..MaxFaults /\ pc' \in CreationPoints \cup CleanupPoints
      BY <1>2 DEF Plan, CleanUp
    <3>3. /\ caller' \in {"finalize", "bootstrap", "init", "create", "destroy"}
          /\ engine' \in {"none", "resident", "weights", "asleep"}
      BY <1>2 DEF Plan, CleanUp
    <3> QED
      BY <1>2, <3>1, <3>2, <3>3 DEF Plan
  <2>2. /\ DormantIsInert' /\ NoRequestInSleepingEngine'
        /\ ServesLoadedWeights' /\ NativeInv'
    BY <1>2, <2>1 DEF Plan, CleanUp
  <2>3. ReleasedIsDead'
    BY <1>2 DEF Plan, CleanUp
  <2>4. BorrowedInv'
    BY <1>2 DEF Plan, CleanUp
  <2> QED
    BY <2>2, <2>3, <2>4
<1>3. CASE CreateWorker
  <2>1. TypeOK'
    <3>1. /\ actor' \in [Actors -> {"never", "alive", "dying", "dead"}]
          /\ held' \subseteq Actors /\ named' \subseteq Actors
      BY <1>3 DEF CreateWorker
    <3>2. faults' \in 0..MaxFaults /\ pc' \in CreationPoints \cup CleanupPoints
      BY <1>3 DEF CreateWorker, CleanUp
    <3>3. /\ caller' \in {"finalize", "bootstrap", "init", "create", "destroy"}
          /\ engine' \in {"none", "resident", "weights", "asleep"}
      BY <1>3 DEF CreateWorker, CleanUp
    <3> QED
      BY <1>3, <3>1, <3>2, <3>3 DEF CreateWorker
  <2>2. /\ DormantIsInert' /\ NoRequestInSleepingEngine'
        /\ ServesLoadedWeights' /\ NativeInv'
    BY <1>3, <2>1 DEF CreateWorker, CleanUp
  <2>3. ReleasedIsDead'
    BY <1>3 DEF CreateWorker, CleanUp
  <2>4. BorrowedInv'
    BY <1>3 DEF CreateWorker, CleanUp
  <2> QED
    BY <2>2, <2>3, <2>4
<1>4. CASE UndoWorker
  BY <1>4 DEF UndoWorker, Kill
<1>5. CASE UndoEnds
  <2>1. TypeOK'
    BY <1>5 DEF UndoEnds, CleanUp, ProvedDead
  <2>2. /\ DormantIsInert' /\ NoRequestInSleepingEngine'
        /\ ServesLoadedWeights' /\ NativeInv'
    BY <1>5, <2>1 DEF UndoEnds, CleanUp, ProvedDead
  <2>3. ReleasedIsDead'
    BY <1>5 DEF UndoEnds, CleanUp, ProvedDead
  <2>4. BorrowedInv'
    <3>1. /\ pc = "undone" /\ pc' = "shutdown" /\ kind = "BORROWED"
          /\ UNCHANGED <<kind, M, ready, content, engine, actor>>
          /\ verified' = FALSE
      BY <1>5 DEF UndoEnds, CleanUp
    <3>2. /\ held' \subseteq named'
          /\ \A a \in Actors \ named' : actor[a] \in {"never", "dead"}
      BY <1>5, <3>1 DEF UndoEnds, ProvedDead
    <3>3. M = "CREATING" \/ M = "DRAINING"
      BY <3>1
    <3> QED
      BY <3>1, <3>2, <3>3
  <2> QED
    BY <2>2, <2>3, <2>4
<1>6. CASE Launch
  <2>1. TypeOK'
    <3>1. /\ actor' \in [Actors -> {"never", "alive", "dying", "dead"}]
          /\ held' \subseteq Actors /\ named' \subseteq Actors
      <4>1. /\ actor' \in {actor, [actor EXCEPT !["server"] = "alive"]}
            /\ held' \in {held, held \cup {"server"}}
            /\ named' = named
        BY <1>6 DEF Launch
      <4> QED
        BY <4>1
    <3>2. faults' \in 0..MaxFaults /\ pc' \in CreationPoints \cup CleanupPoints
      BY <1>6 DEF Launch, CleanUp
    <3>3. /\ caller' \in {"finalize", "bootstrap", "init", "create", "destroy"}
          /\ engine' \in {"none", "resident", "weights", "asleep"}
      BY <1>6 DEF Launch, CleanUp
    <3> QED
      BY <1>6, <3>1, <3>2, <3>3 DEF Launch
  <2>2. /\ DormantIsInert' /\ NoRequestInSleepingEngine'
        /\ ServesLoadedWeights' /\ NativeInv'
    BY <1>6, <2>1 DEF Launch, CleanUp
  <2>3. ReleasedIsDead'
    BY <1>6 DEF Launch, CleanUp
  <2>4. BorrowedInv'
    BY <1>6 DEF Launch, CleanUp
  <2> QED
    BY <2>2, <2>3, <2>4
<1>7. CASE Validate
  BY <1>7 DEF Validate, CleanUp
<1> QED
  BY <1>1, <1>2, <1>3, <1>4, <1>5, <1>6, <1>7

(* A borrowed target on its way into and out of service. *)
LEMMA BorrowedKeepsInv ==
  ASSUME RuntimeInv, FlagsOK',
         ReleaseKv \/ CommitBorrowed \/ FinalizeBorrowed
  PROVE  RuntimeInv'
<1> USE RuntimeAssumption DEF RuntimeInv, DormantIsInert, TypeOK, ReplicaStates,
       NoRequestInSleepingEngine, ServesLoadedWeights, ReleasedIsDead,
       NativeInv, BorrowedInv, SleepPoints, BootstrapPoints, CommitPoints,
       CreationPoints, CleanupPoints, Actors, Up, Sleeping, serverVars,
       requestVars, engineVars, actorVars, proofVars, Spend, Goto, Raises
<1>1. CASE ReleaseKv
  BY <1>1 DEF ReleaseKv
<1>2. CASE CommitBorrowed
  BY <1>2 DEF CommitBorrowed
<1>3. CASE FinalizeBorrowed
  BY <1>3 DEF FinalizeBorrowed
<1> QED
  BY <1>1, <1>2, <1>3

(* The cleanup of a borrowed runtime: what is not proved dead is kept. *)
LEMMA CleanupKeepsInv ==
  ASSUME RuntimeInv, FlagsOK',
         Shutdown \/ Stop \/ StopEnds \/ CleanupEnds \/ CleanUpAgain
  PROVE  RuntimeInv'
<1> USE RuntimeAssumption DEF RuntimeInv, DormantIsInert, TypeOK, ReplicaStates,
       NoRequestInSleepingEngine, ServesLoadedWeights, ReleasedIsDead,
       NativeInv, BorrowedInv, SleepPoints, BootstrapPoints, CommitPoints,
       CreationPoints, CleanupPoints, Actors, Up, Sleeping, serverVars,
       requestVars, engineVars, actorVars, proofVars, Spend, Goto, Raises
<1>1. CASE Shutdown
  BY <1>1 DEF Shutdown, Close
<1>2. CASE Stop
  BY <1>2 DEF Stop, KillHeld, Kill
<1>3. CASE StopEnds
  <2>1. TypeOK'
    <3>1. held' \subseteq Actors
      BY <1>3 DEF StopEnds, AwaitDead
    <3>2. actor' \in {actor, [actor EXCEPT !["worker"] = "dying"]}
      BY <1>3 DEF StopEnds, KillHeld, Kill
    <3>3. actor' \in [Actors -> {"never", "alive", "dying", "dead"}]
      BY <3>2
    <3> QED
      BY <1>3, <3>1, <3>3 DEF StopEnds
  <2>2. /\ DormantIsInert' /\ NoRequestInSleepingEngine'
        /\ ServesLoadedWeights' /\ NativeInv'
    BY <1>3, <2>1 DEF StopEnds, KillHeld, Kill, AwaitDead, ProvedDead
  <2>3. ReleasedIsDead'
    BY <1>3 DEF StopEnds, KillHeld, Kill, AwaitDead, ProvedDead
  <2>4. BorrowedInv'
    BY <1>3 DEF StopEnds, KillHeld, Kill, AwaitDead, ProvedDead
  <2> QED
    BY <2>2, <2>3, <2>4
<1>4. CASE CleanupEnds
  <2>1. TypeOK'
    <3>1. held' \subseteq Actors
      BY <1>4 DEF CleanupEnds, AwaitDead
    <3>2. /\ kind' = kind /\ kind = "BORROWED"
          /\ pc' \in {"again", "rest"} /\ caller' = caller
          /\ M' \in {M, "QUARANTINED", "RELEASED"}
      BY <1>4 DEF CleanupEnds
    <3> QED
      BY <1>4, <3>1, <3>2 DEF CleanupEnds
  <2>2. /\ DormantIsInert' /\ NoRequestInSleepingEngine'
        /\ ServesLoadedWeights' /\ NativeInv'
    BY <1>4, <2>1 DEF CleanupEnds, AwaitDead, ProvedDead
  <2>3. ReleasedIsDead'
    <3>1. /\ pc = "clean" /\ kind = "BORROWED" /\ M # "RELEASED"
          /\ UNCHANGED <<actor, named>>
      BY <1>4 DEF CleanupEnds
    <3>2. M' = "RELEASED" \/ verified' => ~ unproven'
      BY <1>4, <3>1 DEF CleanupEnds
    <3>3. ~ unproven' => ~ unproven /\ ("worker" \notin named \/ actor["worker"] = "dead")
      BY <1>4 DEF CleanupEnds, AwaitDead, ProvedDead
    <3>4. \A a \in Actors \ named : actor[a] \in {"never", "dead"}
      BY <3>1
    <3> QED
      BY <3>1, <3>2, <3>3, <3>4
  <2>4. BorrowedInv'
    BY <1>4 DEF CleanupEnds, AwaitDead, ProvedDead
  <2> QED
    BY <2>2, <2>3, <2>4
<1>5. CASE CleanUpAgain
  BY <1>5 DEF CleanUpAgain, CleanUp
<1> QED
  BY <1>1, <1>2, <1>3, <1>4, <1>5

(* An actor dies: with the server its engine and its requests are gone. *)
LEMMA DeathKeepsInv ==
  ASSUME RuntimeInv, FlagsOK', NEW a \in Actors, Dies(a)
  PROVE  RuntimeInv'
<1> USE RuntimeAssumption DEF RuntimeInv, DormantIsInert, TypeOK, ReplicaStates,
       NoRequestInSleepingEngine, ServesLoadedWeights, ReleasedIsDead,
       NativeInv, BorrowedInv, SleepPoints, BootstrapPoints, CommitPoints,
       CreationPoints, CleanupPoints, Actors, Up, Sleeping, serverVars,
       requestVars, engineVars, actorVars, proofVars, Spend, Goto, Raises
<1>1. TypeOK'
  BY DEF Dies
<1>2. /\ DormantIsInert' /\ NoRequestInSleepingEngine'
      /\ ServesLoadedWeights' /\ NativeInv'
  BY <1>1 DEF Dies
<1>3. ReleasedIsDead' /\ BorrowedInv'
  BY DEF Dies
<1> QED
  BY <1>2, <1>3

(* Every step of the replica, of its callers and of its requests keeps the   *)
(* inductive invariant.                                                      *)
LEMMA NextRuntimeInv == RuntimeInv /\ [Next]_vars => RuntimeInv'
<1> SUFFICES ASSUME RuntimeInv, [Next]_vars PROVE RuntimeInv'
  OBVIOUS
<1>1. CASE Next
  <2>1. FlagsOK'
    BY <1>1, FlagsKept DEF RuntimeInv, DormantIsInert, TypeOK
  <2> QED
    BY <1>1, <2>1, RequestKeepsInv, NativeKeepsInv, CommitKeepsInv,
       BootstrapKeepsInv, CreationKeepsInv, BorrowedKeepsInv, CleanupKeepsInv,
       DeathKeepsInv
       DEF Next, RequestStep, NativeStep, BorrowedStep
<1>2. CASE UNCHANGED vars
  BY <1>2 DEF vars, serverVars, requestVars, engineVars, actorVars, proofVars,
     RuntimeInv, DormantIsInert, TypeOK, FlagsOK, NoRequestInSleepingEngine,
     ServesLoadedWeights, ReleasedIsDead, NativeInv, BorrowedInv, Up, Sleeping
<1> QED
  BY <1>1, <1>2

(* The inductive invariant holds in every reachable state. *)
LEMMA RuntimeInvariant == Spec => []RuntimeInv
BY InitRuntimeInv, NextRuntimeInv, PTL DEF Spec

(* The barrier and the drain leave no request behind, in whichever order      *)
(* requests, timeouts and failures come: a native engine sleeps empty.       *)
THEOREM SleepingEngineIsEmpty == Spec => []NoRequestInSleepingEngine
<1>1. RuntimeInv => NoRequestInSleepingEngine
  BY DEF RuntimeInv
<1> QED
  BY <1>1, RuntimeInvariant, PTL

(* A DORMANT replica admits nothing until the full wake of its commit, and   *)
(* at rest has given up its memory, through every partial wake, failed       *)
(* bootstrap and lost quarantine; the weights of a rollback that trusted its *)
(* record are the exception the property names, and a fenced one the other.  *)
THEOREM DormantReplicaIsInert == Spec => []DormantIsInert
<1>1. RuntimeInv => DormantIsInert
  BY DEF RuntimeInv
<1> QED
  BY <1>1, RuntimeInvariant, PTL

(* A server whose gate is open has all its memory and weights that the       *)
(* trainer has loaded since the last sleep.                                  *)
THEOREM OpenServerIsLoaded == Spec => []ServesLoadedWeights
<1>1. RuntimeInv => ServesLoadedWeights
  BY DEF RuntimeInv
<1> QED
  BY <1>1, RuntimeInvariant, PTL

(* RELEASED of a borrowed replica stands for the death of its actors, after   *)
(* any number of failed creations, kills and cleanups.                       *)
THEOREM ReleaseIsProved == Spec => []ReleasedIsDead
<1>1. RuntimeInv => ReleasedIsDead
  BY DEF RuntimeInv
<1> QED
  BY <1>1, RuntimeInvariant, PTL

(* Without the proof of death a handle is kept: in a cleanup it is dropped    *)
(* unproved only for an actor that has no name, and then there is no handle. *)
THEOREM HandlesAreKept == Spec => HandlesOutliveActors
<1>1. ASSUME RuntimeInv, [Next]_vars, NEW a \in held \ held'
      PROVE  actor[a] = "dead"
  <2>1. kind = "BORROWED" => held \subseteq named
    BY <1>1 DEF RuntimeInv, BorrowedInv
  <2>2. pc \in CleanupPoints => kind = "BORROWED"
    BY <1>1, RuntimeAssumption DEF RuntimeInv, NativeInv, DormantIsInert, TypeOK,
       CleanupPoints, SleepPoints, BootstrapPoints, CommitPoints
  <2>3. UndoEnds \/ StopEnds \/ CleanupEnds
    BY <1>1 DEF Next, vars, actorVars, RequestStep, NativeStep, BorrowedStep,
       Arrive, Enter, End, LeaveService, FinalizeNative, Sleep, Barrier, Drain,
       Doze, WakeWeights, CommitNative, WakeFully, Activate, RestoreFails,
       RestoreAbandoned, Transfer, ResumeKv, Confirm, Create, Plan,
       CreateWorker, UndoWorker, Launch, Validate, ReleaseKv, CommitBorrowed,
       FinalizeBorrowed, Shutdown, Stop, CleanUpAgain, Dies
  <2>4. CASE UndoEnds
    BY <1>1, <2>4 DEF UndoEnds, ProvedDead
  <2>5. CASE StopEnds
    BY <1>1, <2>1, <2>2, <2>5 DEF StopEnds, AwaitDead, ProvedDead, CleanupPoints
  <2>6. CASE CleanupEnds
    BY <1>1, <2>1, <2>2, <2>6 DEF CleanupEnds, AwaitDead, ProvedDead, CleanupPoints
  <2> QED
    BY <2>3, <2>4, <2>5, <2>6
<1>2. RuntimeInv /\ [Next]_vars => [\A a \in held \ held' : actor[a] = "dead"]_vars
  BY <1>1
<1> QED
  BY <1>2, RuntimeInvariant, PTL DEF Spec, HandlesOutliveActors
=============================================================================
