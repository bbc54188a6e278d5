-------------------------- MODULE BackgroundProofs --------------------------
(***************************************************************************)
(* What works behind the requests besides discovery and the index: the     *)
(* life of the process, the scheduler, preload and the batch load, each    *)
(* with its inductive invariant; and then all of them side by side, with   *)
(* the invariants of the walk, discovery and the index (DiscoveryProofs).  *)
(***************************************************************************)
EXTENDS MCBackground, DiscoveryProofs

-----------------------------------------------------------------------------
(* The life of the process: it ends behind a complete Shutdown, however    *)
(* many restarts, shutdowns and discoveries are asked for and whenever.    *)
(* OrderlyExit speaks of the end of the process only.  The invariant says  *)
(* what each step of Shutdown has established and why nothing undoes it:   *)
(* workers, tasks, batcher and pools are started in stages of Run that are *)
(* over once Shutdown has been claimed by a caller who is not early.       *)

Stages == Starting \cup {"wiring", "check", "making", "recheck", "listening", "served",
                         "stopping", "returned", "replaced", "crashed"}

(* The types of the lifecycle's state.                                     *)
LifecycleTypes ==
  /\ stage \in Stages
  /\ resource \in [pools : {"none", "open", "closed"}, queue : {"none", "open", "closed"},
                   batcher : {"none", "open", "closed"}]
  /\ workers \in {"none", "running", "stopped"}
  /\ tasks \in BOOLEAN /\ cancelled \in BOOLEAN
  /\ once \in [owner : Caller \cup {"nobody"}, step : 1..8, early : BOOLEAN]
  /\ caller \in [Caller -> {"out", "in", "past"}]
  /\ listener \in {"none", "made", "open", "closed"}
  /\ discovering \in {"nobody", "startup", "dashboard"} /\ asks \in 0..MaxAsks

(* Nobody is past Shutdown before its last step, and nobody takes a step   *)
(* before it was claimed.                                                  *)
CallersWait ==
  /\ \A c \in Caller : caller[c] = "past" => once.step = 8
  /\ once.owner = "nobody" => once.step = 1
  /\ stage = "replaced" => once.step = 8

(* What each step of a Shutdown that was not early leaves behind.          *)
StepsDone ==
  /\ once.step > 1 => cancelled
  /\ once.owner # "nobody" /\ ~once.early =>
       /\ stage \notin Starting
       /\ once.step > 2 => workers # "running"
       /\ once.step > 3 => ~tasks
       /\ once.step > 5 => resource.queue # "open"
       /\ once.step > 6 => resource.batcher # "open"
       /\ once.step > 7 => resource.pools # "open"

LifecycleInv == LifecycleTypes /\ CallersWait /\ StepsDone

-----------------------------------------------------------------------------
(* The names of Shutdown's steps, by their numbers.                        *)
LEMMA StepNames ==
  ASSUME once.step \in 1..8
  PROVE  /\ Step = "cancel" <=> once.step = 1
         /\ Step = "pool" <=> once.step = 2
         /\ Step = "wait" <=> once.step = 3
         /\ Step = "discovery" <=> once.step = 4
         /\ Step = "subsystems" <=> once.step = 5
         /\ Step = "batcher" <=> once.step = 6
         /\ Step = "pools" <=> once.step = 7
         /\ Step = "done" <=> once.step = 8
<1>1. CASE once.step = 1 BY <1>1 DEF Step, Steps
<1>2. CASE once.step = 2 BY <1>2 DEF Step, Steps
<1>3. CASE once.step = 3 BY <1>3 DEF Step, Steps
<1>4. CASE once.step = 4 BY <1>4 DEF Step, Steps
<1>5. CASE once.step = 5 BY <1>5 DEF Step, Steps
<1>6. CASE once.step = 6 BY <1>6 DEF Step, Steps
<1>7. CASE once.step = 7 BY <1>7 DEF Step, Steps
<1>8. CASE once.step = 8 BY <1>8 DEF Step, Steps
<1> QED BY <1>1, <1>2, <1>3, <1>4, <1>5, <1>6, <1>7, <1>8

(* The process starts with nothing open and nobody in Shutdown.            *)
LEMMA LifecycleBegins == LifecycleInit => LifecycleInv
<1> SUFFICES ASSUME LifecycleInit PROVE LifecycleInv OBVIOUS
<1> USE DEF LifecycleInit
<1>a. tasks \in BOOLEAN /\ cancelled \in BOOLEAN OBVIOUS
<1>b. once \in [owner : Caller \cup {"nobody"}, step : 1..8, early : BOOLEAN] OBVIOUS
<1>c. caller \in [Caller -> {"out", "in", "past"}] OBVIOUS
<1>d. stage \in Stages /\ workers \in {"none", "running", "stopped"} BY DEF Stages, Starting
<1>e. resource \in [pools : {"none", "open", "closed"}, queue : {"none", "open", "closed"},
                   batcher : {"none", "open", "closed"}]
  OBVIOUS
<1>1. LifecycleTypes BY <1>a, <1>b, <1>c, <1>d, <1>e, LifecycleAssumption DEF LifecycleTypes
<1>2. CallersWait /\ StepsDone BY DEF CallersWait, StepsDone, Caller
<1> QED BY <1>1, <1>2 DEF LifecycleInv

(* The stages of App.Run: what they open, they open while Starting.        *)
LEMMA RunKeeps ==
  ASSUME LifecycleInv, RunNext
  PROVE  LifecycleInv'
<1> USE DEF LifecycleInv, LifecycleTypes, CallersWait, StepsDone, Stages, Starting, Caller, Reach, Ended
<1>1. CASE OpensDatabase BY <1>1 DEF OpensDatabase
<1>2. CASE LoadsConfig BY <1>2 DEF LoadsConfig
<1>3. CASE StartsServices
  <2>1. /\ stage = "services" /\ stage' \in {"crashed", "discovery"}
        /\ resource' = [resource EXCEPT !.batcher = "open", !.queue = "open"]
        /\ tasks' = ~cancelled
        /\ UNCHANGED <<listener, workers, discovering, cancelled, once, caller, asks>>
    BY <1>3 DEF StartsServices
  <2>2. tasks' \in BOOLEAN
    <3>1. cancelled \in BOOLEAN /\ tasks' = ~cancelled BY <2>1
    <3> QED BY <3>1
  <2>3. once.owner # "nobody" => once.early BY <2>1
  <2>4. LifecycleTypes'
    <3>1. resource' \in [pools : {"none", "open", "closed"}, queue : {"none", "open", "closed"},
                         batcher : {"none", "open", "closed"}]
      BY <2>1
    <3> QED BY <2>1, <2>2, <3>1
  <2>5. CallersWait' BY <2>1
  <2>6. StepsDone' BY <2>1, <2>3
  <2> QED BY <2>4, <2>5, <2>6
<1>4. CASE LaunchesDiscovery BY <1>4 DEF LaunchesDiscovery
<1>5. CASE StartsPool BY <1>5 DEF StartsPool
<1>6. CASE WiresHandlers BY <1>6 DEF WiresHandlers
<1>7. CASE ServeChecks BY <1>7 DEF ServeChecks
<1>8. CASE ServeMakesServer BY <1>8 DEF ServeMakesServer
<1>9. CASE ServeRechecks BY <1>9 DEF ServeRechecks, ServeListens
<1>10. CASE ServeReturns BY <1>10 DEF ServeReturns
<1>11. CASE RunEnds BY <1>11 DEF RunEnds
<1>12. CASE RunStops BY <1>12 DEF RunStops
<1>13. CASE Replaces BY <1>13 DEF Replaces
<1> QED BY <1>1, <1>2, <1>3, <1>4, <1>5, <1>6, <1>7, <1>8, <1>9, <1>10, <1>11,
           <1>12, <1>13 DEF RunNext

(* Shutdown itself, and what it waits for.                                 *)
LEMMA ShutdownKeeps ==
  ASSUME LifecycleInv, ShutdownNext
  PROVE  LifecycleInv'
<1> USE DEF LifecycleInv, LifecycleTypes, CallersWait, StepsDone, Stages, Starting, Caller, Ended
<1>0. once.step \in 1..8 OBVIOUS
<1>1. ASSUME NEW c \in Caller, Claims(c) PROVE LifecycleInv'
  <2> DEFINE isEarly == stage \in Starting
  <2>1. isEarly \in BOOLEAN OBVIOUS
  <2>2. once' = [once EXCEPT !.owner = c, !.early = isEarly] BY <1>1 DEF Claims
  <2>3. ~isEarly => stage \notin Starting OBVIOUS
  <2> HIDE DEF isEarly
  <2>4. /\ once' \in [owner : Caller \cup {"nobody"}, step : 1..8, early : BOOLEAN]
        /\ once'.step = once.step /\ once'.owner = c /\ once'.early = isEarly
    BY <2>1, <2>2
  <2>5. once.step = 1 BY <1>1 DEF Claims
  <2> QED BY <1>1, <2>3, <2>4, <2>5 DEF Claims
<1>2. ASSUME NEW c \in Caller, ShutdownReturns(c) PROVE LifecycleInv'
  BY <1>0, <1>2, StepNames DEF ShutdownReturns
<1>3. CASE ShutdownSteps
  <2>1. CASE Cancels BY <1>0, <1>3, <2>1, StepNames DEF ShutdownSteps, Cancels, Advance
  <2>2. CASE WaitsForPool
    BY <1>0, <1>3, <2>2, StepNames DEF ShutdownSteps, WaitsForPool, PoolIsDone, Advance
  <2>3. CASE WaitsForTasks BY <1>0, <1>3, <2>3, StepNames DEF ShutdownSteps, WaitsForTasks, Advance
  <2>4. CASE WaitsForDiscovery
    BY <1>0, <1>3, <2>4, StepNames DEF ShutdownSteps, WaitsForDiscovery, Advance
  <2>5. CASE ClosesBatcher
    BY <1>0, <1>3, <2>5, StepNames DEF ShutdownSteps, ClosesBatcher, Close, Advance
  <2>6. CASE ClosesPools
    BY <1>0, <1>3, <2>6, StepNames DEF ShutdownSteps, ClosesPools, Close, Advance
  <2>7. CASE ClosesSubsystems
    BY <1>0, <1>3, <2>7, StepNames DEF ShutdownSteps, ClosesSubsystems, Close, Advance
  <2> QED BY <1>3, <2>1, <2>2, <2>3, <2>4, <2>5, <2>6, <2>7 DEF ShutdownSteps
<1>4. CASE PoolStops BY <1>4 DEF PoolStops
<1>5. CASE TasksStop
  <2>1. tasks' \in BOOLEAN /\ ~tasks' BY <1>5 DEF TasksStop
  <2>2. UNCHANGED <<stage, listener, resource, workers, discovering, cancelled, once, caller, asks>> BY <1>5 DEF TasksStop
  <2> QED BY <2>1, <2>2
<1> QED BY <1>1, <1>2, <1>3, <1>4, <1>5 DEF ShutdownNext

(* Everybody who asks: discovery, restart, dashboard, signals, main.       *)
LEMMA AskersKeep ==
  ASSUME LifecycleInv,
         \/ DiscoveryReturns \/ RestartClosesServer \/ DashboardAsks
         \/ Signalled \/ MainSeesReturn \/ ListenFails
  PROVE  LifecycleInv'
<1> USE DEF LifecycleInv, LifecycleTypes, CallersWait, StepsDone, Stages, Starting, Caller, Ended
<1>0. MaxAsks \in Nat BY LifecycleAssumption
<1>1. CASE DiscoveryReturns BY <1>1 DEF DiscoveryReturns, TriggersRestart
<1>2. CASE RestartClosesServer BY <1>2 DEF RestartClosesServer
<1>3. CASE DashboardAsks BY <1>0, <1>3 DEF DashboardAsks, TriggersRestart
<1>4. CASE Signalled BY <1>0, <1>4 DEF Signalled
<1>5. CASE MainSeesReturn BY <1>5 DEF MainSeesReturn
<1>6. CASE ListenFails BY <1>6 DEF ListenFails, Reach
<1> QED BY <1>1, <1>2, <1>3, <1>4, <1>5, <1>6

(* The invariant gives the property at the end of the process.             *)
LEMMA LifecycleInvGivesExit == LifecycleInv => OrderlyExit
<1> SUFFICES ASSUME LifecycleInv, stage = "replaced" \/ caller["main"] = "past"
             PROVE  /\ Step = "done"
                    /\ once.early \/ (workers # "running" /\ ~tasks)
                    /\ once.early \/ \A r \in DOMAIN resource: resource[r] # "open"
  BY DEF OrderlyExit
<1>1. once.step = 8 /\ once.owner # "nobody"
  BY DEF LifecycleInv, LifecycleTypes, CallersWait, Caller
<1>2. Step = "done" BY <1>1, StepNames
<1>3. DOMAIN resource = {"pools", "queue", "batcher"} BY DEF LifecycleInv, LifecycleTypes
<1> QED BY <1>1, <1>2, <1>3 DEF LifecycleInv, StepsDone

(* Every step of Run, of Shutdown and of whoever asks keeps the invariant. *)
LEMMA LifecycleKeeps == LifecycleInv /\ [LifecycleNext]_lifecycleVars => LifecycleInv'
<1> SUFFICES ASSUME LifecycleInv, [LifecycleNext]_lifecycleVars PROVE LifecycleInv' OBVIOUS
<1>1. CASE LifecycleNext BY <1>1, RunKeeps, ShutdownKeeps, AskersKeep DEF LifecycleNext
<1>2. CASE UNCHANGED lifecycleVars
  BY <1>2 DEF lifecycleVars, LifecycleInv, LifecycleTypes, CallersWait, StepsDone
<1> QED BY <1>1, <1>2

(* Whoever ends the process does so behind a complete Shutdown             *)
(* (App.Shutdown, runMain, Run), for every number of things asked for.     *)
THEOREM ExitIsOrderly == LifecycleSpec => [](LifecycleTypeOK /\ OrderlyExit)
<1>1. LifecycleInv => LifecycleTypeOK BY DEF LifecycleInv, LifecycleTypes, LifecycleTypeOK
<1> QED BY <1>1, LifecycleBegins, LifecycleKeeps, LifecycleInvGivesExit, PTL DEF LifecycleSpec

-----------------------------------------------------------------------------
(* The scheduler: the slots taken are counted by the loop alone, and a     *)
(* one-time task is put off before it is started.                          *)

(* What is known of a task.                                                *)
JobState == [state : {"absent", "known", "gone"}, startAt : Nat, nextRun : Nat, runCount : Nat,
             marked : BOOLEAN, runs : 0..MaxOverlap, starts : Nat]

(* The types of the scheduler's state.                                     *)
SchedulerTypes ==
  /\ clock \in 0..Horizon /\ jobs \in [Job -> JobState] /\ ready \subseteq Job
  /\ loop \in {"off", "select", "collect", "launch", "waits", "returned"}
  /\ shutdownPc \in {"none", "tested", "waits", "done"}

(* A one-time task that started once is neither due again nor collected.   *)
StartedOnce ==
  \A j \in Job \ Recurring : \/ jobs[j].starts = 0
                             \/ jobs[j].starts = 1 /\ jobs[j].nextRun = Never /\ j \notin ready

(* The slots suffice, and none is taken before Start begins or after it    *)
(* has returned.                                                           *)
SlotsSuffice ==
  /\ TotalRuns <= MaxConcurrent
  /\ loop \in {"off", "returned"} => TotalRuns = 0

SchedulerInv == SchedulerTypes /\ StartedOnce /\ SlotsSuffice

(* The slots taken are a number, as there are finitely many tasks.         *)
LEMMA RunsAreFinite == IsFiniteSet(Running) /\ TotalRuns \in Nat
<1>1. IsFiniteSet(1..MaxOverlap) BY FS_Interval, SchedulerAssumption
<1>2. IsFiniteSet(Job \X (1..MaxOverlap)) BY <1>1, FS_Product, SchedulerAssumption
<1>3. Running \subseteq Job \X (1..MaxOverlap) BY DEF Running
<1> QED BY <1>2, <1>3, FS_Subset, FS_CardinalityType DEF TotalRuns

(* Where no task has more runs than before, no more slots are taken.       *)
LEMMA FewerRuns ==
  ASSUME jobs \in [Job -> JobState], jobs' \in [Job -> JobState], \A j \in Job : jobs'[j].runs <= jobs[j].runs
  PROVE  TotalRuns' <= TotalRuns /\ TotalRuns' \in Nat
<1> DEFINE S == Running
           T == Running'
<1>1. IsFiniteSet(S) BY RunsAreFinite
<1>2. T \subseteq S
  <2> SUFFICES ASSUME NEW r \in T PROVE r \in S OBVIOUS
  <2>1. r \in Job \X (1..MaxOverlap) /\ r[2] <= jobs'[r[1]].runs BY DEF Running
  <2>2. /\ r[1] \in Job /\ r[2] \in 1..MaxOverlap /\ MaxOverlap \in Nat
        /\ jobs[r[1]].runs \in 0..MaxOverlap /\ jobs'[r[1]].runs \in 0..MaxOverlap
    BY <2>1, SchedulerAssumption DEF JobState
  <2>3. r[2] <= jobs[r[1]].runs
    BY <2>1, <2>2
  <2> QED BY <2>1, <2>3 DEF Running
<1> HIDE DEF S, T
<1>3. Cardinality(T) <= Cardinality(S) /\ Cardinality(T) \in Nat
  BY <1>1, <1>2, FS_Subset, FS_CardinalityType
<1> QED BY <1>3 DEF S, T, TotalRuns

(* A task that is started takes one slot.                                  *)
LEMMA OneMoreRun ==
  ASSUME jobs \in [Job -> JobState], NEW j \in Job, jobs[j].runs < MaxOverlap,
         jobs'[j].runs = jobs[j].runs + 1, \A i \in Job \ {j} : jobs'[i].runs = jobs[i].runs
  PROVE  TotalRuns' = TotalRuns + 1
<1> DEFINE S == Running
           T == Running'
           n == jobs[j].runs
<1>1. IsFiniteSet(S) BY RunsAreFinite
<1>2. n \in Nat /\ n + 1 \in 1..MaxOverlap /\ MaxOverlap \in Nat BY SchedulerAssumption DEF JobState
<1>3. <<j, n + 1>> \notin S BY <1>2 DEF Running
<1>4. T = S \cup {<<j, n + 1>>}
  <2>1. ASSUME NEW i \in Job, NEW k \in 1..MaxOverlap
        PROVE  <<i, k>> \in T <=> <<i, k>> \in S \/ (i = j /\ k = n + 1)
    <3>1. CASE i = j
      <4>1. <<i, k>> \in T <=> k <= n + 1 BY <3>1 DEF Running
      <4>2. <<i, k>> \in S <=> k <= n BY <3>1 DEF Running
      <4> HIDE DEF S, T, n
      <4> QED BY <1>2, <3>1, <4>1, <4>2
    <3>2. CASE i # j BY <3>2 DEF Running
    <3> QED BY <3>1, <3>2
  <2>2. T \subseteq Job \X (1..MaxOverlap) /\ S \subseteq Job \X (1..MaxOverlap) BY DEF Running
  <2>3. <<j, n + 1>> \in Job \X (1..MaxOverlap) BY <1>2
  <2> HIDE DEF S, T, n
  <2> QED BY <2>1, <2>2, <2>3
<1> HIDE DEF S, T
<1>5. Cardinality(T) = Cardinality(S) + 1 BY <1>1, <1>3, <1>4, FS_AddElement
<1> QED BY <1>5 DEF S, T, TotalRuns

(* Every step leaves every task with a record of its kind.                 *)
LEMMA SchedulerTypesStep ==
  ASSUME SchedulerTypes, [SchedulerNext]_schedulerVars
  PROVE  SchedulerTypes'
<1>0. /\ clock \in 0..Horizon /\ Horizon \in Nat /\ Period \in Nat \ {0} /\ MaxOverlap \in Nat
      /\ jobs \in [Job -> JobState] /\ Never \in Nat /\ StartTimes \subseteq 0..Horizon
  BY SchedulerAssumption DEF SchedulerTypes, Never
<1>1. ASSUME NEW j \in Job PROVE Gone(j) \in JobState /\ Gone(j).runs = jobs[j].runs
  <2>1. jobs[j] \in JobState BY <1>0
  <2> QED BY <1>0, <2>1 DEF Gone, JobState
<1>2. ASSUME NEW j \in Job, NEW s \in JobState, jobs' = [jobs EXCEPT ![j] = s] PROVE jobs' \in [Job -> JobState]
  BY <1>0, <1>2
<1>3. ASSUME NEW j \in Job, AddTask(j) PROVE SchedulerTypes'
  <2>1. PICK t \in StartTimes :
          jobs' = [jobs EXCEPT ![j] = [Absent EXCEPT !.state = "known", !.startAt = t, !.nextRun = t]]
    BY <1>3 DEF AddTask
  <2>2. [Absent EXCEPT !.state = "known", !.startAt = t, !.nextRun = t] \in JobState
    <3>1. t \in Nat /\ 0 \in 0..MaxOverlap BY <1>0
    <3>2. Absent \in JobState BY <1>0, <3>1 DEF Absent, JobState
    <3> HIDE DEF Absent
    <3> QED BY <3>1, <3>2 DEF JobState
  <2>3. jobs' \in [Job -> JobState] BY <1>2, <2>1, <2>2
  <2> QED BY <1>3, <2>3 DEF AddTask, SchedulerTypes, loopState, ends
<1>4. ASSUME NEW j \in Job, RemoveTask(j) PROVE SchedulerTypes'
  <2>1. jobs' \in [Job -> JobState] BY <1>0, <1>4 DEF RemoveTask, JobState
  <2> QED BY <1>4, <2>1 DEF RemoveTask, SchedulerTypes, loopState, ends
<1>5. ASSUME NEW j \in Job, TaskFinishes(j) PROVE SchedulerTypes'
  <2>1. jobs[j] \in JobState /\ jobs[j].runs - 1 \in 0..MaxOverlap
    BY <1>0, <1>5 DEF TaskFinishes, JobState
  <2>2. PICK k \in 0..MaxOverlap : k = jobs[j].runs - 1 BY <2>1
  <2>3. CASE j \in Recurring /\ Known(j) /\ ~jobs[j].marked
    <3> DEFINE n == jobs[j].runCount + 1
               due == jobs[j].startAt + n * Period
    <3>1. n \in Nat /\ jobs[j].startAt \in Nat BY <2>1 DEF JobState
    <3> HIDE DEF n
    <3>2. n * Period \in Nat BY <1>0, <3>1
    <3>3. due \in Nat BY <3>1, <3>2
    <3>4. jobs' = [jobs EXCEPT ![j] = [jobs[j] EXCEPT !.runs = k, !.runCount = n, !.nextRun = due]]
      <4>1. jobs' = [jobs EXCEPT ![j] = [jobs[j] EXCEPT !.runs = jobs[j].runs - 1,
                       !.runCount = n, !.nextRun = jobs[j].startAt + n * Period]]
        BY <1>0, <1>5, <2>3 DEF TaskFinishes, n
      <4> QED BY <2>2, <4>1
    <3> HIDE DEF due
    <3>5. [jobs[j] EXCEPT !.runs = k, !.runCount = n, !.nextRun = due] \in JobState
      BY <2>1, <3>1, <3>3 DEF JobState
    <3> QED BY <1>2, <1>5, <3>4, <3>5 DEF TaskFinishes, SchedulerTypes, loopState, ends
  <2>4. CASE ~(j \in Recurring /\ Known(j) /\ ~jobs[j].marked)
    <3>1. Gone(j) \in JobState /\ Gone(j).runs = jobs[j].runs BY <1>1
    <3>2. jobs' = [jobs EXCEPT ![j] = [Gone(j) EXCEPT !.runs = k]]
      BY <1>0, <1>5, <2>2, <2>4, <3>1 DEF TaskFinishes
    <3>3. [Gone(j) EXCEPT !.runs = k] \in JobState BY <3>1 DEF JobState
    <3> QED BY <1>2, <1>5, <3>2, <3>3 DEF TaskFinishes, SchedulerTypes, loopState, ends
  <2> QED BY <2>3, <2>4
<1>6. ASSUME NEW j \in Job, Launches(j) PROVE SchedulerTypes'
  <2>1. jobs' \in [Job -> JobState]
    <3>1. jobs[j] \in JobState /\ PutOff(j) \in Nat BY <1>0 DEF PutOff, JobState
    <3>2. CASE jobs[j].runs < MaxOverlap
      <4> DEFINE s == [jobs[j] EXCEPT !.runs = @ + 1, !.starts = @ + 1, !.nextRun = PutOff(j)]
      <4>1. jobs[j].runs + 1 \in 0..MaxOverlap /\ jobs[j].starts + 1 \in Nat
        BY <1>0, <3>1, <3>2 DEF JobState
      <4>2. s \in JobState BY <3>1, <4>1 DEF JobState
      <4>3. jobs' = jobs \/ jobs' = [jobs EXCEPT ![j] = s]
        BY <1>0, <1>6 DEF Launches
      <4> QED BY <1>0, <1>2, <4>2, <4>3
    <3>3. CASE ~(jobs[j].runs < MaxOverlap)
      <4>1. jobs[j].runs >= MaxOverlap BY <1>0, <3>1, <3>3 DEF JobState
      <4> QED BY <1>0, <1>6, <4>1 DEF Launches
    <3> QED BY <3>2, <3>3
  <2>2. ready' \subseteq Job /\ loop' \in {"select", "launch"}
    BY <1>6 DEF Launches, Sleeps, SchedulerTypes
  <2> QED BY <1>6, <2>1, <2>2 DEF Launches, SchedulerTypes, ends
<1>7. CASE LoopCollects
  <2>1. jobs' \in [Job -> JobState]
    <3>1. jobs' = jobs \/ jobs' = [j \in Job |-> IF Known(j) /\ jobs[j].marked THEN Gone(j) ELSE jobs[j]]
      BY <1>7 DEF LoopCollects
    <3> QED BY <1>0, <1>1, <3>1
  <2>2. ready' \subseteq Job /\ loop' \in {"select", "launch"} /\ UNCHANGED <<clock, ends>>
    BY <1>7 DEF LoopCollects, Sleeps, SchedulerTypes
  <2> QED BY <2>1, <2>2 DEF SchedulerTypes, ends
<1>8. CASE StartBegins \/ LoopWakes \/ LoopEnds \/ StartReturns \/ LaunchEnds
  BY <1>8 DEF StartBegins, LoopWakes, LoopEnds, StartReturns, LaunchEnds, Sleeps, SchedulerTypes, ends
<1>9. CASE ClockTicks
  BY <1>0, <1>9 DEF ClockTicks, SchedulerTypes, loopState, ends
<1>10. CASE StartCancelled \/ ShutdownTests \/ ShutdownSets \/ ShutdownDone \/ UNCHANGED schedulerVars
  BY <1>10
  DEF StartCancelled, ShutdownTests, ShutdownSets, ShutdownDone, schedulerVars, SchedulerTypes,
      loopState, ends
<1> QED
  BY <1>3, <1>4, <1>5, <1>6, <1>7, <1>8, <1>9, <1>10
  DEF SchedulerNext, LoopNext, SchedulerRests

(* Only a launch starts a task, and a one-time task is then put off for    *)
(* good: it is never due again and nobody has it among the ready ones.     *)
LEMMA StartedOnceStep ==
  ASSUME SchedulerTypes, StartedOnce, [SchedulerNext]_schedulerVars
  PROVE  StartedOnce'
<1>0. /\ clock \in 0..Horizon /\ Horizon \in Nat /\ Period \in Nat \ {0}
      /\ jobs \in [Job -> JobState]
      /\ Never = Horizon + Period + 1 /\ ready \subseteq Job
  BY SchedulerAssumption DEF SchedulerTypes, Never
<1> SUFFICES ASSUME NEW j \in Job, j \notin Recurring
             PROVE  \/ jobs'[j].starts = 0
                    \/ jobs'[j].starts = 1 /\ jobs'[j].nextRun = Never /\ j \notin ready'
  BY DEF StartedOnce, Never
<1>1. \/ jobs[j].starts = 0
      \/ jobs[j].starts = 1 /\ jobs[j].nextRun = Never /\ j \notin ready
  BY DEF StartedOnce
<1>2. Gone(j).starts = jobs[j].starts /\ Gone(j).nextRun = Never
  BY <1>0 DEF Gone, JobState
<1> HIDE DEF Never
<1>3. ASSUME jobs'[j] = jobs[j] \/ jobs'[j] = Gone(j), j \in ready' => j \in ready \/ jobs[j].nextRun <= clock
      PROVE  \/ jobs'[j].starts = 0
             \/ jobs'[j].starts = 1 /\ jobs'[j].nextRun = Never /\ j \notin ready'
  <2>1. ~(Never <= clock) BY <1>0
  <2> QED BY <1>1, <1>2, <1>3, <2>1
<1>4. ASSUME NEW i \in Job, AddTask(i) \/ RemoveTask(i) \/ TaskFinishes(i)
      PROVE  \/ jobs'[j].starts = 0
             \/ jobs'[j].starts = 1 /\ jobs'[j].nextRun = Never /\ j \notin ready'
  <2>1. ready' = ready BY <1>4 DEF AddTask, RemoveTask, TaskFinishes, loopState
  <2>2. CASE i # j
    <3>1. jobs'[j] = jobs[j] BY <1>0, <1>4, <2>2 DEF AddTask, RemoveTask, TaskFinishes
    <3> QED BY <1>3, <2>1, <3>1
  <2>3. CASE i = j /\ AddTask(i)
    <3>1. jobs'[j].starts = 0 BY <1>0, <2>3 DEF AddTask, Absent
    <3> QED BY <3>1
  <2>4. CASE i = j /\ RemoveTask(i)
    <3>1. jobs'[j].starts = jobs[j].starts /\ jobs'[j].nextRun = jobs[j].nextRun
      BY <1>0, <2>4 DEF RemoveTask, JobState
    <3> QED BY <1>1, <2>1, <3>1
  <2>5. CASE i = j /\ TaskFinishes(i)
    <3>1. jobs'[j] = [Gone(j) EXCEPT !.runs = @ - 1] BY <1>0, <2>5 DEF TaskFinishes
    <3>3. jobs'[j].starts = jobs[j].starts /\ jobs'[j].nextRun = Never
      BY <1>0, <1>2, <3>1 DEF Gone, JobState
    <3> QED BY <1>1, <2>1, <3>3
  <2> QED BY <1>4, <2>2, <2>3, <2>4, <2>5
<1>5. ASSUME NEW i \in Job, Launches(i)
      PROVE  \/ jobs'[j].starts = 0
             \/ jobs'[j].starts = 1 /\ jobs'[j].nextRun = Never /\ j \notin ready'
  <2>1. ready' \subseteq ready /\ i \in ready BY <1>5 DEF Launches
  <2>2. CASE i # j \/ jobs' = jobs
    <3>1. jobs'[j] = jobs[j] BY <1>0, <1>5, <2>2 DEF Launches
    <3> QED BY <1>3, <2>1, <3>1
  <2>3. CASE i = j /\ jobs' # jobs
    <3>1. /\ ready' = ready \ {j}
          /\ jobs' = [jobs EXCEPT ![j].runs = @ + 1, ![j].starts = @ + 1, ![j].nextRun = PutOff(j)]
      BY <1>5, <2>3 DEF Launches
    <3>2. jobs'[j].starts = jobs[j].starts + 1 /\ jobs'[j].nextRun = Never
      BY <1>0, <3>1 DEF PutOff, JobState
    <3>3. jobs[j].starts = 0 BY <1>1, <2>1, <2>3
    <3> QED BY <3>1, <3>2, <3>3
  <2> QED BY <2>2, <2>3
<1>6. CASE LoopCollects
  <2>1. jobs'[j] = jobs[j] \/ jobs'[j] = Gone(j) BY <1>0, <1>6 DEF LoopCollects
  <2>2. j \in ready' => j \in ready \/ jobs[j].nextRun <= clock BY <1>6 DEF LoopCollects, DueNow
  <2> QED BY <1>3, <2>1, <2>2
<1>7. CASE \/ StartBegins \/ LoopWakes \/ LoopEnds \/ StartReturns \/ LaunchEnds \/ ClockTicks
           \/ StartCancelled \/ ShutdownTests \/ ShutdownSets \/ ShutdownDone \/ UNCHANGED schedulerVars
  <2>1. jobs' = jobs /\ ready' = ready
    BY <1>7
    DEF StartBegins, LoopWakes, LoopEnds, StartReturns, LaunchEnds, ClockTicks, StartCancelled,
        ShutdownTests, ShutdownSets, ShutdownDone, schedulerVars, loopState
  <2> QED BY <1>3, <2>1
<1> QED BY <1>4, <1>5, <1>6, <1>7 DEF SchedulerNext, LoopNext, SchedulerRests

(* Only a launch takes a slot, one, and only while the loop launches.      *)
LEMMA SlotsStep ==
  ASSUME SchedulerTypes, SchedulerTypes', SlotsSuffice, [SchedulerNext]_schedulerVars
  PROVE  SlotsSuffice'
<1>0. /\ jobs \in [Job -> JobState] /\ jobs' \in [Job -> JobState] /\ TotalRuns \in Nat
      /\ MaxConcurrent \in Nat /\ MaxOverlap \in Nat
      /\ TotalRuns <= MaxConcurrent /\ (loop \in {"off", "returned"} => TotalRuns = 0)
  BY RunsAreFinite, SchedulerAssumption DEF SchedulerTypes, SlotsSuffice
<1>1. ASSUME TotalRuns' <= TotalRuns, TotalRuns' \in Nat,
             loop' \in {"off", "returned"} => loop \in {"off", "returned"} \/ TotalRuns = 0
      PROVE  SlotsSuffice'
  <2> DEFINE n == TotalRuns
             after == TotalRuns'
  <2>1. n \in Nat /\ after \in Nat /\ after <= n /\ n <= MaxConcurrent BY <1>0, <1>1
  <2>2. loop' \in {"off", "returned"} => n = 0 BY <1>0, <1>1
  <2> HIDE DEF n, after
  <2>3. after <= MaxConcurrent /\ (loop' \in {"off", "returned"} => after = 0)
    BY <1>0, <2>1, <2>2
  <2> QED BY <2>3 DEF SlotsSuffice, after
<1>2. ASSUME \A j \in Job : jobs'[j].runs <= jobs[j].runs PROVE TotalRuns' <= TotalRuns /\ TotalRuns' \in Nat
  BY <1>0, <1>2, FewerRuns
<1>3. ASSUME NEW j \in Job, AddTask(j) \/ RemoveTask(j) \/ TaskFinishes(j) PROVE SlotsSuffice'
  <2>1. loop' = loop BY <1>3 DEF AddTask, RemoveTask, TaskFinishes, loopState
  <2>2. \A i \in Job \ {j} : jobs'[i] = jobs[i]
    BY <1>0, <1>3 DEF AddTask, RemoveTask, TaskFinishes
  <2>3. jobs[j] \in JobState /\ jobs[j].runs \in Nat BY <1>0 DEF JobState
  <2>4. CASE AddTask(j)
    <3>1. jobs'[j].runs = 0 BY <1>0, <2>4 DEF AddTask, Absent
    <3> QED BY <1>0, <1>1, <1>2, <2>1, <2>2, <2>3, <3>1 DEF JobState
  <2>5. CASE RemoveTask(j)
    <3>1. jobs'[j].runs = jobs[j].runs BY <1>0, <2>5 DEF RemoveTask, JobState
    <3> QED BY <1>0, <1>1, <1>2, <2>1, <2>2, <2>3, <3>1 DEF JobState
  <2>6. CASE TaskFinishes(j)
    <3>1. jobs'[j].runs = jobs[j].runs - 1
      <4>1. \/ jobs'[j].runs = Gone(j).runs - 1
            \/ jobs'[j].runs = jobs[j].runs - 1
        BY <1>0, <2>6 DEF TaskFinishes, JobState, Gone
      <4> QED BY <2>3, <4>1 DEF Gone, JobState
    <3> QED BY <1>0, <1>1, <1>2, <2>1, <2>2, <2>3, <3>1 DEF JobState
  <2> QED BY <1>3, <2>4, <2>5, <2>6
<1>4. ASSUME NEW j \in Job, Launches(j) PROVE SlotsSuffice'
  <2>1. loop' \notin {"off", "returned"} BY <1>4 DEF Launches, Sleeps
  <2>2. CASE jobs' = jobs
    <3>1. \A i \in Job : jobs'[i].runs <= jobs[i].runs BY <1>0, <2>2 DEF JobState
    <3> QED BY <1>1, <1>2, <2>1, <3>1
  <2>3. CASE jobs' # jobs
    <3>1. /\ ~(TotalRuns >= MaxConcurrent) /\ ~(jobs[j].runs >= MaxOverlap)
          /\ jobs' = [jobs EXCEPT ![j].runs = @ + 1, ![j].starts = @ + 1, ![j].nextRun = PutOff(j)]
      BY <1>4, <2>3 DEF Launches
    <3>2. jobs'[j].runs = jobs[j].runs + 1 /\ \A i \in Job \ {j} : jobs'[i].runs = jobs[i].runs
      BY <1>0, <3>1 DEF JobState
    <3>3. jobs[j].runs < MaxOverlap BY <1>0, <3>1 DEF JobState
    <3>4. TotalRuns' = TotalRuns + 1 BY <1>0, <3>2, <3>3, OneMoreRun
    <3>5. TotalRuns + 1 <= MaxConcurrent BY <1>0, <3>1
    <3> QED BY <2>1, <3>4, <3>5 DEF SlotsSuffice
  <2> QED BY <2>2, <2>3
<1>5. CASE LoopCollects
  <2>1. \A j \in Job : jobs'[j].runs <= jobs[j].runs
    <3>1. \A j \in Job : Gone(j).runs = jobs[j].runs /\ jobs[j].runs \in Nat
      BY <1>0 DEF Gone, JobState
    <3> QED BY <1>0, <1>5, <3>1 DEF LoopCollects
  <2>2. loop' \notin {"off", "returned"} BY <1>5 DEF LoopCollects, Sleeps
  <2> QED BY <1>1, <1>2, <2>1, <2>2
<1>6. CASE \/ StartBegins \/ LoopWakes \/ LoopEnds \/ StartReturns \/ LaunchEnds \/ ClockTicks
           \/ StartCancelled \/ ShutdownTests \/ ShutdownSets \/ ShutdownDone \/ UNCHANGED schedulerVars
  <2>1. jobs' = jobs
    BY <1>6
    DEF StartBegins, LoopWakes, LoopEnds, StartReturns, LaunchEnds, ClockTicks, StartCancelled,
        ShutdownTests, ShutdownSets, ShutdownDone, schedulerVars
  <2>2. \A j \in Job : jobs'[j].runs <= jobs[j].runs BY <1>0, <2>1 DEF JobState
  <2>3. loop' \in {"off", "returned"} => loop \in {"off", "returned"} \/ TotalRuns = 0
    BY <1>6
    DEF StartBegins, LoopWakes, LoopEnds, StartReturns, LaunchEnds, ClockTicks, StartCancelled,
        ShutdownTests, ShutdownSets, ShutdownDone, schedulerVars, loopState, Sleeps
  <2> QED BY <1>1, <1>2, <2>2, <2>3
<1> QED BY <1>3, <1>4, <1>5, <1>6 DEF SchedulerNext, LoopNext, SchedulerRests

(* A scheduler starts with no task and no slot taken.                      *)
LEMMA SchedulerBegins == SchedulerInit => SchedulerInv
<1> SUFFICES ASSUME SchedulerInit PROVE SchedulerInv OBVIOUS
<1>1. Absent \in JobState BY SchedulerAssumption DEF Absent, JobState
<1>2. SchedulerTypes BY <1>1, SchedulerAssumption DEF SchedulerInit, SchedulerTypes
<1>3. StartedOnce BY DEF SchedulerInit, StartedOnce, Absent
<1>4. Running = {}
  <2>1. \A j \in Job : jobs[j].runs = 0 BY DEF SchedulerInit, Absent
  <2> QED BY <2>1, SchedulerAssumption DEF Running
<1>5. TotalRuns = 0 BY <1>4, FS_EmptySet DEF TotalRuns
<1> QED BY <1>2, <1>3, <1>5, SchedulerAssumption DEF SchedulerInv, SlotsSuffice

(* Every step of the loop, of the callers and of the tasks keeps the       *)
(* invariant.                                                              *)
LEMMA SchedulerKeeps == SchedulerInv /\ [SchedulerNext]_schedulerVars => SchedulerInv'
BY SchedulerTypesStep, StartedOnceStep, SlotsStep DEF SchedulerInv

(* The invariant says what the runs check.                                 *)
LEMMA SchedulerInvGives == SchedulerInv => SchedulerTypeOK /\ TasksAreBounded
<1> SUFFICES ASSUME SchedulerInv PROVE SchedulerTypeOK /\ TasksAreBounded OBVIOUS
<1>1. TasksAreBounded BY DEF SchedulerInv, StartedOnce, SlotsSuffice, TasksAreBounded
<1>2. \A j \in Job : jobs[j] \in JobState /\ 0..MaxOverlap \subseteq Nat
  BY SchedulerAssumption DEF SchedulerInv, SchedulerTypes
<1>3. \A j \in Job : jobs[j].state \in {"absent", "known", "gone"} /\ jobs[j].runs \in Nat
  BY <1>2 DEF JobState
<1> QED BY <1>1, <1>3 DEF SchedulerInv, SchedulerTypes, SchedulerTypeOK

(* A one-time task starts at most once, the semaphore is never overdrawn,  *)
(* and nothing runs once Start has returned (executeReadyTasks, Start),    *)
(* for every number of tasks and of slots.                                 *)
THEOREM TasksStayBounded == SchedulerSpec => [](SchedulerTypeOK /\ TasksAreBounded)
BY SchedulerInvGives, SchedulerBegins, SchedulerKeeps, PTL DEF SchedulerSpec

-----------------------------------------------------------------------------
(* Preload: a claim goes from hand to hand, and a scheduler is waited for  *)
(* before the next one is made.                                            *)

(* The task of a request that opened the folder.                           *)
FolderTask == [pc : {"none", "queued", "looks", "claims", "adds"}, left : SUBSET PreloadRoute,
               route : PreloadRoute \cup {NoRoute}]

(* The types of the preload's state, and what the place of a request says  *)
(* of the scheduler that it took.                                          *)
PreloadTypes ==
  /\ preloadOn \in BOOLEAN /\ current \in 0..MaxSchedulers /\ claims \subseteq PreloadRoute
  /\ schedulers \in [1..MaxSchedulers -> {"unborn", "runs", "cancelled", "ended", "shut"}]
  /\ switch \in {"none", "waits"}
  /\ visits \in [Visit -> [pc : {"new", "opens", "done"}, sched : 0..MaxSchedulers]]
  /\ folderTasks \in [Visit -> FolderTask]
  /\ pageTasks \subseteq [route : PreloadRoute, sched : 1..MaxSchedulers, state : {"queued", "runs"}]
  /\ \A v \in Visit :
        /\ folderTasks[v].pc # "none" => visits[v].pc = "done"
        /\ visits[v].pc = "opens" \/ folderTasks[v].pc # "none" => visits[v].sched # 0
        /\ folderTasks[v].pc \in {"claims", "adds"} => folderTasks[v].route \in PreloadRoute

(* A claim belongs to the task of the page or to the one folder task that  *)
(* is about to add that task.                                              *)
Adds(v) == folderTasks[v].pc = "adds"
ClaimsAreOwn ==
  /\ \A t \in pageTasks : t.route \in claims /\ \A u \in pageTasks : u.route = t.route => u = t
  /\ \A v \in Visit : Adds(v) =>
        /\ folderTasks[v].route \in claims
        /\ \A t \in pageTasks : t.route # folderTasks[v].route
        /\ \A u \in Visit : Adds(u) /\ folderTasks[u].route = folderTasks[v].route => u = v

(* A scheduler that is not shut down is the manager's, and only one that   *)
(* has not ended has tasks that run.                                       *)
OneAlive ==
  /\ \A i \in 1..MaxSchedulers : schedulers[i] \in {"runs", "cancelled", "ended"} => i = current
  /\ \A i \in 1..MaxSchedulers : Busy(i) => schedulers[i] \in {"runs", "cancelled"}
  /\ switch = "none" /\ ~preloadOn => current = 0
  /\ switch = "waits" => ~preloadOn /\ current # 0
  /\ preloadOn => current # 0

PreloadInv == PreloadTypes /\ ClaimsAreOwn /\ OneAlive

(* A step changes the task of one request, the request, or neither, and    *)
(* every one of them leaves the records what they were.                    *)
LEMMA PreloadTypesStep ==
  ASSUME PreloadTypes, OneAlive, [PreloadNext]_preloadVars
  PROVE  PreloadTypes'
<1>0. /\ MaxSchedulers \in Nat \ {0} /\ current \in 0..MaxSchedulers /\ claims \subseteq PreloadRoute
      /\ schedulers \in [1..MaxSchedulers -> {"unborn", "runs", "cancelled", "ended", "shut"}]
      /\ visits \in [Visit -> [pc : {"new", "opens", "done"}, sched : 0..MaxSchedulers]]
      /\ folderTasks \in [Visit -> FolderTask]
      /\ pageTasks \subseteq [route : PreloadRoute, sched : 1..MaxSchedulers, state : {"queued", "runs"}]
      /\ \A v \in Visit :
            /\ folderTasks[v].pc # "none" => visits[v].pc = "done"
            /\ visits[v].pc = "opens" \/ folderTasks[v].pc # "none" => visits[v].sched # 0
            /\ folderTasks[v].pc \in {"claims", "adds"} => folderTasks[v].route \in PreloadRoute
  BY PreloadAssumption DEF PreloadTypes
<1>1. ASSUME NEW v \in Visit, NEW task \in FolderTask, folderTasks' = [folderTasks EXCEPT ![v] = task],
             visits' = visits, task.pc # "none" => folderTasks[v].pc # "none",
             task.pc \in {"claims", "adds"} => task.route \in PreloadRoute,
             claims' \subseteq PreloadRoute, managerFrame' = managerFrame,
             pageTasks' \subseteq [route : PreloadRoute, sched : 1..MaxSchedulers, state : {"queued", "runs"}]
      PROVE  PreloadTypes'
  <2>1. folderTasks' \in [Visit -> FolderTask] BY <1>0, <1>1
  <2>2. ASSUME NEW u \in Visit
        PROVE  /\ folderTasks'[u].pc # "none" => visits'[u].pc = "done"
               /\ visits'[u].pc = "opens" \/ folderTasks'[u].pc # "none" => visits'[u].sched # 0
               /\ folderTasks'[u].pc \in {"claims", "adds"} => folderTasks'[u].route \in PreloadRoute
    <3>1. CASE u = v
      <4>1. folderTasks'[u] = task BY <1>0, <1>1, <3>1
      <4> QED BY <1>0, <1>1, <3>1, <4>1
    <3>2. CASE u # v
      <4>1. folderTasks'[u] = folderTasks[u] BY <1>0, <1>1, <3>2
      <4> QED BY <1>0, <1>1, <4>1
    <3> QED BY <3>1, <3>2
  <2> QED BY <1>0, <1>1, <2>1, <2>2 DEF PreloadTypes, managerFrame
<1>2. NoFolderTask \in FolderTask /\ NoFolderTask.pc = "none" BY DEF NoFolderTask, FolderTask
<1>3. ASSUME visits' = visits, folderTasks' = folderTasks, claims' \subseteq PreloadRoute,
             preloadOn' \in BOOLEAN, current' \in 0..MaxSchedulers, switch' \in {"none", "waits"},
             schedulers' \in [1..MaxSchedulers -> {"unborn", "runs", "cancelled", "ended", "shut"}],
             pageTasks' \subseteq [route : PreloadRoute, sched : 1..MaxSchedulers, state : {"queued", "runs"}]
      PROVE  PreloadTypes'
  BY <1>0, <1>3 DEF PreloadTypes
<1>4. CASE SwitchesOn \/ SwitchesOff \/ SwitchReturns \/ \E i \in 1..MaxSchedulers : SchedulerLoopEnds(i)
  <2>1. schedulers' \in [1..MaxSchedulers -> {"unborn", "runs", "cancelled", "ended", "shut"}]
    BY <1>0, <1>4 DEF SwitchesOn, SwitchesOff, SwitchReturns, SchedulerLoopEnds
  <2>2. preloadOn' \in BOOLEAN /\ switch' \in {"none", "waits"}
    BY <1>4 DEF SwitchesOn, SwitchesOff, SwitchReturns, SchedulerLoopEnds, PreloadTypes
  <2>4. current' \in 0..MaxSchedulers
    <3>1. CASE SwitchesOn BY <1>0, <3>1 DEF SwitchesOn
    <3>2. CASE SwitchesOff \/ \E i \in 1..MaxSchedulers : SchedulerLoopEnds(i)
      BY <1>0, <3>2 DEF SwitchesOff, SchedulerLoopEnds
    <3>3. CASE SwitchReturns BY <1>0, <3>3 DEF SwitchReturns
    <3> QED BY <1>4, <3>1, <3>2, <3>3
  <2>3. visits' = visits /\ folderTasks' = folderTasks /\ claims' = claims /\ pageTasks' = pageTasks
    BY <1>4 DEF SwitchesOn, SwitchesOff, SwitchReturns, SchedulerLoopEnds
  <2> QED BY <1>0, <1>3, <2>1, <2>2, <2>3, <2>4
<1>5. ASSUME NEW v \in Visit, VisitSnapshots(v) PROVE PreloadTypes'
  <2> DEFINE taken == [pc |-> "opens", sched |-> current]
             refused == [pc |-> "done", sched |-> 0]
  <2>6. \/ visits' = [visits EXCEPT ![v] = taken] /\ current # 0
        \/ visits' = [visits EXCEPT ![v] = refused]
    BY <1>5 DEF VisitSnapshots
  <2>7. /\ taken \in [pc : {"new", "opens", "done"}, sched : 0..MaxSchedulers]
        /\ refused \in [pc : {"new", "opens", "done"}, sched : 0..MaxSchedulers]
        /\ (current # 0 => taken.sched # 0) /\ refused.pc # "opens"
    BY <1>0
  <2> HIDE DEF taken, refused
  <2>1. PICK visit \in [pc : {"new", "opens", "done"}, sched : 0..MaxSchedulers] :
           visits' = [visits EXCEPT ![v] = visit] /\ (visit.pc = "opens" => visit.sched # 0)
    BY <2>6, <2>7
  <2>2. visits[v].pc = "new" /\ folderTasks[v].pc = "none" BY <1>0, <1>5 DEF VisitSnapshots
  <2>3. visits' \in [Visit -> [pc : {"new", "opens", "done"}, sched : 0..MaxSchedulers]] BY <1>0, <2>1
  <2>4. UNCHANGED <<managerFrame, folderTasks, pageTasks, claims>> BY <1>5 DEF VisitSnapshots
  <2>5. ASSUME NEW u \in Visit
        PROVE  /\ folderTasks'[u].pc # "none" => visits'[u].pc = "done"
               /\ visits'[u].pc = "opens" \/ folderTasks'[u].pc # "none" => visits'[u].sched # 0
    <3>1. CASE u = v BY <1>0, <2>1, <2>2, <2>4, <3>1
    <3>2. CASE u # v
      <4>1. visits'[u] = visits[u] BY <1>0, <2>1, <3>2
      <4> QED BY <1>0, <2>4, <4>1
    <3> QED BY <3>1, <3>2
  <2> QED BY <1>0, <2>3, <2>4, <2>5 DEF PreloadTypes, managerFrame
<1>6. ASSUME NEW v \in Visit, VisitAddsTask(v) PROVE PreloadTypes'
  <2>1. /\ visits[v].pc = "opens" /\ visits[v].sched # 0
        /\ visits' = [visits EXCEPT ![v].pc = "done"]
        /\ UNCHANGED <<managerFrame, pageTasks, claims>>
    BY <1>0, <1>6 DEF VisitAddsTask
  <2>2. folderTasks[v].pc = "none" BY <1>0, <2>1
  <2>3. visits' \in [Visit -> [pc : {"new", "opens", "done"}, sched : 0..MaxSchedulers]]
    BY <1>0, <2>1
  <2>4. PICK task \in FolderTask : folderTasks' = [folderTasks EXCEPT ![v] = task] /\ task.pc \in {"none", "queued"}
    <3>1. CASE folderTasks' = folderTasks
      <4>1. folderTasks' = [folderTasks EXCEPT ![v] = folderTasks[v]] BY <1>0, <3>1
      <4> QED BY <1>0, <2>2, <4>1
    <3>2. CASE folderTasks' = [folderTasks EXCEPT ![v].pc = "queued"]
      <4>1. [folderTasks[v] EXCEPT !.pc = "queued"] \in FolderTask BY <1>0 DEF FolderTask
      <4>2. folderTasks' = [folderTasks EXCEPT ![v] = [folderTasks[v] EXCEPT !.pc = "queued"]]
        BY <1>0, <3>2
      <4>3. [folderTasks[v] EXCEPT !.pc = "queued"].pc = "queued" BY <1>0 DEF FolderTask
      <4> QED BY <4>1, <4>2, <4>3
    <3> QED BY <1>6, <3>1, <3>2 DEF VisitAddsTask
  <2>5. folderTasks' \in [Visit -> FolderTask] BY <1>0, <2>4
  <2>6. ASSUME NEW u \in Visit
        PROVE  /\ folderTasks'[u].pc # "none" => visits'[u].pc = "done"
               /\ visits'[u].pc = "opens" \/ folderTasks'[u].pc # "none" => visits'[u].sched # 0
               /\ folderTasks'[u].pc \in {"claims", "adds"} => folderTasks'[u].route \in PreloadRoute
    <3>1. CASE u = v
      <4>1. folderTasks'[u].pc \in {"none", "queued"} BY <1>0, <2>4, <3>1
      <4>2. visits'[u].pc = "done" /\ visits'[u].sched = visits[v].sched BY <1>0, <2>1, <3>1
      <4> QED BY <2>1, <4>1, <4>2
    <3>2. CASE u # v
      <4>1. visits'[u] = visits[u] /\ folderTasks'[u] = folderTasks[u] BY <1>0, <2>1, <2>4, <3>2
      <4> QED BY <1>0, <4>1
    <3> QED BY <3>1, <3>2
  <2> QED BY <1>0, <2>1, <2>3, <2>5, <2>6 DEF PreloadTypes, managerFrame
<1>7. ASSUME NEW v \in Visit, FolderTaskStarts(v) \/ FolderTaskEnds(v) PROVE PreloadTypes'
  <2> DEFINE looking == [pc |-> "looks", left |-> PreloadRoute, route |-> NoRoute]
  <2>1. looking \in FolderTask BY DEF FolderTask
  <2>2. folderTasks[v].pc # "none" BY <1>7 DEF FolderTaskStarts, FolderTaskEnds
  <2>3. PICK task \in {looking, NoFolderTask} : folderTasks' = [folderTasks EXCEPT ![v] = task]
    BY <1>7 DEF FolderTaskStarts, FolderTaskEnds, FolderAt
  <2>4. task \in FolderTask /\ task.pc \notin {"claims", "adds"} BY <1>2, <2>1, <2>3
  <2>5. UNCHANGED <<managerFrame, visits, pageTasks, claims>>
    BY <1>7 DEF FolderTaskStarts, FolderTaskEnds
  <2> QED BY <1>0, <1>1, <2>2, <2>3, <2>4, <2>5
<1>8. ASSUME NEW v \in Visit, FolderTaskLooks(v) PROVE PreloadTypes'
  <2>1. PICK route \in folderTasks[v].left :
           folderTasks' = [folderTasks EXCEPT ![v] =
              [pc |-> IF route \in inCache THEN "looks" ELSE "claims",
               left |-> folderTasks[v].left \ {route}, route |-> route]]
    BY <1>8 DEF FolderTaskLooks, FolderAt
  <2>2. route \in PreloadRoute /\ folderTasks[v].left \ {route} \in SUBSET PreloadRoute
    BY <1>0, <2>1 DEF FolderTask
  <2>3. PICK task : task = [pc |-> IF route \in inCache THEN "looks" ELSE "claims",
                            left |-> folderTasks[v].left \ {route}, route |-> route]
    OBVIOUS
  <2>4. task \in FolderTask /\ task.route \in PreloadRoute BY <2>2, <2>3 DEF FolderTask
  <2>5. folderTasks' = [folderTasks EXCEPT ![v] = task] BY <2>1, <2>3
  <2>6. folderTasks[v].pc # "none" /\ UNCHANGED <<managerFrame, visits, pageTasks, claims>>
    BY <1>8 DEF FolderTaskLooks
  <2> QED BY <1>0, <1>1, <2>4, <2>5, <2>6
<1>9. ASSUME NEW v \in Visit, FolderTaskClaims(v) PROVE PreloadTypes'
  <2>1. PICK pc \in {"looks", "adds"} : folderTasks' = [folderTasks EXCEPT ![v].pc = pc]
    BY <1>9 DEF FolderTaskClaims
  <2>2. folderTasks[v].pc = "claims" /\ folderTasks[v].route \in PreloadRoute
    BY <1>0, <1>9 DEF FolderTaskClaims
  <2>3. PICK task : task = [folderTasks[v] EXCEPT !.pc = pc] OBVIOUS
  <2>4. task \in FolderTask /\ task.route \in PreloadRoute BY <1>0, <2>1, <2>2, <2>3 DEF FolderTask
  <2>5. folderTasks' = [folderTasks EXCEPT ![v] = task] BY <1>0, <2>1, <2>3
  <2>6. claims' \subseteq PreloadRoute BY <1>0, <1>9, <2>2 DEF FolderTaskClaims
  <2>7. UNCHANGED <<managerFrame, visits, pageTasks>> BY <1>9 DEF FolderTaskClaims
  <2> QED BY <1>0, <1>1, <2>2, <2>4, <2>5, <2>6, <2>7
<1>10. ASSUME NEW v \in Visit, FolderTaskAdds(v) PROVE PreloadTypes'
  <2>1. /\ folderTasks[v].pc = "adds" /\ folderTasks[v].route \in PreloadRoute
        /\ visits[v].sched \in 1..MaxSchedulers
    BY <1>0, <1>10 DEF FolderTaskAdds
  <2>2. PICK task : task = [folderTasks[v] EXCEPT !.pc = "looks", !.route = NoRoute] OBVIOUS
  <2>3. task \in FolderTask /\ task.pc = "looks" BY <1>0, <2>2 DEF FolderTask
  <2>4. folderTasks' = [folderTasks EXCEPT ![v] = task] BY <1>0, <1>10, <2>2 DEF FolderTaskAdds
  <2>5. claims' \subseteq PreloadRoute BY <1>0, <1>10 DEF FolderTaskAdds
  <2>6. pageTasks' \subseteq [route : PreloadRoute, sched : 1..MaxSchedulers, state : {"queued", "runs"}]
    BY <1>0, <1>10, <2>1 DEF FolderTaskAdds, PageTask
  <2>7. UNCHANGED <<managerFrame, visits>> BY <1>10 DEF FolderTaskAdds
  <2> QED BY <1>1, <2>1, <2>3, <2>4, <2>5, <2>6, <2>7
<1>11. ASSUME NEW t \in pageTasks, PageTaskStarts(t) \/ PageTaskEnds(t) PROVE PreloadTypes'
  <2>1. pageTasks' \subseteq [route : PreloadRoute, sched : 1..MaxSchedulers, state : {"queued", "runs"}]
    BY <1>0, <1>11 DEF PageTaskStarts, PageTaskEnds, PageTask
  <2>2. claims' \subseteq PreloadRoute /\ UNCHANGED <<managerFrame, visits, folderTasks>>
    BY <1>0, <1>11 DEF PageTaskStarts, PageTaskEnds
  <2> QED BY <1>0, <2>1, <2>2 DEF PreloadTypes, managerFrame
<1>12. CASE UNCHANGED preloadVars BY <1>12 DEF preloadVars, PreloadTypes
<1> QED
  BY <1>4, <1>5, <1>6, <1>7, <1>8, <1>9, <1>10, <1>11, <1>12
  DEF PreloadNext, SchedulerSteps, PreloadRests

(* A claim is taken only when it is free, by the folder task that adds the *)
(* page's task next, and given back only by the task that has it.          *)
LEMMA ClaimsStep ==
  ASSUME PreloadTypes, PreloadTypes', ClaimsAreOwn, [PreloadNext]_preloadVars
  PROVE  ClaimsAreOwn'
<1>0. /\ folderTasks \in [Visit -> FolderTask]
      /\ pageTasks \subseteq [route : PreloadRoute, sched : 1..MaxSchedulers, state : {"queued", "runs"}]
  BY DEF PreloadTypes
<1>1. /\ \A t \in pageTasks : t.route \in claims /\ \A u \in pageTasks : u.route = t.route => u = t
      /\ \A v \in Visit : folderTasks[v].pc = "adds" =>
            /\ folderTasks[v].route \in claims
            /\ \A t \in pageTasks : t.route # folderTasks[v].route
            /\ \A u \in Visit : folderTasks[u].pc = "adds" /\ folderTasks[u].route = folderTasks[v].route => u = v
  BY DEF ClaimsAreOwn, Adds
<1>2. ASSUME UNCHANGED <<claims, pageTasks>>, NEW v \in Visit,
             \A u \in Visit \ {v} : folderTasks'[u] = folderTasks[u], folderTasks'[v].pc # "adds"
      PROVE  ClaimsAreOwn'
  <2>1. \A u \in Visit : folderTasks'[u].pc = "adds" => u # v /\ folderTasks'[u] = folderTasks[u]
    BY <1>2
  <2> QED BY <1>1, <1>2, <2>1 DEF ClaimsAreOwn, Adds
<1>3. ASSUME NEW v \in Visit, VisitAddsTask(v) \/ FolderTaskStarts(v) \/ FolderTaskLooks(v) \/ FolderTaskEnds(v)
      PROVE  ClaimsAreOwn'
  <2>1. UNCHANGED <<claims, pageTasks>>
    BY <1>3 DEF VisitAddsTask, FolderTaskStarts, FolderTaskLooks, FolderTaskEnds
  <2>2. \A u \in Visit \ {v} : folderTasks'[u] = folderTasks[u]
    BY <1>0, <1>3 DEF VisitAddsTask, FolderTaskStarts, FolderTaskLooks, FolderTaskEnds, FolderAt
  <2>3. folderTasks'[v].pc # "adds"
    <3>1. CASE VisitAddsTask(v)
      <4>1. folderTasks[v].pc = "none" BY <3>1 DEF VisitAddsTask, PreloadTypes
      <4> QED BY <1>0, <3>1, <4>1 DEF VisitAddsTask, FolderTask
    <3>2. CASE FolderTaskStarts(v) \/ FolderTaskEnds(v)
      BY <1>0, <3>2 DEF FolderTaskStarts, FolderTaskEnds, FolderAt, NoFolderTask
    <3>3. CASE FolderTaskLooks(v) BY <1>0, <3>3 DEF FolderTaskLooks, FolderAt
    <3> QED BY <1>3, <3>1, <3>2, <3>3
  <2> QED BY <1>2, <2>1, <2>2, <2>3
<1>4. ASSUME NEW v \in Visit, FolderTaskClaims(v) PROVE ClaimsAreOwn'
  <2>1. /\ claims' = claims \cup {folderTasks[v].route} /\ pageTasks' = pageTasks
        /\ \A u \in Visit \ {v} : folderTasks'[u] = folderTasks[u]
        /\ folderTasks'[v].route = folderTasks[v].route
        /\ folderTasks'[v].pc = IF folderTasks[v].route \in claims THEN "looks" ELSE "adds"
    BY <1>0, <1>4 DEF FolderTaskClaims, FolderTask
  <2>2. CASE folderTasks[v].route \in claims
    <3>1. claims' = claims /\ folderTasks'[v].pc # "adds" BY <2>1, <2>2
    <3> QED BY <1>2, <2>1, <3>1
  <2>3. CASE folderTasks[v].route \notin claims
    <3>1. \A t \in pageTasks : t.route # folderTasks[v].route BY <1>1, <2>3
    <3>2. \A u \in Visit \ {v} : folderTasks'[u].pc = "adds" => folderTasks'[u].route # folderTasks[v].route
      BY <1>1, <2>1, <2>3
    <3> QED BY <1>1, <2>1, <3>1, <3>2 DEF ClaimsAreOwn, Adds
  <2> QED BY <2>2, <2>3
<1>5. ASSUME NEW v \in Visit, FolderTaskAdds(v) PROVE ClaimsAreOwn'
  <2> DEFINE route == folderTasks[v].route
             new == PageTask(route, visits[v].sched, "queued")
  <2>1. /\ folderTasks[v].pc = "adds" /\ folderTasks'[v].pc = "looks"
        /\ \A u \in Visit \ {v} : folderTasks'[u] = folderTasks[u]
    BY <1>0, <1>5 DEF FolderTaskAdds, FolderTask
  <2>2. /\ route \in claims /\ \A t \in pageTasks : t.route # route
        /\ \A u \in Visit \ {v} : folderTasks'[u].pc = "adds" => folderTasks'[u].route # route
    BY <1>1, <2>1
  <2>3. new.route = route BY DEF PageTask
  <2>4. \/ pageTasks' = pageTasks /\ claims' = claims \ {route}
        \/ pageTasks' = pageTasks \cup {new} /\ claims' = claims
    BY <1>5 DEF FolderTaskAdds
  <2> HIDE DEF new, route
  <2>5. \A u \in Visit : folderTasks'[u].pc = "adds" => u # v /\ folderTasks'[u] = folderTasks[u] /\ folderTasks[u].route # route
    BY <2>1, <2>2
  <2>6. \A t \in pageTasks' : t.route \in claims' /\ \A u \in pageTasks' : u.route = t.route => u = t
    BY <1>1, <2>2, <2>3, <2>4
  <2>7. \A u \in Visit : folderTasks'[u].pc = "adds" =>
            /\ folderTasks'[u].route \in claims'
            /\ \A t \in pageTasks' : t.route # folderTasks'[u].route
            /\ \A w \in Visit : folderTasks'[w].pc = "adds" /\ folderTasks'[w].route = folderTasks'[u].route => w = u
    BY <1>1, <2>3, <2>4, <2>5
  <2> QED BY <2>6, <2>7 DEF ClaimsAreOwn, Adds
<1>6. ASSUME NEW t \in pageTasks, PageTaskStarts(t) PROVE ClaimsAreOwn'
  <2> DEFINE new == PageTask(t.route, t.sched, "runs")
  <2>1. /\ pageTasks' = (pageTasks \ {t}) \cup {new} /\ claims' = claims /\ folderTasks' = folderTasks
        /\ new.route = t.route
    BY <1>6 DEF PageTaskStarts, PageTask
  <2> HIDE DEF new
  <2>2. \A p \in pageTasks' : p.route \in claims' /\ \A u \in pageTasks' : u.route = p.route => u = p
    BY <1>1, <2>1
  <2>3. \A v \in Visit : folderTasks[v].pc = "adds" => \A p \in pageTasks' : p.route # folderTasks[v].route
    BY <1>1, <2>1
  <2> QED BY <1>1, <2>1, <2>2, <2>3 DEF ClaimsAreOwn, Adds
<1>7. ASSUME NEW t \in pageTasks, PageTaskEnds(t) PROVE ClaimsAreOwn'
  <2>1. /\ pageTasks' = pageTasks \ {t} /\ claims' = claims \ {t.route} /\ folderTasks' = folderTasks
    BY <1>7 DEF PageTaskEnds
  <2>2. \A p \in pageTasks' : p.route \in claims' /\ \A u \in pageTasks' : u.route = p.route => u = p
    BY <1>1, <2>1
  <2>3. \A v \in Visit : folderTasks[v].pc = "adds" =>
           folderTasks[v].route \in claims' /\ \A p \in pageTasks' : p.route # folderTasks[v].route
    BY <1>1, <2>1
  <2> QED BY <1>1, <2>1, <2>2, <2>3 DEF ClaimsAreOwn, Adds
<1>8. CASE \/ SwitchesOn \/ SwitchesOff \/ SwitchReturns \/ UNCHANGED preloadVars
           \/ \E i \in 1..MaxSchedulers : SchedulerLoopEnds(i)
           \/ \E v \in Visit : VisitSnapshots(v)
  <2>1. UNCHANGED <<claims, pageTasks, folderTasks>>
    BY <1>8 DEF SwitchesOn, SwitchesOff, SwitchReturns, SchedulerLoopEnds, VisitSnapshots, preloadVars
  <2> QED BY <1>1, <2>1 DEF ClaimsAreOwn, Adds
<1> QED
  BY <1>3, <1>4, <1>5, <1>6, <1>7, <1>8
  DEF PreloadNext, SchedulerSteps, PreloadRests

(* A scheduler that may have tasks running is the manager's own: another   *)
(* one is made only after the one before was shut down, and it is shut     *)
(* down only when its tasks have ended.                                    *)
LEMMA OneAliveStep ==
  ASSUME PreloadTypes, PreloadTypes', OneAlive, [PreloadNext]_preloadVars
  PROVE  OneAlive'
<1>0. /\ MaxSchedulers \in Nat \ {0} /\ current \in 0..MaxSchedulers
      /\ schedulers \in [1..MaxSchedulers -> {"unborn", "runs", "cancelled", "ended", "shut"}]
      /\ visits \in [Visit -> [pc : {"new", "opens", "done"}, sched : 0..MaxSchedulers]]
      /\ folderTasks \in [Visit -> FolderTask]
      /\ pageTasks \subseteq [route : PreloadRoute, sched : 1..MaxSchedulers, state : {"queued", "runs"}]
      /\ switch \in {"none", "waits"} /\ preloadOn \in BOOLEAN
  BY PreloadAssumption DEF PreloadTypes
<1>1. /\ \A i \in 1..MaxSchedulers : schedulers[i] \in {"runs", "cancelled", "ended"} => i = current
      /\ \A i \in 1..MaxSchedulers : Busy(i) => schedulers[i] \in {"runs", "cancelled"}
      /\ switch = "none" /\ ~preloadOn => current = 0
      /\ switch = "waits" => ~preloadOn /\ current # 0
      /\ preloadOn => current # 0
  BY DEF OneAlive
<1>2. CASE SwitchesOn
  <2>1. \A i \in 1..MaxSchedulers : Busy(i)' <=> Busy(i) BY <1>2 DEF SwitchesOn, Busy
  <2>2. \A i \in 1..MaxSchedulers : schedulers[i] \notin {"runs", "cancelled", "ended"}
    BY <1>0, <1>1, <1>2 DEF SwitchesOn, LockFree
  <2>3. PICK i \in 1..MaxSchedulers : schedulers' = [schedulers EXCEPT ![i] = "runs"] /\ current' = i
    BY <1>2 DEF SwitchesOn
  <2> QED BY <1>0, <1>1, <1>2, <2>1, <2>2, <2>3 DEF OneAlive, SwitchesOn, LockFree
<1>3. CASE SwitchesOff
  <2>1. \A i \in 1..MaxSchedulers : Busy(i)' <=> Busy(i) BY <1>3 DEF SwitchesOff, Busy
  <2>2. /\ current \in 1..MaxSchedulers /\ schedulers' = [schedulers EXCEPT ![current] = "cancelled"]
        /\ current' = current /\ ~preloadOn' /\ switch' = "waits"
    BY <1>0, <1>1, <1>3 DEF SwitchesOff
  <2> QED BY <1>0, <1>1, <2>1, <2>2 DEF OneAlive
<1>4. CASE SwitchReturns
  <2>1. \A i \in 1..MaxSchedulers : Busy(i)' <=> Busy(i) BY <1>4 DEF SwitchReturns, Busy
  <2>2. /\ current \in 1..MaxSchedulers /\ schedulers' = [schedulers EXCEPT ![current] = "shut"]
        /\ schedulers[current] = "ended" /\ current' = 0 /\ ~preloadOn' /\ switch' = "none"
    BY <1>0, <1>1, <1>4 DEF SwitchReturns
  <2> QED BY <1>0, <1>1, <2>1, <2>2 DEF OneAlive
<1>5. ASSUME NEW i \in 1..MaxSchedulers, SchedulerLoopEnds(i) PROVE OneAlive'
  <2>1. \A k \in 1..MaxSchedulers : Busy(k)' <=> Busy(k) BY <1>5 DEF SchedulerLoopEnds, Busy
  <2>2. /\ schedulers' = [schedulers EXCEPT ![i] = "ended"] /\ schedulers[i] = "cancelled" /\ ~Busy(i)
        /\ current' = current /\ preloadOn' = preloadOn /\ switch' = switch
    BY <1>5 DEF SchedulerLoopEnds
  <2> QED BY <1>0, <1>1, <2>1, <2>2 DEF OneAlive
<1>6. ASSUME managerFrame' = managerFrame,
             \A i \in 1..MaxSchedulers : Busy(i)' => Busy(i) \/ schedulers[i] \in {"runs", "cancelled"}
      PROVE  OneAlive'
  BY <1>1, <1>6 DEF OneAlive, managerFrame
<1>7. ASSUME NEW v \in Visit, VisitSnapshots(v) \/ VisitAddsTask(v) PROVE OneAlive'
  <2>1. folderTasks[v].pc = "none" BY <1>7 DEF VisitSnapshots, VisitAddsTask, PreloadTypes
  <2>2. /\ \A u \in Visit \ {v} : visits'[u] = visits[u] /\ folderTasks'[u] = folderTasks[u]
        /\ folderTasks'[v].pc \in {"none", "queued"}
    BY <1>0, <1>7, <2>1 DEF VisitSnapshots, VisitAddsTask, FolderTask
  <2>3. managerFrame' = managerFrame /\ pageTasks' = pageTasks BY <1>7 DEF VisitSnapshots, VisitAddsTask
  <2>4. \A i \in 1..MaxSchedulers : Busy(i)' => Busy(i) BY <2>2, <2>3 DEF Busy
  <2> QED BY <1>6, <2>3, <2>4
<1>8. ASSUME NEW v \in Visit, FolderTaskStarts(v) \/ FolderTaskLooks(v) \/ FolderTaskClaims(v)
                              \/ FolderTaskAdds(v) \/ FolderTaskEnds(v)
      PROVE  OneAlive'
  <2>1. /\ managerFrame' = managerFrame /\ visits' = visits
        /\ \A u \in Visit \ {v} : folderTasks'[u] = folderTasks[u]
    BY <1>0, <1>8
    DEF FolderTaskStarts, FolderTaskLooks, FolderTaskClaims, FolderTaskAdds, FolderTaskEnds, FolderAt
  <2>2. \/ folderTasks[v].pc = "queued" /\ schedulers[visits[v].sched] \in {"runs", "cancelled"}
        \/ folderTasks[v].pc \notin {"none", "queued"}
    BY <1>8
    DEF FolderTaskStarts, FolderTaskLooks, FolderTaskClaims, FolderTaskAdds, FolderTaskEnds, StillStarts
  <2>3. \A t \in pageTasks' : t.state = "runs" => t \in pageTasks
    BY <1>8
    DEF FolderTaskStarts, FolderTaskLooks, FolderTaskClaims, FolderTaskAdds, FolderTaskEnds, PageTask
  <2>4. ASSUME NEW i \in 1..MaxSchedulers, Busy(i)'
        PROVE  Busy(i) \/ schedulers[i] \in {"runs", "cancelled"}
    <3>1. CASE \E t \in pageTasks' : t.sched = i /\ t.state = "runs" BY <2>3, <3>1 DEF Busy
    <3>2. CASE \E u \in Visit : visits'[u].sched = i /\ folderTasks'[u].pc \notin {"none", "queued"}
      BY <2>1, <2>2, <3>2 DEF Busy
    <3> QED BY <2>4, <3>1, <3>2 DEF Busy
  <2> QED BY <1>6, <2>1, <2>4
<1>9. ASSUME NEW t \in pageTasks, PageTaskStarts(t) \/ PageTaskEnds(t) PROVE OneAlive'
  <2>1. managerFrame' = managerFrame /\ UNCHANGED <<visits, folderTasks>>
    BY <1>9 DEF PageTaskStarts, PageTaskEnds
  <2>2. \A p \in pageTasks' : p \in pageTasks \/ (p.sched = t.sched /\ schedulers[t.sched] \in {"runs", "cancelled"})
    BY <1>9 DEF PageTaskStarts, PageTaskEnds, PageTask, StillStarts
  <2>3. \A i \in 1..MaxSchedulers : Busy(i)' => Busy(i) \/ schedulers[i] \in {"runs", "cancelled"}
    BY <2>1, <2>2 DEF Busy
  <2> QED BY <1>6, <2>1, <2>3
<1>10. CASE UNCHANGED preloadVars
  <2>1. managerFrame' = managerFrame /\ UNCHANGED <<visits, folderTasks, pageTasks>>
    BY <1>10 DEF preloadVars, managerFrame
  <2>2. \A i \in 1..MaxSchedulers : Busy(i)' => Busy(i) BY <2>1 DEF Busy
  <2> QED BY <1>6, <2>1, <2>2
<1> QED
  BY <1>2, <1>3, <1>4, <1>5, <1>7, <1>8, <1>9, <1>10
  DEF PreloadNext, SchedulerSteps, PreloadRests

(* Preload starts with one scheduler and no task.                          *)
LEMMA PreloadBegins == PreloadInit => PreloadInv
<1> SUFFICES ASSUME PreloadInit PROVE PreloadInv OBVIOUS
<1>0. MaxSchedulers \in Nat \ {0} BY PreloadAssumption
<1>1. NoFolderTask \in FolderTask /\ NoFolderTask.pc = "none" BY DEF NoFolderTask, FolderTask
<1>2. PreloadTypes BY <1>0, <1>1 DEF PreloadInit, PreloadTypes
<1>3. \A v \in Visit : folderTasks[v].pc = "none" BY <1>1 DEF PreloadInit
<1>4. ClaimsAreOwn BY <1>3 DEF PreloadInit, ClaimsAreOwn, Adds
<1>5. \A i \in 1..MaxSchedulers : ~Busy(i) BY <1>3 DEF PreloadInit, Busy
<1>6. OneAlive BY <1>0, <1>5 DEF PreloadInit, OneAlive
<1> QED BY <1>2, <1>4, <1>6 DEF PreloadInv

(* Every step of the manager, of its schedulers and of their tasks keeps   *)
(* the invariant.                                                          *)
LEMMA PreloadKeeps == PreloadInv /\ [PreloadNext]_preloadVars => PreloadInv'
BY PreloadTypesStep, ClaimsStep, OneAliveStep DEF PreloadInv

(* The invariant says what the runs check.                                 *)
LEMMA PreloadInvGives == PreloadInv => PreloadTypeOK /\ OnePreloadPerPage
<1> SUFFICES ASSUME PreloadInv PROVE PreloadTypeOK /\ OnePreloadPerPage OBVIOUS
<1>1. PreloadTypeOK BY DEF PreloadInv, PreloadTypes, PreloadTypeOK, FolderTask
<1>2. \A i \in 1..MaxSchedulers : Busy(i) => i = current BY DEF PreloadInv, OneAlive
<1> QED BY <1>1, <1>2 DEF PreloadInv, ClaimsAreOwn, OnePreloadPerPage

(* However requests, folder tasks and switches interleave, a page has one  *)
(* task at a time, its claim stands as long as the task, and no task runs  *)
(* in a scheduler that SetEnabled(false) has waited for (TryClaimTask,     *)
(* UnregisterTask, stopScheduler).                                         *)
THEOREM PagesArePreloadedOnce == PreloadSpec => [](PreloadTypeOK /\ OnePreloadPerPage)
BY PreloadInvGives, PreloadBegins, PreloadKeeps, PTL DEF PreloadSpec

-----------------------------------------------------------------------------
(* The batch load: three places where a target may be in flight.           *)

(* The callers who hold a target they have counted and not yet sent.       *)
Senders == {l \in Loader : loaders[l] = "sends"}
(* The types of the load's state.                                          *)
CacheBatchTypes ==
  /\ loaders \in [Loader -> {"new", "asked", "feeds", "sends", "drains", "done"}]
  /\ loadRunning \in BOOLEAN /\ toLoad \subseteq Target
  /\ jobsCh \in Seq(Target) /\ Len(jobsCh) <= JobQueueSize
  /\ loadWorkers \in [LoadWorker -> Target \cup {NoTarget}]
  /\ loadCounts \in [inFlight : Int, scheduled : Int, completed : Nat, failed : Nat]
  /\ Senders # {} => inHand \in Target

(* One caller has a load at most, and without one nothing is left over.    *)
OneLoad ==
  /\ \A l, m \in Feeding : l = m
  /\ loadRunning <=> Feeding # {}
  /\ Feeding = {} => jobsCh = <<>> /\ Holding = {}

(* What is in flight is in one of three places.                            *)
LoadAddsUp ==
  /\ loadCounts.inFlight = Len(jobsCh) + Cardinality(Holding) + Cardinality(Senders)
  /\ loadCounts.scheduled = loadCounts.inFlight + loadCounts.completed + loadCounts.failed

CacheBatchInv == CacheBatchTypes /\ OneLoad /\ LoadAddsUp

(* What the numbers of a load are made of.                                 *)
LEMMA LoadSizes ==
  ASSUME CacheBatchTypes, OneLoad
  PROVE  /\ IsFiniteSet(Holding) /\ Cardinality(Holding) \in Nat
         /\ Senders \subseteq Feeding /\ IsFiniteSet(Senders)
         /\ Cardinality(Senders) = IF Senders = {} THEN 0 ELSE 1
<1>1. IsFiniteSet(Holding) BY FS_Subset, CacheBatchAssumption DEF Holding
<1>2. Senders \subseteq Feeding BY DEF Senders, Feeding
<1>3. CASE Senders = {} BY <1>1, <1>2, <1>3, FS_EmptySet, FS_CardinalityType
<1>4. CASE Senders # {}
  <2>1. PICK l \in Senders : TRUE BY <1>4
  <2>2. Senders = {l} BY <1>2, <2>1 DEF OneLoad
  <2> QED BY <1>1, <1>2, <2>2, FS_Singleton, FS_CardinalityType
<1> QED BY <1>3, <1>4

(* A channel of targets after a send and after a receive.                  *)
LEMMA ChannelOfTargets ==
  ASSUME NEW s \in Seq(Target)
  PROVE  /\ Len(s) \in Nat /\ (s = <<>> <=> Len(s) = 0)
         /\ \A t \in Target : Append(s, t) \in Seq(Target) /\ Len(Append(s, t)) = Len(s) + 1
         /\ s # <<>> => Head(s) \in Target /\ Tail(s) \in Seq(Target) /\ Len(Tail(s)) = Len(s) - 1
OBVIOUS

(* Where a caller stands, and the load's numbers.                          *)
LoaderPlaces == {"new", "asked", "feeds", "sends", "drains", "done"}
CountsState == [inFlight : Int, scheduled : Int, completed : Nat, failed : Nat]

(* A step of a caller leaves the other callers where they are.             *)
LEMMA OneLoaderMoves ==
  ASSUME loaders \in [Loader -> LoaderPlaces], NEW l \in Loader, NEW place \in LoaderPlaces, LoaderAt(l, place)
  PROVE  /\ loaders' \in [Loader -> LoaderPlaces]
         /\ Feeding' = IF place \in {"feeds", "sends", "drains"} THEN Feeding \cup {l} ELSE Feeding \ {l}
         /\ Senders' = IF place = "sends" THEN Senders \cup {l} ELSE Senders \ {l}
<1>1. loaders' = [loaders EXCEPT ![l] = place] BY DEF LoaderAt
<1>2. loaders' \in [Loader -> LoaderPlaces] BY <1>1
<1>3. loaders'[l] = place /\ \A m \in Loader \ {l} : loaders'[m] = loaders[m] BY <1>1
<1> QED BY <1>2, <1>3 DEF Feeding, Senders

(* A step of a caller that is the only one to have a load or that begins   *)
(* the only one: the load goes on, or ends with nothing left.              *)
LEMMA LoaderStep ==
  ASSUME CacheBatchInv, NEW l \in Loader,
         \/ LoaderAsks(l) \/ LoaderBegins(l) \/ LoaderLooks(l) \/ LoaderSends(l)
         \/ LoaderLeaves(l) \/ LoaderCloses(l) \/ LoaderReturns(l)
  PROVE  CacheBatchInv'
<1>0. /\ loaders \in [Loader -> LoaderPlaces] /\ loadRunning \in BOOLEAN /\ toLoad \subseteq Target
      /\ jobsCh \in Seq(Target) /\ Len(jobsCh) <= JobQueueSize
      /\ loadWorkers \in [LoadWorker -> Target \cup {NoTarget}] /\ loadCounts \in CountsState
      /\ (Senders # {} => inHand \in Target) /\ JobQueueSize \in Nat
      /\ \A k, m \in Feeding : k = m
      /\ (loadRunning <=> Feeding # {}) /\ (Feeding = {} => jobsCh = <<>> /\ Holding = {})
  BY CacheBatchAssumption DEF CacheBatchInv, CacheBatchTypes, OneLoad, LoaderPlaces, CountsState
<1>1. /\ IsFiniteSet(Holding) /\ Cardinality(Holding) \in Nat /\ Senders \subseteq Feeding
      /\ Cardinality(Senders) = IF Senders = {} THEN 0 ELSE 1
  BY LoadSizes DEF CacheBatchInv
<1>2. /\ loadCounts.inFlight = Len(jobsCh) + Cardinality(Holding) + Cardinality(Senders)
      /\ loadCounts.scheduled = loadCounts.inFlight + loadCounts.completed + loadCounts.failed
  BY DEF CacheBatchInv, LoadAddsUp
<1>3. /\ loaders[l] \in {"feeds", "sends", "drains"} <=> l \in Feeding
      /\ loaders[l] = "sends" <=> l \in Senders
      /\ (l \in Feeding => Feeding = {l})
  BY <1>0 DEF Feeding, Senders
<1>a. loadWorkers' = loadWorkers /\ Holding' = Holding
  BY DEF LoaderAsks, LoaderBegins, LoaderLooks, LoaderSends, LoaderLeaves, LoaderCloses, LoaderReturns, Holding
<1>b. {"feeds", "sends", "drains", "done"} \subseteq LoaderPlaces BY DEF LoaderPlaces
\* What a step has to show, once the types of what it changes are known.
<1>4. ASSUME loaders' \in [Loader -> LoaderPlaces], loadRunning' \in BOOLEAN, toLoad' \subseteq Target,
             jobsCh' \in Seq(Target), Len(jobsCh') <= JobQueueSize, loadCounts' \in CountsState,
             Senders' # {} => inHand' \in Target, \A k, m \in Feeding' : k = m,
             loadRunning' <=> Feeding' # {}, Feeding' = {} => jobsCh' = <<>> /\ Holding = {},
             loadCounts'.inFlight = Len(jobsCh') + Cardinality(Holding) + (IF Senders' = {} THEN 0 ELSE 1),
             loadCounts'.scheduled = loadCounts'.inFlight + loadCounts'.completed + loadCounts'.failed
      PROVE  CacheBatchInv'
  <2>1. CacheBatchTypes' BY <1>0, <1>a, <1>4 DEF CacheBatchTypes, LoaderPlaces, CountsState
  <2>2. OneLoad' BY <1>a, <1>4 DEF OneLoad
  <2>3. Cardinality(Senders') = IF Senders' = {} THEN 0 ELSE 1
    <3>1. Senders' \subseteq Feeding' BY DEF Senders, Feeding
    <3>2. CASE Senders' = {} BY <3>2, FS_EmptySet
    <3>3. CASE Senders' # {}
      <4>1. PICK m \in Senders' : TRUE BY <3>3
      <4>2. Senders' = {m} BY <1>4, <3>1, <4>1
      <4> QED BY <3>3, <4>2, FS_Singleton
    <3> QED BY <3>2, <3>3
  <2>4. LoadAddsUp' BY <1>a, <1>4, <2>3 DEF LoadAddsUp
  <2> QED BY <2>1, <2>2, <2>4 DEF CacheBatchInv
<1>5. CASE LoaderAsks(l)
  <2>1. PICK place \in {"asked", "done"} : LoaderAt(l, place) BY <1>5 DEF LoaderAsks
  <2>2. l \notin Feeding /\ l \notin Senders BY <1>3, <1>5 DEF LoaderAsks
  <2>3. UNCHANGED <<loadRunning, toLoad, inHand, jobsCh, loadCounts>> BY <1>5 DEF LoaderAsks
  <2>5. place \in LoaderPlaces /\ place \notin {"feeds", "sends", "drains"} BY DEF LoaderPlaces
  <2>4. loaders' \in [Loader -> LoaderPlaces] /\ Feeding' = Feeding /\ Senders' = Senders
    <3>1. /\ loaders' \in [Loader -> LoaderPlaces] /\ Feeding' = Feeding \ {l} /\ Senders' = Senders \ {l}
      BY <1>0, <2>1, <2>5, OneLoaderMoves
    <3> QED BY <2>2, <3>1
  <2> QED BY <1>0, <1>1, <1>2, <1>4, <2>3, <2>4
<1>6. CASE LoaderBegins(l)
  <2>1. l \notin Feeding /\ l \notin Senders BY <1>3, <1>6 DEF LoaderBegins
  <2>2. UNCHANGED <<inHand, jobsCh, loadCounts>> BY <1>6 DEF LoaderBegins
  <2>3. CASE LoaderAt(l, "done") /\ UNCHANGED <<loadRunning, toLoad>>
    <3>1. loaders' \in [Loader -> LoaderPlaces] /\ Feeding' = Feeding /\ Senders' = Senders
      <4>1. /\ loaders' \in [Loader -> LoaderPlaces] /\ Feeding' = Feeding \ {l} /\ Senders' = Senders \ {l}
        BY <1>0, <1>b, <2>3, OneLoaderMoves
      <4> QED BY <2>1, <4>1
    <3> QED BY <1>0, <1>1, <1>2, <1>4, <2>2, <2>3, <3>1
  <2>4. CASE ~loadRunning /\ LoaderAt(l, "feeds") /\ loadRunning' = TRUE /\ toLoad' = Target
    <3>1. Feeding = {} /\ Senders = {} BY <1>0, <1>1, <2>4
    <3>2. loaders' \in [Loader -> LoaderPlaces] /\ Feeding' = {l} /\ Senders' = {}
      BY <1>0, <2>4, <3>1, <1>b, OneLoaderMoves
    <3> QED BY <1>0, <1>1, <1>2, <1>4, <2>2, <2>4, <3>1, <3>2
  <2> QED BY <1>6, <2>3, <2>4 DEF LoaderBegins
<1>7. CASE LoaderLooks(l)
  <2>1. Feeding = {l} /\ Senders = {} BY <1>1, <1>3, <1>7 DEF LoaderLooks
  <2>2. PICK t \in toLoad :
          /\ toLoad' = toLoad \ {t}
          /\ \/ UNCHANGED <<loaders, loadCounts, inHand>>
             \/ /\ LoaderAt(l, "sends") /\ inHand' = t
                /\ loadCounts' = [loadCounts EXCEPT !.inFlight = @ + 1, !.scheduled = @ + 1]
    BY <1>7 DEF LoaderLooks
  <2>3. UNCHANGED <<loadRunning, jobsCh>> BY <1>7 DEF LoaderLooks
  <2>4. CASE UNCHANGED <<loaders, loadCounts, inHand>>
    <3>1. Feeding' = Feeding /\ Senders' = Senders BY <2>4 DEF Feeding, Senders
    <3> QED BY <1>0, <1>1, <1>2, <1>4, <2>2, <2>3, <2>4, <3>1
  <2>5. CASE /\ LoaderAt(l, "sends") /\ inHand' = t
             /\ loadCounts' = [loadCounts EXCEPT !.inFlight = @ + 1, !.scheduled = @ + 1]
    <3>1. loaders' \in [Loader -> LoaderPlaces] /\ Feeding' = {l} /\ Senders' = {l}
      BY <1>0, <2>1, <2>5, <1>b, OneLoaderMoves
    <3>2. /\ loadCounts' \in CountsState /\ loadCounts'.inFlight = loadCounts.inFlight + 1
          /\ loadCounts'.scheduled = loadCounts.scheduled + 1
          /\ loadCounts'.completed = loadCounts.completed /\ loadCounts'.failed = loadCounts.failed
      <4>1. PICK n \in Int, m \in Int : n = loadCounts.inFlight + 1 /\ m = loadCounts.scheduled + 1
        BY <1>0 DEF CountsState
      <4>2. loadCounts' = [loadCounts EXCEPT !.inFlight = n, !.scheduled = m] BY <2>5, <4>1
      <4> QED BY <1>0, <2>5, <4>1 DEF CountsState
    <3>3. Len(jobsCh) \in Nat BY <1>0
    <3>4. /\ loadCounts'.inFlight = Len(jobsCh) + Cardinality(Holding) + 1
          /\ loadCounts'.scheduled = loadCounts'.inFlight + loadCounts'.completed + loadCounts'.failed
      BY <1>0, <1>1, <1>2, <2>1, <3>2, <3>3 DEF CountsState
    <3> QED BY <1>0, <1>4, <2>1, <2>2, <2>3, <2>5, <3>1, <3>2, <3>4
  <2> QED BY <2>2, <2>4, <2>5
<1>8. CASE LoaderSends(l)
  <2>1. Feeding = {l} /\ Senders = {l} /\ inHand \in Target BY <1>0, <1>1, <1>3, <1>8 DEF LoaderSends
  <2>2. /\ Len(jobsCh) < JobQueueSize /\ jobsCh' = Append(jobsCh, inHand)
        /\ LoaderAt(l, "feeds") /\ UNCHANGED <<loadRunning, toLoad, loadCounts>>
    BY <1>8 DEF LoaderSends
  <2>3. loaders' \in [Loader -> LoaderPlaces] /\ Feeding' = {l} /\ Senders' = {}
    BY <1>0, <2>1, <2>2, <1>b, OneLoaderMoves
  <2>4. Len(jobsCh) \in Nat /\ jobsCh' \in Seq(Target) /\ Len(jobsCh') = Len(jobsCh) + 1
    BY <1>0, <2>1, <2>2, ChannelOfTargets
  <2>5. loadCounts'.inFlight = Len(jobsCh') + Cardinality(Holding) + 0
    BY <1>1, <1>2, <2>1, <2>2, <2>4
  <2> QED BY <1>0, <1>2, <1>4, <2>1, <2>2, <2>3, <2>4, <2>5
<1>9. CASE LoaderLeaves(l)
  <2>1. Feeding = {l} /\ Senders = {l} BY <1>0, <1>1, <1>3, <1>9 DEF LoaderLeaves
  <2>2. /\ LoaderAt(l, "drains") /\ toLoad' = {} /\ UNCHANGED <<loadRunning, jobsCh>>
        /\ loadCounts' = [loadCounts EXCEPT !.inFlight = @ - 1, !.scheduled = @ - 1]
    BY <1>9 DEF LoaderLeaves
  <2>3. loaders' \in [Loader -> LoaderPlaces] /\ Feeding' = {l} /\ Senders' = {}
    BY <1>0, <2>1, <2>2, <1>b, OneLoaderMoves
  <2>4. /\ loadCounts' \in CountsState /\ loadCounts'.inFlight = loadCounts.inFlight - 1
        /\ loadCounts'.scheduled = loadCounts.scheduled - 1
        /\ loadCounts'.completed = loadCounts.completed /\ loadCounts'.failed = loadCounts.failed
    <3>1. PICK n \in Int, m \in Int : n = loadCounts.inFlight - 1 /\ m = loadCounts.scheduled - 1
      BY <1>0 DEF CountsState
    <3>2. loadCounts' = [loadCounts EXCEPT !.inFlight = n, !.scheduled = m] BY <2>2, <3>1
    <3> QED BY <1>0, <2>2, <3>1 DEF CountsState
  <2>5. Len(jobsCh) \in Nat BY <1>0
  <2>6. /\ loadCounts'.inFlight = Len(jobsCh) + Cardinality(Holding) + 0
        /\ loadCounts'.scheduled = loadCounts'.inFlight + loadCounts'.completed + loadCounts'.failed
    <3>1. /\ loadCounts.inFlight \in Int /\ loadCounts.scheduled \in Int
          /\ loadCounts.completed \in Nat /\ loadCounts.failed \in Nat
      BY <1>0 DEF CountsState
    <3>2. Cardinality(Senders) = 1 BY <1>1, <2>1
    <3>3. PICK queued \in Nat, held \in Nat : queued = Len(jobsCh) /\ held = Cardinality(Holding)
      BY <1>1, <2>5
    <3>4. loadCounts.inFlight = queued + held + 1 BY <1>2, <3>2, <3>3
    <3>5. loadCounts'.inFlight = queued + held + 0 BY <2>4, <3>3, <3>4
    <3>6. loadCounts'.scheduled = loadCounts'.inFlight + loadCounts'.completed + loadCounts'.failed
      <4>1. loadCounts.scheduled = loadCounts.inFlight + loadCounts.completed + loadCounts.failed BY <1>2
      <4> QED BY <2>4, <3>1, <4>1
    <3> QED BY <3>3, <3>5, <3>6
  <2> QED BY <1>0, <1>4, <2>1, <2>2, <2>3, <2>4, <2>6
<1>10. CASE LoaderCloses(l)
  <2>1. Feeding = {l} /\ Senders = {} BY <1>1, <1>3, <1>10 DEF LoaderCloses
  <2>2. LoaderAt(l, "drains") /\ UNCHANGED <<loadRunning, toLoad, inHand, jobsCh, loadCounts>>
    BY <1>10 DEF LoaderCloses
  <2>3. loaders' \in [Loader -> LoaderPlaces] /\ Feeding' = {l} /\ Senders' = {}
    BY <1>0, <2>1, <2>2, <1>b, OneLoaderMoves
  <2> QED BY <1>0, <1>1, <1>2, <1>4, <2>1, <2>2, <2>3
<1>11. CASE LoaderReturns(l)
  <2>1. Feeding = {l} /\ Senders = {} BY <1>1, <1>3, <1>11 DEF LoaderReturns
  <2>2. /\ LoaderAt(l, "done") /\ loadRunning' = FALSE /\ jobsCh = <<>> /\ Holding = {}
        /\ UNCHANGED <<toLoad, inHand, jobsCh, loadCounts>>
    BY <1>11 DEF LoaderReturns, Holding
  <2>3. loaders' \in [Loader -> LoaderPlaces] /\ Feeding' = {} /\ Senders' = {}
    BY <1>0, <2>1, <2>2, <1>b, OneLoaderMoves
  <2> QED BY <1>0, <1>1, <1>2, <1>4, <2>1, <2>2, <2>3
<1> QED BY <1>5, <1>6, <1>7, <1>8, <1>9, <1>10, <1>11

(* A worker takes one target out of the channel, and ends with it once.    *)
LEMMA LoadWorkerStep ==
  ASSUME CacheBatchInv, NEW w \in LoadWorker, LoadWorkerTakes(w) \/ LoadWorkerEnds(w)
  PROVE  CacheBatchInv'
<1>0. /\ jobsCh \in Seq(Target) /\ Len(jobsCh) <= JobQueueSize /\ JobQueueSize \in Nat
      /\ loadWorkers \in [LoadWorker -> Target \cup {NoTarget}] /\ loadCounts \in CountsState
      /\ (Feeding = {} => jobsCh = <<>> /\ Holding = {}) /\ NoTarget \notin Target
  BY CacheBatchAssumption DEF CacheBatchInv, CacheBatchTypes, OneLoad, CountsState
<1>1. /\ IsFiniteSet(Holding) /\ Cardinality(Holding) \in Nat
      /\ Cardinality(Senders) \in Nat
  <2>1. Cardinality(Senders) = IF Senders = {} THEN 0 ELSE 1 BY LoadSizes DEF CacheBatchInv
  <2> QED BY <2>1, LoadSizes DEF CacheBatchInv
<1>2. /\ loadCounts.inFlight = Len(jobsCh) + Cardinality(Holding) + Cardinality(Senders)
      /\ loadCounts.scheduled = loadCounts.inFlight + loadCounts.completed + loadCounts.failed
  BY DEF CacheBatchInv, LoadAddsUp
<1>3. /\ UNCHANGED <<loaders, loadRunning, toLoad, inHand>> /\ Feeding' = Feeding /\ Senders' = Senders
  BY DEF LoadWorkerTakes, LoadWorkerEnds, Feeding, Senders
<1> DEFINE held == Cardinality(Holding)
           after == Cardinality(Holding')
           sending == Cardinality(Senders)
<1>4. Holding' \ {w} = Holding \ {w}
  BY <1>0 DEF LoadWorkerTakes, LoadWorkerEnds, Holding
<1>5. after = held + (IF w \in Holding' THEN 1 ELSE 0) - (IF w \in Holding THEN 1 ELSE 0)
  BY <1>1, <1>4, OneMoves
<1>6. ASSUME loadWorkers' \in [LoadWorker -> Target \cup {NoTarget}], loadCounts' \in CountsState,
             jobsCh' \in Seq(Target), Len(jobsCh') <= JobQueueSize, Feeding # {},
             loadCounts'.inFlight = Len(jobsCh') + after + sending,
             loadCounts'.scheduled = loadCounts'.inFlight + loadCounts'.completed + loadCounts'.failed
      PROVE  CacheBatchInv'
  <2>1. CacheBatchTypes' BY <1>3, <1>6 DEF CacheBatchInv, CacheBatchTypes, CountsState
  <2>2. OneLoad' BY <1>3, <1>6 DEF CacheBatchInv, OneLoad
  <2>3. LoadAddsUp' BY <1>3, <1>6 DEF LoadAddsUp
  <2> QED BY <2>1, <2>2, <2>3 DEF CacheBatchInv
<1>7. CASE LoadWorkerTakes(w)
  <2>1. /\ jobsCh # <<>> /\ loadWorkers[w] = NoTarget /\ loadCounts' = loadCounts
        /\ jobsCh' = Tail(jobsCh) /\ loadWorkers' = [loadWorkers EXCEPT ![w] = Head(jobsCh)]
    BY <1>7 DEF LoadWorkerTakes
  <2>2. /\ Head(jobsCh) \in Target /\ Len(jobsCh) \in Nat
        /\ jobsCh' \in Seq(Target) /\ Len(jobsCh') = Len(jobsCh) - 1
    BY <1>0, <2>1, ChannelOfTargets
  <2>3. w \in Holding' /\ w \notin Holding BY <1>0, <2>1, <2>2 DEF Holding
  <2>4. loadWorkers' \in [LoadWorker -> Target \cup {NoTarget}] BY <1>0, <2>1, <2>2
  <2>5. held \in Nat /\ sending \in Nat /\ after = held + 1 BY <1>1, <1>5, <2>3
  <2>6. loadCounts.inFlight = Len(jobsCh) + held + sending BY <1>2
  <2> HIDE DEF held, after, sending
  <2>7. loadCounts'.inFlight = Len(jobsCh') + after + sending /\ Len(jobsCh') <= JobQueueSize
    BY <1>0, <2>1, <2>2, <2>5, <2>6
  <2> QED BY <1>0, <1>2, <1>6, <2>1, <2>2, <2>4, <2>7
<1>8. CASE LoadWorkerEnds(w)
  <2>1. /\ loadWorkers[w] # NoTarget /\ jobsCh' = jobsCh
        /\ loadWorkers' = [loadWorkers EXCEPT ![w] = NoTarget]
    BY <1>8 DEF LoadWorkerEnds
  <2>2. w \notin Holding' /\ w \in Holding BY <1>0, <2>1 DEF Holding
  <2>3. loadWorkers' \in [LoadWorker -> Target \cup {NoTarget}] BY <1>0, <2>1
  <2>4. held \in Nat /\ sending \in Nat /\ after = held - 1 BY <1>1, <1>5, <2>2
  <2>5. PICK outcome \in {"completed", "failed"} :
          loadCounts' = [loadCounts EXCEPT !.inFlight = @ - 1, ![outcome] = @ + 1]
    BY <1>8 DEF LoadWorkerEnds
  <2>6. /\ loadCounts' \in CountsState /\ loadCounts'.inFlight = loadCounts.inFlight - 1
        /\ loadCounts'.scheduled = loadCounts.scheduled
        /\ loadCounts'.completed + loadCounts'.failed = loadCounts.completed + loadCounts.failed + 1
    <3>1. /\ loadCounts.inFlight - 1 \in Int /\ loadCounts.completed \in Nat /\ loadCounts.failed \in Nat
          /\ loadCounts.completed + 1 \in Nat /\ loadCounts.failed + 1 \in Nat
      BY <1>0 DEF CountsState
    <3>2. CASE outcome = "completed"
      <4>1. PICK n \in Int, m \in Nat : n = loadCounts.inFlight - 1 /\ m = loadCounts.completed + 1 BY <3>1
      <4>2. loadCounts' = [loadCounts EXCEPT !.inFlight = n, !.completed = m] BY <2>5, <3>2, <4>1
      <4>3. /\ loadCounts' \in CountsState /\ loadCounts'.inFlight = n /\ loadCounts'.completed = m
            /\ loadCounts'.scheduled = loadCounts.scheduled /\ loadCounts'.failed = loadCounts.failed
        BY <1>0, <4>2 DEF CountsState
      <4> QED BY <3>1, <4>1, <4>3
    <3>3. CASE outcome = "failed"
      <4>1. PICK n \in Int, m \in Nat : n = loadCounts.inFlight - 1 /\ m = loadCounts.failed + 1 BY <3>1
      <4>2. loadCounts' = [loadCounts EXCEPT !.inFlight = n, !.failed = m] BY <2>5, <3>3, <4>1
      <4>3. /\ loadCounts' \in CountsState /\ loadCounts'.inFlight = n /\ loadCounts'.failed = m
            /\ loadCounts'.scheduled = loadCounts.scheduled /\ loadCounts'.completed = loadCounts.completed
        BY <1>0, <4>2 DEF CountsState
      <4> QED BY <3>1, <4>1, <4>3
    <3> QED BY <2>5, <3>2, <3>3
  <2>7. Len(jobsCh) \in Nat /\ loadCounts.inFlight = Len(jobsCh) + held + sending BY <1>0, <1>2
  <2>8. Feeding # {} BY <1>0, <2>2
  <2> HIDE DEF held, after, sending
  <2>9. loadCounts'.inFlight = Len(jobsCh') + after + sending BY <2>1, <2>4, <2>6, <2>7
  <2>10. loadCounts'.scheduled = loadCounts'.inFlight + loadCounts'.completed + loadCounts'.failed
    <3>1. /\ loadCounts.inFlight \in Int /\ loadCounts.scheduled \in Int
          /\ loadCounts.completed \in Nat /\ loadCounts.failed \in Nat
          /\ loadCounts'.completed \in Nat /\ loadCounts'.failed \in Nat
      BY <1>0, <2>6 DEF CountsState
    <3>2. \A n \in Int, a, b, c, d \in Nat : c + d = a + b + 1 => n + a + b = (n - 1) + c + d OBVIOUS
    <3>3. loadCounts.inFlight + loadCounts.completed + loadCounts.failed
             = (loadCounts.inFlight - 1) + loadCounts'.completed + loadCounts'.failed
      BY <2>6, <3>1, <3>2
    <3> QED BY <1>2, <2>6, <3>3
  <2> QED BY <1>0, <1>6, <2>1, <2>3, <2>6, <2>8, <2>9, <2>10
<1> QED BY <1>7, <1>8

(* A process that starts has no load, and neither has one that died.       *)
LEMMA NoLoadYet ==
  /\ [l \in Loader |-> "new"] \in [Loader -> LoaderPlaces]
  /\ [w \in LoadWorker |-> NoTarget] \in [LoadWorker -> Target \cup {NoTarget}]
  /\ Zero \in CountsState /\ Zero.inFlight = 0 /\ Zero.scheduled = 0 /\ Zero.completed = 0 /\ Zero.failed = 0
  /\ <<>> \in Seq(Target) /\ Len(<<>>) = 0
<1>1. [l \in Loader |-> "new"] \in [Loader -> LoaderPlaces] BY DEF LoaderPlaces
<1>2. Zero \in CountsState BY DEF Zero, CountsState
<1> QED BY <1>1, <1>2 DEF Zero

(* A process starts with nothing in flight.                                *)
LEMMA CacheBatchBegins == CacheBatchInit => CacheBatchInv
<1> SUFFICES ASSUME CacheBatchInit PROVE CacheBatchInv OBVIOUS
<1>1. /\ loaders = [l \in Loader |-> "new"] /\ loadRunning = FALSE /\ toLoad = {} /\ jobsCh = <<>>
      /\ loadWorkers = [w \in LoadWorker |-> NoTarget] /\ loadCounts = Zero
  BY DEF CacheBatchInit
<1>2. /\ loaders \in [Loader -> LoaderPlaces] /\ loadRunning \in BOOLEAN /\ toLoad \subseteq Target
      /\ jobsCh \in Seq(Target) /\ Len(jobsCh) = 0
      /\ loadWorkers \in [LoadWorker -> Target \cup {NoTarget}] /\ loadCounts \in CountsState
      /\ loadCounts.inFlight = 0 /\ loadCounts.scheduled = 0 /\ loadCounts.completed = 0 /\ loadCounts.failed = 0
  BY <1>1, NoLoadYet
<1>3. Feeding = {} /\ Senders = {} /\ Holding = {} BY <1>1 DEF Feeding, Senders, Holding
<1>4. CacheBatchTypes
  BY <1>2, <1>3, CacheBatchAssumption DEF CacheBatchTypes, LoaderPlaces, CountsState
<1>5. OneLoad BY <1>1, <1>3 DEF OneLoad
<1>6. LoadAddsUp BY <1>2, <1>3, FS_EmptySet DEF LoadAddsUp
<1> QED BY <1>4, <1>5, <1>6 DEF CacheBatchInv

(* Every step of callers, workers, discovery and of a crash keeps the      *)
(* invariant.                                                              *)
LEMMA CacheBatchKeeps == CacheBatchInv /\ [CacheBatchNext]_cacheBatchVars => CacheBatchInv'
<1> SUFFICES ASSUME CacheBatchInv, [CacheBatchNext]_cacheBatchVars PROVE CacheBatchInv' OBVIOUS
<1>1. CASE Crashes
  <2>1. /\ loaders' = [l \in Loader |-> "new"] /\ loadRunning' = FALSE /\ toLoad' = {} /\ jobsCh' = <<>>
        /\ loadWorkers' = [w \in LoadWorker |-> NoTarget] /\ loadCounts' = Zero
    BY <1>1 DEF Crashes
  <2>2. /\ loaders' \in [Loader -> LoaderPlaces] /\ loadRunning' \in BOOLEAN /\ toLoad' \subseteq Target
        /\ jobsCh' \in Seq(Target) /\ Len(jobsCh') = 0
        /\ loadWorkers' \in [LoadWorker -> Target \cup {NoTarget}] /\ loadCounts' \in CountsState
        /\ loadCounts'.inFlight = 0 /\ loadCounts'.scheduled = 0
        /\ loadCounts'.completed = 0 /\ loadCounts'.failed = 0
    BY <2>1, NoLoadYet
  <2>3. Feeding' = {} /\ Senders' = {} /\ Holding' = {} BY <2>1 DEF Feeding, Senders, Holding
  <2>4. CacheBatchTypes'
    BY <2>2, <2>3, CacheBatchAssumption DEF CacheBatchTypes, LoaderPlaces, CountsState
  <2>5. OneLoad' BY <2>1, <2>3 DEF OneLoad
  <2>6. LoadAddsUp' BY <2>2, <2>3, FS_EmptySet DEF LoadAddsUp
  <2> QED BY <2>4, <2>5, <2>6 DEF CacheBatchInv
<1>2. CASE \/ DiscoveryActivates \/ DiscoverySaves \/ DiscoveryEndsActive \/ LoadCancelled
           \/ UNCHANGED cacheBatchVars
  <2>1. UNCHANGED <<loaders, loadRunning, toLoad, inHand, jobsCh, loadWorkers, loadCounts>>
    BY <1>2
    DEF DiscoveryActivates, DiscoverySaves, DiscoveryEndsActive, LoadCancelled, cacheBatchVars, loadState
  <2>2. Feeding' = Feeding /\ Senders' = Senders /\ Holding' = Holding BY <2>1 DEF Feeding, Senders, Holding
  <2> QED BY <2>1, <2>2 DEF CacheBatchInv, CacheBatchTypes, OneLoad, LoadAddsUp
<1> QED BY <1>1, <1>2, LoaderStep, LoadWorkerStep DEF CacheBatchNext

(* The invariant says what the runs check.                                 *)
LEMMA CacheBatchInvGives == CacheBatchInv => CacheBatchTypeOK /\ LoadCountsExact
<1> SUFFICES ASSUME CacheBatchInv PROVE CacheBatchTypeOK /\ LoadCountsExact OBVIOUS
<1>1. /\ Cardinality(Holding) \in Nat /\ Senders \subseteq Feeding
      /\ Cardinality(Senders) = IF Senders = {} THEN 0 ELSE 1
  BY LoadSizes DEF CacheBatchInv
<1>2. /\ loadCounts.inFlight = Len(jobsCh) + Cardinality(Holding) + Cardinality(Senders)
      /\ loadCounts.scheduled = loadCounts.inFlight + loadCounts.completed + loadCounts.failed
      /\ jobsCh \in Seq(Target) /\ Len(jobsCh) <= JobQueueSize /\ toLoad \subseteq Target
  BY DEF CacheBatchInv, LoadAddsUp, CacheBatchTypes
<1>3. Len(jobsCh) \in Nat BY <1>2
<1>4. loadCounts.inFlight \in Nat BY <1>1, <1>2, <1>3
<1>5. Cardinality(Feeding) <= 1
  <2>1. CASE Feeding = {} BY <2>1, FS_EmptySet
  <2>2. CASE Feeding # {}
    <3>1. PICK l \in Feeding : TRUE BY <2>2
    <3>2. Feeding = {l} BY <3>1 DEF CacheBatchInv, OneLoad
    <3> QED BY <3>2, FS_Singleton
  <2> QED BY <2>1, <2>2
<1>6. Feeding = {} => loadCounts.inFlight = 0
  <2> SUFFICES ASSUME Feeding = {} PROVE loadCounts.inFlight = 0 OBVIOUS
  <2>1. jobsCh = <<>> /\ Holding = {} /\ Senders = {} BY <1>1 DEF CacheBatchInv, OneLoad
  <2> QED BY <1>1, <1>2, <2>1, FS_EmptySet
<1> QED BY <1>2, <1>4, <1>5, <1>6 DEF CacheBatchTypeOK, LoadCountsExact, Senders

(* The numbers of a batch load are exact, and at most one load runs, for   *)
(* every number of callers, targets and workers, and over crashes          *)
(* (Manager.Run, RecordCompleted, RecordFailed).                           *)
THEOREM LoadsAreCounted == CacheBatchSpec => [](CacheBatchTypeOK /\ LoadCountsExact)
BY CacheBatchInvGives, CacheBatchBegins, CacheBatchKeeps, PTL DEF CacheBatchSpec

-----------------------------------------------------------------------------
(* What holds of all components together.                                  *)
BackgroundInv ==
  /\ WalkInv /\ DiscoveryInv /\ FolderIndexInv /\ SchedulerInv
  /\ PreloadInv /\ CacheBatchInv /\ LifecycleInv /\ focus \in Component

(* A step of one component is a step of its own specification, and leaves  *)
(* the others as they were.                                                *)
LEMMA EachMovesOnItsOwn ==
  ASSUME [BackgroundNext]_backgroundVars, focus \in Component
  PROVE  /\ [WalkNext]_walkVars /\ [DiscoveryNext]_discoveryVars /\ [FolderIndexNext]_folderIndexVars
         /\ [SchedulerNext]_schedulerVars /\ [PreloadNext]_preloadVars /\ [CacheBatchNext]_cacheBatchVars
         /\ [LifecycleNext]_lifecycleVars /\ focus' = focus
<1>1. CASE UNCHANGED backgroundVars \/ Rest BY <1>1 DEF backgroundVars, Rest
<1>2. CASE ~(UNCHANGED backgroundVars \/ Rest)
  <2>1. /\ \/ In("walk") /\ WalkNext
           \/ In("queue") /\ QueueNext
           \/ In("discovery") /\ DiscoveryNext
           \/ In("index") /\ FolderIndexNext
           \/ In("scheduler") /\ SchedulerNext
           \/ In("preload") /\ PreloadNext
           \/ In("load") /\ CacheBatchNext
           \/ In("life") /\ LifecycleNext
        /\ OthersStill
    BY <1>2 DEF BackgroundNext
  <2>2. /\ focus # "walk" => UNCHANGED walkVars
        /\ focus # "discovery" => UNCHANGED discoveryVars
        /\ focus # "index" => UNCHANGED folderIndexVars
        /\ focus # "scheduler" => UNCHANGED schedulerVars
        /\ focus # "preload" => UNCHANGED preloadVars
        /\ focus # "load" => UNCHANGED cacheBatchVars
        /\ focus # "life" => UNCHANGED lifecycleVars
        /\ focus' = focus
    BY <2>1 DEF OthersStill, Still
  <2> QED BY <2>1, <2>2 DEF In
<1> QED BY <1>1, <1>2

(* Every component starts as its own specification says.                   *)
LEMMA BackgroundBegins == BackgroundInit => BackgroundInv
BY WalkBegins, DiscoveryBegins, FolderIndexBegins, SchedulerBegins, PreloadBegins, CacheBatchBegins,
   LifecycleBegins
DEF BackgroundInit, BackgroundInv

(* Every step keeps what holds of all components.                          *)
LEMMA BackgroundKeeps == BackgroundInv /\ [BackgroundNext]_backgroundVars => BackgroundInv'
<1> SUFFICES ASSUME BackgroundInv, [BackgroundNext]_backgroundVars PROVE BackgroundInv' OBVIOUS
<1>1. /\ [WalkNext]_walkVars /\ [DiscoveryNext]_discoveryVars /\ [FolderIndexNext]_folderIndexVars
      /\ [SchedulerNext]_schedulerVars /\ [PreloadNext]_preloadVars /\ [CacheBatchNext]_cacheBatchVars
      /\ [LifecycleNext]_lifecycleVars /\ focus' = focus
  BY EachMovesOnItsOwn DEF BackgroundInv
<1>2. WalkInv' /\ DiscoveryInv' BY <1>1, WalkKeeps, DiscoveryKeeps DEF BackgroundInv
<1>3. FolderIndexInv' /\ SchedulerInv' BY <1>1, FolderIndexKeeps, SchedulerKeeps DEF BackgroundInv
<1>4. PreloadInv' /\ CacheBatchInv' BY <1>1, PreloadKeeps, CacheBatchKeeps DEF BackgroundInv
<1>5. LifecycleInv' BY <1>1, LifecycleKeeps DEF BackgroundInv
<1> QED BY <1>1, <1>2, <1>3, <1>4, <1>5 DEF BackgroundInv

(* The components that work behind the requests keep their types and their *)
(* promises side by side: the walk, the pool of discovery, the scheduler,  *)
(* preload, the batch load and the process around them.                    *)
THEOREM BackgroundIsSafe ==
  BackgroundSpec => [](BackgroundTypeOK /\ WalkSafety /\ DiscoverySafety /\ TasksAreBounded
                         /\ PreloadSafety /\ OrderlyExit)
<1>1. BackgroundInv => BackgroundTypeOK /\ WalkSafety /\ DiscoverySafety /\ TasksAreBounded
                         /\ PreloadSafety /\ OrderlyExit
  <2> SUFFICES ASSUME BackgroundInv
               PROVE  BackgroundTypeOK /\ WalkSafety /\ DiscoverySafety /\ TasksAreBounded
                        /\ PreloadSafety /\ OrderlyExit
    OBVIOUS
  <2>1. /\ WalkTypeOK /\ DiscoveryTypeOK /\ FolderIndexTypeOK /\ SchedulerTypeOK
        /\ PreloadTypeOK /\ CacheBatchTypeOK
    BY WalkInvGivesTypes, DiscoveryInvGivesTypes, FolderIndexInvGivesTypes, SchedulerInvGives,
       PreloadInvGives, CacheBatchInvGives
    DEF BackgroundInv
  <2>2. LifecycleTypeOK BY DEF BackgroundInv, LifecycleInv, LifecycleTypes, LifecycleTypeOK
  <2>3. WalkSafety /\ DiscoverySafety /\ TasksAreBounded /\ OrderlyExit
    BY WalkInvGivesSafety, DiscoveryInvGivesSafety, SchedulerInvGives, LifecycleInvGivesExit
    DEF BackgroundInv
  <2>4. PreloadSafety BY PreloadInvGives, CacheBatchInvGives DEF BackgroundInv, PreloadSafety
  <2> QED BY <2>1, <2>2, <2>3, <2>4 DEF BackgroundTypeOK
<1> QED BY <1>1, BackgroundBegins, BackgroundKeeps, PTL DEF BackgroundSpec

(* Behind the requests, too, only a complete index of one scan goes live,  *)
(* and a rebuild that has returned holds nothing (RebuildFileFolderIndex). *)
THEOREM BackgroundSwapsWhole == BackgroundSpec => FolderIndexSafety
<1>1. BackgroundInv /\ [BackgroundNext]_backgroundVars =>
        [indexTables'.live # indexTables.live =>
            indexTables'.live = {Row(f) : f \in scanned}]_folderIndexVars
  BY EachMovesOnItsOwn, OnlySwapChangesLive DEF BackgroundInv
<1>2. BackgroundInv => NothingLeftHeld BY FolderIndexInvGivesRelease DEF BackgroundInv
<1> QED BY <1>1, <1>2, BackgroundBegins, BackgroundKeeps, PTL
        DEF BackgroundSpec, FolderIndexSafety, SwapIsComplete

(* In the whole background, too, a page has one preload task at a time and *)
(* the numbers of a batch load are exact (TryClaimTask, Manager.Run).      *)
THEOREM BackgroundLoadsOnce == BackgroundSpec => []PreloadSafety
BY BackgroundIsSafe, PTL
=============================================================================
