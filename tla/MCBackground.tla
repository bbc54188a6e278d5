---------------------------- MODULE MCBackground ----------------------------
(* The components that work behind the requests, each on a small instance.  *)
(* They share no state that their modules do not model already, so that     *)
(* their product would only multiply the states: one behaviour is about one *)
(* component, the one in focus, and the others stay where they start.       *)
EXTENDS MCWalk, RingQueue, Discovery, FolderIndex, Scheduler, Preload,
        CacheBatch, Lifecycle

CONSTANTS w1, w2            \* workers of the walk and of the pool

Catalogue(good, bad) == [f \in Image |-> IF f = "good" THEN good ELSE bad]
AllNew == [catalogue |-> Catalogue("new", "new"), triggers |-> 1]
GoodNew == [catalogue |-> Catalogue("new", "valid"), triggers |-> 2]
BadNew == [catalogue |-> Catalogue("valid", "new"), triggers |-> 2]
DiscoveryStarts == {AllNew, GoodNew, BadNew}

VARIABLE focus

backgroundVars == <<walkVars, queueVars, discoveryVars, folderIndexVars, schedulerVars,
                    preloadVars, cacheBatchVars, lifecycleVars, focus>>

Component == {"walk", "queue", "discovery", "index", "scheduler", "preload", "load", "life"}
In(c) == focus = c
Still(c, v) == IF focus = c THEN TRUE ELSE UNCHANGED v
OthersStill == /\ Still("walk", walkVars) /\ Still("queue", queueVars)
               /\ Still("discovery", discoveryVars) /\ Still("index", folderIndexVars)
               /\ Still("scheduler", schedulerVars) /\ Still("preload", preloadVars)
               /\ Still("load", cacheBatchVars) /\ Still("life", lifecycleVars)
               /\ UNCHANGED focus

BackgroundInit ==
    /\ focus \in Component
    /\ WalkInit /\ (focus = "walk" \/ limit = 0)
    /\ DiscoveryInit /\ (focus = "discovery" \/ catalogue = AllNew.catalogue)
    /\ QueueInit /\ FolderIndexInit
    /\ SchedulerInit /\ PreloadInit /\ CacheBatchInit /\ LifecycleInit

\* What the scheduling of the runtime owes each component, by the kind of its
\* goroutine: the one that leads, the one that serves it, the timers and the
\* two workers.
Leads == \/ In("walk") /\ CoordNext
         \/ In("discovery") /\ TriggerNext
         \/ In("index") /\ RebuildNext
         \/ In("scheduler") /\ LoopNext
         \/ In("preload") /\ SchedulerSteps
         \/ In("life") /\ RunNext
Serves == \/ In("walk") /\ FeederNext
          \/ In("discovery") /\ BatcherCommits
          \/ In("index") /\ FlushNext
          \/ In("scheduler") /\ ClockTicks
          \/ In("preload") /\ SwitchReturns
          \/ In("life") /\ ShutdownNext
FirstWorks == \/ In("walk") /\ WalkerNext(w1)
              \/ In("discovery") /\ WorkerNext(w1)
              \/ In("scheduler") /\ TaskFinishes("once")
              \/ In("life") /\ DiscoveryReturns
SecondWorks == \/ In("walk") /\ WalkerNext(w2)
               \/ In("discovery") /\ WorkerNext(w2)
               \/ In("scheduler") /\ TaskFinishes("hourly")
               \/ In("life") /\ RestartClosesServer
LastOfMain == In("life") /\ MainSeesReturn

Rest ==
    /\ focus \in {"load", "life"} /\ UNCHANGED backgroundVars

BackgroundNext ==
    \/ /\ \/ In("walk") /\ WalkNext
          \/ In("queue") /\ QueueNext
          \/ In("discovery") /\ DiscoveryNext
          \/ In("index") /\ FolderIndexNext
          \/ In("scheduler") /\ SchedulerNext
          \/ In("preload") /\ PreloadNext
          \/ In("load") /\ CacheBatchNext
          \/ In("life") /\ LifecycleNext
       /\ OthersStill
    \/ Rest

BackgroundSpec ==
    /\ BackgroundInit /\ [][BackgroundNext]_backgroundVars
    /\ WF_backgroundVars(Leads /\ OthersStill)
    /\ WF_backgroundVars(Serves /\ OthersStill)
    /\ WF_backgroundVars(FirstWorks /\ OthersStill)
    /\ WF_backgroundVars(SecondWorks /\ OthersStill)
    /\ WF_backgroundVars(LastOfMain /\ OthersStill)
    /\ SF_backgroundVars(In("discovery") /\ DrainCancelled /\ OthersStill)

-----------------------------------------------------------------------------
(* Types of the eight components' states.                                  *)
BackgroundTypeOK ==
    /\ WalkTypeOK /\ DiscoveryTypeOK /\ FolderIndexTypeOK /\ SchedulerTypeOK
    /\ PreloadTypeOK /\ CacheBatchTypeOK /\ LifecycleTypeOK

(* A page is preloaded by one task at a time, and the numbers of a batch   *)
(* load are exact (TryClaimTask, Manager.Run).                             *)
PreloadSafety == OnePreloadPerPage /\ LoadCountsExact

(* What must end ends, under the scheduling above: a cancelled walk, a     *)
(* discovery that saw every file it was processing, a rebuild, the wait of *)
(* a due task, SetEnabled(false), and the process.                         *)
Owes ==
    \/ In("walk") /\ WalkOwes
    \/ In("discovery") /\ DiscoveryOwes
    \/ In("index") /\ RebuildOwes
    \/ In("scheduler") /\ SchedulerOwes
    \/ In("preload") /\ SwitchOwes
    \/ In("life") /\ LifecycleOwes
BackgroundEnds == Owes ~> ~Owes
=============================================================================
