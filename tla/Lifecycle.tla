----------------------------- MODULE Lifecycle -----------------------------
(***************************************************************************)
(* From the start of the process to its end: runMain waits for a signal or *)
(* for App.Run; Run brings the parts up in stages and then serves; a       *)
(* discovery, a request of the dashboard or a signal may ask for a restart *)
(* or a shutdown at any stage, and whoever asks first runs App.Shutdown.   *)
(***************************************************************************)
EXTENDS Naturals

CONSTANT MaxAsks   \* bound: restarts, shutdowns and discoveries asked for

ASSUME LifecycleAssumption == MaxAsks \in Nat

(* Who may call App.Shutdown: runMain, Run before it re-executes, the      *)
(* startup discovery after a failed rebuild, the dashboard.                *)
Caller == {"main", "run", "startup", "dashboard"}

VARIABLES
  stage,        \* App.Run: the stage it has reached
  listener,     \* httpServer: "none", "made", "open" or "closed"
  resource,     \* the pools, the discovery queue with the lock on its directory, and
                \* the write batcher: "none", "open" or "closed"
  workers,      \* StartPool and poolDone: "none", "running" or "stopped"
  tasks,        \* goroutines counted by wg: all return once cancelled
  discovering,  \* discoveryRunning: nobody, or who won its CompareAndSwap
  cancelled,    \* the context of RuntimeManager
  restart,      \* restartRequested
  asked,        \* TriggerRestart between its flag and its look at httpServer
  once,         \* shutdownOnce: who runs the steps, and the step reached
  caller,       \* each caller: not in Shutdown, in it, or past it
  asks

lifecycleVars == <<stage, listener, resource, workers, tasks, discovering, cancelled,
                   restart, asked, once, caller, asks>>

Steps == <<"cancel", "pool", "wait", "discovery", "subsystems", "batcher",
           "pools", "done">>

LifecycleInit ==
  /\ stage = "database" /\ listener = "none"
  /\ resource = [pools |-> "none", queue |-> "none", batcher |-> "none"]
  /\ workers = "none" /\ tasks = FALSE
  /\ discovering = "nobody" /\ cancelled = FALSE
  /\ restart = FALSE /\ asked = FALSE
  /\ once = [owner |-> "nobody", step |-> 1, early |-> FALSE]
  /\ caller = [c \in Caller |-> "out"]
  /\ asks = 0

Ended == stage \in {"replaced", "crashed"} \/ caller["main"] = "past"

-----------------------------------------------------------------------------
(* App.Run.                                                                *)

Reach(s) == stage' = s

(* setDB: a database that cannot be set up panics, which ends the process: *)
(* the recover of runMain guards another goroutine.                        *)
OpensDatabase ==
  /\ ~Ended /\ stage = "database"
  /\ \/ Reach("config") /\ resource' = [resource EXCEPT !.pools = "open"]
     \/ Reach("crashed") /\ UNCHANGED resource
  /\ UNCHANGED <<listener, workers, tasks, discovering, cancelled, restart, asked,
                 once, caller, asks>>

(* The configuration is loaded, or the last good one restored, and the     *)
(* pools are recreated by it: an error leaves Run, and a pool that a       *)
(* shutdown has already taken away is a nil dereference.                   *)
LoadsConfig ==
  /\ ~Ended /\ stage = "config"
  /\ IF resource.pools = "closed" THEN Reach("crashed")
     ELSE Reach("services") \/ Reach("returned")
  /\ UNCHANGED <<listener, resource, workers, tasks, discovering, cancelled, restart,
                 asked, once, caller, asks>>

(* StartWriteBatcher, ApplyConfig, the cache, SubsystemManager.Start, which *)
(* panics when it cannot open the discovery queue, and the baselines, which *)
(* take a connection.                                                      *)
StartsServices ==
  /\ ~Ended /\ stage = "services"
  /\ resource' = [resource EXCEPT !.batcher = "open", !.queue = "open"]
  /\ tasks' = ~cancelled
  /\ Reach("crashed") \/ (resource.pools # "closed" /\ Reach("discovery"))
  /\ UNCHANGED <<listener, workers, discovering, cancelled, restart, asked,
                 once, caller, asks>>

(* The startup discovery is launched unless it is switched off or this     *)
(* process comes out of a restart.                                         *)
LaunchesDiscovery ==
  /\ ~Ended /\ stage = "discovery" /\ Reach("pool")
  /\ discovering' \in {"nobody", "startup"}
  /\ UNCHANGED <<listener, resource, workers, tasks, cancelled, restart, asked,
                 once, caller, asks>>

StartsPool ==
  /\ ~Ended /\ stage = "pool" /\ Reach("wiring")
  /\ workers' = "running"
  /\ UNCHANGED <<listener, resource, tasks, discovering, cancelled, restart, asked,
                 once, caller, asks>>

(* Metrics, sessions and handlers: the templates may not build.            *)
WiresHandlers ==
  /\ ~Ended /\ stage = "wiring"
  /\ Reach("check") \/ Reach("returned")
  /\ UNCHANGED <<listener, resource, workers, tasks, discovering, cancelled, restart,
                 asked, once, caller, asks>>

(* Serve looks for a restart before and after it publishes httpServer.     *)
ServeChecks ==
  /\ ~Ended /\ stage = "check"
  /\ Reach(IF restart THEN "served" ELSE "making")
  /\ UNCHANGED <<listener, resource, workers, tasks, discovering, cancelled, restart,
                 asked, once, caller, asks>>

ServeMakesServer ==
  /\ ~Ended /\ stage = "making" /\ Reach("recheck")
  /\ listener' = "made"
  /\ UNCHANGED <<resource, workers, tasks, discovering, cancelled, restart, asked,
                 once, caller, asks>>

ServeListens ==
  /\ listener' = IF listener = "made" THEN "open" ELSE listener
  /\ Reach("listening")
\* Faulty variant: no second look at the restart flag.
ServeListensUnchecked ==
  /\ ~Ended /\ stage = "recheck" /\ ServeListens
  /\ UNCHANGED <<resource, workers, tasks, discovering, cancelled, restart, asked,
                 once, caller, asks>>
ServeRechecks ==
  /\ ~Ended /\ stage = "recheck"
  /\ IF restart THEN Reach("served") /\ UNCHANGED listener ELSE ServeListens
  /\ UNCHANGED <<resource, workers, tasks, discovering, cancelled, restart, asked,
                 once, caller, asks>>

(* ListenAndServe returns when the server is shut down, or the context     *)
(* ends the server.                                                        *)
ServeReturns ==
  /\ ~Ended /\ stage = "listening"
  /\ \/ listener = "closed" /\ Reach("served") /\ UNCHANGED listener
     \/ cancelled /\ Reach("served") /\ listener' = "closed"
  /\ UNCHANGED <<resource, workers, tasks, discovering, cancelled, restart, asked,
                 once, caller, asks>>

(* It fails, the address being taken: Run panics.                          *)
ListenFails ==
  /\ ~Ended /\ stage = "listening" /\ listener = "open" /\ Reach("crashed")
  /\ UNCHANGED <<listener, resource, workers, tasks, discovering, cancelled, restart,
                 asked, once, caller, asks>>

RunEnds ==
  /\ ~Ended /\ stage = "served"
  /\ Reach(IF restart THEN "stopping" ELSE "returned")
  /\ UNCHANGED <<listener, resource, workers, tasks, discovering, cancelled, restart,
                 asked, once, caller, asks>>

(* ExecRestart replaces the process image, or exits when it cannot.        *)
Replaces ==
  /\ ~Ended /\ stage = "stopping" /\ caller["run"] = "past" /\ Reach("replaced")
  /\ UNCHANGED <<listener, resource, workers, tasks, discovering, cancelled, restart,
                 asked, once, caller, asks>>

-----------------------------------------------------------------------------
(* Discovery, restart and the dashboard.                                   *)

TriggersRestart == restart' = TRUE /\ asked' = TRUE

(* TriggerDiscovery returns when it is done, refused or cancelled; after   *)
(* the startup one a restart may be configured, and a failed rebuild shuts *)
(* the application down.                                                   *)
DiscoveryReturns ==
  /\ ~Ended /\ discovering # "nobody"
  /\ discovering' = "nobody"
  /\ \/ UNCHANGED <<restart, asked, caller>>
     \/ /\ discovering = "startup" /\ ~cancelled
        /\ TriggersRestart
        /\ UNCHANGED caller
     \/ /\ discovering = "startup" /\ caller["startup"] = "out"
        /\ caller' = [caller EXCEPT !["startup"] = "in"]
        /\ UNCHANGED <<restart, asked>>
  /\ UNCHANGED <<stage, listener, resource, workers, tasks, cancelled, once, asks>>

(* The second half of TriggerRestart: without a server there is nothing to *)
(* shut down, and Serve finds the flag instead.                            *)
RestartClosesServer ==
  /\ ~Ended /\ asked /\ asked' = FALSE
  /\ listener' = IF listener = "none" THEN "none" ELSE "closed"
  /\ UNCHANGED <<stage, resource, workers, tasks, discovering, cancelled, restart,
                 once, caller, asks>>

DashboardAsks ==
  /\ ~Ended /\ listener = "open" /\ asks < MaxAsks
  /\ asks' = asks + 1
  /\ \/ TriggersRestart /\ UNCHANGED <<discovering, caller>>
     \/ /\ discovering = "nobody" /\ discovering' = "dashboard"
        /\ UNCHANGED <<restart, asked, caller>>
     \/ /\ caller["dashboard"] = "out"
        /\ caller' = [caller EXCEPT !["dashboard"] = "in"]
        /\ UNCHANGED <<restart, asked, discovering>>
  /\ UNCHANGED <<stage, listener, resource, workers, tasks, cancelled, once>>

(* runMain: a signal, or Run's return, whichever comes first.              *)
Signalled ==
  /\ ~Ended /\ caller["main"] = "out" /\ asks < MaxAsks
  /\ asks' = asks + 1
  /\ caller' = [caller EXCEPT !["main"] = "in"]
  /\ UNCHANGED <<stage, listener, resource, workers, tasks, discovering, cancelled,
                 restart, asked, once>>

MainSeesReturn ==
  /\ ~Ended /\ caller["main"] = "out" /\ stage = "returned"
  /\ caller' = [caller EXCEPT !["main"] = "in"]
  /\ UNCHANGED <<stage, listener, resource, workers, tasks, discovering, cancelled,
                 restart, asked, once, asks>>

RunStops ==
  /\ ~Ended /\ stage = "stopping" /\ caller["run"] = "out"
  /\ caller' = [caller EXCEPT !["run"] = "in"]
  /\ UNCHANGED <<stage, listener, resource, workers, tasks, discovering, cancelled,
                 restart, asked, once, asks>>

-----------------------------------------------------------------------------
(* App.Shutdown under shutdownOnce: the first caller runs the steps, the   *)
(* others wait inside Do until they are done.                              *)

Starting == {"database", "config", "services", "discovery", "pool"}
Claims(c) ==
  /\ ~Ended /\ caller[c] = "in" /\ once.owner = "nobody"
  /\ once' = [once EXCEPT !.owner = c, !.early = stage \in Starting]
  /\ UNCHANGED <<stage, listener, resource, workers, tasks, discovering, cancelled,
                 restart, asked, caller, asks>>

Step == Steps[once.step]
Advance == once' = [once EXCEPT !.step = @ + 1]

Cancels == /\ Step = "cancel" /\ cancelled' = TRUE
           /\ UNCHANGED resource
PoolIsDone == workers # "running"
WaitsForPool == Step = "pool" /\ PoolIsDone /\ UNCHANGED <<cancelled, resource>>
WaitsForTasks == Step = "wait" /\ ~tasks /\ UNCHANGED <<cancelled, resource>>
WaitsForDiscovery == /\ Step = "discovery" /\ discovering = "nobody"
                     /\ UNCHANGED <<cancelled, resource>>
Close(r) == resource' = [resource EXCEPT ![r] = IF @ = "open" THEN "closed" ELSE @]
(* SubsystemManager.Shutdown: preload, and the lock of the discovery queue. *)
ClosesSubsystems == Step = "subsystems" /\ Close("queue") /\ UNCHANGED cancelled
ClosesBatcher == Step = "batcher" /\ Close("batcher") /\ UNCHANGED cancelled
ClosesPools == Step = "pools" /\ Close("pools") /\ UNCHANGED cancelled

ShutdownSteps ==
  /\ ~Ended /\ once.owner # "nobody" /\ Advance
  /\ Cancels \/ WaitsForPool \/ WaitsForTasks \/ WaitsForDiscovery
       \/ ClosesSubsystems \/ ClosesBatcher \/ ClosesPools
  /\ UNCHANGED <<stage, listener, workers, tasks, discovering, restart, asked, caller, asks>>

\* Faulty variant: a caller who comes second does not wait.
ReturnsAtOnce(c) ==
  /\ ~Ended /\ caller[c] = "in" /\ once.owner # "nobody" /\ (once.owner = c => Step = "done")
  /\ caller' = [caller EXCEPT ![c] = "past"]
  /\ UNCHANGED <<stage, listener, resource, workers, tasks, discovering, cancelled,
                 restart, asked, once, asks>>
ShutdownReturns(c) ==
  /\ ~Ended /\ caller[c] = "in" /\ Step = "done"
  /\ caller' = [caller EXCEPT ![c] = "past"]
  /\ UNCHANGED <<stage, listener, resource, workers, tasks, discovering, cancelled,
                 restart, asked, once, asks>>

(* The worker pool closes poolDone, and the goroutines of wg return, once  *)
(* the context is cancelled.                                               *)
PoolStops ==
  /\ ~Ended /\ cancelled /\ workers = "running" /\ workers' = "stopped"
  /\ UNCHANGED <<stage, listener, resource, tasks, discovering, cancelled,
                 restart, asked, once, caller, asks>>
TasksStop ==
  /\ ~Ended /\ cancelled /\ tasks /\ tasks' = FALSE
  /\ UNCHANGED <<stage, listener, resource, workers, discovering, cancelled,
                 restart, asked, once, caller, asks>>

-----------------------------------------------------------------------------
RunNext == OpensDatabase \/ LoadsConfig \/ StartsServices \/ LaunchesDiscovery
             \/ StartsPool \/ WiresHandlers \/ ServeChecks \/ ServeMakesServer
             \/ ServeRechecks \/ ServeReturns \/ RunEnds \/ RunStops \/ Replaces
ShutdownNext == \/ \E c \in Caller: Claims(c) \/ ShutdownReturns(c)
                \/ ShutdownSteps \/ PoolStops \/ TasksStop

LifecycleNext == \/ RunNext \/ ShutdownNext
                 \/ DiscoveryReturns \/ RestartClosesServer \/ DashboardAsks
                 \/ Signalled \/ MainSeesReturn \/ ListenFails

LifecycleSpec ==
  /\ LifecycleInit /\ [][LifecycleNext]_lifecycleVars
  /\ WF_lifecycleVars(RunNext) /\ WF_lifecycleVars(ShutdownNext)
  /\ WF_lifecycleVars(DiscoveryReturns) /\ WF_lifecycleVars(RestartClosesServer)
  /\ WF_lifecycleVars(MainSeesReturn)

-----------------------------------------------------------------------------
(* Types of the lifecycle's state.                                         *)
LifecycleTypeOK ==
  /\ listener \in {"none", "made", "open", "closed"}
  /\ \A r \in DOMAIN resource: resource[r] \in {"none", "open", "closed"}
  /\ discovering \in {"nobody", "startup", "dashboard"}
  /\ once \in [owner: Caller \cup {"nobody"}, step: 1..8, early: BOOLEAN]
  /\ caller \in [Caller -> {"out", "in", "past"}]
  /\ asks \in 0..MaxAsks

(* Whoever ends the process - runMain by returning, Run by replacing the   *)
(* image - does so behind a complete Shutdown, also when another caller    *)
(* was running it: workers stopped, batcher drained, pools closed, and the *)
(* discovery queue unlocked for the image that follows.  Two exceptions    *)
(* are the code's: a panic of Run, and what Run still starts when the      *)
(* shutdown came during its startup.                                       *)
OrderlyExit ==
  stage = "replaced" \/ caller["main"] = "past"
    => /\ Step = "done"
       /\ once.early \/ (workers # "running" /\ ~tasks)
       /\ once.early \/ \A r \in DOMAIN resource: resource[r] # "open"

(* Nobody waits for ever: a Shutdown once called ends, whatever discovery, *)
(* workers and other callers are doing, and a restart once requested ends  *)
(* this process, also when it is requested while Serve is starting.        *)
LifecycleOwes == ~Ended /\ (restart \/ \E c \in Caller: caller[c] = "in")
EverybodyLeaves == LifecycleOwes ~> ~LifecycleOwes

(* What Shutdown's comment promises of its order: the pools are closed     *)
(* when no discovery can be using them.                                    *)
PoolsOutliveDiscovery == resource.pools = "closed" => discovering = "nobody"
=============================================================================
