------------------------------ MODULE Preload -------------------------------
(***************************************************************************)
(* internal/server/cachepreload: opening a folder schedules a task that    *)
(* claims each of the folder's pages and schedules one task for each page, *)
(* which requests it so that the cache holds it.  Preload may be switched  *)
(* off and on, which ends the scheduler and starts a new one while         *)
(* requests still hold the old one.  A scheduler is seen here as a set of  *)
(* tasks and a state (Scheduler has its inside).                           *)
(***************************************************************************)
EXTENDS Integers, FiniteSets

CONSTANTS Visit,          \* requests that open the folder
          PreloadRoute,   \* the pages of the folder, all cacheable
          MaxSchedulers   \* schedulers made, one after the other

ASSUME PreloadAssumption ==
    IsFiniteSet(Visit) /\ IsFiniteSet(PreloadRoute) /\ MaxSchedulers \in Nat \ {0}

VARIABLES preloadOn,   \* pm.enabled
          current,     \* pm.scheduler, 0 for nil
          schedulers,  \* [1..MaxSchedulers -> state]
          switch,      \* where SetEnabled(false) stands, holding pm.mu
          visits,      \* [pc, sched]
          folderTasks, \* [Visit -> [pc, left, route]]
          pageTasks,   \* pages with a task: queued or running, and where
          claims,      \* taskTracker.pending
          inCache      \* pages the HTTP cache holds

preloadVars == <<preloadOn, current, schedulers, switch, visits, folderTasks,
                 pageTasks, claims, inCache>>

NoRoute == "no route"
NoFolderTask == [pc |-> "none", left |-> {}, route |-> NoRoute]

PreloadInit ==
    /\ preloadOn = TRUE /\ current = 1
    /\ schedulers = [i \in 1..MaxSchedulers |-> IF i = 1 THEN "runs" ELSE "unborn"]
    /\ switch = "none"
    /\ visits = [v \in Visit |-> [pc |-> "new", sched |-> 0]]
    /\ folderTasks = [v \in Visit |-> NoFolderTask]
    /\ pageTasks = {} /\ claims = {} /\ inCache = {}

LockFree == switch = "none"
PageTask(route, at, state) == [route |-> route, sched |-> at, state |-> state]

-----------------------------------------------------------------------------
(* SetEnabled and stopScheduler, under pm.mu to the end. *)

SwitchesOn ==
    /\ LockFree /\ ~preloadOn
    /\ \E i \in 1..MaxSchedulers :
          /\ schedulers[i] = "unborn" /\ \A j \in 1..(i - 1) : schedulers[j] # "unborn"
          /\ schedulers' = [schedulers EXCEPT ![i] = "runs"] /\ current' = i
    /\ preloadOn' = TRUE
    /\ UNCHANGED <<switch, visits, folderTasks, pageTasks, claims, inCache>>

SwitchesOff ==
    /\ LockFree /\ preloadOn
    /\ preloadOn' = FALSE /\ switch' = "waits"
    /\ schedulers' = [schedulers EXCEPT ![current] = "cancelled"]
    /\ UNCHANGED <<current, visits, folderTasks, pageTasks, claims, inCache>>

Busy(i) == \/ \E t \in pageTasks : t.sched = i /\ t.state = "runs"
           \/ \E v \in Visit : visits[v].sched = i /\ folderTasks[v].pc \notin {"none", "queued"}

\* Start returns when the tasks that run have ended: schedulerDone.
SchedulerLoopEnds(i) ==
    /\ schedulers[i] = "cancelled" /\ ~Busy(i)
    /\ schedulers' = [schedulers EXCEPT ![i] = "ended"]
    /\ UNCHANGED <<preloadOn, current, switch, visits, folderTasks, pageTasks, claims, inCache>>

SwitchReturnsEarly ==
    /\ switch = "waits" /\ schedulers[current] \in {"cancelled", "ended"}
    /\ schedulers' = [schedulers EXCEPT ![current] = "shut"]
    /\ current' = 0 /\ switch' = "none"
    /\ UNCHANGED <<preloadOn, visits, folderTasks, pageTasks, claims, inCache>>
SwitchReturns ==
    /\ switch = "waits" /\ schedulers[current] = "ended"
    /\ schedulers' = [schedulers EXCEPT ![current] = "shut"]
    /\ current' = 0 /\ switch' = "none"
    /\ UNCHANGED <<preloadOn, visits, folderTasks, pageTasks, claims, inCache>>

-----------------------------------------------------------------------------
(* ScheduleFolderPreload, on a goroutine of the request. *)

managerFrame == <<preloadOn, current, schedulers, switch>>

VisitSnapshots(v) ==
    /\ visits[v].pc = "new" /\ LockFree
    /\ visits' = [visits EXCEPT ![v] = IF preloadOn /\ current # 0
                                       THEN [pc |-> "opens", sched |-> current]
                                       ELSE [pc |-> "done", sched |-> 0]]
    /\ UNCHANGED <<managerFrame, folderTasks, pageTasks, claims, inCache>>

\* AddTask takes the task unless the scheduler was shut down; it may have
\* ended already.  CancelSessionTasks before it finds no claim: TryClaimTask
\* registers none with a session.
VisitAddsTask(v) ==
    /\ visits[v].pc = "opens" /\ visits' = [visits EXCEPT ![v].pc = "done"]
    /\ folderTasks' = IF schedulers[visits[v].sched] = "shut" THEN folderTasks
                      ELSE [folderTasks EXCEPT ![v].pc = "queued"]
    /\ UNCHANGED <<managerFrame, pageTasks, claims, inCache>>

-----------------------------------------------------------------------------
(* FolderPreloadTask. *)

\* A loop that was cancelled may still take a tick before it sees it.
StillStarts(i) == schedulers[i] \in {"runs", "cancelled"}
FolderAt(v, task) == folderTasks' = [folderTasks EXCEPT ![v] = task]

\* The database may fail: the task ends at once.
FolderTaskStarts(v) ==
    /\ folderTasks[v].pc = "queued" /\ StillStarts(visits[v].sched)
    /\ \/ FolderAt(v, [pc |-> "looks", left |-> PreloadRoute, route |-> NoRoute])
       \/ FolderAt(v, NoFolderTask)
    /\ UNCHANGED <<managerFrame, visits, pageTasks, claims, inCache>>

\* HttpCacheExistsByKey, TryClaimTask and AddTask, one after the other.
FolderTaskLooks(v) ==
    /\ folderTasks[v].pc = "looks" /\ folderTasks[v].left # {}
    /\ \E route \in folderTasks[v].left :
          FolderAt(v, [pc |-> IF route \in inCache THEN "looks" ELSE "claims",
                       left |-> folderTasks[v].left \ {route}, route |-> route])
    /\ UNCHANGED <<managerFrame, visits, pageTasks, claims, inCache>>

\* Faulty variant: a page somebody else claimed is scheduled too.
FolderTaskClaimsAnyway(v) ==
    /\ folderTasks[v].pc = "claims"
    /\ folderTasks' = [folderTasks EXCEPT ![v].pc = "adds"]
    /\ claims' = claims \cup {folderTasks[v].route}
    /\ UNCHANGED <<managerFrame, visits, pageTasks, inCache>>
FolderTaskClaims(v) ==
    /\ folderTasks[v].pc = "claims"
    /\ folderTasks' = [folderTasks EXCEPT ![v].pc =
                          IF folderTasks[v].route \in claims THEN "looks" ELSE "adds"]
    /\ claims' = claims \cup {folderTasks[v].route}
    /\ UNCHANGED <<managerFrame, visits, pageTasks, inCache>>

FolderTaskAdds(v) ==
    LET route == folderTasks[v].route IN
    /\ folderTasks[v].pc = "adds"
    /\ folderTasks' = [folderTasks EXCEPT ![v].pc = "looks", ![v].route = NoRoute]
    /\ IF schedulers[visits[v].sched] = "shut"
       THEN claims' = claims \ {route} /\ UNCHANGED pageTasks
       ELSE /\ pageTasks' = pageTasks \cup {PageTask(route, visits[v].sched, "queued")}
            /\ UNCHANGED claims
    /\ UNCHANGED <<managerFrame, visits, inCache>>

FolderTaskEnds(v) ==
    /\ folderTasks[v].pc = "looks" /\ folderTasks[v].left = {}
    /\ FolderAt(v, NoFolderTask)
    /\ UNCHANGED <<managerFrame, visits, pageTasks, claims, inCache>>

-----------------------------------------------------------------------------
(* PreloadTask: an internal request, which the header keeps from preloading. *)

PageTaskStarts(t) ==
    /\ t.state = "queued" /\ StillStarts(t.sched)
    /\ pageTasks' = (pageTasks \ {t}) \cup {PageTask(t.route, t.sched, "runs")}
    /\ UNCHANGED <<managerFrame, visits, folderTasks, claims, inCache>>

\* Faulty variant: the end of a task takes the manager's lock.
PageTaskEndsLocking(t) ==
    /\ t.state = "runs" /\ LockFree
    /\ pageTasks' = pageTasks \ {t} /\ claims' = claims \ {t.route}
    /\ inCache' \in {inCache, inCache \cup {t.route}}
    /\ UNCHANGED <<managerFrame, visits, folderTasks>>
\* The page is stored or the request fails; the claim goes in both cases.
PageTaskEnds(t) ==
    /\ t.state = "runs"
    /\ pageTasks' = pageTasks \ {t} /\ claims' = claims \ {t.route}
    /\ inCache' \in {inCache, inCache \cup {t.route}}
    /\ UNCHANGED <<managerFrame, visits, folderTasks>>

PreloadRests ==
    /\ \A v \in Visit : visits[v].pc = "done" /\ folderTasks[v].pc \in {"none", "queued"}
    /\ \A t \in pageTasks : t.state = "queued"
    /\ switch = "none" /\ UNCHANGED preloadVars

SchedulerSteps == \/ \E i \in 1..MaxSchedulers : SchedulerLoopEnds(i)
                  \/ \E v \in Visit : FolderTaskLooks(v) \/ FolderTaskClaims(v)
                                      \/ FolderTaskAdds(v) \/ FolderTaskEnds(v)
                  \/ \E t \in pageTasks : PageTaskEnds(t)
PreloadNext == \/ SwitchesOn \/ SwitchesOff \/ SwitchReturns \/ SchedulerSteps
               \/ \E v \in Visit : VisitSnapshots(v) \/ VisitAddsTask(v) \/ FolderTaskStarts(v)
               \/ \E t \in pageTasks : PageTaskStarts(t)
               \/ PreloadRests

PreloadSpec == PreloadInit /\ [][PreloadNext]_preloadVars

-----------------------------------------------------------------------------
PreloadTypeOK ==
    /\ current \in 0..MaxSchedulers /\ claims \subseteq PreloadRoute
    /\ \A v \in Visit : folderTasks[v].pc \in {"none", "queued", "looks", "claims", "adds"}

(* A page has one task at a time, in whatever scheduler, and its claim     *)
(* stands for as long: two folder tasks that look at the page together     *)
(* never both schedule it (TryClaimTask, UnregisterTask).  And once        *)
(* SetEnabled(false) has returned no task runs in any scheduler, although  *)
(* requests still add to the one they took (stopScheduler).                *)
OnePreloadPerPage ==
    /\ \A t \in pageTasks : t.route \in claims /\ \A u \in pageTasks : u.route = t.route => u = t
    /\ switch = "none" => \A i \in 1..MaxSchedulers : i # current => ~Busy(i)

(* SetEnabled(false) returns: the tasks it waits for, holding pm.mu, never *)
(* need pm.mu (InternalPreloadHeader).                                     *)
SwitchOwes == switch = "waits"
SwitchingEnds == SwitchOwes ~> ~SwitchOwes
=============================================================================
