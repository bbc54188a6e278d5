----------------------------- MODULE Scheduler ------------------------------
(***************************************************************************)
(* internal/scheduler: one loop wakes by a timer or by a token, collects   *)
(* the tasks that are due, and starts each on a goroutine if a slot of the *)
(* semaphore is free.  Tasks are added, removed and finish meanwhile; the  *)
(* loop ends by its context or by Shutdown.  Time is a bounded clock; the  *)
(* delays of the timer are seen as "again at once" (schedulerMinDelay),    *)
(* "when the next task is due", and "asleep" (schedulerIdleDelay).         *)
(***************************************************************************)
EXTENDS Integers, FiniteSetsExt

CONSTANTS Job,          \* tasks that may be added, each once
          Recurring,    \* those of mode Hourly to Monthly; others are OneTime
          StartTimes,   \* the start times callers ask for
          Period,       \* ticks between two runs of those
          MaxConcurrent,\* MaxConcurrentTasks
          Horizon,      \* the clock stops here
          MaxOverlap    \* runs of one task at the same time

ASSUME SchedulerAssumption ==
    /\ IsFiniteSet(Job) /\ Recurring \subseteq Job /\ StartTimes \subseteq 0..Horizon
    /\ Period \in Nat \ {0} /\ MaxConcurrent \in Nat \ {0}
    /\ Horizon \in Nat /\ MaxOverlap \in Nat

VARIABLES clock,
          jobs,       \* [state, startAt, nextRun, runCount, marked, runs, starts]
          loop,       \* where Start stands
          alarm,      \* when its timer fires
          wakeToken,  \* len(wakeCh)
          ready,      \* readyTasks still to be looked at
          startCtxDone,     \* the context of Start
          shutdownFlag, shutdownPc

schedulerVars == <<clock, jobs, loop, alarm, wakeToken, ready,
                   startCtxDone, shutdownFlag, shutdownPc>>

Never == Horizon + Period + 1     \* 365 days: beyond the horizon
Absent == [state |-> "absent", startAt |-> 0, nextRun |-> 0, runCount |-> 0,
           marked |-> FALSE, runs |-> 0, starts |-> 0]

SchedulerInit ==
    /\ clock = 0 /\ jobs = [j \in Job |-> Absent]
    /\ loop = "off" /\ alarm = Never /\ wakeToken = FALSE /\ ready = {}
    /\ startCtxDone = FALSE /\ shutdownFlag = FALSE /\ shutdownPc = "none"

\* Out of the map: a task that still runs is known to its goroutine only.
Gone(j) == [jobs[j] EXCEPT !.state = "gone", !.startAt = 0, !.nextRun = Never, !.runCount = 0]
Known(j) == jobs[j].state = "known"
\* What runs now, a task once for each of its runs: the slots taken.
Running == {run \in Job \X (1..MaxOverlap) : run[2] <= jobs[run[1]].runs}
TotalRuns == Cardinality(Running)

loopState == <<loop, alarm, ready>>
ends == <<startCtxDone, shutdownFlag, shutdownPc>>

-----------------------------------------------------------------------------
(* The callers. *)

\* Faulty variant: the loop is not woken.
AddTaskUnwoken(j) ==
    /\ jobs[j].state = "absent" /\ ~shutdownFlag
    /\ \E t \in StartTimes :
          jobs' = [jobs EXCEPT ![j] = [Absent EXCEPT !.state = "known", !.startAt = t, !.nextRun = t]]
    /\ UNCHANGED <<clock, loopState, wakeToken, ends>>
\* AddTask: the flag is tested, and again under the lock.
AddTask(j) ==
    /\ jobs[j].state = "absent" /\ ~shutdownFlag
    /\ \E t \in StartTimes :
          jobs' = [jobs EXCEPT ![j] = [Absent EXCEPT !.state = "known", !.startAt = t, !.nextRun = t]]
    /\ wakeToken' = TRUE
    /\ UNCHANGED <<clock, loopState, ends>>

RemoveTask(j) ==
    /\ Known(j) /\ ~jobs[j].marked
    /\ jobs' = [jobs EXCEPT ![j].marked = TRUE] /\ wakeToken' = TRUE
    /\ UNCHANGED <<clock, loopState, ends>>

ClockTicks ==
    /\ clock < Horizon /\ clock' = clock + 1
    /\ UNCHANGED <<jobs, loopState, wakeToken, ends>>

\* Shutdown is refused while Start runs; otherwise it sets the flag, cancels,
\* and waits for the tasks.
ShutdownTests ==
    /\ shutdownPc = "none" /\ loop \in {"off", "returned"} /\ shutdownPc' = "tested"
    /\ UNCHANGED <<clock, jobs, loopState, wakeToken, startCtxDone, shutdownFlag>>
ShutdownSets ==
    /\ shutdownPc = "tested" /\ shutdownFlag' = TRUE /\ shutdownPc' = "waits"
    /\ UNCHANGED <<clock, jobs, loopState, wakeToken, startCtxDone>>
ShutdownDone ==
    /\ shutdownPc = "waits" /\ TotalRuns = 0 /\ shutdownPc' = "done"
    /\ UNCHANGED <<clock, jobs, loopState, wakeToken, startCtxDone, shutdownFlag>>

StartCancelled ==
    /\ loop \notin {"off", "returned"} /\ ~startCtxDone /\ startCtxDone' = TRUE
    /\ UNCHANGED <<clock, jobs, loopState, wakeToken, shutdownFlag, shutdownPc>>

-----------------------------------------------------------------------------
(* Start. *)

Sleeps(delay) == loop' = "select" /\ alarm' = delay

StartBegins ==
    /\ loop = "off"
    /\ IF shutdownFlag THEN loop' = "returned" /\ UNCHANGED alarm ELSE Sleeps(clock)
    /\ UNCHANGED <<clock, jobs, wakeToken, ready, ends>>

\* The select of the loop: a token, the timer, or one of the contexts.
LoopWakes ==
    /\ loop = "select" /\ (wakeToken \/ clock >= alarm)
    /\ \/ wakeToken /\ wakeToken' = FALSE
       \/ clock >= alarm /\ UNCHANGED wakeToken
    /\ loop' = "collect"
    /\ UNCHANGED <<clock, jobs, alarm, ready, ends>>
LoopEnds ==
    /\ loop = "select" /\ (startCtxDone \/ shutdownFlag)
    /\ loop' = "waits"
    /\ UNCHANGED <<clock, jobs, alarm, ready, wakeToken, ends>>
StartReturns ==
    /\ loop = "waits" /\ TotalRuns = 0 /\ loop' = "returned"
    /\ UNCHANGED <<clock, jobs, alarm, ready, wakeToken, ends>>

\* executeReadyTasks, the part under s.mu: marked tasks go, due ones are ready.
DueNow(j) == jobs[j].nextRun <= clock
LoopCollects ==
    LET live == {j \in Job : Known(j) /\ ~jobs[j].marked}
        later == {jobs[j].nextRun : j \in {i \in live : ~DueNow(i)}}
    IN /\ loop = "collect"
       /\ IF shutdownFlag
          THEN Sleeps(Never) /\ UNCHANGED <<jobs, ready>>
          ELSE /\ jobs' = [j \in Job |-> IF Known(j) /\ jobs[j].marked
                                         THEN Gone(j) ELSE jobs[j]]
               /\ ready' = {j \in live : DueNow(j)}
               /\ alarm' = IF ready' # {} THEN clock ELSE Min(later \cup {Never})
               /\ loop' = "launch"
       /\ UNCHANGED <<clock, wakeToken, ends>>

\* Faulty variant: a one-time task stays due while it runs.
PutOffLate(j) == jobs[j].nextRun
\* When the next run is, from the start on.
PutOff(j) == IF j \in Recurring THEN jobs[j].nextRun ELSE Never

\* One ready task: the flag, the mark, a slot of the semaphore.  A one-time
\* task is put off before it is started; a recurring one only after its run.
Launches(j) ==
    /\ loop = "launch" /\ j \in ready
    /\ IF shutdownFlag
       THEN Sleeps(Never) /\ ready' = {} /\ UNCHANGED jobs
       ELSE /\ ready' = ready \ {j} /\ UNCHANGED <<loop, alarm>>
            /\ IF jobs[j].marked \/ TotalRuns >= MaxConcurrent \/ jobs[j].runs >= MaxOverlap
               THEN UNCHANGED jobs
               ELSE jobs' = [jobs EXCEPT ![j].runs = @ + 1, ![j].starts = @ + 1,
                                ![j].nextRun = PutOff(j)]
    /\ UNCHANGED <<clock, wakeToken, ends>>

LaunchEnds ==
    /\ loop = "launch" /\ ready = {} /\ loop' = "select"
    /\ UNCHANGED <<clock, jobs, alarm, wakeToken, ready, ends>>

\* The end of executeTask: the slot is free once it is written down.
TaskFinishes(j) ==
    /\ jobs[j].runs > 0
    /\ LET n == jobs[j].runCount + 1 IN
       jobs' = [jobs EXCEPT ![j] =
           IF j \in Recurring /\ Known(j) /\ ~jobs[j].marked
           THEN [jobs[j] EXCEPT !.runs = @ - 1, !.runCount = n,
                                !.nextRun = jobs[j].startAt + n * Period]
           ELSE [Gone(j) EXCEPT !.runs = @ - 1]]
    /\ UNCHANGED <<clock, loopState, wakeToken, ends>>

SchedulerRests ==
    /\ loop = "returned" /\ shutdownPc = "done" /\ UNCHANGED schedulerVars

LoopNext == \/ StartBegins \/ LoopWakes \/ LoopEnds \/ StartReturns \/ LoopCollects
            \/ LaunchEnds \/ \E j \in Job : Launches(j)
SchedulerNext == \/ LoopNext \/ ClockTicks \/ StartCancelled \/ SchedulerRests
                 \/ ShutdownTests \/ ShutdownSets \/ ShutdownDone
                 \/ \E j \in Job : AddTask(j) \/ RemoveTask(j) \/ TaskFinishes(j)

SchedulerSpec == SchedulerInit /\ [][SchedulerNext]_schedulerVars

-----------------------------------------------------------------------------
SchedulerTypeOK ==
    /\ loop \in {"off", "select", "collect", "launch", "waits", "returned"}
    /\ shutdownPc \in {"none", "tested", "waits", "done"}
    /\ \A j \in Job : jobs[j].state \in {"absent", "known", "gone"} /\ jobs[j].runs \in Nat

(* A one-time task starts at most once, although it stays in the map, due, *)
(* until its run ends; never more tasks run than the semaphore has slots;  *)
(* and when Start has returned no task runs and none can start any more,   *)
(* however Shutdown, the context and the callers interleave                *)
(* (executeReadyTasks, Start).                                             *)
TasksAreBounded ==
    /\ \A j \in Job \ Recurring : jobs[j].starts <= 1
    /\ TotalRuns <= MaxConcurrent
    /\ loop = "returned" => TotalRuns = 0

(* A task that is due starts, or is removed, or the scheduler stops: no    *)
(* wake-up is missed between the collection and the sleep, and no task     *)
(* starves for a slot (signalWake, the delays of executeReadyTasks).       *)
Stopping == startCtxDone \/ shutdownFlag
SchedulerOwes ==
    /\ loop # "off" /\ ~Stopping
    /\ \E j \in Job : Known(j) /\ DueNow(j) /\ jobs[j].starts = 0 /\ ~jobs[j].marked
DueTaskStarts == SchedulerOwes ~> ~SchedulerOwes
=============================================================================
