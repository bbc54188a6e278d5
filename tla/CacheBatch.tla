----------------------------- MODULE CacheBatch -----------------------------
(***************************************************************************)
(* The batch load of the cache (internal/server/cachebatch) and the row of *)
(* module_state that keeps it apart from discovery (modulestate.Service).  *)
(* Two callers may start the load; it feeds a bounded channel that workers *)
(* empty, skips targets when the channel is nearly full, and counts what   *)
(* is in flight.  The row outlives the process.                            *)
(***************************************************************************)
EXTENDS Integers, FiniteSets, Sequences

CONSTANTS Target,       \* GetBatchLoadTargets
          Stored,       \* those the cache holds already
          Loader,       \* goroutines that call Run
          LoadWorker,   \* maxWorkers
          JobQueueSize, \* queueSize
          MaxCrashes

NoTarget == "no target"

ASSUME CacheBatchAssumption ==
    /\ IsFiniteSet(Target) /\ NoTarget \notin Target /\ Stored \subseteq Target /\ IsFiniteSet(LoadWorker)
    /\ JobQueueSize \in Nat \ {0} /\ MaxCrashes \in Nat

VARIABLES moduleRow,   \* is_active of "discovery", and its saved counters
          discovery,   \* "idle", "runs": TriggerDiscovery of this process
          loaders,     \* where each call of Run stands
          loadRunning, \* Manager.running
          toLoad,      \* targets the loop has still to look at
          inHand,      \* the target it is about to send
          jobsCh,      \* the channel jobs
          loadWorkers, \* what each worker holds
          loadCounts,  \* Metrics: inFlight, scheduled, completed, failed
          loadDone,    \* the context is done
          crashes

cacheBatchVars == <<moduleRow, discovery, loaders, loadRunning, toLoad, inHand, jobsCh,
                    loadWorkers, loadCounts, loadDone, crashes>>

Zero == [inFlight |-> 0, scheduled |-> 0, completed |-> 0, failed |-> 0]

CacheBatchInit ==
    /\ moduleRow = [active |-> FALSE, saved |-> FALSE] /\ discovery = "idle"
    /\ loaders = [l \in Loader |-> "new"] /\ loadRunning = FALSE
    /\ toLoad = {} /\ inHand = NoTarget /\ jobsCh = <<>> /\ loadWorkers = [w \in LoadWorker |-> NoTarget]
    /\ loadCounts = Zero /\ loadDone = FALSE /\ crashes = 0

loadState == <<loaders, loadRunning, toLoad, inHand, jobsCh, loadWorkers, loadCounts, loadDone>>

-----------------------------------------------------------------------------
(* Discovery and the row. *)

DiscoveryActivates ==
    /\ discovery = "idle" /\ discovery' = "runs"
    /\ moduleRow' = [moduleRow EXCEPT !.active = TRUE]
    /\ UNCHANGED <<loadState, crashes>>

\* SaveFileProcessing reads the payload and writes it whole; SetActive does
\* not touch it.  Then the deferred SetActive(false), on a fresh context.
DiscoverySaves ==
    /\ discovery = "runs" /\ moduleRow' = [moduleRow EXCEPT !.saved = TRUE]
    /\ UNCHANGED <<discovery, loadState, crashes>>
DiscoveryEndsActive ==
    /\ discovery = "runs" /\ discovery' = "idle"
    /\ moduleRow' = [moduleRow EXCEPT !.active = FALSE]
    /\ UNCHANGED <<loadState, crashes>>

\* The process dies; the next one begins with what the row says.
Crashes ==
    /\ crashes < MaxCrashes /\ crashes' = crashes + 1
    /\ discovery' = "idle" /\ loaders' = [l \in Loader |-> "new"] /\ loadRunning' = FALSE
    /\ toLoad' = {} /\ inHand' = NoTarget /\ jobsCh' = <<>> /\ loadWorkers' = [w \in LoadWorker |-> NoTarget]
    /\ loadCounts' = Zero /\ loadDone' = FALSE /\ UNCHANGED moduleRow

-----------------------------------------------------------------------------
(* Run. *)

discoverySide == <<moduleRow, discovery, crashes>>
LoaderAt(l, place) == loaders' = [loaders EXCEPT ![l] = place]

\* IsActive; the answer is not looked at again.
LoaderAsks(l) ==
    /\ loaders[l] = "new" /\ LoaderAt(l, IF moduleRow.active THEN "done" ELSE "asked")
    /\ UNCHANGED <<discoverySide, loadRunning, toLoad, inHand, jobsCh, loadWorkers, loadCounts, loadDone>>

\* Faulty variant: no test of running.
LoaderBeginsTwice(l) ==
    /\ loaders[l] = "asked" /\ LoaderAt(l, "feeds") /\ loadRunning' = TRUE /\ toLoad' = Target
    /\ UNCHANGED <<discoverySide, inHand, jobsCh, loadWorkers, loadCounts, loadDone>>
\* The CAS on running, and GetQueries and GetBatchLoadTargets, which may fail.
LoaderBegins(l) ==
    /\ loaders[l] = "asked"
    /\ IF loadRunning
       THEN LoaderAt(l, "done") /\ UNCHANGED <<loadRunning, toLoad>>
       ELSE \/ LoaderAt(l, "feeds") /\ loadRunning' = TRUE /\ toLoad' = Target
            \/ LoaderAt(l, "done") /\ UNCHANGED <<loadRunning, toLoad>>
    /\ UNCHANGED <<discoverySide, inHand, jobsCh, loadWorkers, loadCounts, loadDone>>

\* One target: too much backpressure skips it, and so does the cache.
\* The counters go up before the send.
TooFull == 20 * Len(jobsCh) > 19 * JobQueueSize
LoaderLooks(l) ==
    /\ loaders[l] = "feeds"
    /\ \E t \in toLoad :
          /\ toLoad' = toLoad \ {t}
          /\ IF TooFull \/ t \in Stored
             THEN UNCHANGED <<loaders, loadCounts, inHand>>
             ELSE /\ LoaderAt(l, "sends") /\ inHand' = t
                  /\ loadCounts' = [loadCounts EXCEPT !.inFlight = @ + 1, !.scheduled = @ + 1]
    /\ UNCHANGED <<discoverySide, loadRunning, jobsCh, loadWorkers, loadDone>>

LoaderSends(l) ==
    /\ loaders[l] = "sends" /\ Len(jobsCh) < JobQueueSize
    /\ jobsCh' = Append(jobsCh, inHand) /\ LoaderAt(l, "feeds") /\ inHand' = NoTarget
    /\ UNCHANGED <<discoverySide, loadRunning, toLoad, loadWorkers, loadCounts, loadDone>>

\* The other arm of the select undoes the counters and stops feeding.
LoaderLeaves(l) ==
    /\ loaders[l] = "sends" /\ loadDone
    /\ LoaderAt(l, "drains") /\ toLoad' = {} /\ inHand' = NoTarget
    /\ loadCounts' = [loadCounts EXCEPT !.inFlight = @ - 1, !.scheduled = @ - 1]
    /\ UNCHANGED <<discoverySide, loadRunning, jobsCh, loadWorkers, loadDone>>

LoaderCloses(l) ==
    /\ loaders[l] = "feeds" /\ toLoad = {} /\ LoaderAt(l, "drains")
    /\ UNCHANGED <<discoverySide, loadRunning, toLoad, inHand, jobsCh, loadWorkers, loadCounts, loadDone>>

\* wg.Wait, and the deferred reset.
LoaderReturns(l) ==
    /\ loaders[l] = "drains" /\ jobsCh = <<>> /\ \A w \in LoadWorker : loadWorkers[w] = NoTarget
    /\ LoaderAt(l, "done") /\ loadRunning' = FALSE
    /\ UNCHANGED <<discoverySide, toLoad, inHand, jobsCh, loadWorkers, loadCounts, loadDone>>

LoadWorkerTakes(w) ==
    /\ loadWorkers[w] = NoTarget /\ jobsCh # <<>>
    /\ loadWorkers' = [loadWorkers EXCEPT ![w] = Head(jobsCh)] /\ jobsCh' = Tail(jobsCh)
    /\ UNCHANGED <<discoverySide, loaders, loadRunning, toLoad, inHand, loadCounts, loadDone>>

LoadWorkerEnds(w) ==
    /\ loadWorkers[w] # NoTarget
    /\ loadWorkers' = [loadWorkers EXCEPT ![w] = NoTarget]
    /\ \E outcome \in {"completed", "failed"} :
          loadCounts' = [loadCounts EXCEPT !.inFlight = @ - 1, ![outcome] = @ + 1]
    /\ UNCHANGED <<discoverySide, loaders, loadRunning, toLoad, inHand, jobsCh, loadDone>>

LoadCancelled ==
    /\ ~loadDone /\ loadDone' = TRUE
    /\ UNCHANGED <<discoverySide, loaders, loadRunning, toLoad, inHand, jobsCh, loadWorkers, loadCounts>>

CacheBatchNext ==
    \/ DiscoveryActivates \/ DiscoverySaves \/ DiscoveryEndsActive \/ Crashes \/ LoadCancelled
    \/ \E l \in Loader : LoaderAsks(l) \/ LoaderBegins(l) \/ LoaderLooks(l) \/ LoaderSends(l)
                         \/ LoaderLeaves(l) \/ LoaderCloses(l) \/ LoaderReturns(l)
    \/ \E w \in LoadWorker : LoadWorkerTakes(w) \/ LoadWorkerEnds(w)

CacheBatchSpec == CacheBatchInit /\ [][CacheBatchNext]_cacheBatchVars

-----------------------------------------------------------------------------
CacheBatchTypeOK ==
    /\ loadCounts.inFlight \in Nat /\ Len(jobsCh) <= JobQueueSize /\ toLoad \subseteq Target

Holding == {w \in LoadWorker : loadWorkers[w] # NoTarget}
Feeding == {l \in Loader : loaders[l] \in {"feeds", "sends", "drains"}}

(* The load's numbers are exact: what is in flight is what is in the       *)
(* channel, with a worker or about to be sent; what was scheduled is in    *)
(* flight or has ended; nothing is in flight when no load runs, however    *)
(* two callers, the workers and the cancellation interleave; and at most   *)
(* one load runs (Manager.Run, RecordCompleted, RecordFailed).             *)
LoadCountsExact ==
    /\ loadCounts.inFlight = Len(jobsCh) + Cardinality(Holding)
                               + Cardinality({l \in Loader : loaders[l] = "sends"})
    /\ loadCounts.scheduled = loadCounts.inFlight + loadCounts.completed + loadCounts.failed
    /\ Cardinality(Feeding) <= 1 /\ (Feeding = {} => loadCounts.inFlight = 0)
=============================================================================
