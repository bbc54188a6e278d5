----------------------------- MODULE Discovery ------------------------------
(***************************************************************************)
(* File discovery (TriggerDiscovery with files.WalkImageDir): a walk       *)
(* compares every image with the catalogue and queues the ones to process; *)
(* the workers of internal/workerpool take them from the backlog, decode   *)
(* them and hand rows to the write batcher; TriggerDiscovery polls four    *)
(* counters, one after the other, until all of it has drained, and then    *)
(* rebuilds the folder index.  The walk is seen here as a loop over files  *)
(* (ParallelWalk has its inside), the batcher as a count of pending rows   *)
(* that it commits one by one (WriteBatcher has its inside).               *)
(***************************************************************************)
EXTENDS Integers, FiniteSets, SequencesExt

CONSTANTS Image,        \* the image files on disk
          Decodable,    \* those that processFileContents can process
          Starts,       \* [catalogue, triggers]: each image "new", "valid" or
                        \* "invalid" at first, and the calls of TriggerDiscovery
          Worker,       \* goroutines of the pool, MaxWorkers of them
          MinWorkers,   \* pool.MinWorkers
          MaxRefusals   \* calls of the batcher (ErrFull) and of the queue that fail

ASSUME DiscoveryAssumption ==
    /\ IsFiniteSet(Image) /\ Decodable \subseteq Image /\ IsFiniteSet(Worker)
    /\ Starts \subseteq [catalogue : [Image -> {"new", "valid", "invalid"}], triggers : Nat]
    /\ MinWorkers \in 0..Cardinality(Worker)
    /\ MaxRefusals \in Nat

VARIABLES trigger,    \* where TriggerDiscovery stands
          triggers,   \* how often it is still called
          active,     \* module_state of discovery
          todo,       \* files the walk has still to look at
          seen,       \* the catalogue as the walk read it (getDirEntMap)
          senders,    \* qSendersActive
          backlog,    \* the discovery queue
          worker,     \* [pc, file] of each goroutine of the pool
          running,    \* Stats.RunningWorkers
          stats,      \* processingStats
          pending,    \* rows in the write batcher
          catalogue,  \* files and invalid_files, as committed
          refusals,   \* calls of batcher and queue that failed
          uncounted,  \* files held but not in InFlight when it was read (history)
          appDone     \* the context of the application is done

discoveryVars == <<trigger, triggers, active, todo, seen, senders, backlog, worker,
                   running, stats, pending, catalogue, refusals, uncounted, appDone>>

NoFile == "none"
\* The workers StartWorkerPool is to start; they are all alike.
FirstWorkers == CHOOSE s \in SUBSET Worker : Cardinality(s) = MinWorkers
NoStats == [found |-> 0, existing |-> 0, inserted |-> 0, skipped |-> 0, inFlight |-> 0]

DiscoveryInit ==
    /\ \E s \in Starts : catalogue = s.catalogue /\ triggers = s.triggers
    /\ trigger = "idle" /\ active = FALSE
    /\ todo = {} /\ seen = catalogue /\ senders = 0 /\ backlog = <<>>
    /\ worker = [w \in Worker |-> [pc |-> IF w \in FirstWorkers THEN "due" ELSE "off", file |-> NoFile]]
    /\ running = 0 /\ stats = NoStats /\ pending = <<>>
    /\ refusals = 0 /\ uncounted = {} /\ appDone = FALSE

-----------------------------------------------------------------------------
(* TriggerDiscovery. *)

poolFrame == <<backlog, worker, running, pending, catalogue, refusals, appDone>>

\* The CAS on discoveryRunning, ResetStats, SetActive; then the walk is
\* refused while the backlog of an earlier one is there.
TriggerStarts ==
    /\ trigger = "idle" /\ triggers > 0
    /\ triggers' = triggers - 1 /\ stats' = NoStats /\ UNCHANGED uncounted
    /\ active' = TRUE                  \* a SetActive that fails is only logged
    /\ IF senders # 0 \/ backlog # <<>>
       THEN trigger' = "ending" /\ UNCHANGED <<todo, seen, senders>>
       ELSE /\ trigger' = "walk" /\ senders' = senders + 1
            /\ todo' = Image /\ seen' = catalogue
    /\ UNCHANGED poolFrame

\* discoveryModificationDecision: an unchanged file is not processed again.
Decision(f) == CASE seen[f] = "valid" -> "existing"
                 [] seen[f] = "invalid" -> "skipped"
                 [] OTHER -> "process"

Walking == {"walk", "walk failed"}
Refused == refusals < MaxRefusals /\ refusals' = refusals + 1

\* One file of the walk: counted, and queued when it is to be processed.  After
\* an Enqueue that failed, or in an application that ends, it is drained.
WalkMeets(f) ==
    /\ trigger \in Walking /\ f \in todo /\ todo' = todo \ {f}
    /\ LET d == Decision(f) IN
       IF d # "process"
       THEN /\ stats' = [stats EXCEPT !.found = @ + 1, ![d] = @ + 1]
            /\ UNCHANGED <<trigger, backlog, refusals>>
       ELSE /\ stats' = [stats EXCEPT !.found = @ + 1]
            /\ \/ /\ trigger = "walk" /\ backlog' = Append(backlog, f)
                  /\ UNCHANGED <<trigger, refusals>>
               \/ /\ trigger = "walk" /\ trigger' = "walk failed"
                  /\ Refused /\ UNCHANGED backlog
               \/ /\ trigger = "walk failed" \/ appDone
                  /\ UNCHANGED <<trigger, backlog, refusals>>
    /\ UNCHANGED <<triggers, active, seen, senders, worker, running,
                   pending, catalogue, uncounted, appDone>>

\* The walk's own context is done once an Enqueue failed.
WalkReturns ==
    /\ trigger \in Walking /\ (todo = {} \/ appDone \/ trigger = "walk failed")
    /\ todo' = {} /\ senders' = senders - 1 /\ trigger' = "senders"
    /\ UNCHANGED <<triggers, active, seen, stats, uncounted, poolFrame>>

\* Faulty variant: pending writes are read before the workers.
DrainOrderWritesFirst == <<"senders", "writes", "queue", "inFlight", "rebuild">>
\* waitForFileProcessingDrain: the four counters in the order of the code.
DrainOrder == <<"senders", "queue", "inFlight", "writes", "rebuild">>
IsZero(counter) == CASE counter = "senders" -> senders = 0
                     [] counter = "queue" -> backlog = <<>>
                     [] counter = "inFlight" -> stats.inFlight = 0
                     [] counter = "writes" -> pending = <<>>
Following(counter) == DrainOrder[1 + CHOOSE i \in 1..4 : DrainOrder[i] = counter]

\* The files a worker holds and InFlight does not show: just taken from the
\* backlog, or failed and about to be recorded.
Held == {worker[w].file : w \in {v \in Worker : worker[v].pc \in {"took", "records"}}}

DrainReads ==
    /\ trigger \in {"senders", "queue", "inFlight", "writes"}
    /\ trigger' = IF IsZero(trigger) THEN Following(trigger) ELSE "pause"
    /\ uncounted' = IF trigger = "inFlight" /\ IsZero(trigger)
                    THEN uncounted \cup Held ELSE uncounted
    /\ UNCHANGED <<triggers, active, todo, seen, senders, stats, poolFrame>>

\* The select on the ticker and on the context.
DrainTicks ==
    /\ trigger = "pause" /\ trigger' = "senders"
    /\ UNCHANGED <<triggers, active, todo, seen, senders, stats, uncounted, poolFrame>>

DrainCancelled ==
    /\ trigger = "pause" /\ appDone /\ trigger' = "ending"
    /\ UNCHANGED <<triggers, active, todo, seen, senders, stats, uncounted, poolFrame>>

\* The statistics are saved and the folder index is rebuilt (FolderIndex).
Rebuilds ==
    /\ trigger = "rebuild" /\ trigger' = "ending"
    /\ UNCHANGED <<triggers, active, todo, seen, senders, stats, uncounted, poolFrame>>

TriggerEnds ==
    /\ trigger = "ending" /\ trigger' = "idle" /\ active' = FALSE
    /\ UNCHANGED <<triggers, todo, seen, senders, stats, uncounted, poolFrame>>

-----------------------------------------------------------------------------
(* The worker pool. *)

triggerFrame == <<trigger, triggers, active, todo, seen, senders, uncounted, appDone>>
Is(w, place, file) == worker' = [worker EXCEPT ![w] = [pc |-> place, file |-> file]]

\* StartWorkerPool starts MinWorkers, one after the other.
WorkerStarts(w) ==
    /\ worker[w].pc = "due"
    /\ Is(w, "top", NoFile) /\ running' = running + 1
    /\ UNCHANGED <<triggerFrame, backlog, stats, pending, catalogue, refusals>>

\* MonitorPool, which comes after them, starts one more when the backlog is
\* longer than the number of workers (shouldScaleUp).
MonitorStarts(w) ==
    /\ worker[w].pc = "off" /\ ~appDone
    /\ \A v \in Worker : worker[v].pc # "due"
    /\ Len(backlog) > running /\ running < Cardinality(Worker)
    /\ Is(w, "top", NoFile) /\ running' = running + 1
    /\ UNCHANGED <<triggerFrame, backlog, stats, pending, catalogue, refusals>>

\* The head of the loop: the context, then ShouldIStop, whose idle time has
\* passed or not.
WorkerStops(w) ==
    /\ worker[w].pc = "top"
    /\ appDone \/ (running > MinWorkers /\ Len(backlog) + 1 <= running)
    /\ Is(w, "left", NoFile)
    /\ UNCHANGED <<triggerFrame, running, backlog, stats, pending, catalogue, refusals>>

\* The deferred decrement of RunningWorkers.
WorkerLeaves(w) ==
    /\ worker[w].pc = "left"
    /\ Is(w, "off", NoFile) /\ running' = running - 1
    /\ UNCHANGED <<triggerFrame, backlog, stats, pending, catalogue, refusals>>

WorkerDequeues(w) ==
    /\ worker[w].pc = "top" /\ backlog # <<>>
    /\ Is(w, "took", Head(backlog)) /\ backlog' = Tail(backlog)
    /\ UNCHANGED <<triggerFrame, running, stats, pending, catalogue, refusals>>

\* A Dequeue that fails ends the worker; the file stays in the backlog.
WorkerDequeueFails(w) ==
    /\ worker[w].pc = "top" /\ backlog # <<>> /\ Refused
    /\ Is(w, "left", NoFile)
    /\ UNCHANGED <<triggerFrame, running, backlog, stats, pending, catalogue>>

WorkerCounts(w) ==
    /\ worker[w].pc = "took"
    /\ Is(w, "works", worker[w].file) /\ stats' = [stats EXCEPT !.inFlight = @ + 1]
    /\ UNCHANGED <<triggerFrame, running, backlog, pending, catalogue, refusals>>

\* ProcessDiscoveryFile succeeds: the row counts as inserted before it is
\* handed to the batcher, which may refuse it.
WorkerProcesses(w) ==
    /\ worker[w].pc = "works" /\ worker[w].file \in Decodable /\ ~appDone
    /\ Is(w, "submits", worker[w].file) /\ stats' = [stats EXCEPT !.inserted = @ + 1]
    /\ UNCHANGED <<triggerFrame, running, backlog, pending, catalogue, refusals>>

WorkerSubmits(w) ==
    /\ worker[w].pc = "submits"
    /\ \/ pending' = Append(pending, worker[w].file) /\ UNCHANGED refusals
       \/ Refused /\ UNCHANGED pending
    /\ Is(w, "counted", worker[w].file)
    /\ UNCHANGED <<triggerFrame, running, backlog, stats, catalogue>>

WorkerUncounts(w) ==
    /\ worker[w].pc = "counted"
    /\ Is(w, "top", NoFile) /\ stats' = [stats EXCEPT !.inFlight = @ - 1]
    /\ UNCHANGED <<triggerFrame, running, backlog, pending, catalogue, refusals>>

\* Faulty variant: a file that fails stays in InFlight.
WorkerFailsCounted(w) ==
    /\ worker[w].pc = "works" /\ (worker[w].file \notin Decodable \/ appDone)
    /\ Is(w, "records", worker[w].file)
    /\ UNCHANGED <<triggerFrame, running, backlog, stats, pending, catalogue, refusals>>
\* ... and fails: InFlight goes down before the invalid file is recorded.
WorkerFails(w) ==
    /\ worker[w].pc = "works" /\ (worker[w].file \notin Decodable \/ appDone)
    /\ Is(w, "records", worker[w].file) /\ stats' = [stats EXCEPT !.inFlight = @ - 1]
    /\ UNCHANGED <<triggerFrame, running, backlog, pending, catalogue, refusals>>

\* Faulty variant: InFlight goes down a second time.
WorkerRecordsUncounts(w) ==
    /\ worker[w].pc = "records" /\ Is(w, "counted", worker[w].file)
    /\ UNCHANGED <<triggerFrame, running, backlog, stats, pending, catalogue, refusals>>
\* recordInvalidFileFromPath: only for a file whose folder has a row, which a
\* valid file of that folder makes.
FolderExists == \E f \in Image : catalogue[f] = "valid"
WorkerRecords(w) ==
    /\ worker[w].pc = "records" /\ Is(w, "top", NoFile)
    /\ IF FolderExists
       THEN /\ catalogue' = [catalogue EXCEPT ![worker[w].file] = "invalid"]
            /\ stats' = [stats EXCEPT !.skipped = @ + 1]
       ELSE UNCHANGED <<catalogue, stats>>
    /\ UNCHANGED <<triggerFrame, running, backlog, pending, refusals>>

\* The batcher commits a row.
BatcherCommits ==
    /\ pending # <<>> /\ pending' = Tail(pending)
    /\ catalogue' = [catalogue EXCEPT ![Head(pending)] = "valid"]
    /\ UNCHANGED <<triggerFrame, running, worker, backlog, stats, refusals>>

\* Shutdown cancels the context.
AppCancelled ==
    /\ ~appDone /\ appDone' = TRUE
    /\ UNCHANGED <<trigger, triggers, active, todo, seen, senders, backlog, worker,
                   running, stats, pending, catalogue, refusals, uncounted>>

DiscoveryRests == /\ trigger = "idle" /\ triggers = 0
                  /\ UNCHANGED discoveryVars

TriggerNext == \/ TriggerStarts \/ WalkReturns \/ DrainReads \/ DrainTicks \/ DrainCancelled
               \/ Rebuilds \/ TriggerEnds \/ \E f \in Image : WalkMeets(f)
WorkerNext(w) == \/ WorkerStarts(w) \/ MonitorStarts(w) \/ WorkerStops(w) \/ WorkerLeaves(w)
                 \/ WorkerDequeues(w) \/ WorkerDequeueFails(w)
                 \/ WorkerCounts(w) \/ WorkerProcesses(w)
                 \/ WorkerSubmits(w) \/ WorkerUncounts(w) \/ WorkerFails(w)
                 \/ WorkerRecords(w)
DiscoveryNext == \/ TriggerNext \/ BatcherCommits \/ AppCancelled
                 \/ DiscoveryRests \/ \E w \in Worker : WorkerNext(w)

DiscoverySpec == DiscoveryInit /\ [][DiscoveryNext]_discoveryVars

-----------------------------------------------------------------------------
DiscoveryTypeOK ==
    /\ trigger \in Walking \cup {"idle", "senders", "queue", "inFlight", "writes",
                    "pause", "rebuild", "ending"}
    /\ senders \in 0..1 /\ triggers \in Nat /\ running \in 0..Cardinality(Worker)
    /\ todo \subseteq Image /\ backlog \in Seq(Image) /\ pending \in Seq(Image)
    /\ stats.inFlight \in Int /\ stats.found \in Nat

(* The index is rebuilt when no file is under way any more: no             *)
(* walk, queue, worker or batcher has anything left, however the four      *)
(* counters, which are read one after the other, change in between         *)
(* (waitForFileProcessingDrain).  It is so unless a worker held a file     *)
(* that InFlight did not show when it was read.                            *)
RebuildMissesOnlyUncounted ==
    trigger = "rebuild" /\ uncounted = {} /\ ~appDone =>
        /\ todo = {} /\ backlog = <<>> /\ pending = <<>>
        /\ \A w \in Worker : worker[w].pc \notin {"took", "works", "submits", "records"}

(* What the run reports adds up: every file it found is existing, skipped, *)
(* inserted, still under way or failed, and none is counted twice; this is *)
(* so unless ResetStats came while a worker still held a file: one the     *)
(* drain missed, or one of a run that was cancelled (processingStats).     *)
StatsAddUp ==
    uncounted = {} /\ ~appDone =>
                      /\ stats.existing + stats.inserted + stats.skipped <= stats.found
                      /\ stats.inFlight >= 0

(* The index is rebuilt over all the walk could queue and the batcher took,*)
(* but for files InFlight did not show, and the run's numbers add up       *)
(* (waitForFileProcessingDrain, processingStats).                          *)
DiscoverySafety == RebuildMissesOnlyUncounted /\ StatsAddUp

(* Every discovery ends, unless a file escaped the drain: nothing is left  *)
(* in the backlog without a worker to take it, although workers that find  *)
(* nothing to do leave (ShouldIStop, MonitorPool).                         *)
DiscoveryOwes == trigger # "idle" /\ uncounted = {}
DiscoveryEnds == DiscoveryOwes ~> ~DiscoveryOwes

(* "waitForFileProcessingDrain polls until all queue senders, queue items, *)
(* in-flight processing, and pending writes reach zero".                   *)
DrainMeansDrained ==
    trigger = "rebuild" => \A w \in Worker :
        worker[w].pc \notin {"took", "works", "submits"}
=============================================================================
