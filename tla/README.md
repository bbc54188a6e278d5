# A TLA+ model of sfpg-go

sfpg-go is a photo-gallery server on SQLite. A discovery walks the image
directory and hands what it finds to workers; every high-volume write goes
through one batcher that overflows to a queue on disk; pages are cached in the
database and preloaded by a scheduler; every read and write takes a connection
from a pool that has no mutex. This directory models these parts at the level at
which their goroutines, requests and crashes interleave, checks them with TLC,
and proves every safety property that the runs check, refinements included, with
TLAPS for every value of the constants.

Paths below are relative to the repository, `src/` in `PROJECT.json`, whose
`map` gives the lines each definition stands for.

## 1. Inventory

| Part | State | Operations | Talks to |
|---|---|---|---|
| `internal/dque` | segment files (length-prefixed objects, deletion markers), first and last segment in memory, cached byte total, a condition variable | `NewOrOpen`, `Enqueue`, `Dequeue`, `DequeueBlock`, `Size`, `DiskBytes`, `Close` | file system; batcher and discovery hold one each |
| `internal/writebatcher` | bounded channel, dque, one-token notify channel, drain flag, pending count, the worker's batch and flush timer | `New`, `Submit`, worker loop, `drainDQueAll`, `flush`, `reEnqueueBatch`, `StartDQueDrain`, `Close` | RW pool, dque, drop and maintenance hooks |
| `internal/dbconnpool` | channel of idle connections, atomic total, `closed` and `done` | `Get`, `Put`, monitor tick, `Close` | `database/sql`; used by everything |
| `internal/parallelwalkdir` | schedule queue, `dirCh`, wait group, two counters, visited paths, result channels | `ParallelWalk`: feeder, directory workers, coordinator | in-memory queue; discovery |
| `internal/queue` | ring of cells, head, tail, length | both ends, `Clear`, `Close`, `DequeueWait` | walk, discovery |
| discovery (`server/server.go`, `server/app_startup.go`, `server/files`, `internal/workerpool`) | backlog, senders, statistics, workers, `discoveryRunning` | `TriggerDiscovery`, `WalkImageDir`, pool workers, drain | walk, batcher, index rebuild, module row |
| catalogue (`server/files`, `internal/gallerylib`) | rows of files, folders, invalid files, thumbnails; buffers | modification decision, `WriteFileInTx`, rollback, `recordInvalidFileFromPath` | batcher's flush |
| folder-index rebuild (`server/folder_index_protocol.go`, `server/files/folder_index.go`, `internal/tableswap`) | generation, in-flight count, active and scan flags, three tables, leased connections | `RebuildFileFolderIndex`, flush callbacks, `Swap`, drop | batcher, pools |
| `internal/scheduler` | task map, timer, wake token, semaphore | `AddTask`, `RemoveTask`, `Start`, `executeTask`, `Shutdown` | log, login, preload |
| cache preload (`server/cachepreload`) | enabled flag, scheduler, claims | `SetEnabled`, `OnFolderOpen`, folder and page tasks | scheduler, cache |
| cache batch load (`server/cachebatch`, `server/modulestate`) | running flag, job channel, counters, the module row | `Run` and its workers; `SetActive` | cache, discovery |
| lifecycle (`server/app_lifecycle.go`, `app_startup.go`, `runtime_manager.go`, `subsystem_manager.go`) | stage of the startup, server, wait group, `shutdownOnce` | `Run`, `Serve`, `Shutdown`, `TriggerRestart` | everything |
| response cache (`internal/cachelite`, `server/infrastructure_cache*.go`) | rows, counter of bytes, baseline | lookup, capture, submit, store, evict, invalidate, expire | batcher, configuration |
| cached bodies (`internal/cachelite`, `bodycodec`) | slices over shared arrays, pools of writers and encoders | render, keep, compress, store, serve | batcher |
| configuration (`server/config`, `server/handlers/config_*`) | rows, the configuration in memory, last known good copy, restart flag | load, validate, save, update, apply, restore | every other part |
| login (`server/auth*`, `server/security`, `server/session`) | windows per address, the account's row, unlock tasks | `Login`, `Allow`, record, lock, unlock | scheduler, pool |
| log (`internal/log`) | open file, default logger, files on disk | reload, rollover, retention | scheduler, configuration |
| databases (`server/database`, `dbconnpool`, `gallerydb`) | two files with migrations, two pools, driver connections with what is set on them | `Setup`, `ReconfigurePools`, `newCpConn`, `CpConn.Close` | pool |
| dashboard (`cmd/sfpg-go-dashboard`, `server/metrics`) | the screen's model, commands under way, cookie jar | `Update`, commands, `Collect` | server over HTTP |
| wiring of the batcher, handlers and templates, command line, image metadata, maintenance | none of their own | | see section 5 |

How they interact. A discovery walks (`ParallelWalk`), queues files
(`RingQueue` and the dque), and its workers submit rows to the batcher
(`WriteBatcher`), which writes each batch in a transaction (`Catalogue`,
`FolderIndex`, `HttpCache` have what it writes) on a connection it gets from a
pool (`DbConnPool`, `Databases`). When four counters have been seen at zero the
discovery rebuilds the folder index through the same batcher. Opening a folder
makes the preload request its pages, which fills the response cache through the
batcher as well. `App.Shutdown` ends all of it in an order.

What is hard here: the worker of the batcher is consumer and producer of the
same bounded channel; items are counted after they have been sent; a one-token
channel stands for any number of items; the end of a walk and the end of a
discovery are decided from several counters read one after the other; counters
live beside the tables they describe; slices and driver connections are reused
with what was done to them; handlers read, change and write back without a lock;
the process may die between any two writes. `PROJECT.json` lists forty such
hazards at their lines, each with the properties that cover it.

What makes each part correct is stated above each property; in a line each: the
dque is a durable FIFO; the batcher settles each write at most once and counts
exactly; the pool never exceeds its limit and serves those who wait; a walk
closes its channels when nobody can send, and lists no directory twice through
links; the ring is a double-ended queue; the index is rebuilt over everything but
files the counters did not show, and goes live whole; tasks start once and
within bounds; a page is preloaded by one task; a process that ends has shut
down; a cached page has the form asked for, comes back byte for byte, and is
counted; what a restore brings back is valid; no window admits more than its limit
but for attempts that were overtaken, and nobody is locked out undeserved;
the active log file is never deleted; connections are handed out whole; the
picture of an image is one of that image; the dashboard never waits for nothing.

## 2. Modules

| Module | Role |
|---|---|
| `DurableFifo` | what a dque promises: a FIFO for which crashes and restarts are invisible |
| `DQue`, `DQueProofs` | `internal/dque` over its files; refines `DurableFifo`; its invariants and the refinement proved |
| `WriteSink` | what the batcher promises: held, then committed, discarded or lost, once |
| `WriteBatcher`, `WriteBatcherProofs` | `internal/writebatcher`; refines `WriteSink`; its invariants and the refinement proved |
| `DbConnPool`, `DbConnPoolProofs` | `internal/dbconnpool`; its invariants proved |
| `Deque` | what a queue promises: a double-ended queue with a bound |
| `RingQueue`, `RingQueueProofs` | `internal/queue`'s ring; refines `Deque`, which is proved |
| `ParallelWalk` | `internal/parallelwalkdir` |
| `Discovery` | `TriggerDiscovery`, the worker pool and the drain |
| `FolderIndex` | the rebuild and the flush protocol |
| `DiscoveryProofs` | proofs about these three |
| `Scheduler` | `internal/scheduler` |
| `Preload` | `server/cachepreload` over schedulers that come and go |
| `CacheBatch` | `server/cachebatch` and the module row |
| `Lifecycle` | the process from start to end |
| `BackgroundProofs` | proofs about these four, and about all components of `MCBackground` together |
| `HttpCache`, `BodyCodec` | the response cache: rows and counters; bytes and buffers |
| `Catalogue` | what becomes of an image in the tables |
| `PagesProofs` | proofs about these three |
| `Config`, `Login`, `LogFiles` | configuration, signing in, the log file |
| `Databases` | opening the databases and making connections |
| `Dashboard` | the terminal dashboard and what it talks to |
| `RequestsProofs` | proofs about these five, and about all components of `MCRequests` together |
| `MCDQue`, `MCWriteBatcher`, `MCDbConnPool`, `MCWalk` | instances for TLC of one component |
| `MCBackground`, `MCRequests` | instances for TLC of eight components each |

Modules keep a few variants of their own definitions, marked *Faulty variant*:
plausible mistakes in that code, which the `mutants` of `PROJECT.json`
substitute for the real definition to show that the property notices. They take
no part in any specification. Where a property is a conjunction of several, the
module has a variant for each conjunct, and one of them is in `mutants`.

**Composition.** Where components share state, one module models both sides of it:
`WriteBatcher` the batcher and its dque, `FolderIndex` the rebuild and the
batcher's callbacks, `Discovery` the trigger, the pool and the batcher's count,
`Lifecycle` everything that `Shutdown` waits for, `CacheBatch` the load and
discovery's row. What is left between components is a call that the caller's
module models by its outcomes. Their product would therefore only multiply states:
`MCBackground` and `MCRequests` are sums. The variable `focus` names the component
a behaviour is about; the others stay in their initial states. A property of such
a run holds of each component's full state space, and deadlock is checked in
`MCBackground` (`Rest` is only for the two components that come to an end
without an action of their own for it). `MCRequests` does not check it:
requests may simply stop coming, and the bounds on saves, logins and commands end
its behaviours.

### DQue

A file is what was appended to it, in three parts: the items added, the number of
deletion markers (each cancels the oldest item left), and the number of length
prefixes whose body never arrived. `disk` maps segment numbers to files;
`segs` holds the segments in memory under `first` and `last`. All public
methods hold `q.mutex`, so one operation is under way at a time; `step` says
how far it has come, because each of its file-system calls may fail (`Faults`)
and the process may die after any call that changed a file (`Crash`). `AddLen` and
`AddBody` are the two writes of `segment.add`; `RemoveHead`, `Unlink` and the
`Advance*` actions are `dequeueLocked` up to the next segment.

`load` is cut in the same way: while `status` is `loading`, `first` and `last`
are the numbers it found, each spent segment it unlinks is a step (`LoadSkips`),
after which the process may die or a call may fail (`LoadFails`, which leaves what
is already unlinked unlinked), and it ends in `OpenNew` or with both segments
(`Loads`). Only then is the cached total added up, from a listing whose failure
`initQueue` ignores: `OpenExisting` has the exact total, `OpenUnseeded` the sum
over whichever files could be read, none of them if the directory itself could not
be listed. Later the total follows `sizeOfFile` before and after each write, which
takes a file it cannot stat for empty (`Recount`). `QueueCountsExact` names these
two failures, `list` and `stat`, beside a failed body write, as what a byte count may
have gone wrong from; `Size` is exact in spite of them.

`waiting` is the set of callers parked on
`emptyCond`. `Content`, the refinement mapping to `DurableFifo`, lists the items
not yet removed by their place (`Held`): file first, then place in the file.

Left out: turbo (both callers switch it on, so a crash is of the process and
the page cache survives), `Peek`, and the lock file between processes, but for an
opening that it refuses, which changes nothing.

### WriteBatcher

`Submit` holds `wb.mu` from start to end, so callers need no identity: `mu`
says whether a caller or the worker is inside and `sub` how far. The select of
`Submit` is `SubmitSend`, then `SubmitCount` adds to `pendingCount` in a step of
its own, as the code does. `wpc` is the worker's place: the top of its loop,
`drainDQueAll` and its inner select, the blocking select, `flush`,
`reEnqueueBatch`, `flushChannelAndExit`; `ret` is where a flush returns to. The
timer is `off`, `armed` or `fired`, and `TimerFires` may come at any moment.
The dque is a sequence, which `DQue` justifies, with the two ways its `Dequeue`
misbehaves in that model: an item handed out together with an error
(`DrainDrops`), and a queue that says it is empty for ever after the retirement
of a segment failed (`dqStuck`). `StartDQueDrain` swaps the flag and
`StartDQueDrainNotifies` sends the token; `starting` is the time between. `Close`, cancellation, `Crash` and a new `New`
over the same dque are actions; the rest of the in-memory state starts afresh.

Left out: statistics other than `pendingCount`; what the maintenance hook and
the flush do inside a transaction, of which only the outcome matters; the
bytes behind a quota (`Submit` may be refused whenever there is one).

### DbConnPool

There is no lock, so `Get`, `Put`, the monitor and `Close` are cut at every
access to `closed`, `done`, `numConnections` and the channel. `pc` is where a
client stands (`hold` is the caller using its connection), `mon` where the
monitor stands, `closer` how far `Close` is. Connections are counted, not named:
`idle` is the channel's length and `num` the atomic total. Which connections
need a ping and which are recycled is left open, since age and memory decide it.
The `select` of `Put` with `done` closed takes either case, and a send on the
closed channel panics, as Go has it. `Cancel` is the pool's context.

`NewDbSQLConnPool`'s set-up of a connection (pragmas, attach, statements) is one
step that succeeds or fails; `sql.DB`'s own count of open connections, which
`Close` also waits for, follows the pool's. `Databases` looks into that set-up.

### ParallelWalk, RingQueue

A path is the sequence of names from the root. The feeder is cut where it tests
`stopFeeder`, takes from the queue, counts itself in `feeding` and in `pending`,
and sends; a worker where it counts itself, tests for a loop and reads, and at
each entry; the coordinator at each of its reads: the loop around the wait
(`CoordTests`) and `scheduleQuiescent` (`CoordAsks`) ask for the queue and for the
two counters one after the other. `limit` is `maxReportedFiles`, reached by cancelling.
`RingQueue` has the cells as the code keeps them, freed ones included, and
`Contents` reads them off for the refinement of `Deque`.

### Discovery, Catalogue, FolderIndex

`Discovery` has the order of events: a worker takes a file (`WorkerDequeues`),
then counts it (`WorkerCounts`); the drain reads one counter in each `DrainReads`.
`StartWorkerPool` starts its first workers one by one (`due`), and only the monitor
starts more, when the backlog is longer than the workers are many. The queue may
refuse (`Refused`): the walk then drains what it still finds without queueing it, a
worker whose `Dequeue` fails ends, and a row may be refused by the batcher.
`uncounted` is a history variable: files a worker held when the drain read
`InFlight` as zero. `Catalogue` has what is decided and written: versions stand for
modification time, size and content; a flush works on a copy of both databases
and commits it or not; `pool` and `pictures` follow the thumbnail buffers. A file that
the batcher refuses gives its buffer back (`SubmitFails`), and an update of tiles that
fails has changed the folders below the failing one (`TilesUpTo`). `FolderIndex`
cuts the rebuild at every statement that may fail (`Faulty`), keeps count of
the connections it leases, and has the batcher's worker take, commit or fail a
batch and then report its success; a row is its file and its generation. A count
of zero skips the query and goes to the write; a context cancelled while the last rows
are written fails the rebuild (`RebuildCancelled`).

### Scheduler, Preload, CacheBatch

`loop` is where `Start` stands, `alarm` when its timer fires, and a clock of a few
ticks stands for the delays. `Launches` takes one ready task at a time. The
number of runs of one recurring task at a time, unbounded in the code but for the
semaphore, is cut at `MaxOverlap`. `Preload` has a scheduler as a state and its
tasks, and `switch` as the place of `SetEnabled(false)`, which holds the manager's
lock. `CacheBatch` has `Run` of several callers, its workers, the context, and
the process dying with the row still active.

### Lifecycle

`stage` is `App.Run`; `once` is `shutdownOnce`, with the step its owner has reached
and whether it was taken while `Run` was still starting things (`early`); `tasks`
stands for all goroutines of the wait group. `Steps` are those of `App.Shutdown` in
its order, the shutdown of the subsystems, which gives up the lock of the discovery
queue, among them. `Ended` is the end of the process.

### HttpCache, BodyCodec

`HttpCache` has a page as its key and the form it was rendered in; the batch's
statements, its commit and the two counters it then moves are steps of their own, as
are the eviction, the replacement of the table and the two halves of the baseline.
`BodyCodec` has a slice as an array and a length, so that two slices may share
an array: it asks whether the pools ever do that to a page.

### Config, Login, LogFiles, Databases, Dashboard

`Config`: three settings, two of which are validated against each other, and the
ETag. A request is cut at every row it writes. `Login`: each statement on the
account's row is a transaction of its own, and `Allow` is cut where the code has no
lock: it looks at the limit (`AsksLimiter`), takes its time (`TakesTime`), and only
then has the lock under which it prunes, compares with the limit as it is by then,
and records (`Allows`). A call may therefore prune by an earlier time than the one
before it. `late` marks such an attempt: a call with a later time (`pruned`) has had
the lock and dropped what this one should have counted. `SetsMax` and
`ClearsLimiter` are the two halves of a change of the limit. `admitted`, `pruned` and
`failures` are history variables. The wall clock never goes back in the model. `LogFiles`: a handle is an `os.File`; a reload reads the logger in one
step and acts in another. `Databases`: `setup` is the opening of both files and
pools; `opening` is `newCpConn` of each goroutine, `drivers` what `database/sql`
recycles underneath. `Dashboard`: `screen` is the `Model`; a command is a
goroutine that reads the cookie jar, is served and comes back as a message.

## 3. Runs

| Run | Question | Instance | Result |
|---|---|---|---|
| `dque` | is it a durable FIFO with exact counts? | 5 items, segments of 2, 2 parked consumers, 2 crashes, also during `load`, 2 distinct failures of 8 kinds per opening; 156 thousand states | holds |
| `reopen` | does it open after any crash? | 2 items, 1 crash | **violated** |
| `batcher` | safety and refinement under every interleaving | 3 writes (one at the byte limit), channel of 1, batches of 2, a failing flush, a failing dque call, a restart, cancellation, crash, close | holds |
| `batcher_live` | is everything settled, does `Close` return? | the same with a quota, no crash | holds |
| `stuck` | is the channel ever starved? | one failing dque call | **violated** |
| `overflow` | does what overflowed survive a crash? | one crash and restart | **violated** |
| `pool` | exact count, safe close, no starvation | 2 clients and the monitor over 1 connection, an idle minimum of 0 or 1, cancellation, failing pings | holds |
| `pool_waiter` | is a `Get` left waiting below the limit? | 2 clients, 1 connection, no idle minimum | **violated** |
| `pool_monitor` | does the monitor end as documented? | 1 client, 1 connection | **violated** |
| `background` | the eight background components: safety, and does each finish what it owes? | see below; 285 thousand states | holds |
| `requests` | eight components requests reach | see below; 2.7 million states | holds |
| `walk` | does a walk report every file? | one directory with a file and a link back to it, 2 workers, no failure, no limit | **violated** |

Instances of `background`: a walk of one directory with a file and a link that
leads back, 2 workers, one failing read, a limit of none or one file; a ring that
grows from 2 cells to 8 and is bounded at 5 items; a discovery of a good and an
undecodable image over 2 workers, triggered once or twice, with one call to a queue
or to the batcher refused; a
rebuild of 2 files, twice, beside a cache page in batches of 2, with 2 failures; a
one-time and a recurring task over 2 slots and 2 ticks; 2 requests that open
a folder of 2 pages over 2 schedulers; 2 loads of 3 pages with a channel of 1; and
the process with 2 requests to stop, restart or discover.

Instances of `requests`: one visitor to two pages with a cache of one gallery page; 2
renderers, 2 pages of different size and 4 arrays; 2 administrators, 3 settings, one
of which needs no restart, and a restart; 2
reloads between 3 log files, of which one is kept; 2 goroutines over 2 driver
connections with two statements; 2 images with 2 versions in a folder and in the
root; 2 commands of the dashboard at a time; and 2 clients behind one address with
4 requests within 2 seconds, a window of 2 seconds, a limit of 2 or none that may
change, a threshold of 3 failures (the default) and one restart or failing statement.
Two old attempts, one that waits for the lock and one that overtakes it are the
least with which a limit can be exceeded, and the instance has them. With one address
the sweep at every second call drops nothing that the call itself does not; the proof
has any number of addresses.

Why the bounds are enough. *Segments of two and five items* give three
segments, hence one that is on disk only, and retirements to a new, the last
and a middle segment; two crashes allow one during the recovery from another.
*Batches of two over a channel of one* let three writes fill the channel,
overflow, fill a batch by number and by bytes, and leave a partial batch; one
failed flush already makes the worker a producer. *Two clients and the
monitor over one connection*: the monitor's ticks hold the connection while it
is made, given up or put in the channel, so both clients can be waiting at
once and compete for it; a minimum of one makes the monitor grow, of zero
shrink. *A link that leads back* makes the same directory come twice, which is what
feeder, workers and coordinator disagree about. *Eight cells* are two doublings and two
halvings, with the contents wrapped around in each. *A good and a bad image*
take the two ways through a worker, and a second trigger meets what the first
left. *Two rebuilds* let the second meet what a failed first one left: a table, a count of rows in flight. *A
one-time and a recurring task over two slots* leave none for one of them when the other runs twice. *Two
administrators* are all it takes for one handler to save between another's load
and save; one setting that the command line gives and a save may change at once
tells it from those that wait for a restart. *Four requests against a limit of two* let
two fill a window that a third, overtaken by a fourth, still finds empty. *Four arrays for two pages* leave every buffer two owners to go to.
*Two driver connections kept by a limit of one* are recycled or dropped. The
sizes hidden by these bounds for which there is a proof are in section 4.

What each property says is stated above its definition. The ones that took
most care: `PendingExact` and `PendingZeroMeansIdle` (a count that lags a send
by one step is still safe to use as a completion test), `BacklogIsNoticed` (the
one-token channel, the drain flag and the worker's two visits to the dque),
`ImplementsSink` and `ImplementsFifo` (refinements, with crashes), `CountExact`
(four parties updating one counter), `CloseWaitsForPuts`, `QueueCountsExact`
(size and bytes from the first and last segment only, over what is on disk),
`RebuildMissesOnlyUncounted` (what the drain's four readings do guarantee),
`SwapIsComplete` (rows of two generations and a saturating count),
`CounterCoversTable`, `BodiesComeBack` and `RestartIsAnnounced`.

### What the violated runs show

* `reopen`: a process that dies between the length and the body of an object
  leaves a segment that `load` rejects, and the server then panics at start.
* `overflow`: an item is deleted from the dque when it joins a batch, not when
  the batch commits; a crash in between loses it.
* `stuck`: after the next segment fails to open, `Dequeue` says empty while
  `Size` is positive, and `drainDQueAll` retries for ever without reaching the
  select in which the timer flushes what came from the channel.
* `pool_waiter`: recycling a connection lowers the total without waking a `Get`
  that is blocked on the channel. With a minimum of idle connections the
  monitor's next tick serves it; with none it stays, in a pool with free slots.
* `pool_monitor`: `Close` does not wait for the monitor; a tick it overtakes
  closes a nil connection or sends to the closed channel, and panics.
* `walk`: between taking a directory and counting itself the feeder shows
  nothing; the coordinator finds the schedule quiescent and stops the walk, which
  ends without error and without the files of that directory.

`PROJECT.json` also lists, without a run, the divergences met while modelling. Most
have a property in their module that TLC refutes when it is added to a run;
it says what the code's comment or document promises:

| Property | Module | What breaks it |
|---|---|---|
| `WalkHangs` | `ParallelWalk` | the feeder sleeps after the only broadcast |
| `DrainMeansDrained` | `Discovery` | a file taken and not yet counted |
| `PoolsOutliveDiscovery` | `Lifecycle` | a discovery that begins after the last poll |
| `NoStalePage` | `HttpCache` | a page rendered before an invalidation and stored after it |
| `YamlOverridesDatabase`, `StoredIsValid` | `Config` | any save; a save cut short, or two at a time |
| `CliOverridesAtStart` | `Config` | a zero from the command line or the environment, for which the start puts the default in force |
| `WindowIsExact` | `Login` | an attempt that takes its time, waits for the lock and is overtaken by one with a later time, which prunes what it would have counted |
| `LockLasts` | `Login` | the unlock task of an earlier lock |
| `LogIsWritten` | `LogFiles` | a rollover that opens no file; a reload that read before it |
| `WritersAreTuned`, `NothingLeaks` | `Databases` | a failure after the attachment; between two statements |
| `ValidGetsIn`, `ThumbIsCurrent`, `RowsHaveThumbs`, `NeverRefused` | `Catalogue` | a file still being written; `needsThumb`; a rollback; a file found twice in a second |
| `ShownAdvances`, `LoginStays`, `LoadingLoads`, `SnapshotAddsUp`, `JarUnshared` | `Dashboard` | answers that overtake each other; a first fetch that fails; counters read apart; a shared map |

The properties that hold are stated with these cases named in them, never by
leaving the behaviour out: `CloseWaitsForPuts` speaks of a `Close` that did not give
up, `WindowHolds` of attempts that were not overtaken, `RebuildMissesOnlyUncounted` of files that were counted, `CounterCoversTable` of a
baseline that is in, `OneOpenFile` of a logger without one of the two causes.

### Fairness

Used by the liveness properties only; `requests` states none.

* Batcher: weak fairness of the worker, of whoever is inside `Submit`, of the
  timer and of `Close`: goroutines are scheduled and timers expire. A caller
  need never submit. Strong fairness of each case of the worker's select, since
  Go picks at random among the ready ones: a case that is ready again and again
  is taken. `StartDQueDrain` is called by the server once it has started.
* Pool: weak fairness of a client that is inside `Get` or holds a connection
  (every caller in the repository puts back what it got), of the monitor's
  ticker and of a `Close` that has begun. Strong fairness of `GetIdle`: a Go
  channel serves its blocked receivers in the order they came.
* `background`: weak fairness of each goroutine on its own: coordinator, feeder
  and each worker of a walk; trigger, batcher and each worker of a discovery;
  rebuild and flush; the scheduler's loop, the clock and the end of each task;
  the tasks of the preload and the switch; `Run`, `Shutdown`, discovery, restart
  and `main`. Callers owe nothing: no task need be added, no rebuild, folder,
  signal or restart asked for, and no context cancelled. Strong fairness of
  the drain's `ctx.Done()` case, which shares its select with a ticker.
  `BackgroundEnds` is `Owes ~> ~Owes`, where `Owes` is the disjunction over the components
  of what is due: a cancelled walk has not closed, a discovery has not ended, a
  rebuild has not returned, a due task has not started, a `SetEnabled(false)`
  holds the lock, a shutdown or restart is under way.

## 4. Proofs

Every proof module finds an inductive invariant for each of its components and
derives from it `Spec => []Inv`, an action property, or that each step is a step
of the abstract specification. They hold for every value of the constants and
assume only the named `ASSUME`s of the modules: sizes are positive naturals,
sets of goroutines are finite, flags are Boolean, `NoDriver` is no driver
connection. One assumption is about a definition: `FirstCapAssumption` says that
`FirstCap`, the smallest power of two that is large enough, is a positive natural.
That such a power exists takes an induction; TLC evaluates the assumption for its
instance. All safety properties of all passing runs are covered; what is not is
at the end of this section.

### The batcher, the pool and the two queues

`WriteBatcherProofs`. `TypeOK`, `PendingExact`, `PendingZeroMeansIdle`,
`TimerCoversBatch`, `BacklogIsNoticed`, `LossHasACause` and
`CloseDrainsTheChannel`, for every set of writes, channel, batch and number of
failures and restarts. None of them but the count is inductive alone, because
what the worker may assume at one place was established at another. `IInv` adds
`LockInv` (who is inside `Submit`, and that nobody is once `Close` has set
`closed`), `BatchInv` (what the worker holds at each place: the batch is empty
after a flush, below its limit while gathering), `TimerInv` (a batch being
gathered has a timer, from the first item on, not only at the select),
`BacklogInv` (from the moment the worker has seen the dque empty until it
blocks, every overflow came with a token) and `CauseInv` (which misfortune
explains each way the worker ends). The step lemmas go action by action.

Its second part is `ImplementsSink`: the batcher refines `WriteSink`. The step of
`WriteSink` that each action is can be told only when no write is in two places:
otherwise a flush might commit what the channel still holds. `PlaceInv` says so of
the channel, the dque, the batch, what `reEnqueueBatch` still holds and the three
fates (`Apart`), that all of it was submitted once (`Placed`), and that a `Submit` on
its way to the dque brings a write that is nowhere else or the first one to be
re-enqueued (`Offering`). There is one lemma for each way a write moves
(`ChannelToBatch`, `BatchToRedo`, `OnlyTheDiskSurvives`, ...), and the actions are
grouped by the lemma they use. `BatchIsBounded` gives the size of a transaction.

`DQueProofs`. Everything the run `dque` checks. `QueueInv` has four parts:
`DiskSound` (files are numbered without a gap, all but the newest have had
`ItemsPerSegment` items, only the oldest has lost any), `MemorySound` (each of the
two segments in memory is what a load of its file would give, but for a first one
whose file is already unlinked), `StepSound` (what each place of an operation has
done so far, and that an empty queue is all a parked consumer sees) and the types.
`LoadSound` adds that while `load` runs `first` and `last` are the ends of what is left.
`QueueTypes`, `NobodySleepsBesideWork` and `OnlyTornFilesStopLoad` follow from it.

The refinement, `QueueIsFifo`, needs that `Content` gains an item at its end, loses
its first, or stays. It is a sequence listed by rank: the `i`-th item stands at the
place with `i` places up to it. `Ranks` shows that rank numbers the places of a
finite set from one on without gap or repetition; from it come the three lemmas
about what a place added behind all others, or the first one taken away, does to
the list (`Listed`). With `StepSound` they say of each action which of the three it
is; retiring, loading, closing and dying are the ones that change nothing.
`DequeueServesTheOldest` says that the item `Dequeue` hands out is the head of that
list, and `CountsAreExact` that `Size`, which reads two segments and multiplies the
rest, is its length, and that `DiskBytes` counts the `Units` of the files unless a
body write, the listing at the opening or a stat has failed since.

`DbConnPoolProofs`. `TypeOK`, `CountExact`, `ReturnFits` and
`CloseWaitsForPuts`, for any number of clients and connections. The types and
the count need each other: a decrement stays in the naturals because the
connection given up was counted. `ClientKeeps` reduces each step of `Get` and
`Put` to one equation between what becomes idle, what the client takes and what
the total does; `OthersCount` does the same for the monitor and `Close`. When
`Close` reads zero the holders are empty, so no `Put` is past its test of
`closed`, and none can get there any more: `CloseInv`. `ReturnFits` follows from
the count, which shows the `default` cases of `Put` and of the monitor dead.

`RingQueueProofs`. `RingIsDeque`: the ring refines `Deque`, for any items, capacities
and bound. The invariant is that the cells from head to tail, around the end of
the buffer, are as many as the queue counts. `WrapIs` is the arithmetic of the
mask; `PutBack`, `PutFront`, `DropFront` and `DropBack` say what one cell written
or freed does to the contents, `Moves` that both resizings keep them.

### Discovery: `DiscoveryProofs`

*Walk*, any tree, links, workers and failures. `WalkInv` says what each of the
three counters counts (`CountsAreExact`): `pending` the channel, the workers that
have a directory and the feeder that is about to send; that a closed walk has nobody
left who could send (`ClosedIsOver`); and that a link was listed only by the
worker that marked its directory visited (`LinksAreVisited`).

*Discovery*, any images, workers and refused rows. The drain reads its counters
one after another, so `DrainedInOrder` says what each reading still proves at the
later ones: once the backlog and the workers are quiet nothing can feed the
batcher. Only two events break that: a worker that takes a file before the
reading of `InFlight` and counts it after, and the end of the application.
`DiscoveryInv` is therefore conditional on neither having happened (`Undisturbed`),
and `RebuildMissesOnlyUncounted` follows in all states.

*Folder index*, any files, generations, batches and failures. `HoldsByPlace` gives
the flags and leases that belong to each place of a rebuild; the early returns
are proved to give back exactly these. `RowsAreOwn` says that the new table and the
batcher have rows of this generation and scan only, and that `inflight` is never
below the files still owed (submitted and not in the table, or committed and
not yet counted back): a wait that sees zero has them all, although the counter is
clamped and an earlier rebuild may have left it too high. `FolderIndexSafety` is an action
property about the swap and the return.

### What runs behind: `BackgroundProofs`

*Scheduler*: `StartedOnce` (a one-time task that started has no next run and is not
among the ready) and `SlotsSuffice`, with the runs of all tasks counted as a set
(`Running`). *Preload*: `ClaimsAreOwn` couples each claim to one task or to the one
folder task between its claim and its add; `OneAlive` says which scheduler may
still have tasks while others come and go. *Batch load*: a target in flight is in
the channel, with a worker, or in the hand of the caller who counted it (`LoadAddsUp`).
*Process*: `OrderlyExit` speaks of the end only; `StepsDone` says what each step of
`Shutdown` has established, and that nothing undoes it unless `Run` was still
starting: workers, tasks, batcher and pools belong to stages that a `Shutdown`
which is not early has behind it.

`BackgroundIsSafe`, `BackgroundSwapsWhole` and `BackgroundLoadsOnce` are about the
composed system that TLC runs: `EachMovesOnItsOwn` makes a step of `MCBackground` a
step or a stutter of each component, which its own lemma then handles.

### What is kept and shown: `PagesProofs`

*Response cache*. `CounterCoversTable` speaks of an idle batcher; between, the
counter is ahead or behind by what the batcher is about to tell it. `CounterIsBacked`
is about the counter once that is told (`Settled`), in each phase of the baseline.
*Bodies*. `BodiesComeBack` speaks of the table; it rests on `NobodyShares`: no two of
the pools, the requests under way and the entries have a slice of the same array,
and so on `PagesAreHeld`, that what an entry holds cannot change under it.
*Catalogue*. `CatalogueInv` says of the committed tables and of the transaction that
tiles, folders and pictures fit (`AllFit`); that a thumbnail buffer belongs to one
write, which is what keeps a picture its image's own through rollback and reuse
(`BuffersOwned`); and that in a calm walk every image is to be met, on its way or
known, nothing on its way is older than the image, and a transaction knows what the
tables know (`CalmInv`), so that a walk that ends has settled every image.

### What requests reach: `RequestsProofs`

*Configuration*: a setting that no request has touched since the start is the same
in memory, in force and in the rows, unless the start itself replaced a zero
(`UntouchedStays`); what the command line gave is put aside only by a request that
announces it (`CliIsKept`); only validated settings are saved (`ValidIsWritten`).
*Login*: an attempt let through and still inside its window as of the latest time
that pruned it is in the limiter's list, and no second has seen more than the limit
but for the overtaken ones (`WindowsAreKept`), while a limit is in force and is not
being changed; what an attempt that is not late counts is therefore all there is. A count read
before other failures is backed by that many wrong passwords plus those still
failing (`CountsAreBacked`). *Log*: in each directory names ascend in the order of
writing (`NamesAscend`), so what retention deletes is never the logger's; one handle
is open (`OneHandle`) but for the two causes named. *Databases*: `OpeningInv` couples
a connection in the making with its driver connection: who holds it, how many
statements are open, whether it is attached since it was looked at; `SetupInv` says
what each stage of a start has. *Dashboard*: a screen that waits has a command of the
kind it waits for (`WaitsForSomething`), and nothing shown, kept or carried is of
the server's future (`FromThePast`).

`RequestsAreSafe` puts these five and the three of `PagesProofs` together: the
types and safety properties of all eight hold of `MCRequests`.

### Model-checked only

Liveness: `EveryWriteSettles`, `CloseReturns` of the batcher and of the pool,
`FullPoolServes` and `BackgroundEnds`. Fairness and `ENABLED` are beyond the prover.
What section 3 shows as violated is TLC's alone as well.

## 5. Not modelled, and the plan

* Wiring of the batcher: the dispatch of a batch's items to the statements that
  `Catalogue`, `FolderIndex` and `HttpCache` model; construction of its `Config`,
  whose choices are the constants of `WriteBatcher`.
* Handlers, routes and templates: pages rendered from read-only queries.
* Command line and environment, image metadata (EXIF, XMP, decoding, resizing),
  generated queries: pure functions over text and bytes, better served by tables
  of cases. Their outcome is a constant or a choice of the models.
* Maintenance (`app_maintenance.go`): `PRAGMA optimize` and WAL checkpoints act
  inside SQLite. `Lifecycle` has its goroutine.
* Sessions beyond the cookie that `Dashboard` has: CSRF tokens, cookie signing,
  logging out, password hashing. `Login` ends where the cookie is set.
* Turbo mode of the dque, its `Peek`, and the lock file between processes; the
  worker pool's statistics; progress reports; formats of the log.
* Tools under `cmd` and `scripts` other than the dashboard.

Worth doing next: writes as versions of one row, so that a batch that is written
again can overtake a newer one (`writebatcher/flush.go:114`, the one hazard without a
property); proofs that name what a run refutes, as `LossIsExplained` does for the
batcher, for the divergences of section 3.

## 6. Running

    tlc -workers 2 -config MCWriteBatcher.cfg MCWriteBatcher
    tlc -workers 2 -config MCBackground.cfg MCBackground
    tlc -workers 2 -config MCDQueReopen.cfg DQue
    tlc -workers 2 -config MCRequests.cfg MCRequests
    tlapm --threads 4 WriteBatcherProofs.tla

`runs` in `PROJECT.json` pairs every configuration with its module.
