---------------------------- MODULE FolderIndex -----------------------------
(***************************************************************************)
(* The rebuild of file_folder_index: a goroutine clones the empty table,   *)
(* reads the files, submits one row per file to the write batcher, waits   *)
(* until the count of rows in flight is zero, and swaps the new table in.  *)
(* The batcher's worker writes the rows, guided by four atomics the two    *)
(* share: active, scanHeld, generation, inflight (folderIndexProtocol).    *)
(* The batcher is seen as a queue that may refuse, fail, or lose a row     *)
(* (WriteBatcher has its inside); a row is its file and its generation.    *)
(***************************************************************************)
EXTENDS Integers, FiniteSets, SequencesExt

CONSTANTS IndexFile,    \* the files with a folder
          MaxRebuilds,  \* rebuilds that are started
          MaxPages,     \* cache entries that share the batches
          BatchSize,    \* items of a batch
          MaxFaults     \* failures of the database or of the batcher

ASSUME FolderIndexAssumption ==
    /\ IsFiniteSet(IndexFile) /\ BatchSize \in Nat \ {0}
    /\ MaxRebuilds \in Nat /\ MaxPages \in Nat /\ MaxFaults \in Nat

VARIABLES rebuild,    \* where RebuildFileFolderIndex stands
          rebuilds,   \* how often it was called
          leases,     \* [rw, ro]: connections it holds
          flags,      \* [active, scanHeld, generation, inflight]
          indexTables,\* [live, dest, stale]: rows, or NoTable
          scanned,    \* the files the scan has read
          unsent,     \* those whose row is still to be submitted
          rowInHand,  \* the file whose row SubmitFolderIndex has counted
          batcherQueue, \* items in the batcher
          flushing,   \* the batch of the worker and how far it is
          pages,      \* cache entries submitted
          faults      \* failures so far

folderIndexVars == <<rebuild, rebuilds, leases, flags, indexTables, scanned, unsent,
                     rowInHand, batcherQueue, flushing, pages, faults>>

NoTable == {[kind |-> "none"]}
NoFolderFile == "no file"
Page == [kind |-> "page"]
Row(f) == [kind |-> "row", file |-> f, generation |-> flags.generation]
NoBatch == [pc |-> "idle", items |-> <<>>]

FolderIndexInit ==
    /\ rebuild = "idle" /\ rebuilds = 0 /\ leases = [rw |-> 0, ro |-> 0]
    /\ flags = [active |-> FALSE, scanHeld |-> FALSE, generation |-> 0, inflight |-> 0]
    /\ indexTables = [live |-> {}, dest |-> NoTable, stale |-> NoTable]
    /\ scanned = {} /\ unsent = {} /\ rowInHand = NoFolderFile /\ batcherQueue = <<>> /\ flushing = NoBatch
    /\ pages = 0 /\ faults = 0

-----------------------------------------------------------------------------
(* Helpers. *)

Faulty == faults < MaxFaults /\ faults' = faults + 1
Sound == UNCHANGED faults
Lease(c, n) == leases' = [leases EXCEPT ![c] = @ + n]

batcherState == <<batcherQueue, flushing, pages>>
rowState == <<scanned, unsent, rowInHand>>

\* inflightSaturatingDecrement; only these two goroutines write, and never
\* when the other one's share is all there is.
SaturatingMinus(n) == flags' = [flags EXCEPT !.inflight = IF @ > n THEN @ - n ELSE 0]

\* The return of RebuildFileFolderIndex once the flag was set: the deferred reset.
RebuildReturns == rebuild' = "idle" /\ flags' = [flags EXCEPT !.active = FALSE]

-----------------------------------------------------------------------------
(* RebuildFileFolderIndex.  It is called after the drain of the batcher. *)

\* rw.Get and CloneEmpty, one transaction: drop the leftover, create anew.
RebuildStarts ==
    /\ rebuild = "idle" /\ rebuilds < MaxRebuilds
    /\ batcherQueue = <<>> /\ flushing = NoBatch
    /\ rebuilds' = rebuilds + 1
    /\ \/ /\ Sound /\ rebuild' = "cloned" /\ Lease("rw", 1)
          /\ indexTables' = [indexTables EXCEPT !.dest = {}]
       \/ Faulty /\ UNCHANGED <<rebuild, leases, indexTables>>
    /\ UNCHANGED <<flags, rowState, batcherState>>

SetsActive ==
    /\ rebuild = "cloned" /\ rebuild' = "bump" /\ flags' = [flags EXCEPT !.active = TRUE]
    /\ UNCHANGED <<rebuilds, leases, indexTables, rowState, batcherState, faults>>

\* BumpGeneration, and the connection goes back at once.  inflight stays.
BumpsGeneration ==
    /\ rebuild = "bump" /\ rebuild' = "count" /\ Lease("rw", -1)
    /\ flags' = [flags EXCEPT !.generation = @ + 1]
    /\ UNCHANGED <<rebuilds, indexTables, rowState, batcherState, faults>>

\* ro.Get, the count and the query; nothing is queried when the count is zero.
OpensScan ==
    /\ rebuild = "count"
    /\ \/ /\ Sound /\ rebuild' = "scan" /\ Lease("ro", 1)
          /\ flags' = [flags EXCEPT !.scanHeld = TRUE]
          /\ UNCHANGED <<scanned, unsent>>
       \/ /\ Sound /\ rebuild' = "write" /\ UNCHANGED <<leases, flags>>
          /\ scanned' = {} /\ unsent' = {}
       \/ Faulty /\ RebuildReturns /\ UNCHANGED <<leases, scanned, unsent>>
    /\ UNCHANGED <<rebuilds, indexTables, rowInHand, batcherState>>

\* The rows are read on one snapshot: some of the files, those of the
\* database at this moment.
Scans ==
    /\ rebuild = "scan" /\ Lease("ro", -1)
    /\ \/ /\ Sound /\ rebuild' = "write" /\ flags' = [flags EXCEPT !.scanHeld = FALSE]
          /\ \E read \in SUBSET IndexFile : scanned' = read /\ unsent' = read
       \/ /\ Faulty /\ rebuild' = "idle"
          /\ flags' = [flags EXCEPT !.scanHeld = FALSE, !.active = FALSE]
          /\ UNCHANGED <<scanned, unsent>>
    /\ UNCHANGED <<rebuilds, indexTables, rowInHand, batcherState>>

\* SubmitFolderIndex: inflight first, then Submit.
CountsRow(f) ==
    /\ rebuild = "write" /\ f \in unsent /\ rebuild' = "counted"
    /\ unsent' = unsent \ {f} /\ rowInHand' = f
    /\ flags' = [flags EXCEPT !.inflight = @ + 1]
    /\ UNCHANGED <<rebuilds, leases, indexTables, scanned, batcherState, faults>>

\* Submit takes the row; or it is full or over quota and the row is tried
\* again when the count of pending items has fallen; or it gives up.
SubmitsRow ==
    /\ rebuild = "counted" /\ rowInHand' = NoFolderFile
    /\ \/ /\ Sound /\ rebuild' = "write" /\ UNCHANGED <<flags, unsent>>
          /\ batcherQueue' = Append(batcherQueue, Row(rowInHand))
       \/ /\ Faulty /\ rebuild' = "write" /\ SaturatingMinus(1)
          /\ unsent' = unsent \cup {rowInHand} /\ UNCHANGED batcherQueue
       \/ /\ Faulty /\ rebuild' = "fails" /\ SaturatingMinus(1)
          /\ UNCHANGED <<unsent, batcherQueue>>
    /\ UNCHANGED <<rebuilds, leases, indexTables, scanned, flushing, pages>>

\* Faulty variant: the wait has no limit.
WaitEndsWithoutStall ==
    /\ rebuild = "write" /\ unsent = {} /\ flags.inflight = 0 /\ rebuild' = "index"
    /\ UNCHANGED <<rebuilds, leases, flags, indexTables, rowState, batcherState, faults>>
\* waitFolderIndexInflight: zero, or no change for the time of the stall.
WaitEnds ==
    /\ rebuild = "write" /\ unsent = {}
    /\ \/ flags.inflight = 0 /\ rebuild' = "index"
       \/ flags.inflight # 0 /\ rebuild' = "fails"
    /\ UNCHANGED <<rebuilds, leases, flags, indexTables, rowState, batcherState, faults>>

\* ctx turns out to be cancelled, before the rows of a folder or in the wait.
RebuildCancelled ==
    /\ rebuild = "write" /\ Faulty /\ rebuild' = "fails"
    /\ UNCHANGED <<rebuilds, leases, flags, indexTables, rowState, batcherState>>

\* The deferred reset of active.
RebuildFails ==
    /\ rebuild = "fails" /\ RebuildReturns
    /\ UNCHANGED <<rebuilds, leases, indexTables, rowState, batcherState, faults>>

\* rw.Get and CreateIndexes, one transaction; a failure leaves the new table.
CreatesIndexes ==
    /\ rebuild = "index"
    /\ \/ Sound /\ rebuild' = "swap" /\ Lease("rw", 1)
       \/ Faulty /\ rebuild' = "fails" /\ UNCHANGED leases
    /\ UNCHANGED <<rebuilds, flags, indexTables, rowState, batcherState>>

\* Faulty variant: the connection is kept when the cutover fails.
SwapsKeepingLease ==
    /\ rebuild = "swap"
    /\ \/ /\ Sound /\ rebuild' = "drop"
          /\ indexTables' = [live |-> indexTables.dest, dest |-> NoTable,
                             stale |-> indexTables.live]
       \/ Faulty /\ rebuild' = "fails" /\ UNCHANGED indexTables
    /\ UNCHANGED <<rebuilds, leases, flags, rowState, batcherState>>
\* Swap: the cutover is one transaction, and puts the connection when it fails.
Swaps ==
    /\ rebuild = "swap"
    /\ \/ /\ Sound /\ rebuild' = "drop" /\ UNCHANGED leases
          /\ indexTables' = [live |-> indexTables.dest, dest |-> NoTable,
                             stale |-> indexTables.live]
       \/ Faulty /\ rebuild' = "fails" /\ Lease("rw", -1) /\ UNCHANGED indexTables
    /\ UNCHANGED <<rebuilds, flags, rowState, batcherState>>

\* dropStale: best effort, then the one Put.
DropsStale ==
    /\ rebuild = "drop" /\ RebuildReturns /\ Lease("rw", -1)
    /\ \/ Sound /\ indexTables' = [indexTables EXCEPT !.stale = NoTable]
       \/ Faulty /\ UNCHANGED indexTables
    /\ UNCHANGED <<rebuilds, rowState, batcherState>>

-----------------------------------------------------------------------------
(* The batcher's worker and the other writers. *)

rebuildState == <<rebuild, rebuilds, leases, rowState>>

PageSubmitted ==
    /\ pages < MaxPages /\ pages' = pages + 1
    /\ batcherQueue' = Append(batcherQueue, Page)
    /\ UNCHANGED <<rebuildState, flags, indexTables, flushing, faults>>

\* ShouldDropIndexOnlyBatch: such a batch is dropped before BeginTx; its rows
\* are counted off like those of a batch that was committed.
IndexOnlyAndRebuildInactive(batch) == ~flags.active /\ Page \notin Range(batch)
BatchTaken ==
    /\ flushing = NoBatch
    /\ \E n \in 1..Min({BatchSize, Len(batcherQueue)}) :
          LET batch == SubSeq(batcherQueue, 1, n) IN
          /\ batcherQueue' = SubSeq(batcherQueue, n + 1, Len(batcherQueue))
          /\ flushing' = [pc |-> IF IndexOnlyAndRebuildInactive(batch)
                                    THEN "committed" ELSE "taken",
                           items |-> batch]
    /\ UNCHANGED <<rebuildState, flags, indexTables, pages, faults>>

\* PrepareFolderIndexFlush: the rows of this generation, if the rebuild is
\* active and its table exists; none otherwise.
RowsToInsert(batch) ==
    IF ~flags.active \/ indexTables.dest = NoTable THEN {}
    ELSE {item \in Range(batch) : item.kind = "row" /\ item.generation = flags.generation}

\* The transaction: file_id is the primary key, so a row that is there already
\* fails it, as may anything else.
BatchCommits ==
    LET rows == RowsToInsert(flushing.items) IN
    /\ flushing.pc = "taken"
    /\ \A row \in rows : \A old \in indexTables.dest : old.file # row.file
    /\ indexTables' = IF rows = {} THEN indexTables
                      ELSE [indexTables EXCEPT !.dest = @ \cup rows]
    /\ flushing' = [flushing EXCEPT !.pc = "committed"]
    /\ UNCHANGED <<rebuildState, flags, batcherQueue, pages, faults>>

\* Faulty variant: a batch rolled back counts as done.
BatchFailsUncounting ==
    /\ flushing.pc = "taken" /\ Faulty
    /\ batcherQueue' = batcherQueue \o flushing.items /\ flushing' = NoBatch
    /\ SaturatingMinus(Len(flushing.items))
    /\ UNCHANGED <<rebuildState, indexTables, pages>>
\* The rollback, and reEnqueueBatch, which loses what Submit refuses.
BatchFails ==
    /\ flushing.pc = "taken" /\ Faulty
    /\ \E n \in 0..Len(flushing.items) :
          batcherQueue' = batcherQueue \o SubSeq(flushing.items, 1, n)
    /\ flushing' = NoBatch
    /\ UNCHANGED <<rebuildState, flags, indexTables, pages>>

\* OnFolderIndexBatchSuccess.
BatchSucceeds ==
    LET own == {item \in Range(flushing.items) :
                   item.kind = "row" /\ item.generation = flags.generation} IN
    /\ flushing.pc = "committed" /\ flushing' = NoBatch
    /\ SaturatingMinus(Cardinality(own))
    /\ UNCHANGED <<rebuildState, indexTables, batcherQueue, pages, faults>>

FolderIndexRests ==
    /\ rebuild = "idle" /\ rebuilds = MaxRebuilds /\ batcherQueue = <<>> /\ flushing = NoBatch
    /\ UNCHANGED folderIndexVars

RebuildNext == \/ RebuildStarts \/ SetsActive \/ BumpsGeneration \/ OpensScan \/ Scans
               \/ SubmitsRow \/ WaitEnds \/ RebuildCancelled \/ RebuildFails
               \/ CreatesIndexes \/ Swaps \/ DropsStale \/ \E f \in IndexFile : CountsRow(f)
FlushNext == BatchTaken \/ BatchCommits \/ BatchFails \/ BatchSucceeds

FolderIndexNext == RebuildNext \/ FlushNext \/ PageSubmitted \/ FolderIndexRests

FolderIndexSpec == FolderIndexInit /\ [][FolderIndexNext]_folderIndexVars

-----------------------------------------------------------------------------
FolderIndexTypeOK ==
    /\ rebuild \in {"idle", "cloned", "bump", "count", "scan", "write", "counted",
                    "fails", "index", "swap", "drop"}
    /\ flags.inflight \in Nat /\ flags.generation \in 0..MaxRebuilds
    /\ unsent \subseteq scanned /\ leases.rw \in 0..1 /\ leases.ro \in 0..1

(* The live index changes only into the complete index of one scan: a row  *)
(* for every file read, all of this rebuild's generation, whatever failed, *)
(* was re-enqueued or was left over by an earlier rebuild                  *)
(* (waitFolderIndexInflight, PrepareFolderIndexFlush, Swap).               *)
SwapIsComplete ==
    [][indexTables'.live # indexTables.live =>
          indexTables'.live = {Row(f) : f \in scanned}]_folderIndexVars

(* A rebuild that has returned, on whichever path, has given back both     *)
(* connections once and reset both flags, so that flushes drop late rows   *)
(* and checkpoints run again (the error paths of RebuildFileFolderIndex).  *)
NothingLeftHeld ==
    rebuild = "idle" => /\ leases = [rw |-> 0, ro |-> 0]
                        /\ ~flags.active /\ ~flags.scanHeld

(* Only the complete index of one scan goes live, and a rebuild that has   *)
(* returned holds no connection and no flag (RebuildFileFolderIndex).      *)
FolderIndexSafety == SwapIsComplete /\ []NothingLeftHeld

(* Every rebuild returns, if the batcher goes on: the wait for rows that   *)
(* were lost or dropped is bounded (the stalls of SubmitFolderIndex and of *)
(* waitFolderIndexInflight).                                               *)
RebuildOwes == rebuild # "idle"
RebuildReturnsAtLast == RebuildOwes ~> ~RebuildOwes
=============================================================================
