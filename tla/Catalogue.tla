----------------------------- MODULE Catalogue -----------------------------
(***************************************************************************)
(* An image on its way from the disk into the tables: discovery decides    *)
(* whether it changed (discoveryModificationDecision), a worker decodes it *)
(* or records it as invalid (processor.go, service.go), the batcher's      *)
(* callbacks (infrastructure_batcher.go) write a batch in one transaction  *)
(* (WriteFileInTx, gallerylib.Importer).                                   *)
(*                                                                         *)
(* Rows and thumbnails live in the main database, blobs in the attached    *)
(* thumbs database; in WAL mode a commit is atomic in each file only.      *)
(* Thumbnail buffers come from a pool and go back in the transaction.      *)
(***************************************************************************)
EXTENDS Integers, Sequences, FiniteSets, Functions, SequencesExt

CONSTANTS
  Image, Folder, NoImage,
  Chain,           \* the folders above an image, from the root folder down
  LastVersion,     \* an image's version stands for its mtime, size and bytes
  Undecodable,     \* the <<image, version>> that fail to decode
  Buffer, NoBuffer,
  MaxBatch,        \* files in one transaction
  MaxRuns, MaxChanges, MaxSeconds, MaxWriteFaults, MaxPowerCuts  \* bounds of the model

ASSUME CatalogueAssumption ==
  /\ Chain \in [Image -> Seq(Folder) \ {<<>>}] /\ NoImage \notin Image /\ NoBuffer \notin Buffer
  /\ LastVersion \in Nat \ {0} /\ MaxBatch \in Nat \ {0}

VARIABLES
  disk,            \* the version of each image in the images directory
  main, blobs,     \* the committed databases
  pool, pictures,  \* how often each buffer is in the pool; what it holds
  writes,          \* files submitted and not yet flushed
  flushing,        \* the open transaction: its view of both databases and its batch
  walk,            \* one run of the discovery
  second, changes, writeFaults, powerCuts
catalogueVars == <<disk, main, blobs, pool, pictures, writes, flushing, walk,
                   second, changes, writeFaults, powerCuts>>

NoPicture == [of |-> NoImage, v |-> 0]
EmptyMain == [rows |-> [f \in Image |-> 0], created |-> [f \in Image |-> 0],
              invalid |-> [f \in Image |-> 0], thumbs |-> {},
              folders |-> {Chain[f][1] : f \in Image}, tile |-> [d \in Folder |-> NoImage]]
NoFlush == [on |-> FALSE, main |-> EmptyMain, blobs |-> [f \in Image |-> NoPicture],
            batch |-> <<>>, n |-> 0]
NoWalk == [on |-> FALSE, todo |-> {}, found |-> {}, failed |-> {}, calm |-> FALSE, runs |-> 0]
Decodes(f) == <<f, disk[f]>> \notin Undecodable
WriteFaulty == /\ writeFaults < MaxWriteFaults /\ writeFaults' = writeFaults + 1
Stormy(w) == [w EXCEPT !.calm = FALSE]
AllWritten == /\ walk.todo = {} /\ walk.found = {} /\ walk.failed = {}
              /\ writes = <<>> /\ ~flushing.on
TablesStay == UNCHANGED <<main, blobs, flushing>>
BoundsStay == UNCHANGED <<second, changes, powerCuts>>
----------------------------------------------------------------------------
CatalogueInit ==
  /\ disk = [f \in Image |-> 1] /\ main = EmptyMain /\ blobs = [f \in Image |-> NoPicture]
  /\ pool = [b \in Buffer |-> 0] /\ pictures = [b \in Buffer |-> NoPicture]
  /\ writes = <<>> /\ flushing = NoFlush /\ walk = NoWalk
  /\ second = 0 /\ changes = 0 /\ writeFaults = 0 /\ powerCuts = 0

ImageChanges(f) ==
  /\ changes < MaxChanges /\ changes' = changes + 1
  /\ \E v \in (1..LastVersion) \ {disk[f]} : disk' = [disk EXCEPT ![f] = v]
  /\ walk' = Stormy(walk)
  /\ UNCHANGED <<main, blobs, pool, pictures, writes, flushing, second, writeFaults, powerCuts>>
SecondPasses ==
  /\ second < MaxSeconds /\ second' = second + 1
  /\ UNCHANGED <<disk, main, blobs, pool, pictures, writes, flushing, walk, changes,
                 writeFaults, powerCuts>>

WalkStarts ==
  /\ ~walk.on /\ walk.runs < MaxRuns
  /\ walk' = [on |-> TRUE, todo |-> Image, found |-> {}, failed |-> {}, runs |-> walk.runs + 1,
              calm |-> writes = <<>> /\ ~flushing.on]
  /\ TablesStay /\ BoundsStay /\ UNCHANGED <<disk, pool, pictures, writes, writeFaults>>
WalkEnds ==
  /\ walk.on /\ AllWritten /\ walk' = [walk EXCEPT !.on = FALSE]
  /\ TablesStay /\ BoundsStay /\ UNCHANGED <<disk, pool, pictures, writes, writeFaults>>

(* discoveryModificationDecision on what buildDirEntMapFromRows read of the
   folder: rows of the files and of the invalid files in it. *)
InDirEntMap(f) == Last(Chain[f]) \in main.folders /\ {main.rows[f], main.invalid[f]} # {0}
\* Faulty variant: an invalid image is never looked at again.
DecisionOnceInvalid(f) ==
  /\ InDirEntMap(f) => /\ main.invalid[f] = 0 /\ main.rows[f] # disk[f]
discoveryModificationDecision(f) ==
  InDirEntMap(f) => disk[f] \notin {main.invalid[f], main.rows[f]}
WalkReports(f) ==
  /\ walk.on /\ f \in walk.todo
  /\ walk' = [walk EXCEPT !.todo = @ \ {f}, !.found = IF discoveryModificationDecision(f)
                                                     THEN @ \cup {<<f, disk[f]>>} ELSE @]
  /\ TablesStay /\ BoundsStay /\ UNCHANGED <<disk, pool, pictures, writes, writeFaults>>

(* ProcessDiscoveryFile and SubmitFileForWrite: the thumbnail of the bytes
   that are there now, under the mtime and size the walk saw. *)
GetBytesBuffer(b) == pool[b] > 0 \/ pictures[b] = NoPicture
ProcessDiscoveryFile(f, version) ==
  /\ <<f, version>> \in walk.found /\ Decodes(f)
  /\ \E b \in Buffer :
        /\ GetBytesBuffer(b) /\ pool' = [pool EXCEPT ![b] = IF @ = 0 THEN 0 ELSE @ - 1]
        /\ pictures' = [pictures EXCEPT ![b] = [of |-> f, v |-> disk[f]]]
        /\ writes' = Append(writes, [file |-> f, version |-> version, buffer |-> b, exists |-> FALSE])
  /\ walk' = [walk EXCEPT !.found = @ \ {<<f, version>>}]
  /\ TablesStay /\ BoundsStay /\ UNCHANGED <<disk, writeFaults>>
(* The batcher refuses the file: its buffer goes back, and it is dropped. *)
SubmitFails(f, version) ==
  /\ <<f, version>> \in walk.found /\ Decodes(f) /\ WriteFaulty
  /\ \E b \in Buffer :
        /\ GetBytesBuffer(b) /\ pool' = [pool EXCEPT ![b] = IF @ = 0 THEN 1 ELSE @]
        /\ pictures' = [pictures EXCEPT ![b] = [of |-> f, v |-> disk[f]]]
  /\ walk' = Stormy([walk EXCEPT !.found = @ \ {<<f, version>>}])
  /\ TablesStay /\ BoundsStay /\ UNCHANGED <<disk, writes>>
ProcessingFails(f, version) ==
  /\ <<f, version>> \in walk.found /\ ~Decodes(f)
  /\ walk' = [walk EXCEPT !.found = @ \ {<<f, version>>}, !.failed = @ \cup {f}]
  /\ TablesStay /\ BoundsStay /\ UNCHANGED <<disk, pool, pictures, writes, writeFaults>>

(* recordInvalidFileFromPath: it asks the disk again, and needs a committed
   folder; it waits for the write lock. *)
recordInvalidFileFromPath(f) ==
  /\ f \in walk.failed /\ ~flushing.on
  /\ main' = IF Last(Chain[f]) \in main.folders
             THEN [main EXCEPT !.invalid[f] = disk[f]] ELSE main
  /\ walk' = [walk EXCEPT !.failed = @ \ {f}, !.calm = @ /\ Last(Chain[f]) \in main.folders]
  /\ UNCHANGED <<disk, blobs, pool, pictures, writes, flushing, writeFaults>> /\ BoundsStay
----------------------------------------------------------------------------
(* The writes at some of the places of the queue, in their order. *)
Nth(places, k) == CHOOSE i \in places : Cardinality({j \in places : j <= i}) = k
WritesAt(places) == [k \in 1..Cardinality(places) |-> writes[Nth(places, k)]]

(* BeginTx.  Items of the backlog and of the channel overtake each other, so
   a batch is any few of the writes, in their order. *)
BeginTx ==
  /\ ~flushing.on /\ writes # <<>>
  /\ \E taken \in SUBSET (1..Len(writes)) :
        /\ Cardinality(taken) \in 1..MaxBatch
        /\ flushing' = [on |-> TRUE, main |-> main, blobs |-> blobs, batch |-> WritesAt(taken), n |-> 0]
        /\ writes' = WritesAt((1..Len(writes)) \ taken)
  /\ BoundsStay /\ UNCHANGED <<disk, main, blobs, pool, pictures, walk, writeFaults>>

Writing == flushing.batch[flushing.n + 1]
ToWrite == flushing.on /\ flushing.n < Len(flushing.batch)
UpsertFolderReturningFolder(w, f) == [w EXCEPT !.folders = @ \cup Range(Chain[f])]
UpsertFileReturningFile(w, e) ==
  [w EXCEPT !.rows[e.file] = e.version,
            !.created[e.file] = IF w.rows[e.file] = 0 THEN second ELSE @]
UpsertPathChain(w, e) == UpsertFileReturningFile(UpsertFolderReturningFolder(w, e.file), e)
fileExistedBeforeUpsert(w, f) == w.created[f] < second
Exists(e) == e.exists \/ fileExistedBeforeUpsert(UpsertPathChain(flushing.main, e), e.file)
GetThumbnailExistsViewByID(f) == f \in flushing.main.thumbs
NeedsThumb(e) == Exists(e) => ~GetThumbnailExistsViewByID(e.file)
Upserts(e) == NeedsThumb(e) /\ e.buffer # NoBuffer
(* thumbnails has one row for a file: an INSERT beside it fails. *)
UpsertThumbnailReturningID(w, f) == [w EXCEPT !.thumbs = @ \cup {f}]
ThumbRefused(e) == Upserts(e) /\ GetThumbnailExistsViewByID(e.file)

(* From the file's folder upward, to the first folder that has a tile; a call
   that fails leaves the folders above it as they are. *)
TilesUpTo(top, tile, f) ==
  LET tiled == {i \in DOMAIN Chain[f] : tile[Chain[f][i]] # NoImage} IN
  [d \in Folder |-> IF \E i \in DOMAIN Chain[f] : Chain[f][i] = d /\ top <= i /\ \A j \in tiled : j < i
                    THEN f ELSE tile[d]]
UpdateFolderTileChain(tile, f) == TilesUpTo(1, tile, f)
clearStaleInvalidFile(w, f) == [w EXCEPT !.invalid[f] = 0]

PutBack(bufs) == pool' = [b \in Buffer |-> pool[b] + IF b \in bufs THEN 1 ELSE 0]
\* Faulty variant: the entry keeps the buffer it gave back.
WriteKeepsBuffer ==
  /\ ToWrite /\ ~ThumbRefused(Writing)
  /\ LET e == Writing  f == e.file
         w == clearStaleInvalidFile(UpsertPathChain(flushing.main, e), f)
         thumbed == [UpsertThumbnailReturningID(w, f) EXCEPT !.tile = UpdateFolderTileChain(@, f)]
     IN /\ flushing' = [flushing EXCEPT !.n = @ + 1, !.main = IF Upserts(e) THEN thumbed ELSE w,
                          !.blobs[f] = IF Upserts(e) THEN pictures[e.buffer] ELSE @,
                          !.batch[flushing.n + 1].exists = Exists(e)]
        /\ PutBack({e.buffer} \cap Buffer)
  /\ BoundsStay /\ UNCHANGED <<disk, main, blobs, pictures, writes, walk, writeFaults>>
WriteFileInTx ==
  /\ ToWrite /\ ~ThumbRefused(Writing)
  /\ LET e == Writing  f == e.file
         w == clearStaleInvalidFile(UpsertPathChain(flushing.main, e), f)
         thumbed == [UpsertThumbnailReturningID(w, f) EXCEPT !.tile = UpdateFolderTileChain(@, f)]
     IN /\ flushing' = [flushing EXCEPT !.n = @ + 1, !.main = IF Upserts(e) THEN thumbed ELSE w,
                          !.blobs[f] = IF Upserts(e) THEN pictures[e.buffer] ELSE @,
                          !.batch[flushing.n + 1] = [e EXCEPT !.exists = Exists(e), !.buffer = NoBuffer]]
        /\ PutBack({e.buffer} \cap Buffer)
  /\ BoundsStay /\ UNCHANGED <<disk, main, blobs, pictures, writes, walk, writeFaults>>

(* The update of a tile fails somewhere up the chain: logged, and the rest is
   committed. *)
TileFails ==
  /\ ToWrite /\ ~ThumbRefused(Writing) /\ Upserts(Writing) /\ WriteFaulty
  /\ LET e == Writing  f == e.file
         w == UpsertThumbnailReturningID(clearStaleInvalidFile(UpsertPathChain(flushing.main, e), f), f)
     IN /\ \E failed \in DOMAIN Chain[f] :
             flushing' = [flushing EXCEPT !.n = @ + 1,
                            !.main = [w EXCEPT !.tile = TilesUpTo(failed + 1, @, f)],
                            !.blobs[f] = pictures[e.buffer],
                            !.batch[flushing.n + 1] = [e EXCEPT !.exists = Exists(e), !.buffer = NoBuffer]]
        /\ PutBack({e.buffer})
  /\ walk' = Stormy(walk) /\ BoundsStay /\ UNCHANGED <<disk, main, blobs, pictures, writes>>

(* Rollback, and the batch goes back to the queue as it is now: files that
   were written have given their buffer away. *)
RollsBack ==
  /\ flushing' = NoFlush /\ writes' = writes \o flushing.batch
  /\ BoundsStay /\ UNCHANGED <<disk, main, blobs, pool, pictures>>
FlushRefused == ToWrite /\ ThumbRefused(Writing) /\ RollsBack /\ UNCHANGED <<walk, writeFaults>>
FlushFails == flushing.on /\ WriteFaulty /\ RollsBack /\ walk' = Stormy(walk)

(* Commit, OnSuccess and cleanupBatchedWriteResources. *)
cleanupBatchedWriteResources == {e.buffer : e \in Range(flushing.batch)} \cap Buffer
Commits ==
  /\ flushing.on /\ flushing.n = Len(flushing.batch)
  /\ main' = flushing.main /\ blobs' = flushing.blobs /\ flushing' = NoFlush
  /\ PutBack(cleanupBatchedWriteResources)
  /\ BoundsStay /\ UNCHANGED <<disk, pictures, writes, walk, writeFaults>>

(* The process dies.  What is in the backlog on disk survives (GobEncode,
   GobDecode: with its own buffer); a commit may have reached the main file
   and not the thumbs file. *)
BacklogDecoded(kept) == WritesAt(kept)
FilesDecoded(kept) ==
  [b \in Buffer |-> IF \E i \in kept : writes[i].buffer = b THEN pictures[b] ELSE NoPicture]
PowerCut ==
  /\ powerCuts < MaxPowerCuts /\ powerCuts' = powerCuts + 1
  /\ \E kept \in SUBSET (1..Len(writes)) :
        writes' = BacklogDecoded(kept) /\ pictures' = FilesDecoded(kept)
  /\ main' \in {main} \cup {m \in {flushing.main} : flushing.on /\ flushing.n = Len(flushing.batch)}
  /\ pool' = [b \in Buffer |-> 0] /\ flushing' = NoFlush
  /\ walk' = [NoWalk EXCEPT !.runs = walk.runs]
  /\ UNCHANGED <<disk, blobs, second, changes, writeFaults>>

CatalogueNext ==
  \/ SecondPasses \/ WalkStarts \/ WalkEnds \/ BeginTx \/ WriteFileInTx \/ TileFails
  \/ FlushRefused \/ FlushFails \/ Commits \/ PowerCut
  \/ \E f \in Image : \/ ImageChanges(f) \/ WalkReports(f) \/ recordInvalidFileFromPath(f)
                      \/ \E v \in 1..LastVersion : \/ ProcessDiscoveryFile(f, v)
                                                   \/ SubmitFails(f, v)
                                                   \/ ProcessingFails(f, v)
CatalogueSpec == CatalogueInit /\ [][CatalogueNext]_catalogueVars
----------------------------------------------------------------------------
CatalogueTypeOK ==
  /\ \A f \in Image : {main.rows[f], main.invalid[f]} \subseteq 0..LastVersion
  /\ flushing.n \in 0..Len(flushing.batch) /\ \A b \in Buffer : pool[b] \in Nat

(* Whatever is rolled back, retried, overtaken or lost: the picture stored for
   an image is one of that image, and a folder's tile is an image beneath it
   that has a thumbnail and whose folders are all there (WriteFileInTx,
   UpdateFolderTileChain, the buffer pool). *)
PicturesFit ==
  /\ \A f \in Image : blobs[f] # NoPicture => blobs[f].of = f
  /\ \A d \in Folder : main.tile[d] # NoImage =>
       main.tile[d] \in main.thumbs /\ d \in Range(Chain[main.tile[d]])
  /\ \A f \in Image : main.rows[f] # 0 => Range(Chain[f]) \subseteq main.folders

(* A discovery that began with nothing left to write and met no failure leaves
   every image either catalogued as it is or known to be invalid, unless the
   folder of an invalid one had no row (WalkImageDir, discoveryModificationDecision,
   recordInvalidFileFromPath, WriteFileInTx). *)
CalmWalkSettles ==
  walk.on /\ walk.calm /\ AllWritten =>
    \A f \in Image : disk[f] \in {main.rows[f], main.invalid[f]}
CatalogueSafety == PicturesFit /\ CalmWalkSettles

(* An image that decodes is not kept out: broken when it was still being
   written while it was decoded and complete when its size was asked again. *)
ValidGetsIn == \A f \in Image : Decodes(f) /\ walk.on /\ AllWritten => main.invalid[f] # disk[f]
(* A row shows the image as it is: broken by needsThumb. *)
ThumbIsCurrent == \A f \in Image : blobs[f] # NoPicture /\ ~flushing.on => blobs[f].v >= main.rows[f]
(* A catalogued image has a thumbnail: broken by a rollback. *)
RowsHaveThumbs == \A f \in Image : main.rows[f] # 0 => f \in main.thumbs
(* A batch is never refused by a constraint: broken by the same new image
   twice in one second. *)
NeverRefused == ~(ToWrite /\ ThumbRefused(Writing))
=============================================================================
