----------------------------- MODULE BodyCodec -----------------------------
(***************************************************************************)
(* What happens to the bytes of a cached page: a handler renders into a    *)
(* pooled capture buffer, the buffer becomes the body of the entry, the    *)
(* batch compresses that body in place before it stores it (again when the *)
(* batch is tried again), and a later request tells by the first bytes of  *)
(* the row how to read it.  Buffers are reused, the codec changes while    *)
(* entries wait, and nothing but the length is kept to check the result.   *)
(*                                                                         *)
(* A Go slice is an array and a length; two slices may share an array.     *)
(***************************************************************************)
EXTENDS Naturals, Sequences, SequencesExt

CONSTANTS Renderer,         \* requests in progress
          Body,             \* pages: what the handler of one key renders
          Array,            \* bound: backing arrays (an unused one is garbage)
          NoArray,
          PlainSize,        \* bytes of each page
          PackedSize,       \* bytes of it under any codec
          MinCompressBytes,
          MaxCodecChanges,  \* bound: applied configurations
          MaxBodies,        \* bound: entries submitted
          MaxBatchFaults    \* bound: batches rolled back

ASSUME BodyCodecAssumption == /\ NoArray \notin Array
                              /\ PlainSize \in [Body -> Nat]
                              /\ PackedSize \in [Body -> Nat]

(* Register takes a codec whose id and magics are all new; RegisterDefaults *)
(* registers the two there are, and getRegistry does so once.               *)
Zstd == [id |-> "zstd-1", magic |-> {"28b52ffd"}]
Gzip == [id |-> "gzip-6", magic |-> {"1f8b"}]
Register(registry, codec) ==
  IF \/ codec.magic = {}
     \/ \E c \in registry : c.id = codec.id \/ c.magic \cap codec.magic # {}
    THEN registry ELSE registry \cup {codec}
RegisterDefaults == Register(Register({}, Zstd), Gzip)
Lookup(id) == \E c \in RegisterDefaults : c.id = id
ValidateWriteCodecID(id) == id \in {"", "identity"} \/ Lookup(id)

VARIABLES
  heap,         \* each array: the text in it and the form it is in
  bodyCodec,    \* bodyWriteCodecID
  capturers,    \* the slices of the writers in cacheCapturerPool
  renderers,    \* each request
  scratch,      \* the array of the pooled encoder slot
  entries,      \* entries submitted to the write batcher
  inBatch,      \* the batch being written; its first bodiesStored are upserted
  bodiesStored,
  txBodies,     \* rows of the open transaction
  bodyRows,     \* http_cache
  codecChanges, bodiesKept, batchFaults

bodyCodecVars == <<heap, bodyCodec, capturers, renderers, scratch, entries, inBatch,
                   bodiesStored, txBodies, bodyRows, codecChanges, bodiesKept, batchFaults>>

Slice(a, n) == [array |-> a, len |-> n]
NoSlice == Slice(NoArray, 0)
Contents(s) == [text |-> SubSeq(heap[s.array].text, 1, s.len), form |-> heap[s.array].form]
NoBody == [text |-> <<>>, form |-> "none"]
Plain(text) == [text |-> text, form |-> "plain"]

SizeOf(body) ==
  FoldLeft(LAMBDA n, p : n + (IF body.form = "plain" THEN PlainSize[p] ELSE PackedSize[p]),
           0, body.text)

(* append(s, p): within the capacity the array itself is written. *)
Appended(a, s, p) == [a EXCEPT ![s.array] = Plain(Append(SubSeq(a[s.array].text, 1, s.len), p))]

Referenced == {s.array : s \in capturers} \cup {renderers[r].buffer.array : r \in Renderer}
                \cup {entries[i].body.array : i \in DOMAIN entries}
                \cup {inBatch[i].body.array : i \in DOMAIN inBatch} \cup {scratch}
Unused == Array \ Referenced
Fresh == CHOOSE a \in Unused : TRUE
(* What nobody refers to any more is garbage: its contents do not count.    *)
Collected(h) == [a \in Array |-> IF a \in Referenced' THEN h[a] ELSE Plain(<<>>)]

Resting == [at |-> "idle", page |-> CHOOSE p \in Body : TRUE, buffer |-> NoSlice]
Entry(p, s) == [page |-> p, body |-> s, contentLength |-> SizeOf(Contents(s))]
NoStoredBody == [body |-> NoBody, contentLength |-> 0]

BodyCodecInit ==
  /\ heap = [a \in Array |-> Plain(<<>>)]
  /\ bodyCodec = "zstd-1" /\ capturers = {} /\ scratch = NoArray
  /\ renderers = [r \in Renderer |-> Resting]
  /\ entries = <<>> /\ inBatch = <<>> /\ bodiesStored = 0
  /\ txBodies = [p \in Body |-> NoStoredBody] /\ bodyRows = [p \in Body |-> NoStoredBody]
  /\ codecChanges = 0 /\ bodiesKept = 0 /\ batchFaults = 0

(* DecodeForServe: the form is known by the magic; a row whose length is   *)
(* not the one stored with it is ErrUnrecognizedCacheBody, a miss.         *)
Decompress(body, n) == IF SizeOf(Plain(body.text)) = n \/ n = 0 THEN Plain(body.text) ELSE NoBody
DecodeForServe(row) ==
  IF Lookup(row.body.form) THEN Decompress(row.body, row.contentLength)
  ELSE IF SizeOf(row.body) = row.contentLength THEN row.body ELSE NoBody

(* GetCacheEntry has the page, or a capturing writer is taken out of the   *)
(* pool (a new one with a buffer of its own when it is empty).             *)
GetCacheEntry(p) == bodyRows[p] # NoStoredBody /\ DecodeForServe(bodyRows[p]) # NoBody
Capturing(r, at, p, s) ==
  renderers' = [renderers EXCEPT ![r] = [at |-> at, page |-> p, buffer |-> s]]
TakesCapturer(r, p) ==
  /\ renderers[r].at = "idle" /\ bodiesKept < MaxBodies
  /\ ~GetCacheEntry(p)
  /\ \/ \E s \in capturers : capturers' = capturers \ {s} /\ Capturing(r, "rendering", p, s)
     \/ /\ capturers = {} /\ Unused # {} /\ UNCHANGED capturers
        /\ Capturing(r, "rendering", p, Slice(Fresh, 0))
  /\ UNCHANGED <<heap, bodyCodec, scratch, entries, inBatch, bodiesStored, txBodies,
                 bodyRows, codecChanges, bodiesKept, batchFaults>>

(* The template writes into the sink; CommitCapturedBody sends the buffer. *)
RenderGalleryInto(r) ==
  LET s == renderers[r].buffer IN
  /\ renderers[r].at = "rendering"
  /\ heap' = Appended(heap, s, renderers[r].page)
  /\ Capturing(r, "captured", renderers[r].page, Slice(s.array, s.len + 1))
  /\ UNCHANGED <<bodyCodec, capturers, scratch, entries, inBatch, bodiesStored, txBodies,
                 bodyRows, codecChanges, bodiesKept, batchFaults>>

\* Faulty variant: the slice keeps its length.
EmptiedNot(s) == s
(* putCacheCapturingWriter empties the slice and keeps its array.  It is   *)
(* all that happens to a page that failed or that may not be kept.         *)
Emptied(s) == Slice(s.array, 0)
PutsCapturer(r) ==
  /\ renderers[r].at \in {"rendering", "captured"}
  /\ capturers' = capturers \cup {Emptied(renderers[r].buffer)}
  /\ renderers' = [renderers EXCEPT ![r] = Resting]
  /\ UNCHANGED <<heap, bodyCodec, scratch, entries, inBatch, bodiesStored, txBodies,
                 bodyRows, codecChanges, bodiesKept, batchFaults>>

\* Faulty variant: the writer goes back with the entry's array.
KeepsSharing(r) ==
  /\ renderers[r].at = "captured"
  /\ entries' = Append(entries, Entry(renderers[r].page, renderers[r].buffer))
  /\ capturers' = capturers \cup {Emptied(renderers[r].buffer)}
  /\ bodiesKept' = bodiesKept + 1
  /\ renderers' = [renderers EXCEPT ![r] = Resting]
  /\ UNCHANGED <<heap, bodyCodec, scratch, inBatch, bodiesStored, txBodies, bodyRows,
                 codecChanges, batchFaults>>
(* newEntry.Body = buf.body: the writer goes back with a buffer made anew, *)
(* which is a new writer as far as anyone can tell.                        *)
Keeps(r) ==
  /\ renderers[r].at = "captured"
  /\ entries' = Append(entries, Entry(renderers[r].page, renderers[r].buffer))
  /\ bodiesKept' = bodiesKept + 1
  /\ renderers' = [renderers EXCEPT ![r] = Resting]
  /\ UNCHANGED <<heap, bodyCodec, capturers, scratch, inBatch, bodiesStored, txBodies,
                 bodyRows, codecChanges, batchFaults>>

(* "" is zstd-1; an id that is not registered leaves the last one.         *)
ConfigureBodyCodec(id) ==
  /\ codecChanges < MaxCodecChanges
  /\ bodyCodec' = IF ~ValidateWriteCodecID(id) THEN bodyCodec
                  ELSE IF id = "" THEN "zstd-1" ELSE id
  /\ codecChanges' = codecChanges + 1
  /\ UNCHANGED <<heap, capturers, renderers, scratch, entries, inBatch, bodiesStored,
                 txBodies, bodyRows, bodiesKept, batchFaults>>

BatchTakes ==
  /\ inBatch = <<>> /\ entries # <<>>
  /\ inBatch' = entries /\ entries' = <<>> /\ bodiesStored' = 0 /\ txBodies' = bodyRows
  /\ UNCHANGED <<heap, bodyCodec, capturers, renderers, scratch, bodyRows, codecChanges,
                 bodiesKept, batchFaults>>

(* EncodeWith, inside FinalizeForStorage: what already opens with a magic, *)
(* is short or does not shrink stays as it is; the codec writes into the   *)
(* slot's scratch and returns a copy.                                      *)
LeftAsIs(s) == LET body == Contents(s) IN
  \/ Lookup(body.form) \/ bodyCodec = "identity" \/ SizeOf(body) < MinCompressBytes
  \/ SizeOf([body EXCEPT !.form = bodyCodec]) >= SizeOf(body)
Encoded(s) == [Contents(s) EXCEPT !.form = bodyCodec]

UpsertedBody(e, s, h) == [txBodies EXCEPT ![e.page] =
  [body |-> [text |-> SubSeq(h[s.array].text, 1, s.len), form |-> h[s.array].form],
   contentLength |-> e.contentLength]]

StoresPlain ==
  LET e == inBatch[bodiesStored + 1] IN
  /\ inBatch # <<>> /\ bodiesStored < Len(inBatch) /\ LeftAsIs(e.body)
  /\ txBodies' = UpsertedBody(e, e.body, heap) /\ bodiesStored' = bodiesStored + 1
  /\ UNCHANGED <<heap, bodyCodec, capturers, renderers, scratch, entries, inBatch, bodyRows,
                 codecChanges, bodiesKept, batchFaults>>

(* The pooled encoder's scratch: the one of the last call unless the pool  *)
(* was emptied, in which case it is an array of its own.                   *)
Scratch == IF scratch = NoArray THEN Fresh ELSE scratch
\* Faulty variant: the encoder's scratch is stored, not a copy.
CompressesInPlace ==
  LET e == inBatch[bodiesStored + 1]  s == Slice(Scratch, e.body.len) IN
  /\ inBatch # <<>> /\ bodiesStored < Len(inBatch) /\ ~LeftAsIs(e.body) /\ Unused # {}
  /\ heap' = [heap EXCEPT ![s.array] = Encoded(e.body)]
  /\ scratch' = s.array
  /\ inBatch' = [inBatch EXCEPT ![bodiesStored + 1] = [e EXCEPT !.body = s]]
  /\ txBodies' = UpsertedBody(e, s, heap') /\ bodiesStored' = bodiesStored + 1
  /\ UNCHANGED <<bodyCodec, capturers, renderers, entries, bodyRows, codecChanges,
                 bodiesKept, batchFaults>>
Compresses ==
  LET e == inBatch[bodiesStored + 1]
      copy == CHOOSE a \in Unused : a # Scratch
      s == Slice(copy, e.body.len) IN
  /\ inBatch # <<>> /\ bodiesStored < Len(inBatch) /\ ~LeftAsIs(e.body)
  /\ Unused # {} /\ Unused \ {Scratch} # {}
  /\ scratch' = Scratch
  /\ inBatch' = [inBatch EXCEPT ![bodiesStored + 1] = [e EXCEPT !.body = s]]
  /\ UNCHANGED <<capturers, renderers, entries>>
  /\ heap' = Collected([heap EXCEPT ![Scratch] = Encoded(e.body), ![copy] = Encoded(e.body)])
  /\ txBodies' = UpsertedBody(e, s, heap') /\ bodiesStored' = bodiesStored + 1
  /\ UNCHANGED <<bodyCodec, bodyRows, codecChanges,
                 bodiesKept, batchFaults>>

BodiesCommit ==
  /\ inBatch # <<>> /\ bodiesStored = Len(inBatch)
  /\ bodyRows' = txBodies /\ inBatch' = <<>> /\ bodiesStored' = 0
  /\ UNCHANGED <<capturers, renderers, scratch, entries>> /\ heap' = Collected(heap)
  /\ UNCHANGED <<bodyCodec, txBodies, codecChanges, bodiesKept, batchFaults>>

(* reEnqueueBatch: the entries come back with the bodies they have now.    *)
BodiesRollBack ==
  /\ inBatch # <<>> /\ batchFaults < MaxBatchFaults
  /\ entries' = entries \o inBatch /\ inBatch' = <<>> /\ bodiesStored' = 0
  /\ txBodies' = bodyRows /\ batchFaults' = batchFaults + 1
  /\ UNCHANGED <<heap, bodyCodec, capturers, renderers, scratch, bodyRows, codecChanges,
                 bodiesKept>>

(* The collector empties a sync.Pool whenever it likes. *)
PoolsEmptied ==
  /\ scratch # NoArray \/ capturers # {}
  /\ scratch' = NoArray /\ capturers' = {}
  /\ UNCHANGED <<renderers, entries, inBatch>> /\ heap' = Collected(heap)
  /\ UNCHANGED <<bodyCodec, bodiesStored, txBodies, bodyRows, codecChanges, bodiesKept, batchFaults>>

BodyCodecNext ==
  \/ \E r \in Renderer : \/ \E p \in Body : TakesCapturer(r, p)
                         \/ RenderGalleryInto(r) \/ PutsCapturer(r) \/ Keeps(r)
  \/ \E id \in {"", "identity", "zstd-1", "gzip-6", "unknown"} : ConfigureBodyCodec(id)
  \/ BatchTakes \/ StoresPlain \/ Compresses
  \/ BodiesCommit \/ BodiesRollBack \/ PoolsEmptied

BodyCodecSpec == BodyCodecInit /\ [][BodyCodecNext]_bodyCodecVars

BodyCodecTypeOK ==
  /\ bodyCodec \in {"identity", "zstd-1", "gzip-6"}
  /\ \A r \in Renderer : renderers[r].at \in {"idle", "rendering", "captured"}
  /\ bodiesStored \in 0 .. Len(inBatch) /\ scratch \in Array \cup {NoArray}
  /\ \A s \in capturers : s.array \in Array /\ s.len = 0

(* Whatever codec was configured when, however often a batch was tried and *)
(* whoever reuses the buffers meanwhile: a page that is stored is read back *)
(* as the page its key names, never as a miss or as another's text         *)
(* (FinalizeForStorage, DecodeForServe, the buffers of the two pools).     *)
BodiesComeBack == \A p \in Body : bodyRows[p] # NoStoredBody =>
  DecodeForServe(bodyRows[p]) = Plain(<<p>>)
=============================================================================
