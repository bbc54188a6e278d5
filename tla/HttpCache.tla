----------------------------- MODULE HttpCache -----------------------------
(***************************************************************************)
(* The cache of rendered pages: HTTPCacheMiddleware looks a request up by  *)
(* its key, lets the handler render on a miss and hands the captured page  *)
(* to the write batcher; the batcher stores it, counts it and evicts when  *)
(* the counter passes the limit; a change of configuration replaces the    *)
(* table; a ticker deletes what expired.  The size of the cache is not     *)
(* asked of the table: it is a counter that every writer adjusts.          *)
(***************************************************************************)
EXTENDS Integers, FiniteSets, Sequences

CONSTANTS Visitor,          \* requests in progress, the preload's included
          GalleryPage,      \* pages under /gallery/: whole or as a fragment
          OtherPage,        \* pages under /info/ and /lightbox/: one form
          CacheLimit,       \* CacheMaxSize, in fragments
          CacheQueue,       \* entries the batcher takes before ErrFull
          MaxKept,          \* bound: responses captured for the cache
          MaxInvalidations, \* bound: changes of configuration
          MaxCacheFaults    \* bound: failed transactions, rotations, baseline

ASSUME CacheAssumption == /\ GalleryPage \cap OtherPage = {}
                          /\ IsFiniteSet(GalleryPage)
                          /\ CacheLimit \in Nat /\ CacheQueue \in Nat

(* HX-Request with HX-Target: absent, the gallery's own swap, another one. *)
Request == [page: GalleryPage \cup OtherPage, htmx: {"no", "content", "other"}]

\* Faulty variant: every HTMX request gets the fragment's key.
VariantOfAnySwap(r) == IF r.page \in GalleryPage /\ r.htmx # "no"
                         THEN "fragment" ELSE "whole"
(* NormalizedVariant and the rest of the key: the method is fixed, and all *)
(* of the query but v= is dropped.                                         *)
Variant(r) == IF r.page \in GalleryPage /\ r.htmx = "content"
                THEN "fragment" ELSE "whole"
CacheKey(r) == <<r.page, Variant(r)>>

(* GalleryByID renders the fragment under IsPartialRequest; the handlers   *)
(* of the other routes look at no HX header.                               *)
RenderedForm(r) == IF r.page \in OtherPage THEN "whole"
                   ELSE IF r.htmx = "content" THEN "fragment" ELSE "whole"

(* PreloadVariantForPath and MakeInternalRequestWithHXTarget: what the     *)
(* preload asks for, and the key under which it looks for it.              *)
PreloadRequest(p) == [page |-> p, htmx |-> IF p \in GalleryPage THEN "content" ELSE "no"]
PreloadKey(p) == <<p, IF p \in GalleryPage THEN "fragment" ELSE "whole">>

(* Bytes, roughly: a whole page weighs twice a fragment.                   *)
Whole(row) == row.form = "whole"
Bytes(S) == Cardinality(S) + Cardinality({row \in S: Whole(row)})
NoPage == [form |-> "none"]

VARIABLES
  cacheRows,      \* http_cache: the rows, one per key
  cacheCounter,   \* cacheSizeBytes (cacheEntryCount moves with it, by ones)
  edition,        \* the configuration the handlers render with
  visits,         \* each request: where it is and what it carries
  cacheWrites,    \* entries in the write batcher
  storing,        \* the batcher: the transaction, and the bytes it is about
  invalidation,   \* InvalidateHTTPCache: "no", "rotating", "zeroing"
  baseline,       \* startHTTPCacheBaselines: the sum of the bytes
  invalidations, cacheFaults,
  captured,       \* responses captured so far
  evictedEarly    \* rows left before the sum of bytes had read them

cacheVars == <<cacheRows, cacheCounter, edition, visits, cacheWrites, storing,
               invalidation, baseline, invalidations, cacheFaults, evictedEarly, captured>>

Row(key, form, ed) == [key |-> key, form |-> form, ed |-> ed, stale |-> FALSE]
NoVisit == [at |-> "away", req |-> [page |-> "none", htmx |-> "no"], got |-> NoPage]
Idle == [at |-> "idle", bytes |-> 0]

HttpCacheInit ==
  /\ cacheRows \in {{}, {Row(PreloadKey(p), Variant(PreloadRequest(p)), 0): p \in GalleryPage}}
  /\ cacheCounter = 0
  /\ edition = 0
  /\ visits = [v \in Visitor |-> NoVisit]
  /\ cacheWrites = <<>>
  /\ storing = Idle
  /\ invalidation = "no"
  /\ baseline = [at |-> "start", n |-> 0]
  /\ invalidations = 0
  /\ cacheFaults = 0
  /\ evictedEarly = FALSE
  /\ captured = 0

Keyed(key) == {row \in cacheRows: row.key = key}

(* checkCache: GetHttpCacheByKey skips a row that has expired.             *)
Hit(v, r) ==
  /\ \E row \in Keyed(CacheKey(r)): ~row.stale
  /\ UNCHANGED visits

Miss(v, r) ==
  /\ \A row \in Keyed(CacheKey(r)): row.stale
  /\ visits' = [visits EXCEPT ![v] = [at |-> "rendering", req |-> r, got |-> NoPage]]

Arrives(v) ==
  /\ visits[v].at = "away"
  /\ \E r \in Request: Hit(v, r) \/ Miss(v, r)
  /\ UNCHANGED <<cacheRows, cacheCounter, edition, cacheWrites, storing,
                 invalidation, baseline, invalidations, cacheFaults, evictedEarly, captured>>

(* The handler renders into the capturing writer; a response that is not   *)
(* a 200, sets a cookie or passes MaxEntrySize is served and forgotten.    *)
Renders(v) ==
  /\ visits[v].at = "rendering"
  /\ \E kept \in BOOLEAN:
       /\ kept => captured < MaxKept
       /\ captured' = captured + (IF kept THEN 1 ELSE 0)
       /\ visits' = [visits EXCEPT ![v] =
         IF kept THEN [NoVisit EXCEPT !.at = "submitting", !.got =
                Row(CacheKey(visits[v].req), RenderedForm(visits[v].req), edition)]
         ELSE NoVisit]
  /\ UNCHANGED <<cacheRows, cacheCounter, edition, cacheWrites, storing,
                 invalidation, baseline, invalidations, cacheFaults, evictedEarly>>

(* go submitFunc(entry): taken by the batcher, or dropped on ErrFull.      *)
Submits(v) ==
  /\ visits[v].at = "submitting"
  /\ visits' = [visits EXCEPT ![v] = NoVisit]
  /\ cacheWrites' = IF Len(cacheWrites) < CacheQueue
                      THEN Append(cacheWrites, visits[v].got) ELSE cacheWrites
  /\ UNCHANGED <<cacheRows, cacheCounter, edition, storing,
                 invalidation, baseline, invalidations, cacheFaults, evictedEarly, captured>>

(* What OnSuccess will add: every entry counts, a replaced one again.      *)
Added(batch) == Len(batch) + Cardinality({i \in DOMAIN batch: Whole(batch[i])})

(* UpsertHttpCache for each: one row per key, the last one written.        *)
Upserted(rows, batch) ==
  LET last == {i \in DOMAIN batch: \A j \in DOMAIN batch: j > i => batch[j].key # batch[i].key}
  IN  {row \in rows: \A i \in last: batch[i].key # row.key} \cup {batch[i]: i \in last}

BatchStores ==
  /\ storing.at = "idle" /\ cacheWrites # <<>>
  /\ cacheRows' = Upserted(cacheRows, cacheWrites)
  /\ storing' = [at |-> "stored", bytes |-> Added(cacheWrites)]
  /\ cacheWrites' = <<>>
  /\ UNCHANGED <<cacheCounter, edition, visits, invalidation, baseline,
                 invalidations, cacheFaults, evictedEarly, captured>>

(* The transaction fails, the batch waits for the next flush, and OnError  *)
(* asks the table for its size.                                            *)
BatchRollsBack ==
  /\ storing.at = "idle" /\ cacheWrites # <<>>
  /\ cacheFaults < MaxCacheFaults
  /\ cacheFaults' = cacheFaults + 1
  /\ storing' = [at |-> "resyncing", bytes |-> Bytes(cacheRows)]
  /\ UNCHANGED <<cacheRows, cacheCounter, edition, visits, cacheWrites, invalidation,
                 baseline, invalidations, evictedEarly, captured>>

ResyncStores ==
  /\ storing.at = "resyncing"
  /\ cacheCounter' = storing.bytes
  /\ storing' = Idle
  /\ UNCHANGED <<cacheRows, edition, visits, cacheWrites, invalidation,
                 baseline, invalidations, cacheFaults, evictedEarly, captured>>

(* OnSuccess adds the batch, and looks whether to evict.                   *)
BatchCounts ==
  /\ storing.at = "stored"
  /\ cacheCounter' = cacheCounter + storing.bytes
  /\ storing' = [Idle EXCEPT !.at = IF cacheCounter' > CacheLimit
                                      THEN "evicting" ELSE "idle"]
  /\ UNCHANGED <<cacheRows, edition, visits, cacheWrites, invalidation,
                 baseline, invalidations, cacheFaults, evictedEarly, captured>>

(* EvictLRU: the oldest rows until the target is freed or none is left.    *)
(* created_at counts seconds: rows of one second leave in any order.       *)
Victims(target) ==
  {S \in SUBSET cacheRows:
     /\ Bytes(S) >= target \/ S = cacheRows
     /\ S # {} => \E last \in S: Bytes(S \ {last}) < target}

Evicts ==
  /\ storing.at = "evicting"
  /\ \E S \in Victims(cacheCounter - CacheLimit + CacheLimit \div 10):
       /\ cacheRows' = cacheRows \ S
       /\ storing' = [at |-> "evicted", bytes |-> Bytes(S)]
  /\ UNCHANGED <<cacheCounter, edition, visits, cacheWrites, invalidation,
                 baseline, invalidations, cacheFaults, captured>>
  /\ evictedEarly' = (evictedEarly \/ baseline.at = "start")

EvictionUncounts ==
  /\ storing.at = "evicted"
  /\ cacheCounter' = cacheCounter - storing.bytes
  /\ storing' = Idle
  /\ UNCHANGED <<cacheRows, edition, visits, cacheWrites, invalidation,
                 baseline, invalidations, cacheFaults, evictedEarly, captured>>

(* A row passes its expires_at; later CleanupExpired deletes such rows and *)
(* leaves the counter alone.                                               *)
RowExpires ==
  /\ \E row \in {r \in cacheRows: ~r.stale}:
       cacheRows' = (cacheRows \ {row}) \cup {[row EXCEPT !.stale = TRUE]}
  /\ UNCHANGED <<cacheCounter, edition, visits, cacheWrites, storing, invalidation,
                 baseline, invalidations, cacheFaults, evictedEarly, captured>>

CleanupExpired ==
  /\ \E row \in cacheRows: row.stale
  /\ cacheRows' = {row \in cacheRows: ~row.stale}
  /\ UNCHANGED <<cacheCounter, edition, visits, cacheWrites, storing, invalidation,
                 baseline, invalidations, cacheFaults, evictedEarly, captured>>

(* A change of configuration renders anew from here on; InvalidateHTTPCache *)
(* replaces the table, or fails and leaves every page, then zeroes.        *)
ConfigChanges ==
  /\ invalidation = "no" /\ invalidations < MaxInvalidations
  /\ invalidations' = invalidations + 1
  /\ edition' = edition + 1
  /\ invalidation' = "rotating"
  /\ UNCHANGED <<cacheRows, cacheCounter, visits, cacheWrites, storing, baseline, cacheFaults, evictedEarly, captured>>

TableRotates ==
  /\ invalidation = "rotating"
  /\ \/ /\ cacheRows' = {}
        /\ invalidation' = "zeroing"
        /\ UNCHANGED cacheFaults
     \/ /\ cacheFaults < MaxCacheFaults
        /\ cacheFaults' = cacheFaults + 1
        /\ invalidation' = "no"
        /\ UNCHANGED cacheRows
  /\ UNCHANGED <<cacheCounter, edition, visits, cacheWrites, storing, baseline, invalidations, evictedEarly, captured>>

CounterZeroed ==
  /\ invalidation = "zeroing"
  /\ invalidation' = "no"
  /\ cacheCounter' = 0
  /\ UNCHANGED <<cacheRows, edition, visits, cacheWrites, storing, baseline,
                 invalidations, cacheFaults, evictedEarly, captured>>

(* startHTTPCacheBaselines: the sum is read, later added.                  *)
BaselineReads ==
  /\ baseline.at = "start"
  /\ \/ /\ baseline' = [at |-> "read", n |-> Bytes(cacheRows)]
        /\ UNCHANGED cacheFaults
     \/ /\ cacheFaults < MaxCacheFaults
        /\ cacheFaults' = cacheFaults + 1
        /\ baseline' = [baseline EXCEPT !.at = "failed"]
  /\ UNCHANGED <<cacheRows, cacheCounter, edition, visits, cacheWrites, storing,
                 invalidation, invalidations, evictedEarly, captured>>

BaselineEnds(counter) ==
  /\ baseline.at = "read"
  /\ cacheCounter' = counter
  /\ baseline' = [at |-> "done", n |-> 0]
  /\ UNCHANGED <<cacheRows, edition, visits, cacheWrites, storing, invalidation,
                 invalidations, cacheFaults, evictedEarly, captured>>
\* Faulty variant: the sum replaces what was counted meanwhile.
BaselineStores == BaselineEnds(baseline.n)
BaselineAdds == BaselineEnds(cacheCounter + baseline.n)

HttpCacheNext ==
  \/ \E v \in Visitor: Arrives(v) \/ Renders(v) \/ Submits(v)
  \/ BatchStores \/ BatchRollsBack \/ ResyncStores \/ BatchCounts
  \/ Evicts \/ EvictionUncounts
  \/ RowExpires \/ CleanupExpired
  \/ ConfigChanges \/ TableRotates \/ CounterZeroed
  \/ BaselineReads \/ BaselineAdds

HttpCacheSpec == HttpCacheInit /\ [][HttpCacheNext]_cacheVars

-----------------------------------------------------------------------------
(* Types of the cache's state.                                             *)
HttpCacheTypeOK ==
  /\ \A row \in cacheRows: row.ed \in 0..edition /\ row.stale \in BOOLEAN
  /\ cacheCounter \in Int
  /\ Len(cacheWrites) <= CacheQueue
  /\ storing.at \in {"idle", "stored", "resyncing", "evicting", "evicted"}
  /\ invalidation \in {"no", "rotating", "zeroing"}

(* A row answers only requests for the form it holds, whatever requests    *)
(* for the same page filled the cache, the preload's included; and what    *)
(* the preload stores for a page is what its own lookup finds.             *)
HitFitsRequest ==
  /\ \A row \in cacheRows, r \in Request:
       CacheKey(r) = row.key => row.form = RenderedForm(r)
  /\ \A p \in GalleryPage \cup OtherPage: CacheKey(PreloadRequest(p)) = PreloadKey(p)

(* The counter that triggers the eviction never falls below the table once *)
(* its baseline is in and the batcher is done: the cache cannot outgrow    *)
(* its limit unseen.  Two races break this and are left out: an            *)
(* invalidation zeroes what a batch just added, and an eviction before the *)
(* baseline's sum subtracts rows that were never added.                    *)
CounterCoversTable ==
  /\ invalidations = 0 /\ ~evictedEarly
  /\ baseline.at = "done"
  /\ storing.at = "idle"
  => cacheCounter >= Bytes(cacheRows)

(* A page from the cache has the form the request asked for, and the       *)
(* counter of bytes never shows less than the table holds (the variants of *)
(* the key, the baseline and the evictions).                               *)
CacheSafety == HitFitsRequest /\ CounterCoversTable

(* What ApplyConfig says of its invalidation: no page rendered with an     *)
(* earlier configuration stays in the cache once the table was replaced.   *)
NoStalePage ==
  invalidation = "no" => \A row \in cacheRows: row.ed = edition
=============================================================================
