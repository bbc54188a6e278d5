---------------------------- MODULE PagesProofs -----------------------------
(***************************************************************************)
(* The pages that are kept, and what they show, for any number of          *)
(* requests, pages, images and batches: what the response cache counts     *)
(* (HttpCache), the bytes it gives back (BodyCodec), and the rows and      *)
(* pictures of the catalogue (Catalogue).                                  *)
(*                                                                         *)
(* CounterCoversTable speaks of the moments at which the batcher is idle;  *)
(* between them the counter is behind or ahead by what the batcher is      *)
(* about to tell it, so the invariant is about the counter once that is    *)
(* told, and about the baseline before and after its sum is in.            *)
(* BodiesComeBack speaks of the table alone; what makes it true is that no *)
(* two of the pools, the requests and the entries ever share an array, so  *)
(* that what an entry holds cannot change under it.                        *)
(* PicturesFit rests on the same of the thumbnail buffers: one belongs to  *)
(* one write, which is not in the pool until it is put back.               *)
(* CalmWalkSettles speaks of the end of a walk; on the way every image is  *)
(* still to be met, found, failed, to be written, in the transaction, or   *)
(* known, and nothing on the way is older than the image.                  *)
(***************************************************************************)
EXTENDS HttpCache, BodyCodec, Catalogue, FiniteSetTheorems, SequenceTheorems, TLAPS

(* The response cache: the counter and the table.                          *)

PageForm == {"whole", "fragment"}
CacheRow == [key : (GalleryPage \cup OtherPage) \X PageForm, form : PageForm, ed : Nat, stale : BOOLEAN]
Fitting == {row \in CacheRow : row.form = row.key[2] /\ row.ed <= edition}
Storing == [at : {"idle", "stored", "resyncing", "evicting", "evicted"}, bytes : Nat]
CacheShapes ==
  /\ edition \in Nat /\ cacheCounter \in Int /\ invalidations \in Nat /\ evictedEarly \in BOOLEAN
  /\ cacheRows \subseteq Fitting /\ IsFiniteSet(cacheRows)
  /\ cacheWrites \in Seq(Fitting) /\ Len(cacheWrites) <= CacheQueue
  /\ \A v \in Visitor : /\ visits[v].at = "rendering" => visits[v].req \in Request
                        /\ visits[v].at = "submitting" => visits[v].got \in Fitting
  /\ DOMAIN visits = Visitor
  /\ storing \in Storing /\ invalidation \in {"no", "rotating", "zeroing"}
  /\ baseline \in [at : {"start", "read", "done", "failed"}, n : Nat]

(* The counter once the batcher has told it all, and what it owes the      *)
(* table: the baseline's sum is still missing before "done".               *)
Settled == IF storing.at = "resyncing" THEN storing.bytes
           ELSE IF storing.at = "stored" THEN cacheCounter + storing.bytes
           ELSE IF storing.at = "evicted" THEN cacheCounter - storing.bytes
           ELSE cacheCounter
CounterIsBacked ==
  invalidations = 0 /\ ~evictedEarly =>
    /\ invalidation = "no"
    /\ baseline.at = "start" => Settled >= 0
    /\ baseline.at = "read" => Settled + baseline.n >= Bytes(cacheRows)
    /\ baseline.at = "done" => Settled >= Bytes(cacheRows)
    /\ storing.at = "resyncing" => storing.bytes >= Bytes(cacheRows)

CacheInv == CacheShapes /\ CounterIsBacked

-----------------------------------------------------------------------------
\* The bytes of finite sets of rows.
LEMMA BytesCount ==
  ASSUME NEW S, IsFiniteSet(S)
  PROVE  /\ Bytes(S) \in Nat
         /\ \A T \in SUBSET S : /\ IsFiniteSet(T) /\ Bytes(T) \in Nat /\ Bytes(T) <= Bytes(S)
                                /\ Bytes(S \ T) = Bytes(S) - Bytes(T)
         /\ \A x : IsFiniteSet(S \cup {x})
<1> DEFINE wholes(T) == {row \in T : Whole(row)}
<1>1. ASSUME NEW T \in SUBSET S
      PROVE  /\ IsFiniteSet(T) /\ IsFiniteSet(wholes(T))
             /\ Cardinality(T) \in Nat /\ Cardinality(wholes(T)) \in Nat
             /\ Cardinality(T) <= Cardinality(S) /\ Cardinality(wholes(T)) <= Cardinality(wholes(S))
  <2>1. IsFiniteSet(T) /\ Cardinality(T) <= Cardinality(S)
    BY FS_Subset
  <2>2. IsFiniteSet(wholes(S))
    BY FS_Subset
  <2>3. wholes(T) \in SUBSET wholes(S)
    OBVIOUS
  <2> HIDE DEF wholes
  <2>4. IsFiniteSet(wholes(T)) /\ Cardinality(wholes(T)) <= Cardinality(wholes(S))
    BY <2>2, <2>3, FS_Subset
  <2> QED BY <2>1, <2>4, FS_CardinalityType
<1>2. \A T : Bytes(T) = Cardinality(T) + Cardinality(wholes(T))
  BY DEF Bytes
<1>3. ASSUME NEW T \in SUBSET S
      PROVE  /\ Cardinality(S \ T) = Cardinality(S) - Cardinality(T)
             /\ Cardinality(wholes(S \ T)) = Cardinality(wholes(S)) - Cardinality(wholes(T))
  <2>1. S \cap T = T /\ wholes(S) \cap wholes(T) = wholes(T) /\ wholes(S \ T) = wholes(S) \ wholes(T)
    OBVIOUS
  <2>2. IsFiniteSet(S) /\ IsFiniteSet(wholes(S))
    BY <1>1
  <2> HIDE DEF wholes
  <2>3. Cardinality(S \ T) = Cardinality(S) - Cardinality(S \cap T)
    BY <2>2, FS_Difference
  <2>4. Cardinality(wholes(S) \ wholes(T)) = Cardinality(wholes(S)) - Cardinality(wholes(S) \cap wholes(T))
    BY <2>2, FS_Difference
  <2> QED BY <2>1, <2>3, <2>4
<1> HIDE DEF wholes
<1>4. S \in SUBSET S
  OBVIOUS
<1>5. Bytes(S) \in Nat
  BY <1>1, <1>2, <1>4
<1>6. ASSUME NEW T \in SUBSET S
      PROVE  /\ IsFiniteSet(T) /\ Bytes(T) \in Nat /\ Bytes(T) <= Bytes(S)
             /\ Bytes(S \ T) = Bytes(S) - Bytes(T)
  <2>1. /\ Cardinality(S) \in Nat /\ Cardinality(wholes(S)) \in Nat
        /\ Cardinality(T) \in Nat /\ Cardinality(wholes(T)) \in Nat
    BY <1>1, <1>4
  <2> QED BY <1>1, <1>2, <1>3, <2>1
<1> QED BY <1>5, <1>6, FS_AddElement

\* A row that takes another's place adds no more than its own weight.
LEMMA UnionBytes ==
  ASSUME NEW S, NEW T, IsFiniteSet(S), IsFiniteSet(T)
  PROVE  IsFiniteSet(S \cup T) /\ Bytes(S \cup T) <= Bytes(S) + Bytes(T)
<1> DEFINE wholes(R) == {row \in R : Whole(row)}
<1>1. \A R : Bytes(R) = Cardinality(R) + Cardinality(wholes(R))
  BY DEF Bytes
<1>2. /\ IsFiniteSet(wholes(S)) /\ IsFiniteSet(wholes(T))
      /\ wholes(S \cup T) = wholes(S) \cup wholes(T)
  BY FS_Subset
<1> HIDE DEF wholes
<1>3. \A P, Q : IsFiniteSet(P) /\ IsFiniteSet(Q)
        => /\ IsFiniteSet(P \cup Q) /\ Cardinality(P \cup Q) \in Nat /\ Cardinality(P) \in Nat
           /\ Cardinality(Q) \in Nat /\ Cardinality(P \cup Q) <= Cardinality(P) + Cardinality(Q)
  <2> SUFFICES ASSUME NEW P, NEW Q, IsFiniteSet(P), IsFiniteSet(Q)
               PROVE /\ IsFiniteSet(P \cup Q) /\ Cardinality(P \cup Q) \in Nat /\ Cardinality(P) \in Nat
                     /\ Cardinality(Q) \in Nat /\ Cardinality(P \cup Q) <= Cardinality(P) + Cardinality(Q)
    OBVIOUS
  <2>1. /\ IsFiniteSet(P \cup Q) /\ IsFiniteSet(P \cap Q)
        /\ Cardinality(P \cup Q) = Cardinality(P) + Cardinality(Q) - Cardinality(P \cap Q)
    BY FS_Union, FS_Intersection
  <2>2. /\ Cardinality(P \cup Q) \in Nat /\ Cardinality(P \cap Q) \in Nat
        /\ Cardinality(P) \in Nat /\ Cardinality(Q) \in Nat
    BY <2>1, FS_CardinalityType
  <2> QED BY <2>1, <2>2
<1>4. /\ IsFiniteSet(S \cup T) /\ Cardinality(S \cup T) <= Cardinality(S) + Cardinality(T)
      /\ Cardinality(S) \in Nat /\ Cardinality(T) \in Nat /\ Cardinality(S \cup T) \in Nat
  BY <1>3
<1>5. /\ Cardinality(wholes(S \cup T)) <= Cardinality(wholes(S)) + Cardinality(wholes(T))
      /\ Cardinality(wholes(S)) \in Nat /\ Cardinality(wholes(T)) \in Nat
      /\ Cardinality(wholes(S \cup T)) \in Nat
  BY <1>2, <1>3
<1> QED BY <1>1, <1>4, <1>5

\* The distinct rows of a batch weigh no more than its entries.
LEMMA BatchBytes ==
  ASSUME NEW S, NEW batch \in Seq(S)
  PROVE  LET rows == {batch[i] : i \in DOMAIN batch}
         IN  /\ IsFiniteSet(rows) /\ rows \subseteq S
             /\ Added(batch) \in Nat /\ Bytes(rows) <= Added(batch)
<1> DEFINE rows == {batch[i] : i \in DOMAIN batch}
           wide == {i \in DOMAIN batch : Whole(batch[i])}
           wholes == {row \in rows : Whole(row)}
<1>1. Len(batch) \in Nat /\ DOMAIN batch = 1..Len(batch) /\ batch \in [1..Len(batch) -> S]
  BY LenProperties
<1>2. IsFiniteSet(DOMAIN batch) /\ Cardinality(DOMAIN batch) = Len(batch)
  BY <1>1, FS_Interval
<1>3. IsFiniteSet(wide) /\ Cardinality(wide) \in Nat
  BY <1>2, FS_Subset, FS_CardinalityType
<1>4. ASSUME NEW I \in SUBSET DOMAIN batch, IsFiniteSet(I)
      PROVE  /\ IsFiniteSet({batch[i] : i \in I})
             /\ Cardinality({batch[i] : i \in I}) <= Cardinality(I)
             /\ Cardinality({batch[i] : i \in I}) \in Nat
  <2> DEFINE T == {batch[i] : i \in I}
             f == [i \in I |-> batch[i]]
  <2>1. f \in Surjection(I, T)
    BY DEF Surjection
  <2> HIDE DEF T, f
  <2>2. IsFiniteSet(T) /\ Cardinality(T) <= Cardinality(I)
    BY <1>4, <2>1, FS_Surjection DEF ExistsSurjection
  <2> QED BY <2>2, FS_CardinalityType DEF T
<1>5. IsFiniteSet(rows) /\ Cardinality(rows) <= Len(batch) /\ Cardinality(rows) \in Nat
  BY <1>2, <1>4
<1>6. Cardinality(wholes) <= Cardinality(wide) /\ Cardinality(wholes) \in Nat
  <2>1. wholes = {batch[i] : i \in wide}
    OBVIOUS
  <2>2. wide \in SUBSET DOMAIN batch
    OBVIOUS
  <2> HIDE DEF wholes, wide
  <2> QED BY <1>3, <1>4, <2>1, <2>2
<1>7. Bytes(rows) = Cardinality(rows) + Cardinality(wholes)
  BY DEF Bytes
<1>8. Added(batch) = Len(batch) + Cardinality(wide)
  BY DEF Added
<1>9. rows \subseteq S
  BY <1>1
<1> HIDE DEF rows, wide, wholes
<1>10. Added(batch) \in Nat /\ Bytes(rows) <= Added(batch)
  BY <1>1, <1>3, <1>5, <1>6, <1>7, <1>8
<1> QED BY <1>5, <1>9, <1>10 DEF rows

\* A batch adds at most its own bytes to the table, whatever rows it replaces.
LEMMA UpsertedBytes ==
  ASSUME NEW S, NEW rows \in SUBSET S, IsFiniteSet(rows), NEW batch \in Seq(S)
  PROVE  LET table == Upserted(rows, batch)
         IN  /\ table \subseteq S /\ IsFiniteSet(table)
             /\ Added(batch) \in Nat /\ Bytes(table) \in Nat /\ Bytes(rows) \in Nat
             /\ Bytes(table) <= Bytes(rows) + Added(batch)
<1> DEFINE new == {batch[i] : i \in DOMAIN batch}
           table == Upserted(rows, batch)
<1>1. /\ IsFiniteSet(new) /\ new \subseteq S
      /\ Added(batch) \in Nat /\ Bytes(new) <= Added(batch)
  BY BatchBytes
<1>2. table \in SUBSET (rows \cup new)
  BY DEF Upserted
<1> HIDE DEF new, table
<1>3. IsFiniteSet(rows \cup new) /\ Bytes(rows \cup new) <= Bytes(rows) + Bytes(new)
  BY <1>1, UnionBytes
<1>4. Bytes(rows) \in Nat /\ Bytes(new) \in Nat /\ Bytes(rows \cup new) \in Nat
  BY <1>1, <1>3, BytesCount
<1>5. IsFiniteSet(table) /\ Bytes(table) \in Nat /\ Bytes(table) <= Bytes(rows \cup new)
  BY <1>2, <1>3, BytesCount
<1>6. Bytes(table) <= Bytes(rows) + Added(batch)
  BY <1>1, <1>3, <1>4, <1>5
<1> QED BY <1>1, <1>2, <1>4, <1>5, <1>6 DEF table

\* A request renders in the form its key names.
LEMMA RequestsFit ==
  ASSUME NEW r \in Request
  PROVE  /\ CacheKey(r) \in (GalleryPage \cup OtherPage) \X PageForm
         /\ RenderedForm(r) = CacheKey(r)[2] /\ RenderedForm(r) \in PageForm
  BY CacheAssumption DEF Request, CacheKey, RenderedForm, Variant, PageForm

\* The table a process starts on fits its keys and the counter owes it all.
LEMMA CacheBegins == HttpCacheInit => CacheInv
<1> SUFFICES ASSUME HttpCacheInit PROVE CacheInv
  OBVIOUS
<1>1. cacheRows \subseteq Fitting /\ IsFiniteSet(cacheRows)
  <2>1. CASE cacheRows = {}
    BY <2>1, FS_EmptySet
  <2>2. CASE cacheRows = {Row(PreloadKey(p), Variant(PreloadRequest(p)), 0): p \in GalleryPage}
    <3> DEFINE row(p) == Row(PreloadKey(p), Variant(PreloadRequest(p)), 0)
               f == [p \in GalleryPage |-> row(p)]
    <3>1. ASSUME NEW p \in GalleryPage PROVE row(p) \in Fitting
      <4>1. PreloadKey(p) = <<p, "fragment">> /\ Variant(PreloadRequest(p)) = "fragment"
        BY DEF PreloadKey, PreloadRequest, Variant
      <4>2. row(p) = [key |-> <<p, "fragment">>, form |-> "fragment", ed |-> 0, stale |-> FALSE]
        BY <4>1 DEF Row
      <4>3. edition = 0
        BY DEF HttpCacheInit
      <4>4. <<p, "fragment">> \in (GalleryPage \cup OtherPage) \X PageForm /\ "fragment" \in PageForm
        BY DEF PageForm
      <4>5. /\ row(p) \in CacheRow /\ row(p).form = "fragment" /\ row(p).key[2] = "fragment"
            /\ row(p).ed = 0
        <5> DEFINE k == <<p, "fragment">>
        <5>1. k[2] = "fragment"
          OBVIOUS
        <5> HIDE DEF k
        <5>2. row(p) = [key |-> k, form |-> "fragment", ed |-> 0, stale |-> FALSE]
          BY <4>2 DEF k
        <5>3. k \in (GalleryPage \cup OtherPage) \X PageForm /\ "fragment" \in PageForm
          BY <4>4 DEF k
        <5> HIDE DEF row
        <5> QED BY <5>1, <5>2, <5>3 DEF CacheRow
      <4> HIDE DEF row
      <4> QED BY <4>3, <4>5 DEF Fitting
    <3>2. f \in Surjection(GalleryPage, cacheRows)
      BY <2>2 DEF Surjection
    <3> HIDE DEF f, row
    <3>3. IsFiniteSet(cacheRows)
      BY <3>2, FS_Surjection, CacheAssumption DEF ExistsSurjection
    <3> QED BY <2>2, <3>1, <3>3 DEF row
  <2> QED BY <2>1, <2>2 DEF HttpCacheInit
<1>2. cacheWrites \in Seq(Fitting) /\ Len(cacheWrites) <= CacheQueue
  BY CacheAssumption, EmptySeq DEF HttpCacheInit
<1>3. storing \in Storing /\ storing.at = "idle"
  BY DEF HttpCacheInit, Idle, Storing
<1>4. baseline \in [at : {"start", "read", "done", "failed"}, n : Nat] /\ baseline.at = "start"
  BY DEF HttpCacheInit
<1>5. /\ DOMAIN visits = Visitor
      /\ \A v \in Visitor : visits[v].at = "away"
  BY DEF HttpCacheInit, NoVisit
<1>6. CacheShapes
  <2>1. /\ edition = 0 /\ cacheCounter = 0 /\ invalidations = 0 /\ evictedEarly = FALSE
        /\ invalidation = "no"
    BY DEF HttpCacheInit
  <2>2. \A v \in Visitor : /\ visits[v].at = "rendering" => visits[v].req \in Request
                           /\ visits[v].at = "submitting" => visits[v].got \in Fitting
    BY <1>5
  <2>3. /\ edition \in Nat /\ cacheCounter \in Int /\ invalidations \in Nat /\ evictedEarly \in BOOLEAN
        /\ invalidation \in {"no", "rotating", "zeroing"}
    <3>1. evictedEarly \in BOOLEAN
      BY <2>1, Zenon
    <3>2. edition \in Nat /\ cacheCounter \in Int /\ invalidations \in Nat
      BY <2>1
    <3>3. invalidation \in {"no", "rotating", "zeroing"}
      BY <2>1, Zenon
    <3> QED BY <3>1, <3>2, <3>3
  <2> QED BY <1>1, <1>2, <1>3, <1>4, <1>5, <2>2, <2>3 DEF CacheShapes
<1>7. CounterIsBacked
  BY <1>3, <1>4 DEF HttpCacheInit, CounterIsBacked, Settled
<1> QED BY <1>6, <1>7 DEF CacheInv

\* The moves of requests, of the queue and of the edition.
Visits == \/ \E v \in Visitor : Arrives(v) \/ Renders(v) \/ Submits(v)
BatcherMoves == BatchStores \/ BatchRollsBack \/ ResyncStores \/ BatchCounts \/ Evicts \/ EvictionUncounts

\* Requests only look up, render and submit: the table stays.
LEMMA VisitsKeep ==
  ASSUME CacheInv, \E v \in Visitor : Arrives(v) \/ Renders(v) \/ Submits(v)
  PROVE  CacheInv'
<1> PICK v \in Visitor : Arrives(v) \/ Renders(v) \/ Submits(v)
  OBVIOUS
<1>1. UNCHANGED <<cacheRows, cacheCounter, edition, storing, invalidation, baseline, invalidations,
                  evictedEarly>>
  BY DEF Arrives, Renders, Submits
<1>2. Fitting' = Fitting
  BY <1>1 DEF Fitting
<1>3. cacheWrites' \in Seq(Fitting) /\ Len(cacheWrites') <= CacheQueue
  <2>1. CASE cacheWrites' = cacheWrites
    BY <2>1 DEF CacheInv, CacheShapes
  <2>2. CASE Submits(v) /\ cacheWrites' # cacheWrites
    <3>1. /\ cacheWrites' = Append(cacheWrites, visits[v].got) /\ Len(cacheWrites) < CacheQueue
          /\ visits[v].got \in Fitting /\ cacheWrites \in Seq(Fitting)
      BY <2>2 DEF Submits, CacheInv, CacheShapes
    <3> QED BY <3>1, AppendProperties, LenProperties, CacheAssumption
  <2> QED BY <2>1, <2>2 DEF Arrives, Renders
<1>4. \E e : /\ visits' = [visits EXCEPT ![v] = e] \/ visits' = visits
             /\ e.at = "rendering" => e.req \in Request
             /\ e.at = "submitting" => e.got \in Fitting
  <2>1. CASE Arrives(v)
    <3>1. PICK r \in Request : Hit(v, r) \/ Miss(v, r)
      BY <2>1 DEF Arrives
    <3> DEFINE e == [at |-> "rendering", req |-> r, got |-> NoPage]
    <3>2. visits' = [visits EXCEPT ![v] = e] \/ visits' = visits
      BY <3>1 DEF Hit, Miss
    <3>3. e.at = "rendering" /\ e.req = r
      OBVIOUS
    <3> HIDE DEF e
    <3> QED BY <3>2, <3>3
  <2>2. CASE Renders(v)
    <3> DEFINE q == visits[v].req
               row == Row(CacheKey(q), RenderedForm(q), edition)
               e == [NoVisit EXCEPT !.at = "submitting", !.got = row]
    <3>1. q \in Request
      BY <2>2 DEF Renders, CacheInv, CacheShapes
    <3>2. row \in Fitting
      BY <3>1, RequestsFit DEF Row, Fitting, CacheRow, CacheInv, CacheShapes
    <3>3. visits' = [visits EXCEPT ![v] = e] \/ visits' = [visits EXCEPT ![v] = NoVisit]
      BY <2>2 DEF Renders
    <3>4. e.at = "submitting" /\ e.got = row
      BY DEF NoVisit
    <3>5. NoVisit.at = "away"
      BY DEF NoVisit
    <3> HIDE DEF e
    <3> QED BY <3>2, <3>3, <3>4, <3>5
  <2>3. CASE Submits(v)
    <3>1. visits' = [visits EXCEPT ![v] = NoVisit] /\ NoVisit.at = "away"
      BY <2>3 DEF Submits, NoVisit
    <3> QED BY <3>1
  <2> QED BY <2>1, <2>2, <2>3
<1>5. /\ \A u \in Visitor : /\ visits'[u].at = "rendering" => visits'[u].req \in Request
                            /\ visits'[u].at = "submitting" => visits'[u].got \in Fitting
      /\ DOMAIN visits' = Visitor
  BY <1>4 DEF CacheInv, CacheShapes
<1>6. CacheShapes'
  BY <1>1, <1>2, <1>3, <1>5 DEF CacheInv, CacheShapes
<1>7. CounterIsBacked'
  BY <1>1 DEF CacheInv, CounterIsBacked, Settled
<1> QED BY <1>6, <1>7 DEF CacheInv

\* With nothing to tell, the batcher's counter is the settled one.
LEMMA BatcherKeeps == ASSUME CacheInv, BatcherMoves PROVE CacheInv'
<1> USE DEF CacheInv
<1>1. UNCHANGED <<edition, visits, invalidation, baseline, invalidations>> /\ Fitting' = Fitting
  BY DEF BatcherMoves, BatchStores, BatchRollsBack, ResyncStores, BatchCounts, Evicts, EvictionUncounts, Fitting
<1>2. /\ cacheCounter \in Int /\ baseline.n \in Nat /\ IsFiniteSet(cacheRows) /\ cacheRows \subseteq Fitting
      /\ storing \in Storing /\ storing.bytes \in Nat /\ Bytes(cacheRows) \in Nat
  BY BytesCount DEF CacheShapes, Storing
<1>3. cacheWrites \in Seq(Fitting) /\ Len(cacheWrites) <= CacheQueue
  BY DEF CacheShapes
<1>4. ASSUME cacheRows' \subseteq Fitting, IsFiniteSet(cacheRows'), cacheCounter' \in Int,
             storing' \in Storing, evictedEarly' \in BOOLEAN, cacheWrites' \in {cacheWrites, <<>>}
      PROVE  CacheShapes'
  <2>1. cacheWrites' \in Seq(Fitting) /\ Len(cacheWrites') <= CacheQueue
    <3>1. <<>> \in Seq(Fitting) /\ Len(<<>>) = 0 /\ 0 <= CacheQueue
      BY EmptySeq, CacheAssumption
    <3> QED BY <1>3, <1>4, <3>1
  <2> QED BY <1>1, <1>4, <2>1 DEF CacheShapes
<1>5. CASE BatchStores
  <2> DEFINE table == Upserted(cacheRows, cacheWrites)
             n == Added(cacheWrites)
  <2>1. /\ table \subseteq Fitting /\ IsFiniteSet(table) /\ n \in Nat
        /\ Bytes(table) \in Nat /\ Bytes(table) <= Bytes(cacheRows) + n
    BY <1>2, <1>3, UpsertedBytes
  <2>2. /\ storing.at = "idle" /\ cacheRows' = table /\ storing' = [at |-> "stored", bytes |-> n]
        /\ cacheWrites' = <<>> /\ UNCHANGED <<cacheCounter, evictedEarly>>
    BY <1>5 DEF BatchStores
  <2> HIDE DEF table, n
  <2>3. storing' \in Storing /\ storing'.at = "stored" /\ storing'.bytes = n
    BY <2>1, <2>2 DEF Storing
  <2>4. CacheShapes'
    BY <1>2, <1>4, <2>1, <2>2, <2>3 DEF CacheShapes
  <2>5. Settled = cacheCounter /\ Settled' = cacheCounter + n
    BY <2>2, <2>3 DEF Settled
  <2>6. CounterIsBacked'
    BY <1>1, <1>2, <2>1, <2>2, <2>3, <2>5 DEF CounterIsBacked
  <2> QED BY <2>4, <2>6
<1>6. CASE BatchRollsBack
  <2>1. /\ storing.at = "idle" /\ storing' = [at |-> "resyncing", bytes |-> Bytes(cacheRows)]
        /\ UNCHANGED <<cacheRows, cacheCounter, cacheWrites, evictedEarly>>
    BY <1>6 DEF BatchRollsBack
  <2>2. /\ storing' \in Storing /\ storing'.at = "resyncing" /\ storing'.bytes = Bytes(cacheRows)
    BY <1>2, <2>1 DEF Storing
  <2>3. CacheShapes'
    BY <1>2, <1>4, <2>1, <2>2 DEF CacheShapes
  <2>4. Settled' = Bytes(cacheRows)
    BY <2>2 DEF Settled
  <2>5. CounterIsBacked'
    BY <1>1, <1>2, <2>1, <2>2, <2>4 DEF CounterIsBacked
  <2> QED BY <2>3, <2>5
<1>7. CASE ResyncStores \/ BatchCounts \/ EvictionUncounts
  <2>1. /\ UNCHANGED <<cacheRows, cacheWrites, evictedEarly>>
        /\ cacheCounter' = Settled
        /\ storing' \in {Idle, [Idle EXCEPT !.at = "evicting"], [Idle EXCEPT !.at = "idle"]}
    BY <1>7 DEF ResyncStores, BatchCounts, EvictionUncounts, Settled
  <2>2. storing' \in Storing /\ storing'.at \in {"idle", "evicting"}
    BY <2>1 DEF Idle, Storing
  <2>3. Settled \in Int
    BY <1>2 DEF Settled
  <2>4. CacheShapes'
    BY <1>2, <1>4, <2>1, <2>2, <2>3 DEF CacheShapes
  <2>5. Settled' = Settled
    BY <2>1, <2>2 DEF Settled
  <2>6. CounterIsBacked'
    BY <1>1, <2>1, <2>2, <2>5 DEF CounterIsBacked
  <2> QED BY <2>4, <2>6
<1>8. CASE Evicts
  <2>1. PICK S \in SUBSET cacheRows : /\ cacheRows' = cacheRows \ S
                                      /\ storing' = [at |-> "evicted", bytes |-> Bytes(S)]
    BY <1>8 DEF Evicts, Victims
  <2>2. /\ storing.at = "evicting" /\ UNCHANGED <<cacheCounter, cacheWrites>>
        /\ evictedEarly' = (evictedEarly \/ baseline.at = "start")
    BY <1>8 DEF Evicts
  <2>3. /\ Bytes(S) \in Nat /\ Bytes(cacheRows') = Bytes(cacheRows) - Bytes(S)
        /\ IsFiniteSet(cacheRows')
    <3>1. cacheRows \ S \in SUBSET cacheRows
      OBVIOUS
    <3> QED BY <1>2, <2>1, <3>1, BytesCount
  <2>4. /\ storing' \in Storing /\ storing'.at = "evicted" /\ storing'.bytes = Bytes(S)
    BY <2>1, <2>3 DEF Storing
  <2>5. CacheShapes'
    BY <1>2, <1>4, <2>1, <2>2, <2>3, <2>4 DEF CacheShapes
  <2>6. Settled = cacheCounter /\ Settled' = cacheCounter - Bytes(S)
    BY <2>2, <2>4 DEF Settled
  <2>7. CounterIsBacked'
    <3>1. SUFFICES ASSUME invalidations' = 0, ~evictedEarly'
                   PROVE  /\ invalidation' = "no" /\ baseline'.at # "start"
                          /\ baseline'.at = "read" => Settled' + baseline'.n >= Bytes(cacheRows')
                          /\ baseline'.at = "done" => Settled' >= Bytes(cacheRows')
      BY <2>4 DEF CounterIsBacked, Bytes
    <3>2. /\ baseline.at # "start" /\ invalidation = "no"
          /\ baseline.at = "read" => Settled + baseline.n >= Bytes(cacheRows)
          /\ baseline.at = "done" => Settled >= Bytes(cacheRows)
      BY <1>1, <2>2, <3>1 DEF CounterIsBacked
    <3> QED BY <1>1, <1>2, <2>3, <2>6, <3>2
  <2> QED BY <2>5, <2>7
<1> QED BY <1>5, <1>6, <1>7, <1>8 DEF BatcherMoves

TableMoves == RowExpires \/ CleanupExpired \/ ConfigChanges \/ TableRotates \/ CounterZeroed
                \/ BaselineReads \/ BaselineAdds

\* Rows expire, the configuration changes, the baseline is read: each either
\* shrinks the table or sets a mark that the counter is excused by.
LEMMA TableKeeps == ASSUME CacheInv, TableMoves PROVE CacheInv'
<1> USE DEF CacheInv
<1>1. UNCHANGED <<visits, cacheWrites, storing, evictedEarly>>
  BY DEF TableMoves, RowExpires, CleanupExpired, ConfigChanges, TableRotates, CounterZeroed,
         BaselineReads, BaselineAdds, BaselineEnds
<1>2. /\ cacheCounter \in Int /\ baseline.n \in Nat /\ IsFiniteSet(cacheRows) /\ cacheRows \subseteq Fitting
      /\ storing.bytes \in Nat /\ Bytes(cacheRows) \in Nat /\ edition \in Nat /\ invalidations \in Nat
      /\ cacheWrites \in Seq(Fitting)
  BY BytesCount DEF CacheShapes, Storing
<1>3. ASSUME edition' \in Nat, edition <= edition', cacheRows' \subseteq Fitting, IsFiniteSet(cacheRows'),
             cacheCounter' \in Int, invalidations' \in Nat,
             invalidation' \in {"no", "rotating", "zeroing"},
             baseline' \in [at : {"start", "read", "done", "failed"}, n : Nat]
      PROVE  CacheShapes'
  <2>1. Fitting \subseteq Fitting'
    BY <1>2, <1>3 DEF Fitting, CacheRow
  <2>2. cacheWrites' \in Seq(Fitting')
    BY <1>1, <1>2, <2>1, SeqMonotonic
  <2>3. \A v \in Visitor : /\ visits'[v].at = "rendering" => visits'[v].req \in Request
                           /\ visits'[v].at = "submitting" => visits'[v].got \in Fitting'
    BY <1>1, <2>1 DEF CacheShapes
  <2> QED BY <1>1, <1>3, <2>1, <2>2, <2>3 DEF CacheShapes
<1>4. CASE RowExpires \/ CleanupExpired
  <2>1. UNCHANGED <<cacheCounter, edition, invalidation, baseline, invalidations>>
    BY <1>4 DEF RowExpires, CleanupExpired
  <2>2. /\ cacheRows' \subseteq Fitting /\ IsFiniteSet(cacheRows')
        /\ Bytes(cacheRows') \in Nat /\ Bytes(cacheRows') <= Bytes(cacheRows)
    <3>1. CASE CleanupExpired
      <4>1. cacheRows' \in SUBSET cacheRows
        BY <3>1 DEF CleanupExpired
      <4> QED BY <1>2, <4>1, BytesCount
    <3>2. CASE RowExpires
      <4>1. PICK row \in cacheRows :
                cacheRows' = (cacheRows \ {row}) \cup {[row EXCEPT !.stale = TRUE]}
        BY <3>2 DEF RowExpires
      <4> DEFINE old == [row EXCEPT !.stale = TRUE]
      <4>2. old \in Fitting /\ (Whole(old) <=> Whole(row))
        BY <1>2 DEF Fitting, CacheRow, Whole
      <4> HIDE DEF old
      <4>3. /\ IsFiniteSet({row}) /\ IsFiniteSet({old}) /\ {row} \in SUBSET cacheRows
            /\ Cardinality({row}) = 1 /\ Cardinality({old}) = 1 /\ Cardinality({}) = 0
        BY FS_Singleton, FS_EmptySet
      <4>4. Bytes({old}) = Bytes({row})
        <5>1. CASE Whole(row)
          <6>1. {r \in {row} : Whole(r)} = {row} /\ {r \in {old} : Whole(r)} = {old}
            BY <4>2, <5>1
          <6> QED BY <4>3, <6>1 DEF Bytes
        <5>2. CASE ~Whole(row)
          <6>1. {r \in {row} : Whole(r)} = {} /\ {r \in {old} : Whole(r)} = {}
            BY <4>2, <5>2
          <6> QED BY <4>3, <6>1 DEF Bytes
        <5> QED BY <5>1, <5>2
      <4>5. /\ Bytes(cacheRows \ {row}) = Bytes(cacheRows) - Bytes({row}) /\ Bytes({row}) \in Nat
            /\ IsFiniteSet(cacheRows \ {row})
        <5>1. cacheRows \ {row} \in SUBSET cacheRows
          OBVIOUS
        <5> QED BY <1>2, <4>3, <5>1, BytesCount
      <4>6. /\ IsFiniteSet(cacheRows') /\ Bytes(cacheRows') <= Bytes(cacheRows \ {row}) + Bytes({old})
        BY <4>1, <4>3, <4>5, UnionBytes DEF old
      <4>7. Bytes(cacheRows') \in Nat
        BY <4>6, BytesCount
      <4>8. cacheRows' \subseteq Fitting
        BY <1>2, <4>1, <4>2 DEF old
      <4> QED BY <1>2, <4>4, <4>5, <4>6, <4>7, <4>8
    <3> QED BY <1>4, <3>1, <3>2
  <2>3. CacheShapes'
    BY <1>2, <1>3, <2>1, <2>2 DEF CacheShapes
  <2>4. Settled' = Settled /\ Settled \in Int
    BY <1>1, <1>2, <2>1 DEF Settled
  <2>5. CounterIsBacked'
    BY <1>1, <1>2, <2>1, <2>2, <2>4 DEF CounterIsBacked
  <2> QED BY <2>3, <2>5
<1>5. CASE ConfigChanges \/ TableRotates \/ CounterZeroed
  <2>1. /\ baseline' = baseline /\ (edition' = edition \/ edition' = edition + 1)
        /\ cacheRows' \in {cacheRows, {}} /\ cacheCounter' \in {cacheCounter, 0}
        /\ invalidation' \in {"no", "rotating", "zeroing"}
        /\ \/ invalidations' = invalidations + 1
           \/ invalidation # "no" /\ invalidations' = invalidations
    <3>1. CASE ConfigChanges
      <4>1. /\ baseline' = baseline /\ edition' = edition + 1 /\ invalidations' = invalidations + 1
            /\ invalidation' = "rotating" /\ UNCHANGED <<cacheRows, cacheCounter>>
        BY <3>1 DEF ConfigChanges
      <4> QED BY <4>1
    <3>2. CASE TableRotates
      BY <3>2 DEF TableRotates
    <3>3. CASE CounterZeroed
      BY <3>3 DEF CounterZeroed
    <3> QED BY <1>5, <3>1, <3>2, <3>3
  <2>2. cacheRows' \subseteq Fitting /\ IsFiniteSet(cacheRows')
    BY <1>2, <2>1, FS_EmptySet
  <2>3. CacheShapes'
    BY <1>2, <1>3, <2>1, <2>2 DEF CacheShapes
  <2>4. ~(invalidations' = 0 /\ ~evictedEarly')
    BY <1>1, <1>2, <2>1 DEF CounterIsBacked
  <2> QED BY <2>3, <2>4 DEF CounterIsBacked
<1>6. CASE BaselineReads
  <2>1. /\ UNCHANGED <<cacheRows, cacheCounter, edition, invalidation, invalidations>>
        /\ baseline.at = "start"
        /\ baseline' = [at |-> "read", n |-> Bytes(cacheRows)] \/ baseline' = [baseline EXCEPT !.at = "failed"]
    BY <1>6 DEF BaselineReads
  <2>2. /\ baseline' \in [at : {"start", "read", "done", "failed"}, n : Nat]
        /\ \/ baseline'.at = "failed"
           \/ baseline'.at = "read" /\ baseline'.n = Bytes(cacheRows)
    <3>1. CASE baseline' = [at |-> "read", n |-> Bytes(cacheRows)]
      <4>1. PICK n \in Nat : n = Bytes(cacheRows)
        BY <1>2
      <4> QED BY <3>1, <4>1
    <3>2. CASE baseline' = [baseline EXCEPT !.at = "failed"]
      <4>1. baseline \in [at : {"start", "read", "done", "failed"}, n : Nat]
        BY DEF CacheShapes
      <4>2. "failed" \in {"start", "read", "done", "failed"}
        OBVIOUS
      <4>3. baseline' = [at |-> "failed", n |-> baseline.n]
        BY <3>2, <4>1
      <4>4. PICK n \in Nat : n = baseline.n
        BY <1>2
      <4>5. baseline' = [at |-> "failed", n |-> n]
        BY <4>3, <4>4
      <4> QED BY <4>2, <4>5
    <3> QED BY <2>1, <3>1, <3>2
  <2>3. CacheShapes'
    BY <1>2, <1>3, <2>1, <2>2 DEF CacheShapes
  <2>4. Settled' = Settled /\ Settled \in Int
    BY <1>1, <1>2, <2>1 DEF Settled
  <2>5. CounterIsBacked'
    BY <1>1, <1>2, <2>1, <2>2, <2>4 DEF CounterIsBacked
  <2> QED BY <2>3, <2>5
<1>7. CASE BaselineAdds
  <2>1. /\ UNCHANGED <<cacheRows, edition, invalidation, invalidations>>
        /\ baseline.at = "read" /\ cacheCounter' = cacheCounter + baseline.n
        /\ baseline' = [at |-> "done", n |-> 0]
    BY <1>7 DEF BaselineAdds, BaselineEnds
  <2>2. /\ baseline' \in [at : {"start", "read", "done", "failed"}, n : Nat] /\ baseline'.at = "done"
    BY <2>1
  <2>3. CacheShapes'
    BY <1>2, <1>3, <2>1, <2>2 DEF CacheShapes
  <2>4. \/ storing.at = "resyncing" /\ Settled' = storing.bytes
        \/ Settled' = Settled + baseline.n
    BY <1>1, <1>2, <2>1 DEF Settled
  <2>5. CounterIsBacked'
    BY <1>1, <1>2, <2>1, <2>2, <2>4 DEF CounterIsBacked
  <2> QED BY <2>3, <2>5
<1> QED BY <1>4, <1>5, <1>6, <1>7 DEF TableMoves

\* Every step of the cache keeps its invariant.
LEMMA CacheInvKept == CacheInv /\ [HttpCacheNext]_cacheVars => CacheInv'
<1> SUFFICES ASSUME CacheInv, [HttpCacheNext]_cacheVars PROVE CacheInv'
  OBVIOUS
<1>1. CASE HttpCacheNext
  BY <1>1, VisitsKeep, BatcherKeeps, TableKeeps DEF HttpCacheNext, BatcherMoves, TableMoves
<1>2. CASE UNCHANGED cacheVars
  <2>1. Fitting' = Fitting /\ Settled' = Settled
    BY <1>2 DEF cacheVars, Fitting, Settled
  <2>2. CacheShapes'
    BY <1>2, <2>1 DEF cacheVars, CacheInv, CacheShapes
  <2>3. CounterIsBacked'
    BY <1>2, <2>1 DEF cacheVars, CacheInv, CounterIsBacked
  <2> QED BY <2>2, <2>3 DEF CacheInv
<1> QED BY <1>1, <1>2

\* A settled counter covers the table, and a row that fits its key fits every
\* request with that key, the preload's included.
LEMMA CacheInvIsSafe == CacheInv => HttpCacheTypeOK /\ CacheSafety
<1> SUFFICES ASSUME CacheInv PROVE HttpCacheTypeOK /\ CacheSafety
  OBVIOUS
<1>1. HttpCacheTypeOK
  <2>1. \A row \in cacheRows : row.ed \in 0..edition /\ row.stale \in BOOLEAN
    BY DEF CacheInv, CacheShapes, Fitting, CacheRow
  <2> QED BY <2>1 DEF CacheInv, CacheShapes, Storing, HttpCacheTypeOK
<1>2. HitFitsRequest
  <2>1. \A row \in cacheRows : row.form = row.key[2]
    BY DEF CacheInv, CacheShapes, Fitting
  <2>2. \A p \in GalleryPage \cup OtherPage : CacheKey(PreloadRequest(p)) = PreloadKey(p)
    BY CacheAssumption DEF CacheKey, PreloadRequest, PreloadKey, Variant
  <2>3. \A r \in Request : RenderedForm(r) = CacheKey(r)[2]
    BY RequestsFit
  <2> QED BY <2>1, <2>2, <2>3 DEF HitFitsRequest
<1>3. CounterCoversTable
  BY DEF CacheInv, CounterIsBacked, Settled, CounterCoversTable
<1> QED BY <1>1, <1>2, <1>3 DEF CacheSafety

(* A page from the cache has the form its request asks for, and the counter
   that triggers evictions never shows less than the table holds, for any
   number of visitors, pages, batches and faults (CacheSafety). *)
THEOREM CacheIsSafe == HttpCacheSpec => [](HttpCacheTypeOK /\ CacheSafety)
<1>1. HttpCacheSpec => []CacheInv
  BY CacheBegins, CacheInvKept, PTL DEF HttpCacheSpec
<1> QED BY <1>1, CacheInvIsSafe, PTL

-----------------------------------------------------------------------------
(* The bytes of a page: buffers and codecs.                                *)

Codecs == {"zstd-1", "gzip-6"}
ArraySlice == [array : Array, len : {0, 1}]
BodyLengths == {SizeOf(Plain(<<p>>)) : p \in Body}
BodyEntry == [page : Body, body : [array : Array, len : {1}], contentLength : BodyLengths]
RowOf(p, row) ==
  \/ row = NoStoredBody
  \/ /\ row.contentLength = SizeOf(Plain(<<p>>))
     /\ \E f \in Codecs \cup {"plain"} : row.body = [text |-> <<p>>, form |-> f]
BodyShapes ==
  /\ DOMAIN heap = Array /\ bodyCodec \in Codecs \cup {"identity"}
  /\ capturers \subseteq [array : Array, len : {0}] /\ scratch \in Array \cup {NoArray}
  /\ DOMAIN renderers = Renderer
  /\ \A r \in Renderer : /\ renderers[r].at \in {"idle", "rendering", "captured"}
                         /\ renderers[r].at # "idle" => /\ renderers[r].page \in Body
                                                        /\ renderers[r].buffer \in ArraySlice
  /\ entries \in Seq(BodyEntry) /\ inBatch \in Seq(BodyEntry) /\ bodiesStored \in 0 .. Len(inBatch)
  /\ DOMAIN txBodies = Body /\ DOMAIN bodyRows = Body
  /\ \A p \in Body : RowOf(p, txBodies[p]) /\ RowOf(p, bodyRows[p])

(* The arrays that somebody may still write to, and those of the entries.  *)
EntryArrays == {entries[i].body.array : i \in DOMAIN entries}
                 \cup {inBatch[i].body.array : i \in DOMAIN inBatch}
PoolArrays == {s.array : s \in capturers}
Busy(r) == renderers[r].at # "idle"
NobodyShares ==
  /\ PoolArrays \cap (EntryArrays \cup {scratch}) = {} /\ scratch \notin EntryArrays
  /\ \A r \in Renderer : Busy(r) =>
       /\ renderers[r].buffer.array \notin PoolArrays \cup EntryArrays \cup {scratch}
       /\ \A q \in Renderer \ {r} : Busy(q) => renderers[q].buffer.array # renderers[r].buffer.array

(* What a request has captured, and what an entry carries, is its page.    *)
Holds(h, e) ==
  /\ h[e.body.array].text = <<e.page>> /\ h[e.body.array].form \in Codecs \cup {"plain"}
  /\ e.contentLength = SizeOf(Plain(<<e.page>>))
PagesAreHeld ==
  /\ \A r \in Renderer :
       /\ renderers[r].at = "rendering" => renderers[r].buffer.len = 0
       /\ renderers[r].at = "captured" => /\ renderers[r].buffer.len = 1
            /\ heap[renderers[r].buffer.array] = Plain(<<renderers[r].page>>)
  /\ \A i \in DOMAIN entries : Holds(heap, entries[i])
  /\ \A i \in DOMAIN inBatch : Holds(heap, inBatch[i])

BodyInv == BodyShapes /\ NobodyShares /\ PagesAreHeld

-----------------------------------------------------------------------------
\* The registry knows zstd-1 and gzip-6, and nothing else.
LEMMA Registered == \A id : Lookup(id) <=> id \in Codecs
<1>1. /\ Zstd.magic = {"28b52ffd"} /\ Gzip.magic = {"1f8b"} /\ Zstd.id = "zstd-1" /\ Gzip.id = "gzip-6"
  BY DEF Zstd, Gzip
<1>2. Register({}, Zstd) = {Zstd}
  BY <1>1 DEF Register
<1>3. Register({Zstd}, Gzip) = {Zstd, Gzip}
  BY <1>1 DEF Register
<1>4. RegisterDefaults = {Zstd, Gzip}
  BY <1>2, <1>3 DEF RegisterDefaults
<1> QED BY <1>1, <1>4 DEF Lookup, Codecs

\* A page is one symbol: rendering it into an empty slice gives it alone.
LEMMA OnePage ==
  /\ \A p : SubSeq(<<p>>, 1, 1) = <<p>>
  /\ \A s, p : Append(SubSeq(s, 1, 0), p) = <<p>>
<1>1. ASSUME NEW p PROVE SubSeq(<<p>>, 1, 1) = <<p>>
  <2>1. <<p>> \in Seq({p}) /\ Len(<<p>>) = 1
    OBVIOUS
  <2> QED BY <2>1, SubSeqFull
<1>2. \A s : SubSeq(s, 1, 0) = <<>>
  BY SubSeqEmpty
<1>3. \A p : Append(<<>>, p) = <<p>>
  OBVIOUS
<1> QED BY <1>1, <1>2, <1>3

\* Nobody holds an array at the start, and no page is stored.
LEMMA BodiesBegin == BodyCodecInit => BodyInv
<1> SUFFICES ASSUME BodyCodecInit PROVE BodyInv
  OBVIOUS
<1>1. \A r \in Renderer : renderers[r].at = "idle"
  BY DEF BodyCodecInit, Resting
<1>2. entries = <<>> /\ inBatch = <<>> /\ entries \in Seq(BodyEntry) /\ Len(inBatch) = 0
      /\ bodiesStored = 0 /\ capturers = {} /\ scratch = NoArray
  BY DEF BodyCodecInit
<1>3. BodyShapes
  BY <1>1, <1>2 DEF BodyCodecInit, BodyShapes, RowOf, Codecs
<1>4. EntryArrays = {} /\ PoolArrays = {}
  BY <1>2 DEF EntryArrays, PoolArrays
<1>5. NobodyShares
  BY <1>1, <1>2, <1>4 DEF NobodyShares, Busy
<1>6. PagesAreHeld
  BY <1>1, <1>2 DEF PagesAreHeld
<1> QED BY <1>3, <1>5, <1>6 DEF BodyInv

\* A stored row names its page and a form DecodeForServe can tell.
LEMMA BodyInvComesBack == BodyInv => BodyCodecTypeOK /\ BodiesComeBack
<1> SUFFICES ASSUME BodyInv PROVE BodyCodecTypeOK /\ BodiesComeBack
  OBVIOUS
<1>1. BodyCodecTypeOK
  BY DEF BodyInv, BodyShapes, Codecs, BodyCodecTypeOK
<1>2. ASSUME NEW p \in Body, bodyRows[p] # NoStoredBody
      PROVE  DecodeForServe(bodyRows[p]) = Plain(<<p>>)
  <2> DEFINE row == bodyRows[p]
  <2>1. row.contentLength = SizeOf(Plain(<<p>>))
    BY <1>2 DEF BodyInv, BodyShapes, RowOf
  <2>2. PICK f \in Codecs \cup {"plain"} : row.body = [text |-> <<p>>, form |-> f]
    BY <1>2 DEF BodyInv, BodyShapes, RowOf
  <2>3. row.body.text = <<p>> /\ row.body.form = f
    BY <2>2
  <2> HIDE DEF row
  <2>4. CASE f \in Codecs
    <3>1. Lookup(row.body.form)
      BY <2>3, <2>4, Registered
    <3>2. DecodeForServe(row) = Decompress(row.body, row.contentLength)
      BY <3>1 DEF DecodeForServe
    <3> QED BY <2>1, <2>3, <3>2 DEF Decompress, row
  <2>5. CASE f = "plain"
    <3>1. ~Lookup(row.body.form)
      BY <2>3, <2>5, Registered DEF Codecs
    <3>2. row.body = Plain(<<p>>)
      BY <2>2, <2>5 DEF Plain
    <3> QED BY <2>1, <3>1, <3>2 DEF DecodeForServe, row
  <2> QED BY <2>4, <2>5
<1> QED BY <1>1, <1>2 DEF BodiesComeBack

\* What the invariant says of one entry, of a request and of a free array.
LEMMA EntriesAre ==
  ASSUME BodyInv
  PROVE  /\ DOMAIN entries = 1 .. Len(entries) /\ DOMAIN inBatch = 1 .. Len(inBatch)
         /\ Len(entries) \in Nat /\ Len(inBatch) \in Nat
         /\ \A i \in DOMAIN entries : /\ entries[i] \in BodyEntry /\ entries[i].page \in Body
                                      /\ entries[i].body.array \in Array \cap EntryArrays
         /\ \A i \in DOMAIN inBatch : /\ inBatch[i] \in BodyEntry /\ inBatch[i].page \in Body
                                      /\ inBatch[i].body.array \in Array \cap EntryArrays
<1>1. entries \in Seq(BodyEntry) /\ inBatch \in Seq(BodyEntry)
  BY DEF BodyInv, BodyShapes
<1>2. /\ DOMAIN entries = 1 .. Len(entries) /\ DOMAIN inBatch = 1 .. Len(inBatch)
      /\ Len(entries) \in Nat /\ Len(inBatch) \in Nat
      /\ \A i \in DOMAIN entries : entries[i] \in BodyEntry
      /\ \A i \in DOMAIN inBatch : inBatch[i] \in BodyEntry
  BY <1>1, LenProperties, ElementOfSeq
<1> QED BY <1>2 DEF BodyEntry, EntryArrays

\* An array nobody refers to is in no pool, no entry and no request.
LEMMA UnusedIsFree ==
  ASSUME BodyInv, NEW a \in Unused
  PROVE  /\ a \in Array /\ a \notin PoolArrays \cup EntryArrays \cup {scratch}
         /\ \A q \in Renderer : renderers[q].buffer.array # a
  BY DEF Unused, Referenced, PoolArrays, EntryArrays

\* A request takes a buffer for itself, out of the pool or made anew.
LEMMA TakingKeeps ==
  ASSUME BodyInv, NEW r \in Renderer, NEW p \in Body, TakesCapturer(r, p)
  PROVE  BodyInv'
<1> USE DEF BodyInv
<1>1. PICK s \in [array : Array, len : {0}] :
        /\ renderers' = [renderers EXCEPT ![r] = [at |-> "rendering", page |-> p, buffer |-> s]]
        /\ capturers' \subseteq capturers
        /\ s.array \notin PoolArrays' \cup EntryArrays \cup {scratch}
        /\ \A q \in Renderer : Busy(q) => renderers[q].buffer.array # s.array
  <2>1. CASE \E s \in capturers : capturers' = capturers \ {s} /\ Capturing(r, "rendering", p, s)
    <3>1. PICK s \in capturers : capturers' = capturers \ {s} /\ Capturing(r, "rendering", p, s)
      BY <2>1
    <3>2. s \in [array : Array, len : {0}] /\ s.array \in PoolArrays
      BY DEF BodyShapes, PoolArrays
    <3>3. s.array \notin PoolArrays'
      <4>1. \A t \in capturers : t.array = s.array => t = s
        BY DEF BodyShapes
      <4> QED BY <3>1, <4>1 DEF PoolArrays
    <3> QED BY <3>1, <3>2, <3>3 DEF Capturing, NobodyShares
  <2>2. CASE capturers' = capturers /\ Unused # {} /\ Capturing(r, "rendering", p, Slice(Fresh, 0))
    <3>1. Fresh \in Unused
      BY <2>2 DEF Fresh
    <3>2. /\ Fresh \in Array /\ Fresh \notin PoolArrays \cup EntryArrays \cup {scratch}
          /\ \A q \in Renderer : renderers[q].buffer.array # Fresh
      BY <3>1, UnusedIsFree
    <3>3. Slice(Fresh, 0) \in [array : Array, len : {0}] /\ Slice(Fresh, 0).array = Fresh
      BY <3>2 DEF Slice
    <3>4. PoolArrays' = PoolArrays
      BY <2>2 DEF PoolArrays
    <3> QED BY <2>2, <3>2, <3>3, <3>4 DEF Capturing
  <2> QED BY <2>1, <2>2 DEF TakesCapturer
<1>2. UNCHANGED <<heap, bodyCodec, scratch, entries, inBatch, bodiesStored, txBodies, bodyRows>>
  BY DEF TakesCapturer
<1>3. /\ renderers'[r].at = "rendering" /\ renderers'[r].page = p /\ renderers'[r].buffer = s
      /\ DOMAIN renderers' = Renderer /\ s.len = 0
      /\ \A q \in Renderer \ {r} : renderers'[q] = renderers[q]
  BY <1>1 DEF BodyShapes
<1>4. EntryArrays' = EntryArrays /\ PoolArrays' \subseteq PoolArrays
  BY <1>1, <1>2 DEF EntryArrays, PoolArrays
<1>5. BodyShapes'
  <2>1. \A q \in Renderer :
           /\ renderers'[q].at \in {"idle", "rendering", "captured"}
           /\ renderers'[q].at # "idle" => renderers'[q].page \in Body /\ renderers'[q].buffer \in ArraySlice
    BY <1>1, <1>3 DEF BodyShapes, ArraySlice
  <2> QED BY ZenonT(30), <1>1, <1>2, <1>3, <2>1 DEF BodyShapes, RowOf
<1>6. NobodyShares'
  BY <1>1, <1>2, <1>3, <1>4 DEF NobodyShares, Busy
<1>7. PagesAreHeld'
  BY SMTT(30), <1>2, <1>3 DEF PagesAreHeld, Holds
<1> QED BY <1>5, <1>6, <1>7

\* Rendering writes only into the request's own array.
LEMMA RenderingKeeps ==
  ASSUME BodyInv, NEW r \in Renderer, RenderGalleryInto(r)
  PROVE  BodyInv'
<1> USE DEF BodyInv
<1> DEFINE s == renderers[r].buffer
           p == renderers[r].page
<1>1. /\ s.len = 0 /\ s.array \in Array /\ s \in ArraySlice /\ p \in Body /\ Busy(r)
      /\ heap' = Appended(heap, s, p) /\ Capturing(r, "captured", p, Slice(s.array, s.len + 1))
      /\ UNCHANGED <<bodyCodec, capturers, scratch, entries, inBatch, bodiesStored, txBodies, bodyRows>>
  BY DEF RenderGalleryInto, BodyShapes, PagesAreHeld, Busy, ArraySlice
<1> HIDE DEF p
<1>2. /\ heap'[s.array] = Plain(<<p>>) /\ DOMAIN heap' = Array
      /\ \A a \in Array : a # s.array => heap'[a] = heap[a]
  BY <1>1, OnePage DEF Appended, BodyShapes
<1>3. /\ renderers'[r].at = "captured" /\ renderers'[r].page = p
      /\ renderers'[r].buffer = [array |-> s.array, len |-> 1]
      /\ DOMAIN renderers' = Renderer
      /\ \A q \in Renderer \ {r} : renderers'[q] = renderers[q]
  BY <1>1 DEF Capturing, Slice, BodyShapes
<1> HIDE DEF s
<1>4. EntryArrays' = EntryArrays /\ PoolArrays' = PoolArrays
  BY <1>1 DEF EntryArrays, PoolArrays
<1>5. BodyShapes'
  <2>1. \A q \in Renderer :
           /\ renderers'[q].at \in {"idle", "rendering", "captured"}
           /\ renderers'[q].at # "idle" => renderers'[q].page \in Body /\ renderers'[q].buffer \in ArraySlice
    BY <1>1, <1>3 DEF BodyShapes, ArraySlice
  <2> QED BY <1>1, <1>2, <1>3, <2>1 DEF BodyShapes, RowOf
<1>6. NobodyShares'
  <2>1. s.array = renderers[r].buffer.array
    BY DEF s
  <2> QED BY <1>1, <1>3, <1>4, <2>1 DEF NobodyShares, Busy
<1>7. PagesAreHeld'
  <2>1. s.array = renderers[r].buffer.array /\ s.array \notin EntryArrays
    BY <1>1 DEF s, NobodyShares
  <2>2. \A q \in Renderer \ {r} : renderers[q].at = "captured" =>
          heap'[renderers[q].buffer.array] = heap[renderers[q].buffer.array]
    BY <1>1, <1>2, <2>1 DEF NobodyShares, Busy, BodyShapes, ArraySlice
  <2>3. \A a \in Array \cap EntryArrays : heap'[a] = heap[a]
    BY <1>2, <2>1
  <2>4. \A q \in Renderer :
           /\ renderers'[q].at = "rendering" => renderers'[q].buffer.len = 0
           /\ renderers'[q].at = "captured" => /\ renderers'[q].buffer.len = 1
                /\ heap'[renderers'[q].buffer.array] = Plain(<<renderers'[q].page>>)
    BY <1>2, <1>3, <2>2 DEF PagesAreHeld
  <2> QED BY ZenonT(30), <1>1, <2>3, <2>4, EntriesAre DEF PagesAreHeld, Holds
<1> QED BY <1>5, <1>6, <1>7

\* A request that rests holds nothing: the rest stays disjoint.
LEMMA PuttingKeeps ==
  ASSUME BodyInv, NEW r \in Renderer, PutsCapturer(r)
  PROVE  BodyInv'
<1> USE DEF BodyInv
<1> DEFINE s == renderers[r].buffer
<1>1. /\ s.array \in Array /\ s \in ArraySlice /\ Busy(r)
      /\ capturers' = capturers \cup {Slice(s.array, 0)}
      /\ renderers' = [renderers EXCEPT ![r] = Resting]
      /\ UNCHANGED <<heap, bodyCodec, scratch, entries, inBatch, bodiesStored, txBodies, bodyRows>>
  BY DEF PutsCapturer, BodyShapes, Busy, ArraySlice, Emptied
<1>2. /\ renderers'[r].at = "idle" /\ DOMAIN renderers' = Renderer
      /\ \A q \in Renderer \ {r} : renderers'[q] = renderers[q]
  BY <1>1 DEF Resting, BodyShapes
<1>3. Slice(s.array, 0) \in [array : Array, len : {0}] /\ Slice(s.array, 0).array = s.array
  BY <1>1 DEF Slice
<1> HIDE DEF s
<1>4. EntryArrays' = EntryArrays /\ PoolArrays' = PoolArrays \cup {s.array}
  BY <1>1, <1>3 DEF EntryArrays, PoolArrays
<1>5. s.array = renderers[r].buffer.array
  BY DEF s
<1>6. BodyShapes'
  BY <1>1, <1>2, <1>3 DEF BodyShapes, RowOf
<1>7. NobodyShares'
  <2>1. s.array \notin PoolArrays \cup EntryArrays \cup {scratch}
    BY <1>1, <1>5 DEF NobodyShares
  <2>2. PoolArrays' \cap (EntryArrays' \cup {scratch'}) = {} /\ scratch' \notin EntryArrays'
    BY <1>1, <1>4, <2>1 DEF NobodyShares
  <2>3. ASSUME NEW q \in Renderer, Busy(q)'
        PROVE  /\ renderers'[q].buffer.array \notin PoolArrays' \cup EntryArrays' \cup {scratch'}
               /\ \A t \in Renderer \ {q} : Busy(t)' => renderers'[t].buffer.array # renderers'[q].buffer.array
    <3>1. q # r /\ Busy(q)
      BY <1>2, <2>3 DEF Busy
    <3> QED BY <1>1, <1>2, <1>4, <1>5, <2>3, <3>1 DEF NobodyShares, Busy
  <2> QED BY <2>2, <2>3 DEF NobodyShares
<1>8. PagesAreHeld'
  BY <1>1, <1>2 DEF PagesAreHeld, Holds
<1> QED BY <1>6, <1>7, <1>8

\* The array of the buffer becomes the entry's, and nobody else's.
LEMMA KeepingKeeps ==
  ASSUME BodyInv, NEW r \in Renderer, Keeps(r)
  PROVE  BodyInv'
<1> USE DEF BodyInv
<1> DEFINE s == renderers[r].buffer
           p == renderers[r].page
           e == [page |-> p, body |-> s, contentLength |-> SizeOf(Plain(<<p>>))]
<1>1. /\ s.array \in Array /\ s = [array |-> s.array, len |-> 1] /\ p \in Body /\ Busy(r)
      /\ heap[s.array] = Plain(<<p>>)
      /\ entries' = Append(entries, Entry(p, s)) /\ renderers' = [renderers EXCEPT ![r] = Resting]
      /\ UNCHANGED <<heap, bodyCodec, capturers, scratch, inBatch, bodiesStored, txBodies, bodyRows>>
  BY DEF Keeps, BodyShapes, Busy, ArraySlice, PagesAreHeld
<1> HIDE DEF s, p
<1>2. Contents(s) = Plain(<<p>>)
  <2>1. heap[s.array].text = <<p>> /\ heap[s.array].form = "plain" /\ s.len = 1
    BY <1>1 DEF Plain
  <2> QED BY <2>1, OnePage DEF Contents, Plain
<1>3. Entry(p, s) = e
  BY <1>2 DEF Entry
<1>4. /\ e \in BodyEntry /\ e.body.array = s.array /\ e.page = p
      /\ e.contentLength = SizeOf(Plain(<<p>>))
  <2>1. s.array \in Array /\ s = [array |-> s.array, len |-> 1]
    BY <1>1
  <2>2. s \in [array : Array, len : {1}]
    BY <2>1
  <2>3. SizeOf(Plain(<<p>>)) \in BodyLengths
    BY <1>1 DEF BodyLengths
  <2> QED BY <1>1, <2>2, <2>3 DEF BodyEntry
<1> HIDE DEF e
<1>5. /\ entries' \in Seq(BodyEntry) /\ DOMAIN entries' = DOMAIN entries \cup {Len(entries) + 1}
      /\ \A i \in DOMAIN entries : entries'[i] = entries[i]
      /\ entries'[Len(entries) + 1] = e
  <2>1. entries \in Seq(BodyEntry)
    BY DEF BodyShapes
  <2>2. entries' = Append(entries, e)
    BY <1>1, <1>3
  <2>3. entries' \in Seq(BodyEntry) /\ Len(entries') = Len(entries) + 1
    BY <1>4, <2>1, <2>2, AppendProperties
  <2>4. /\ DOMAIN entries' = 1..(Len(entries) + 1) /\ DOMAIN entries = 1..Len(entries)
        /\ Len(entries) \in Nat
    BY <2>1, <2>3, LenProperties
  <2>5. /\ \A i \in 1..Len(entries) : entries'[i] = entries[i]
        /\ entries'[Len(entries) + 1] = e
    BY <1>4, <2>1, <2>2, AppendProperties
  <2> QED BY <2>3, <2>4, <2>5
<1>6. /\ renderers'[r].at = "idle" /\ DOMAIN renderers' = Renderer
      /\ \A q \in Renderer \ {r} : renderers'[q] = renderers[q]
  BY <1>1 DEF Resting, BodyShapes
<1>7. EntryArrays' = EntryArrays \cup {s.array} /\ PoolArrays' = PoolArrays
  BY <1>1, <1>4, <1>5 DEF EntryArrays, PoolArrays
<1>8. s.array = renderers[r].buffer.array
  BY DEF s
<1>9. BodyShapes'
  BY <1>1, <1>5, <1>6 DEF BodyShapes, RowOf
<1>10. NobodyShares'
  <2>1. s.array \notin PoolArrays \cup EntryArrays \cup {scratch}
    BY <1>1, <1>8 DEF NobodyShares
  <2>2. PoolArrays' \cap (EntryArrays' \cup {scratch'}) = {} /\ scratch' \notin EntryArrays'
    BY <1>1, <1>7, <2>1 DEF NobodyShares
  <2>3. ASSUME NEW q \in Renderer, Busy(q)'
        PROVE  /\ renderers'[q].buffer.array \notin PoolArrays' \cup EntryArrays' \cup {scratch'}
               /\ \A t \in Renderer \ {q} : Busy(t)' => renderers'[t].buffer.array # renderers'[q].buffer.array
    <3>1. q # r /\ Busy(q)
      BY <1>6, <2>3 DEF Busy
    <3> QED BY <1>1, <1>6, <1>7, <1>8, <2>3, <3>1 DEF NobodyShares, Busy
  <2> QED BY <2>2, <2>3 DEF NobodyShares
<1>11. PagesAreHeld'
  <2>1. heap[s.array].text = <<p>> /\ heap[s.array].form = "plain"
    BY <1>1 DEF Plain
  <2>2. Holds(heap, e)
    BY <1>4, <2>1 DEF Holds
  <2> QED BY <1>1, <1>5, <1>6, <2>2 DEF PagesAreHeld
<1> QED BY <1>9, <1>10, <1>11

\* What only hands entries over, or drops them, keeps everything apart.
LEMMA HandingKeeps ==
  ASSUME BodyInv, UNCHANGED renderers,
         DOMAIN heap' = Array, \A a \in Array : a \in Referenced' => heap'[a] = heap[a],
         bodyCodec' \in Codecs \cup {"identity"},
         \/ capturers' = capturers /\ scratch' = scratch
         \/ capturers' = {} /\ scratch' = NoArray,
         entries' \in Seq(BodyEntry), inBatch' \in Seq(BodyEntry), bodiesStored' \in 0 .. Len(inBatch'),
         \A i \in DOMAIN entries' : \/ \E j \in DOMAIN entries : entries'[i] = entries[j]
                                   \/ \E j \in DOMAIN inBatch : entries'[i] = inBatch[j],
         \A i \in DOMAIN inBatch' : \/ \E j \in DOMAIN entries : inBatch'[i] = entries[j]
                                   \/ \E j \in DOMAIN inBatch : inBatch'[i] = inBatch[j],
         DOMAIN txBodies' = Body, DOMAIN bodyRows' = Body,
         \A p \in Body : RowOf(p, txBodies'[p]) /\ RowOf(p, bodyRows'[p])
  PROVE  BodyInv'
<1> USE DEF BodyInv
<1>1. capturers' \subseteq capturers /\ scratch' \in {scratch, NoArray}
  OBVIOUS
<1>2. BodyShapes'
  BY <1>1 DEF BodyShapes, RowOf
<1>3. EntryArrays' \subseteq EntryArrays /\ PoolArrays' \subseteq PoolArrays
  BY <1>1 DEF EntryArrays, PoolArrays
<1>4. NobodyShares'
  <2>1. /\ NoArray \notin EntryArrays
        /\ \A r \in Renderer : Busy(r) => renderers[r].buffer.array \in Array
    BY BodyCodecAssumption, EntriesAre DEF EntryArrays, BodyShapes, Busy, ArraySlice
  <2>2. PoolArrays' \cap (EntryArrays' \cup {scratch'}) = {} /\ scratch' \notin EntryArrays'
    <3>1. CASE capturers' = capturers /\ scratch' = scratch
      BY <1>3, <3>1 DEF NobodyShares
    <3>2. CASE capturers' = {} /\ scratch' = NoArray
      BY <1>3, <2>1, <3>2 DEF PoolArrays
    <3> QED BY <3>1, <3>2
  <2>3. ASSUME NEW q \in Renderer, Busy(q)
        PROVE  /\ renderers[q].buffer.array \notin PoolArrays' \cup EntryArrays' \cup {scratch'}
               /\ \A t \in Renderer \ {q} : Busy(t) => renderers[t].buffer.array # renderers[q].buffer.array
    BY <1>1, <1>3, <2>1, <2>3, BodyCodecAssumption DEF NobodyShares
  <2> QED BY <2>2, <2>3 DEF NobodyShares, Busy
<1>5. PagesAreHeld'
  <2>1. /\ \A r \in Renderer : renderers[r].buffer.array \in Referenced'
        /\ \A i \in DOMAIN entries' : entries'[i].body.array \in Referenced'
        /\ \A i \in DOMAIN inBatch' : inBatch'[i].body.array \in Referenced'
    BY DEF Referenced
  <2>2. \A r \in Renderer :
       /\ renderers[r].at = "rendering" => renderers[r].buffer.len = 0
       /\ renderers[r].at = "captured" => /\ renderers[r].buffer.len = 1
            /\ heap'[renderers[r].buffer.array] = Plain(<<renderers[r].page>>)
    BY <2>1 DEF PagesAreHeld, BodyShapes, ArraySlice
  <2>3. ASSUME NEW i \in DOMAIN entries'
        PROVE  Holds(heap', entries'[i])
    <3>1. PICK e : e = entries'[i] /\ Holds(heap, e) /\ e.body.array \in Array
      BY EntriesAre DEF PagesAreHeld
    <3>2. heap'[e.body.array] = heap[e.body.array]
      BY <2>1, <3>1
    <3> QED BY <3>1, <3>2 DEF Holds
  <2>4. ASSUME NEW i \in DOMAIN inBatch'
        PROVE  Holds(heap', inBatch'[i])
    <3>1. PICK e : e = inBatch'[i] /\ Holds(heap, e) /\ e.body.array \in Array
      BY EntriesAre DEF PagesAreHeld
    <3>2. heap'[e.body.array] = heap[e.body.array]
      BY <2>1, <3>1
    <3> QED BY <3>1, <3>2 DEF Holds
  <2> QED BY <2>2, <2>3, <2>4 DEF PagesAreHeld
<1> QED BY <1>2, <1>4, <1>5

\* The steps that only hand entries over.
LEMMA ConfiguringKeeps ==
  ASSUME BodyInv, NEW id \in {"", "identity", "zstd-1", "gzip-6", "unknown"}, ConfigureBodyCodec(id)
  PROVE  BodyInv'
<1>1. bodyCodec' \in Codecs \cup {"identity"}
  BY Registered DEF ConfigureBodyCodec, ValidateWriteCodecID, BodyInv, BodyShapes, Codecs
<1>2. UNCHANGED <<heap, capturers, renderers, scratch, entries, inBatch, bodiesStored, txBodies, bodyRows>>
  BY DEF ConfigureBodyCodec
<1>3. BodyShapes'
  BY <1>1, <1>2 DEF BodyInv, BodyShapes, RowOf
<1>4. NobodyShares'
  <2>1. EntryArrays' = EntryArrays /\ PoolArrays' = PoolArrays /\ \A r \in Renderer : Busy(r)' <=> Busy(r)
    BY <1>2 DEF EntryArrays, PoolArrays, Busy
  <2> QED BY <1>2, <2>1 DEF BodyInv, NobodyShares
<1>5. PagesAreHeld'
  BY <1>2 DEF BodyInv, PagesAreHeld, Holds
<1> QED BY <1>3, <1>4, <1>5 DEF BodyInv

\* The entries move into the batch as they are.
LEMMA TakingTheBatchKeeps ==
  ASSUME BodyInv, BatchTakes
  PROVE  BodyInv'
<1>1. /\ inBatch = <<>> /\ inBatch' = entries /\ entries' = <<>> /\ bodiesStored' = 0
      /\ txBodies' = bodyRows
      /\ UNCHANGED <<heap, bodyCodec, capturers, renderers, scratch, bodyRows>>
  BY DEF BatchTakes
<1>2. /\ entries' \in Seq(BodyEntry) /\ inBatch' \in Seq(BodyEntry) /\ bodiesStored' \in 0 .. Len(inBatch')
      /\ DOMAIN entries' = {}
  BY <1>1, EntriesAre DEF BodyInv, BodyShapes
<1>3. /\ DOMAIN heap = Array /\ bodyCodec \in Codecs \cup {"identity"}
      /\ DOMAIN bodyRows = Body /\ \A p \in Body : RowOf(p, bodyRows[p])
  BY DEF BodyInv, BodyShapes
<1> QED BY <1>1, <1>2, <1>3, HandingKeeps

\* They come back behind the others with the bodies they have now.
LEMMA RollingBackKeeps ==
  ASSUME BodyInv, BodiesRollBack
  PROVE  BodyInv'
<1>1. /\ entries' = entries \o inBatch /\ inBatch' = <<>> /\ bodiesStored' = 0
      /\ txBodies' = bodyRows
      /\ UNCHANGED <<heap, bodyCodec, capturers, renderers, scratch, bodyRows>>
  BY DEF BodiesRollBack
<1>2. entries \in Seq(BodyEntry) /\ inBatch \in Seq(BodyEntry)
  BY DEF BodyInv, BodyShapes
<1>3. /\ entries' \in Seq(BodyEntry) /\ Len(entries') = Len(entries) + Len(inBatch)
      /\ \A i \in 1 .. (Len(entries) + Len(inBatch)) :
            entries'[i] = IF i <= Len(entries) THEN entries[i] ELSE inBatch[i - Len(entries)]
  BY <1>1, <1>2, ConcatProperties
<1>4. \A i \in DOMAIN entries' : \/ \E j \in DOMAIN entries : entries'[i] = entries[j]
                                 \/ \E j \in DOMAIN inBatch : entries'[i] = inBatch[j]
  <2> SUFFICES ASSUME NEW i \in DOMAIN entries'
               PROVE  \/ \E j \in DOMAIN entries : entries'[i] = entries[j]
                      \/ \E j \in DOMAIN inBatch : entries'[i] = inBatch[j]
    OBVIOUS
  <2>1. i \in 1 .. (Len(entries) + Len(inBatch))
    BY <1>3, LenProperties
  <2>2. CASE i <= Len(entries)
    BY <1>3, <2>1, <2>2, EntriesAre
  <2>3. CASE ~(i <= Len(entries))
    <3>1. i - Len(entries) \in DOMAIN inBatch
      BY <2>1, <2>3, EntriesAre
    <3> QED BY <1>3, <2>1, <2>3, <3>1
  <2> QED BY <2>2, <2>3
<1>5. inBatch' \in Seq(BodyEntry) /\ bodiesStored' \in 0 .. Len(inBatch') /\ DOMAIN inBatch' = {}
  BY <1>1
<1>6. /\ DOMAIN heap = Array /\ bodyCodec \in Codecs \cup {"identity"}
      /\ DOMAIN bodyRows = Body /\ \A p \in Body : RowOf(p, bodyRows[p])
  BY DEF BodyInv, BodyShapes
<1> QED BY <1>1, <1>3, <1>4, <1>5, <1>6, HandingKeeps

\* The transaction's rows become the table's; the batch is garbage.
LEMMA CommittingKeeps ==
  ASSUME BodyInv, BodiesCommit
  PROVE  BodyInv'
<1>1. /\ inBatch' = <<>> /\ bodiesStored' = 0 /\ bodyRows' = txBodies
      /\ heap' = Collected(heap)
      /\ UNCHANGED <<bodyCodec, capturers, renderers, scratch, entries, txBodies>>
  BY DEF BodiesCommit
<1>2. inBatch' \in Seq(BodyEntry) /\ bodiesStored' \in 0 .. Len(inBatch') /\ DOMAIN inBatch' = {}
  BY <1>1
<1>3. DOMAIN heap' = Array /\ \A a \in Array : a \in Referenced' => heap'[a] = heap[a]
  BY <1>1 DEF Collected
<1>4. /\ bodyCodec \in Codecs \cup {"identity"} /\ entries \in Seq(BodyEntry)
      /\ DOMAIN txBodies = Body /\ \A p \in Body : RowOf(p, txBodies[p])
  BY DEF BodyInv, BodyShapes
<1> QED BY <1>1, <1>2, <1>3, <1>4, HandingKeeps

\* An emptied pool lets its arrays go; the encoder starts on a new one.
LEMMA EmptyingKeeps ==
  ASSUME BodyInv, PoolsEmptied
  PROVE  BodyInv'
<1>1. /\ scratch' = NoArray /\ capturers' = {} /\ heap' = Collected(heap)
      /\ UNCHANGED <<bodyCodec, renderers, entries, inBatch, bodiesStored, txBodies, bodyRows>>
  BY DEF PoolsEmptied
<1>2. DOMAIN heap' = Array /\ \A a \in Array : a \in Referenced' => heap'[a] = heap[a]
  BY <1>1 DEF Collected
<1>3. /\ bodyCodec \in Codecs \cup {"identity"} /\ entries \in Seq(BodyEntry)
      /\ inBatch \in Seq(BodyEntry) /\ bodiesStored \in 0 .. Len(inBatch)
      /\ DOMAIN txBodies = Body /\ DOMAIN bodyRows = Body
      /\ \A p \in Body : RowOf(p, txBodies[p]) /\ RowOf(p, bodyRows[p])
  BY DEF BodyInv, BodyShapes
<1> QED BY <1>1, <1>2, <1>3, HandingKeeps

\* The entry being stored, and the row it becomes.
LEMMA NextInBatch ==
  ASSUME BodyInv, bodiesStored < Len(inBatch)
  PROVE  /\ bodiesStored + 1 \in DOMAIN inBatch /\ bodiesStored + 1 \in 0 .. Len(inBatch)
         /\ inBatch[bodiesStored + 1] \in BodyEntry
         /\ Holds(heap, inBatch[bodiesStored + 1])
         /\ inBatch[bodiesStored + 1].body.len = 1
         /\ inBatch[bodiesStored + 1].page \in Body
         /\ inBatch[bodiesStored + 1].body.array \in Array
<1>1. bodiesStored \in Nat
  BY EntriesAre DEF BodyInv, BodyShapes
<1>2. bodiesStored + 1 \in DOMAIN inBatch /\ bodiesStored + 1 \in 0 .. Len(inBatch)
  BY <1>1, EntriesAre
<1> QED BY <1>2, EntriesAre DEF BodyInv, PagesAreHeld, BodyEntry

\* An entry that holds its page becomes a row of that page.
LEMMA UpsertedIsGood ==
  ASSUME BodyInv, NEW e, e.page \in Body, e.contentLength = SizeOf(Plain(<<e.page>>)),
         NEW s, s.len = 1, NEW h, h[s.array].text = <<e.page>>, h[s.array].form \in Codecs \cup {"plain"}
  PROVE  /\ DOMAIN UpsertedBody(e, s, h) = Body
         /\ \A p \in Body : RowOf(p, UpsertedBody(e, s, h)[p])
<1> DEFINE row == [body |-> [text |-> SubSeq(h[s.array].text, 1, s.len), form |-> h[s.array].form],
                   contentLength |-> e.contentLength]
<1>1. DOMAIN txBodies = Body /\ \A p \in Body : RowOf(p, txBodies[p])
  BY DEF BodyInv, BodyShapes
<1>2. row.body = [text |-> <<e.page>>, form |-> h[s.array].form]
      /\ row.contentLength = SizeOf(Plain(<<e.page>>))
  BY OnePage
<1>3. UpsertedBody(e, s, h) = [txBodies EXCEPT ![e.page] = row]
  BY DEF UpsertedBody
<1> HIDE DEF row
<1>4. RowOf(e.page, row)
  BY <1>2 DEF RowOf
<1> QED BY <1>1, <1>3, <1>4

\* A body that is left as it is goes to its row unchanged.
LEMMA StoringPlainKeeps ==
  ASSUME BodyInv, StoresPlain
  PROVE  BodyInv'
<1> DEFINE e == inBatch[bodiesStored + 1]
<1>1. /\ bodiesStored < Len(inBatch) /\ txBodies' = UpsertedBody(e, e.body, heap)
      /\ bodiesStored' = bodiesStored + 1
      /\ UNCHANGED <<heap, bodyCodec, capturers, renderers, scratch, entries, inBatch, bodyRows>>
  BY DEF StoresPlain
<1>2. /\ bodiesStored' \in 0 .. Len(inBatch) /\ e \in BodyEntry /\ Holds(heap, e) /\ e.page \in Body
      /\ e.body.len = 1
  BY <1>1, NextInBatch
<1> HIDE DEF e
<1>3. DOMAIN txBodies' = Body /\ \A p \in Body : RowOf(p, txBodies'[p])
  <2>1. DOMAIN UpsertedBody(e, e.body, heap) = Body
        /\ \A p \in Body : RowOf(p, UpsertedBody(e, e.body, heap)[p])
    BY <1>2, UpsertedIsGood DEF Holds
  <2> QED BY <1>1, <2>1
<1>4. /\ DOMAIN heap = Array /\ bodyCodec \in Codecs \cup {"identity"} /\ entries \in Seq(BodyEntry)
      /\ inBatch \in Seq(BodyEntry)
      /\ DOMAIN bodyRows = Body /\ \A p \in Body : RowOf(p, bodyRows[p])
  BY DEF BodyInv, BodyShapes
<1> QED BY <1>1, <1>2, <1>3, <1>4, HandingKeeps

\* Compressing writes into the scratch array and into one nobody refers to.
LEMMA CompressingKeeps ==
  ASSUME BodyInv, Compresses
  PROVE  BodyInv'
<1> USE DEF BodyInv
<1> DEFINE n == bodiesStored + 1
           e == inBatch[n]
           copy == CHOOSE a \in Unused : a # Scratch
           s == Slice(copy, e.body.len)
           f == [e EXCEPT !.body = s]
<1>1. /\ bodiesStored < Len(inBatch) /\ ~LeftAsIs(e.body) /\ Unused # {} /\ Unused \ {Scratch} # {}
      /\ scratch' = Scratch /\ inBatch' = [inBatch EXCEPT ![n] = f]
      /\ heap' = Collected([heap EXCEPT ![Scratch] = Encoded(e.body), ![copy] = Encoded(e.body)])
      /\ txBodies' = UpsertedBody(e, s, heap') /\ bodiesStored' = n
      /\ UNCHANGED <<bodyCodec, capturers, renderers, entries, bodyRows>>
  BY DEF Compresses
<1>2. /\ n \in DOMAIN inBatch /\ n \in 0 .. Len(inBatch) /\ e \in BodyEntry /\ Holds(heap, e)
      /\ e.page \in Body /\ e.body.len = 1 /\ e.body.array \in Array
  BY <1>1, NextInBatch
<1>3. copy \in Unused /\ copy # Scratch
  BY <1>1
<1>4. /\ copy \in Array /\ copy \notin PoolArrays \cup EntryArrays \cup {scratch}
      /\ \A q \in Renderer : renderers[q].buffer.array # copy
  BY <1>3, UnusedIsFree
<1>5. /\ Scratch \in Array /\ Scratch \notin PoolArrays \cup EntryArrays
      /\ \A q \in Renderer : Busy(q) => renderers[q].buffer.array # Scratch
  <2>1. CASE scratch = NoArray
    <3>1. Scratch = Fresh /\ Fresh \in Unused
      BY <1>1, <2>1 DEF Scratch, Fresh
    <3> QED BY <3>1, UnusedIsFree
  <2>2. CASE scratch # NoArray
    BY <2>2 DEF Scratch, NobodyShares, BodyShapes
  <2> QED BY <2>1, <2>2
<1>6. /\ f = [page |-> e.page, body |-> [array |-> copy, len |-> 1], contentLength |-> e.contentLength]
      /\ s = [array |-> copy, len |-> 1]
  <2>1. s = [array |-> copy, len |-> 1]
    BY <1>2 DEF Slice
  <2>2. e = [page |-> e.page, body |-> e.body, contentLength |-> e.contentLength]
    BY <1>2 DEF BodyEntry
  <2>3. \A a, b, c, t : [[page |-> a, body |-> b, contentLength |-> c] EXCEPT !.body = t]
                         = [page |-> a, body |-> t, contentLength |-> c]
    OBVIOUS
  <2>4. f = [[page |-> e.page, body |-> e.body, contentLength |-> e.contentLength] EXCEPT !.body = s]
    BY <2>2
  <2> HIDE DEF e, s, f, copy
  <2> QED BY <2>1, <2>3, <2>4
<1>7. /\ f \in BodyEntry /\ f.page = e.page /\ f.body.array = copy /\ s.len = 1 /\ s.array = copy
      /\ f.contentLength = e.contentLength
  <2>1. e.contentLength \in BodyLengths
    BY <1>2 DEF BodyEntry
  <2> HIDE DEF copy, f, s, e
  <2>2. [array |-> copy, len |-> 1] \in [array : Array, len : {1}]
    BY <1>4
  <2>3. f \in BodyEntry
    BY <1>2, <1>6, <2>1, <2>2 DEF BodyEntry
  <2> QED BY <1>6, <2>3
<1> HIDE DEF copy, f, s
<1>8. /\ inBatch' \in Seq(BodyEntry) /\ Len(inBatch') = Len(inBatch) /\ DOMAIN inBatch' = DOMAIN inBatch
      /\ inBatch'[n] = f /\ \A i \in DOMAIN inBatch \ {n} : inBatch'[i] = inBatch[i]
  <2>1. inBatch \in Seq(BodyEntry) /\ n \in 1 .. Len(inBatch)
    BY <1>2, EntriesAre DEF BodyShapes
  <2>2. inBatch' \in Seq(BodyEntry) /\ Len(inBatch') = Len(inBatch)
    BY <1>1, <1>7, <2>1, ExceptSeq
  <2> QED BY <1>1, <2>1, <2>2, LenProperties
<1> HIDE DEF e, n
<1>9. /\ PoolArrays' = PoolArrays /\ EntryArrays' \subseteq EntryArrays \cup {copy}
      /\ copy \in EntryArrays'
  BY <1>1, <1>2, <1>7, <1>8 DEF EntryArrays, PoolArrays
<1>10. /\ Encoded(e.body).text = <<e.page>> /\ Encoded(e.body).form = bodyCodec
       /\ bodyCodec \in Codecs
  <2>1. Contents(e.body).text = <<e.page>>
    BY <1>2, OnePage DEF Contents, Holds
  <2>2. bodyCodec \in Codecs
    BY <1>1 DEF LeftAsIs, BodyShapes
  <2> QED BY <2>1, <2>2 DEF Encoded, Contents
<1>11. /\ DOMAIN heap' = Array
       /\ \A a \in Array : a \in Referenced' /\ a # Scratch /\ a # copy => heap'[a] = heap[a]
       /\ heap'[copy] = Encoded(e.body)
  <2>1. copy \in Referenced'
    BY <1>2, <1>7, <1>8 DEF Referenced
  <2> QED BY <1>1, <1>3, <1>4, <2>1 DEF Collected, BodyShapes
<1>12. DOMAIN txBodies' = Body /\ \A p \in Body : RowOf(p, txBodies'[p])
  <2>1. heap'[s.array].text = <<e.page>> /\ heap'[s.array].form \in Codecs \cup {"plain"}
    BY <1>7, <1>10, <1>11
  <2>2. DOMAIN UpsertedBody(e, s, heap') = Body
        /\ \A p \in Body : RowOf(p, UpsertedBody(e, s, heap')[p])
    BY <1>2, <1>7, <2>1, UpsertedIsGood DEF Holds
  <2> QED BY <1>1, <2>2
<1>13. BodyShapes'
  <2>1. bodiesStored' \in 0 .. Len(inBatch')
    BY <1>1, <1>2, <1>8
  <2> QED BY <1>1, <1>5, <1>8, <1>11, <1>12, <2>1 DEF BodyShapes, RowOf
<1>14. NobodyShares'
  <2>1. PoolArrays' \cap (EntryArrays' \cup {scratch'}) = {} /\ scratch' \notin EntryArrays'
    BY <1>1, <1>3, <1>4, <1>5, <1>9 DEF NobodyShares
  <2>2. ASSUME NEW q \in Renderer, Busy(q)
        PROVE  /\ renderers[q].buffer.array \notin PoolArrays' \cup EntryArrays' \cup {scratch'}
               /\ \A t \in Renderer \ {q} : Busy(t) => renderers[t].buffer.array # renderers[q].buffer.array
    BY <1>1, <1>4, <1>5, <1>9, <2>2 DEF NobodyShares
  <2>3. renderers' = renderers
    BY <1>1
  <2> QED BY <2>1, <2>2, <2>3 DEF NobodyShares, Busy
<1>15. PagesAreHeld'
  <2>1. /\ \A r \in Renderer : renderers[r].buffer.array \in Referenced'
        /\ \A i \in DOMAIN entries' : entries'[i].body.array \in Referenced'
        /\ \A i \in DOMAIN inBatch' : inBatch'[i].body.array \in Referenced'
    BY <1>1 DEF Referenced
  <2>2. \A r \in Renderer :
       /\ renderers[r].at = "rendering" => renderers[r].buffer.len = 0
       /\ renderers[r].at = "captured" => /\ renderers[r].buffer.len = 1
            /\ heap'[renderers[r].buffer.array] = Plain(<<renderers[r].page>>)
    BY <1>4, <1>5, <1>11, <2>1 DEF PagesAreHeld, BodyShapes, ArraySlice, Busy
  <2>3. ASSUME NEW i \in DOMAIN entries
        PROVE  Holds(heap', entries[i])
    <3>1. /\ Holds(heap, entries[i]) /\ entries[i].body.array \in Array \cap EntryArrays
      BY <2>3, EntriesAre DEF PagesAreHeld
    <3>2. heap'[entries[i].body.array] = heap[entries[i].body.array]
      BY <1>1, <1>4, <1>5, <1>11, <2>1, <3>1
    <3> QED BY <3>1, <3>2 DEF Holds
  <2>4. ASSUME NEW i \in DOMAIN inBatch, i # n
        PROVE  Holds(heap', inBatch'[i])
    <3>1. /\ Holds(heap, inBatch[i]) /\ inBatch[i].body.array \in Array \cap EntryArrays
      BY <2>4, EntriesAre DEF PagesAreHeld
    <3>2. inBatch'[i] = inBatch[i] /\ inBatch[i].body.array \in Referenced'
      BY <1>8, <2>1, <2>4
    <3>3. heap'[inBatch[i].body.array] = heap[inBatch[i].body.array]
      BY <1>4, <1>5, <1>11, <3>1, <3>2
    <3> QED BY <3>1, <3>2, <3>3 DEF Holds
  <2>5. Holds(heap', inBatch'[n])
    BY <1>2, <1>7, <1>8, <1>10, <1>11 DEF Holds
  <2>6. renderers' = renderers /\ entries' = entries
    BY <1>1
  <2> QED BY <1>8, <2>2, <2>3, <2>4, <2>5, <2>6 DEF PagesAreHeld
<1> QED BY <1>13, <1>14, <1>15

\* Every step of the buffers keeps the invariant.
LEMMA BodyInvKept == BodyInv /\ [BodyCodecNext]_bodyCodecVars => BodyInv'
<1> SUFFICES ASSUME BodyInv, [BodyCodecNext]_bodyCodecVars PROVE BodyInv'
  OBVIOUS
<1>1. ASSUME NEW r \in Renderer, NEW p \in Body, TakesCapturer(r, p) PROVE BodyInv'
  BY <1>1, TakingKeeps
<1>2. ASSUME NEW r \in Renderer, RenderGalleryInto(r) PROVE BodyInv'
  BY <1>2, RenderingKeeps
<1>3. ASSUME NEW r \in Renderer, PutsCapturer(r) PROVE BodyInv'
  BY <1>3, PuttingKeeps
<1>4. ASSUME NEW r \in Renderer, Keeps(r) PROVE BodyInv'
  BY <1>4, KeepingKeeps
<1>5. ASSUME NEW id \in {"", "identity", "zstd-1", "gzip-6", "unknown"}, ConfigureBodyCodec(id)
      PROVE  BodyInv'
  BY <1>5, ConfiguringKeeps
<1>6. CASE BatchTakes
  BY <1>6, TakingTheBatchKeeps
<1>7. CASE StoresPlain
  BY <1>7, StoringPlainKeeps
<1>8. CASE Compresses
  BY <1>8, CompressingKeeps
<1>9. CASE BodiesCommit
  BY <1>9, CommittingKeeps
<1>10. CASE BodiesRollBack
  BY <1>10, RollingBackKeeps
<1>11. CASE PoolsEmptied
  BY <1>11, EmptyingKeeps
<1>12. CASE UNCHANGED bodyCodecVars
  <2>1. UNCHANGED <<heap, bodyCodec, capturers, renderers, scratch, entries, inBatch,
                    bodiesStored, txBodies, bodyRows>>
    BY <1>12 DEF bodyCodecVars
  <2>2. EntryArrays' = EntryArrays /\ PoolArrays' = PoolArrays /\ \A r \in Renderer : Busy(r)' <=> Busy(r)
    BY <2>1 DEF EntryArrays, PoolArrays, Busy
  <2>3. BodyShapes' /\ PagesAreHeld'
    BY <2>1 DEF BodyInv, BodyShapes, RowOf, PagesAreHeld, Holds
  <2>4. NobodyShares'
    BY <2>1, <2>2 DEF BodyInv, NobodyShares
  <2> QED BY <2>3, <2>4 DEF BodyInv
<1> QED BY <1>1, <1>2, <1>3, <1>4, <1>5, <1>6, <1>7, <1>8, <1>9, <1>10, <1>11, <1>12 DEF BodyCodecNext

(* Whatever codec was configured when, however often a batch was rolled back
   and whoever reuses the buffers: a stored page is read back as the page its
   key names, for any number of requests, pages and arrays (BodiesComeBack). *)
THEOREM BodiesAlwaysComeBack == BodyCodecSpec => [](BodyCodecTypeOK /\ BodiesComeBack)
<1>1. BodyCodecInit => BodyInv
  BY BodiesBegin
<1>2. BodyInv /\ [BodyCodecNext]_bodyCodecVars => BodyInv'
  BY BodyInvKept
<1>3. BodyInv => BodyCodecTypeOK /\ BodiesComeBack
  BY BodyInvComesBack
<1> QED BY <1>1, <1>2, <1>3, PTL DEF BodyCodecSpec
-----------------------------------------------------------------------------
(* The catalogue.                                                          *)

\* A write, and the tables of the main database.
Write == [file : Image, version : 1..LastVersion, buffer : Buffer \cup {NoBuffer}, exists : BOOLEAN]
Tables == [rows : [Image -> 0..LastVersion], created : [Image -> Nat],
           invalid : [Image -> 0..LastVersion], thumbs : SUBSET Image,
           folders : SUBSET Folder, tile : [Folder -> Image \cup {NoImage}]]
Picture == [of : Image \cup {NoImage}, v : Nat]
Flush == [on : BOOLEAN, main : Tables, blobs : [Image -> Picture], batch : Seq(Write), n : Nat]
Walk == [on : BOOLEAN, todo : SUBSET Image, found : SUBSET (Image \X (1..LastVersion)),
         failed : SUBSET Image, calm : BOOLEAN, runs : Nat]
CatalogueShapes ==
  /\ disk \in [Image -> 1..LastVersion] /\ main \in Tables /\ blobs \in [Image -> Picture]
  /\ pool \in [Buffer -> {0, 1}] /\ pictures \in [Buffer -> Picture]
  /\ writes \in Seq(Write) /\ flushing \in Flush /\ walk \in Walk /\ second \in Nat
  /\ flushing.n <= Len(flushing.batch) /\ (~flushing.on => flushing.batch = <<>>)

\* What PicturesFit says, of the committed databases and of the transaction's.
TablesFit(w) ==
  /\ \A d \in Folder : w.tile[d] # NoImage => w.tile[d] \in w.thumbs /\ d \in Range(Chain[w.tile[d]])
  /\ \A f \in Image : w.rows[f] # 0 => Range(Chain[f]) \subseteq w.folders
BlobsFit(bs) == \A f \in Image : bs[f] # NoPicture => bs[f].of = f
AllFit == TablesFit(main) /\ TablesFit(flushing.main) /\ BlobsFit(blobs) /\ BlobsFit(flushing.blobs)

\* A buffer belongs to one write, holds a picture of its file, and is not in
\* the pool.
Mine(e) == e.buffer # NoBuffer => pool[e.buffer] = 0 /\ pictures[e.buffer].of = e.file
Apart(e, o) == e.buffer # NoBuffer => e.buffer # o.buffer
BuffersOwned ==
  /\ \A i \in 1..Len(writes) : Mine(writes[i])
  /\ \A j \in 1..Len(flushing.batch) : Mine(flushing.batch[j])
  /\ \A i, j \in 1..Len(writes) : i # j => Apart(writes[i], writes[j])
  /\ \A i, j \in 1..Len(flushing.batch) : i # j => Apart(flushing.batch[i], flushing.batch[j])
  /\ \A i \in 1..Len(writes), j \in 1..Len(flushing.batch) : Apart(writes[i], flushing.batch[j])

\* During a calm walk every image is still to be met, on its way, or known,
\* and nothing on its way is older than the image.
Known(w, f) == disk[f] \in {w.rows[f], w.invalid[f]}
InWrites(f) == \E i \in 1..Len(writes) : writes[i].file = f
InBatch(f) == \E j \in 1..Len(flushing.batch) : flushing.batch[j].file = f
Underway(f) == \/ f \in walk.todo \/ <<f, disk[f]>> \in walk.found \/ f \in walk.failed
               \/ InWrites(f) \/ InBatch(f)
Current(e) == e.version = disk[e.file]
NoneOlder == /\ \A i \in 1..Len(writes) : Current(writes[i])
             /\ \A j \in 1..Len(flushing.batch) : Current(flushing.batch[j])
             /\ \A f \in Image, v \in 1..LastVersion : <<f, v>> \in walk.found => v = disk[f]
NoneForgotten == \A f \in Image : Underway(f) \/ Known(main, f)
TransactionKnows ==
  flushing.on => /\ \A f \in Image : Known(main, f) => Known(flushing.main, f)
                 /\ \A j \in 1..flushing.n : LET f == flushing.batch[j].file IN flushing.main.rows[f] = disk[f]
CalmInv == walk.on /\ walk.calm => NoneOlder /\ NoneForgotten /\ TransactionKnows

CatalogueInv == CatalogueShapes /\ AllFit /\ BuffersOwned /\ CalmInv

-----------------------------------------------------------------------------
(* Places of a queue.                                                      *)

\* A set of places has a first, a second, ..., and no other members.
LEMMA NthOf ==
  ASSUME NEW n \in Nat, NEW I, I \subseteq 1..n
  PROVE  /\ IsFiniteSet(I) /\ Cardinality(I) \in Nat
         /\ \A k \in 1..Cardinality(I) : Nth(I, k) \in I
         /\ \A k, l \in 1..Cardinality(I) : Nth(I, k) = Nth(I, l) => k = l
         /\ \A i \in I : \E k \in 1..Cardinality(I) : Nth(I, k) = i
<1> DEFINE Below(i) == {j \in I : j <= i}
           rank == [i \in I |-> Cardinality(Below(i))]
<1>0. IsFiniteSet(I) /\ Cardinality(I) \in Nat /\ I \subseteq Nat
  <2>1. IsFiniteSet(1..n)
    BY FS_Interval
  <2>2. IsFiniteSet(I)
    BY <2>1, FS_Subset
  <2> QED BY <2>2, FS_CardinalityType
<1>1. ASSUME NEW i \in I
      PROVE  IsFiniteSet(Below(i)) /\ Cardinality(Below(i)) \in 1..Cardinality(I)
  <2>1. i \in Below(i) /\ Below(i) \in SUBSET I
    <3>1. i \in Int /\ i <= i
      BY <1>0
    <3> QED BY <3>1
  <2> HIDE DEF Below
  <2>2. IsFiniteSet(Below(i)) /\ Cardinality(Below(i)) <= Cardinality(I)
    BY <1>0, <2>1, FS_Subset
  <2>3. Cardinality(Below(i)) \in Nat /\ Cardinality(Below(i)) # 0
    BY <2>1, <2>2, FS_CardinalityType, FS_EmptySet
  <2> QED BY <1>0, <2>2, <2>3
<1>2. ASSUME NEW i \in I, NEW j \in I, i < j PROVE Cardinality(Below(i)) # Cardinality(Below(j))
  <2>1. Below(i) \in SUBSET Below(j) /\ j \in Below(j) /\ j \notin Below(i)
    <3>1. i \in Nat /\ j \in Nat /\ \A k \in I : k \in Nat
      BY <1>0
    <3>2. j <= j /\ ~(j <= i) /\ \A k \in I : k <= i => k <= j
      BY <1>2, <3>1
    <3> QED BY <3>2
  <2>2. IsFiniteSet(Below(j))
    BY <1>1
  <2> HIDE DEF Below
  <2> QED BY <2>1, <2>2, FS_Subset
<1>3. \A i, j \in I : rank[i] = rank[j] => i = j
  <2> SUFFICES ASSUME NEW i \in I, NEW j \in I, i # j PROVE rank[i] # rank[j]
    OBVIOUS
  <2>1. i \in Nat /\ j \in Nat
    BY <1>0
  <2>2. i < j \/ j < i
    BY <2>1
  <2>3. rank[i] = Cardinality(Below(i)) /\ rank[j] = Cardinality(Below(j))
    OBVIOUS
  <2> HIDE DEF Below, rank
  <2> QED BY <1>2, <2>2, <2>3
<1>4. rank \in [I -> 1..Cardinality(I)]
  BY <1>1
<1>5. \A k \in 1..Cardinality(I) : \E i \in I : rank[i] = k
  <2> HIDE DEF rank
  <2>1. rank \in Injection(I, 1..Cardinality(I))
    BY <1>3, <1>4 DEF Injection, IsInjective
  <2>2. IsFiniteSet(1..Cardinality(I)) /\ Cardinality(1..Cardinality(I)) = Cardinality(I)
    BY <1>0, FS_Interval
  <2>3. rank \in Surjection(I, 1..Cardinality(I))
    BY <2>1, <2>2, FS_Injection
  <2> QED BY <2>3 DEF Surjection
<1>6. ASSUME NEW k \in 1..Cardinality(I) PROVE Nth(I, k) \in I /\ rank[Nth(I, k)] = k
  <2>1. \E i \in I : Cardinality({j \in I : j <= i}) = k
    BY <1>5
  <2>2. Nth(I, k) \in I /\ Cardinality({j \in I : j <= Nth(I, k)}) = k
    BY <2>1 DEF Nth
  <2> QED BY <2>2
<1> HIDE DEF rank
<1>7. ASSUME NEW i \in I PROVE \E k \in 1..Cardinality(I) : Nth(I, k) = i
  <2>1. rank[i] \in 1..Cardinality(I)
    BY <1>4
  <2>2. Nth(I, rank[i]) \in I /\ rank[Nth(I, rank[i])] = rank[i]
    BY <1>6, <2>1
  <2> QED BY <1>3, <2>1, <2>2
<1> QED BY <1>0, <1>6, <1>7

\* A queue of the writes at some places, each of them once.
OnceEach(s, I) ==
  /\ \A k \in 1..Len(s) : Nth(I, k) \in I /\ s[k] = writes[Nth(I, k)]
  /\ \A k, l \in 1..Len(s) : Nth(I, k) = Nth(I, l) => k = l
  /\ \A i \in I : \E k \in 1..Len(s) : s[k] = writes[i]

\* WritesAt takes each of the writes at its places once.
LEMMA WritesThere ==
  ASSUME writes \in Seq(Write), NEW I \in SUBSET (1..Len(writes)), NEW s, s = WritesAt(I)
  PROVE  s \in Seq(Write) /\ Len(s) \in Nat /\ OnceEach(s, I)
<1>1. Len(writes) \in Nat
  OBVIOUS
<1>2. /\ IsFiniteSet(I) /\ Cardinality(I) \in Nat
      /\ \A k \in 1..Cardinality(I) : Nth(I, k) \in I
      /\ \A k, l \in 1..Cardinality(I) : Nth(I, k) = Nth(I, l) => k = l
      /\ \A i \in I : \E k \in 1..Cardinality(I) : Nth(I, k) = i
  BY <1>1, NthOf
<1>3. s = [k \in 1..Cardinality(I) |-> writes[Nth(I, k)]]
  BY DEF WritesAt
<1>4. \A k \in 1..Cardinality(I) : writes[Nth(I, k)] \in Write
  BY <1>2, ElementOfSeq
<1>5. s \in Seq(Write) /\ Len(s) = Cardinality(I) /\ \A k \in 1..Len(s) : s[k] = writes[Nth(I, k)]
  <2>1. s \in [1..Cardinality(I) -> Write] /\ \A k \in 1..Cardinality(I) : s[k] = writes[Nth(I, k)]
    BY <1>3, <1>4
  <2>2. s \in Seq(Write) /\ Len(s) = Cardinality(I)
    BY <1>2, <2>1
  <2> QED BY <2>1, <2>2
<1>6. Len(s) \in Nat /\ \A i \in I : \E k \in 1..Len(s) : s[k] = writes[i]
  BY <1>2, <1>5
<1> QED BY <1>2, <1>5, <1>6 DEF OnceEach

-----------------------------------------------------------------------------
(* The catalogue's invariant.                                              *)

\* Without a transaction there is nothing that could misfit or be owned.
LEMMA NoFlushFits ==
  /\ NoFlush \in Flush /\ NoFlush.on = FALSE /\ NoFlush.n = 0 /\ NoFlush.batch = <<>>
  /\ Len(NoFlush.batch) = 0 /\ TablesFit(NoFlush.main) /\ BlobsFit(NoFlush.blobs)
<1>1. /\ EmptyMain.rows = [f \in Image |-> 0] /\ EmptyMain.created = [f \in Image |-> 0]
      /\ EmptyMain.invalid = [f \in Image |-> 0] /\ EmptyMain.thumbs = {}
      /\ EmptyMain.folders = {Chain[f][1] : f \in Image} /\ EmptyMain.tile = [d \in Folder |-> NoImage]
  BY DEF EmptyMain
<1>2. \A f \in Image : Chain[f][1] \in Folder
  <2> SUFFICES ASSUME NEW f \in Image PROVE Chain[f][1] \in Folder
    OBVIOUS
  <2>1. Chain[f] \in Seq(Folder) /\ Chain[f] # <<>>
    BY CatalogueAssumption
  <2>2. 1 \in 1..Len(Chain[f])
    BY <2>1, EmptySeq
  <2> QED BY <2>1, <2>2, ElementOfSeq
<1>3. EmptyMain \in Tables
  BY <1>2, CatalogueAssumption DEF EmptyMain, Tables
<1>4. NoPicture \in Picture
  BY DEF NoPicture, Picture
<1>5. /\ NoFlush.on = FALSE /\ NoFlush.main = EmptyMain /\ NoFlush.blobs = [f \in Image |-> NoPicture]
      /\ NoFlush.batch = <<>> /\ NoFlush.n = 0 /\ NoFlush \in Flush
  BY <1>3, <1>4, EmptySeq DEF NoFlush, Flush
<1>6. TablesFit(NoFlush.main) /\ BlobsFit(NoFlush.blobs)
  BY <1>1, <1>5 DEF TablesFit, BlobsFit
<1> QED BY <1>5, <1>6, EmptySeq

\* The catalogue starts without a row, a write or a walk.
LEMMA CatalogueBegins == CatalogueInit => CatalogueInv
<1> SUFFICES ASSUME CatalogueInit PROVE CatalogueInv
  OBVIOUS
<1>1. /\ NoFlush \in Flush /\ NoFlush.on = FALSE /\ NoFlush.n = 0 /\ NoFlush.batch = <<>>
      /\ Len(NoFlush.batch) = 0 /\ TablesFit(NoFlush.main) /\ BlobsFit(NoFlush.blobs)
  BY NoFlushFits
<1>2. /\ NoFlush.main = EmptyMain /\ NoFlush.blobs = [f \in Image |-> NoPicture]
  BY DEF NoFlush
<1>3. EmptyMain \in Tables
  BY <1>1, <1>2 DEF Flush
<1>4. NoPicture \in Picture
  BY DEF NoPicture, Picture
<1>5. NoWalk.on = FALSE /\ NoWalk \in Walk
  BY DEF NoWalk, Walk
<1>6. CatalogueShapes
  BY <1>1, <1>3, <1>4, <1>5, EmptySeq, CatalogueAssumption DEF CatalogueInit, CatalogueShapes
<1>7. AllFit
  BY <1>1, <1>2 DEF CatalogueInit, AllFit
<1>8. BuffersOwned
  BY <1>1, EmptySeq DEF CatalogueInit, BuffersOwned
<1>9. CalmInv
  BY <1>5 DEF CatalogueInit, CalmInv
<1> QED BY <1>6, <1>7, <1>8, <1>9 DEF CatalogueInv

-----------------------------------------------------------------------------
(* What writing one file changes.                                          *)

\* clearStaleInvalidFile and UpsertPathChain: a row of the file's version and
\* of each of its folders.
LEMMA RowWritten ==
  ASSUME NEW w \in Tables, NEW e \in Write, second \in Nat, NEW f, f = e.file,
         NEW x, x = clearStaleInvalidFile(UpsertPathChain(w, e), f)
  PROVE  /\ x \in Tables
         /\ x.rows[f] = e.version /\ \A g \in Image : g # f => x.rows[g] = w.rows[g] /\ x.invalid[g] = w.invalid[g]
         /\ TablesFit(w) => TablesFit(x)
<1>1. /\ w = [rows |-> w.rows, created |-> w.created, invalid |-> w.invalid, thumbs |-> w.thumbs,
              folders |-> w.folders, tile |-> w.tile]
      /\ w.rows \in [Image -> 0..LastVersion] /\ w.created \in [Image -> Nat]
      /\ w.invalid \in [Image -> 0..LastVersion] /\ w.thumbs \in SUBSET Image
      /\ w.folders \in SUBSET Folder /\ w.tile \in [Folder -> Image \cup {NoImage}]
  BY DEF Tables
<1>2. e.file \in Image /\ e.version \in 1..LastVersion
  BY DEF Write
<1>3. PICK a : a = UpsertFolderReturningFolder(w, f)
  OBVIOUS
<1>4. a = [rows |-> w.rows, created |-> w.created, invalid |-> w.invalid, thumbs |-> w.thumbs,
           folders |-> w.folders \cup Range(Chain[f]), tile |-> w.tile]
  BY <1>1, <1>3 DEF UpsertFolderReturningFolder
<1>5. PICK c : c = UpsertPathChain(w, e)
  OBVIOUS
<1>6. PICK new : new = IF w.rows[f] = 0 THEN second ELSE w.created[f]
  OBVIOUS
<1>7. c = [rows |-> [w.rows EXCEPT ![f] = e.version], created |-> [w.created EXCEPT ![f] = new],
           invalid |-> w.invalid, thumbs |-> w.thumbs,
           folders |-> w.folders \cup Range(Chain[f]), tile |-> w.tile]
  <2>1. a.rows = w.rows /\ a.created = w.created
    BY <1>4
  <2>2. c = [a EXCEPT !.rows[f] = e.version, !.created[f] = IF a.rows[f] = 0 THEN second ELSE @]
    BY <1>3, <1>5 DEF UpsertPathChain, UpsertFileReturningFile
  <2>3. c = [a EXCEPT !.rows = [w.rows EXCEPT ![f] = e.version], !.created = [w.created EXCEPT ![f] = new]]
    BY <1>4, <1>6, <2>1, <2>2
  <2> QED BY <1>4, <2>3
<1>8. x = [rows |-> [w.rows EXCEPT ![f] = e.version], created |-> [w.created EXCEPT ![f] = new],
           invalid |-> [w.invalid EXCEPT ![f] = 0], thumbs |-> w.thumbs,
           folders |-> w.folders \cup Range(Chain[f]), tile |-> w.tile]
  <2>1. x = [c EXCEPT !.invalid[f] = 0]
    BY <1>5 DEF clearStaleInvalidFile
  <2>2. c.invalid = w.invalid
    BY <1>7
  <2>3. x = [c EXCEPT !.invalid = [w.invalid EXCEPT ![f] = 0]]
    BY <1>7, <2>1, <2>2
  <2> QED BY <1>7, <2>3
<1>9. /\ x.rows = [w.rows EXCEPT ![f] = e.version] /\ x.created = [w.created EXCEPT ![f] = new]
      /\ x.invalid = [w.invalid EXCEPT ![f] = 0] /\ x.thumbs = w.thumbs
      /\ x.folders = w.folders \cup Range(Chain[f]) /\ x.tile = w.tile
  BY <1>8
<1>10. Range(Chain[f]) \subseteq Folder
  <2>1. Chain[f] \in Seq(Folder)
    BY <1>2, CatalogueAssumption
  <2> QED BY <2>1, ElementOfSeq DEF Range
<1>11. LastVersion \in Nat /\ w.created[f] \in Nat /\ new \in Nat
  BY <1>1, <1>2, <1>6, CatalogueAssumption
<1>12. e.version \in 0..LastVersion /\ 0 \in 0..LastVersion
  BY <1>2, <1>11
<1>13. x \in Tables
  <2>1. /\ [w.rows EXCEPT ![f] = e.version] \in [Image -> 0..LastVersion]
        /\ [w.created EXCEPT ![f] = new] \in [Image -> Nat]
        /\ [w.invalid EXCEPT ![f] = 0] \in [Image -> 0..LastVersion]
    BY <1>1, <1>11, <1>12
  <2> QED BY <1>1, <1>8, <1>10, <2>1 DEF Tables
<1>14. x.rows[f] = e.version /\ \A g \in Image : g # f => x.rows[g] = w.rows[g] /\ x.invalid[g] = w.invalid[g]
  BY <1>1, <1>2, <1>9
<1>15. ASSUME TablesFit(w) PROVE TablesFit(x)
  BY <1>9, <1>14, <1>15 DEF TablesFit
<1> QED BY <1>9, <1>13, <1>14, <1>15

Tiled(top, w, f) == [UpsertThumbnailReturningID(w, f) EXCEPT !.tile = TilesUpTo(top, @, f)]

\* UpsertThumbnailReturningID, and then the tiles as far up as their update
\* succeeds.
LEMMA ThumbWritten ==
  ASSUME NEW w \in Tables, NEW f \in Image, NEW top,
         NEW y, y = Tiled(top, w, f)
  PROVE  /\ y \in Tables /\ y.rows = w.rows /\ y.invalid = w.invalid
         /\ TablesFit(w) => TablesFit(y)
<1>1. /\ w = [rows |-> w.rows, created |-> w.created, invalid |-> w.invalid, thumbs |-> w.thumbs,
              folders |-> w.folders, tile |-> w.tile]
      /\ w.rows \in [Image -> 0..LastVersion] /\ w.created \in [Image -> Nat]
      /\ w.invalid \in [Image -> 0..LastVersion] /\ w.thumbs \in SUBSET Image
      /\ w.folders \in SUBSET Folder /\ w.tile \in [Folder -> Image \cup {NoImage}]
  BY DEF Tables
<1>2. PICK x : x = UpsertThumbnailReturningID(w, f)
  OBVIOUS
<1>3. x = [rows |-> w.rows, created |-> w.created, invalid |-> w.invalid, thumbs |-> w.thumbs \cup {f},
           folders |-> w.folders, tile |-> w.tile]
  BY <1>1, <1>2 DEF UpsertThumbnailReturningID
<1>4. PICK t : t = TilesUpTo(top, w.tile, f)
  OBVIOUS
<1>5. y = [rows |-> w.rows, created |-> w.created, invalid |-> w.invalid, thumbs |-> w.thumbs \cup {f},
           folders |-> w.folders, tile |-> t]
  BY <1>2, <1>3, <1>4 DEF Tiled
<1>6. /\ t \in [Folder -> Image \cup {NoImage}]
      /\ \A d \in Folder : t[d] = w.tile[d] \/ (t[d] = f /\ \E i \in DOMAIN Chain[f] : Chain[f][i] = d)
  BY <1>1, <1>4 DEF TilesUpTo
<1>7. \A d \in Folder : t[d] = w.tile[d] \/ (t[d] = f /\ d \in Range(Chain[f]))
  BY <1>6 DEF Range
<1>8. y \in Tables
  <2>1. PICK shown : shown = w.thumbs \cup {f}
    OBVIOUS
  <2>2. shown \in SUBSET Image
    BY <1>1, <2>1
  <2>3. y = [rows |-> w.rows, created |-> w.created, invalid |-> w.invalid, thumbs |-> shown,
             folders |-> w.folders, tile |-> t]
    BY <1>5, <2>1
  <2>4. t \in [Folder -> Image \cup {NoImage}]
    BY <1>6
  <2> QED BY <1>1, <2>2, <2>3, <2>4 DEF Tables
<1>9. /\ y.rows = w.rows /\ y.invalid = w.invalid /\ y.thumbs = w.thumbs \cup {f}
      /\ y.folders = w.folders /\ y.tile = t
  BY <1>5
<1>10. TablesFit(w) => TablesFit(y)
  BY <1>7, <1>9 DEF TablesFit
<1> QED BY <1>8, <1>9, <1>10

\* One file of the batch is written: its row and perhaps its thumbnail in the
\* transaction's tables, and its buffer back in the pool.
LEMMA FileWritten ==
  ASSUME CatalogueShapes, WriteFileInTx \/ TileFails, NEW e, e = Writing, NEW f, f = e.file
  PROVE  /\ flushing.on /\ flushing.n + 1 \in 1..Len(flushing.batch) /\ flushing.n \in Nat
         /\ e = flushing.batch[flushing.n + 1] /\ e \in Write /\ f \in Image
         /\ flushing' \in Flush /\ flushing'.on /\ flushing'.n = flushing.n + 1
         /\ Len(flushing'.batch) = Len(flushing.batch) /\ Len(flushing.batch) \in Nat
         /\ \A j \in 1..Len(flushing.batch) : j # flushing.n + 1 => flushing'.batch[j] = flushing.batch[j]
         /\ flushing'.batch[flushing.n + 1].file = f /\ flushing'.batch[flushing.n + 1].version = e.version
         /\ flushing'.batch[flushing.n + 1].buffer = NoBuffer
         /\ flushing'.main.rows[f] = e.version
         /\ \A g \in Image : g # f => /\ flushing'.main.rows[g] = flushing.main.rows[g]
                                     /\ flushing'.main.invalid[g] = flushing.main.invalid[g]
         /\ TablesFit(flushing.main) => TablesFit(flushing'.main)
         /\ BlobsFit(flushing.blobs) /\ Mine(e) => BlobsFit(flushing'.blobs)
         /\ PutBack({e.buffer} \cap Buffer)
         /\ UNCHANGED <<disk, main, blobs, pictures, writes, second>>
         /\ (walk' = walk \/ walk' = Stormy(walk))
<1>1. /\ flushing = [on |-> flushing.on, main |-> flushing.main, blobs |-> flushing.blobs,
                     batch |-> flushing.batch, n |-> flushing.n]
      /\ flushing.on \in BOOLEAN /\ flushing.main \in Tables /\ flushing.blobs \in [Image -> Picture]
      /\ flushing.batch \in Seq(Write) /\ flushing.n \in Nat
  BY DEF CatalogueShapes, Flush
<1>2. flushing.on /\ flushing.n < Len(flushing.batch)
  BY DEF WriteFileInTx, TileFails, ToWrite
<1>3. /\ Len(flushing.batch) \in Nat /\ flushing.n + 1 \in 1..Len(flushing.batch)
      /\ e = flushing.batch[flushing.n + 1]
  BY <1>1, <1>2 DEF Writing
<1>4. e \in Write /\ f \in Image /\ second \in Nat
  <2>1. e \in Write
    BY <1>1, <1>3, ElementOfSeq
  <2>2. second \in Nat
    BY DEF CatalogueShapes
  <2> QED BY <2>1, <2>2 DEF Write
<1>5. PICK w : w = clearStaleInvalidFile(UpsertPathChain(flushing.main, e), f)
  OBVIOUS
<1>6. PICK top, y :
        /\ y = Tiled(top, w, f)
        /\ \/ flushing' = [flushing EXCEPT !.n = @ + 1, !.main = IF Upserts(e) THEN y ELSE w,
                              !.blobs[f] = IF Upserts(e) THEN pictures[e.buffer] ELSE @,
                              !.batch[flushing.n + 1] = [e EXCEPT !.exists = Exists(e), !.buffer = NoBuffer]]
           \/ /\ Upserts(e)
              /\ flushing' = [flushing EXCEPT !.n = @ + 1, !.main = y, !.blobs[f] = pictures[e.buffer],
                                !.batch[flushing.n + 1] = [e EXCEPT !.exists = Exists(e), !.buffer = NoBuffer]]
  <2>1. CASE WriteFileInTx
    <3>1. PICK y : y = Tiled(1, w, f)
      OBVIOUS
    <3>2. flushing' = [flushing EXCEPT !.n = @ + 1, !.main = IF Upserts(e) THEN y ELSE w,
                          !.blobs[f] = IF Upserts(e) THEN pictures[e.buffer] ELSE @,
                          !.batch[flushing.n + 1] = [e EXCEPT !.exists = Exists(e), !.buffer = NoBuffer]]
      BY <1>5, <2>1, <3>1 DEF WriteFileInTx, UpdateFolderTileChain, Tiled
    <3> QED BY <3>1, <3>2
  <2>2. CASE TileFails
    <3>1. PICK failed \in DOMAIN Chain[f] :
            flushing' = [flushing EXCEPT !.n = @ + 1,
                           !.main = Tiled(failed + 1, w, f),
                           !.blobs[f] = pictures[e.buffer],
                           !.batch[flushing.n + 1] = [e EXCEPT !.exists = Exists(e), !.buffer = NoBuffer]]
      BY <1>5, <2>2 DEF TileFails, Tiled
    <3>2. Upserts(e)
      BY <2>2 DEF TileFails
    <3> QED BY <3>1, <3>2
  <2> QED BY <2>1, <2>2
<1>7. /\ w \in Tables /\ w.rows[f] = e.version
      /\ \A g \in Image : g # f => w.rows[g] = flushing.main.rows[g] /\ w.invalid[g] = flushing.main.invalid[g]
      /\ TablesFit(flushing.main) => TablesFit(w)
  <2>1. PICK t \in Tables : t = flushing.main
    BY <1>1
  <2>2. e \in Write /\ f = e.file /\ second \in Nat /\ w = clearStaleInvalidFile(UpsertPathChain(t, e), f)
    BY <1>4, <1>5, <2>1
  <2>3. /\ w \in Tables /\ w.rows[f] = e.version
        /\ \A g \in Image : g # f => w.rows[g] = t.rows[g] /\ w.invalid[g] = t.invalid[g]
        /\ TablesFit(t) => TablesFit(w)
    BY <2>2, RowWritten
  <2> QED BY <2>1, <2>3
<1>8. /\ y \in Tables /\ y.rows = w.rows /\ y.invalid = w.invalid
      /\ TablesFit(w) => TablesFit(y)
  <2>1. y = Tiled(top, w, f)
    BY <1>6
  <2> QED BY <1>4, <1>7, <2>1, ThumbWritten
<1>9. PICK g : g = [e EXCEPT !.exists = Exists(e), !.buffer = NoBuffer]
  OBVIOUS
<1>10. /\ g \in Write /\ g.file = f /\ g.version = e.version /\ g.buffer = NoBuffer
  <2>1. /\ e = [file |-> e.file, version |-> e.version, buffer |-> e.buffer, exists |-> e.exists]
        /\ e.version \in 1..LastVersion /\ e.exists \in BOOLEAN
    BY <1>4 DEF Write
  <2>2. g = [file |-> f, version |-> e.version, buffer |-> NoBuffer, exists |-> Exists(e)]
    BY <1>9, <2>1
  <2>3. Exists(e) \in BOOLEAN
    BY <2>1 DEF Exists, fileExistedBeforeUpsert
  <2> QED BY <1>4, <2>1, <2>2, <2>3 DEF Write
<1>11. PICK ty : ty = (IF Upserts(e) THEN pictures[e.buffer] ELSE flushing.blobs[f])
  OBVIOUS
<1>12. PICK bs : bs = [flushing.blobs EXCEPT ![f] = ty]
  OBVIOUS
<1>13. PICK bt : bt = [flushing.batch EXCEPT ![flushing.n + 1] = g]
  OBVIOUS
<1>14. \E m \in {w, y} :
         flushing' = [on |-> flushing.on, main |-> m, blobs |-> bs, batch |-> bt, n |-> flushing.n + 1]
  <2>1. CASE flushing' = [flushing EXCEPT !.n = @ + 1, !.main = IF Upserts(e) THEN y ELSE w,
                             !.blobs[f] = IF Upserts(e) THEN pictures[e.buffer] ELSE @,
                             !.batch[flushing.n + 1] = [e EXCEPT !.exists = Exists(e), !.buffer = NoBuffer]]
    <3>1. flushing' = [flushing EXCEPT !.n = flushing.n + 1, !.main = IF Upserts(e) THEN y ELSE w,
                          !.blobs = [flushing.blobs EXCEPT ![f] = ty],
                          !.batch = [flushing.batch EXCEPT ![flushing.n + 1] = g]]
      BY <1>1, <1>9, <1>11, <2>1
    <3> QED BY <1>1, <1>12, <1>13, <3>1
  <2>2. CASE /\ Upserts(e)
             /\ flushing' = [flushing EXCEPT !.n = @ + 1, !.main = y, !.blobs[f] = pictures[e.buffer],
                               !.batch[flushing.n + 1] = [e EXCEPT !.exists = Exists(e), !.buffer = NoBuffer]]
    <3>1. flushing' = [flushing EXCEPT !.n = flushing.n + 1, !.main = y,
                          !.blobs = [flushing.blobs EXCEPT ![f] = ty],
                          !.batch = [flushing.batch EXCEPT ![flushing.n + 1] = g]]
      BY <1>1, <1>9, <1>11, <2>2
    <3> QED BY <1>1, <1>12, <1>13, <3>1
  <2> QED BY <1>6, <2>1, <2>2
<1>15. PICK m \in {w, y} :
         flushing' = [on |-> flushing.on, main |-> m, blobs |-> bs, batch |-> bt, n |-> flushing.n + 1]
  BY <1>14
<1>16. /\ flushing'.on = flushing.on /\ flushing'.main = m /\ flushing'.blobs = bs /\ flushing'.batch = bt
       /\ flushing'.n = flushing.n + 1
  BY <1>15
<1>17. ty \in Picture /\ (ty = flushing.blobs[f] \/ (e.buffer # NoBuffer /\ ty = pictures[e.buffer]))
  <2>1. e.buffer \in Buffer \cup {NoBuffer} /\ pictures \in [Buffer -> Picture]
    BY <1>4 DEF Write, CatalogueShapes
  <2>2. flushing.blobs[f] \in Picture
    BY <1>1, <1>4
  <2>3. ASSUME Upserts(e) PROVE e.buffer \in Buffer /\ e.buffer # NoBuffer
    BY <2>1, <2>3 DEF Upserts
  <2> QED BY <1>11, <2>1, <2>2, <2>3
<1>18. bs \in [Image -> Picture]
  BY <1>1, <1>12, <1>17
<1>19. /\ bt \in Seq(Write) /\ Len(bt) = Len(flushing.batch) /\ bt[flushing.n + 1] = g
       /\ \A j \in 1..Len(flushing.batch) : j # flushing.n + 1 => bt[j] = flushing.batch[j]
  BY <1>1, <1>3, <1>10, <1>13
<1>20. m \in Tables /\ m.rows = w.rows /\ m.invalid = w.invalid /\ (TablesFit(flushing.main) => TablesFit(m))
  BY <1>7, <1>8, <1>15
<1>21. flushing' \in Flush
  <2>1. flushing.n + 1 \in Nat
    BY <1>1
  <2> QED BY <1>1, <1>15, <1>18, <1>19, <1>20, <2>1 DEF Flush
<1>22. ASSUME BlobsFit(flushing.blobs), Mine(e) PROVE BlobsFit(flushing'.blobs)
  <2>1. \A h \in Image : h # f => bs[h] = flushing.blobs[h]
    BY <1>1, <1>12
  <2>2. bs[f] = ty
    BY <1>1, <1>4, <1>12
  <2>3. ty = flushing.blobs[f] \/ ty.of = f
    BY <1>17, <1>22 DEF Mine
  <2>4. BlobsFit(bs)
    BY <1>4, <1>22, <2>1, <2>2, <2>3 DEF BlobsFit
  <2> QED BY <1>16, <2>4
<1>23. PutBack({e.buffer} \cap Buffer)
  <2>1. CASE WriteFileInTx
    BY <2>1 DEF WriteFileInTx
  <2>2. CASE TileFails
    <3>1. PutBack({e.buffer}) /\ e.buffer # NoBuffer
      BY <2>2 DEF TileFails, Upserts
    <3>2. e.buffer \in Buffer
      BY <1>4, <3>1 DEF Write
    <3>3. {e.buffer} \cap Buffer = {e.buffer}
      BY <3>2
    <3> QED BY <3>1, <3>3
  <2> QED BY <2>1, <2>2
<1>24. UNCHANGED <<disk, main, blobs, pictures, writes, second>> /\ (walk' = walk \/ walk' = Stormy(walk))
  BY DEF WriteFileInTx, TileFails, BoundsStay
<1>25. /\ flushing'.main.rows[f] = e.version
       /\ \A h \in Image : h # f => /\ flushing'.main.rows[h] = flushing.main.rows[h]
                                   /\ flushing'.main.invalid[h] = flushing.main.invalid[h]
       /\ TablesFit(flushing.main) => TablesFit(flushing'.main)
  BY <1>7, <1>16, <1>20
<1>26. /\ Len(flushing'.batch) = Len(flushing.batch)
       /\ \A j \in 1..Len(flushing.batch) : j # flushing.n + 1 => flushing'.batch[j] = flushing.batch[j]
       /\ flushing'.batch[flushing.n + 1].file = f /\ flushing'.batch[flushing.n + 1].version = e.version
       /\ flushing'.batch[flushing.n + 1].buffer = NoBuffer
  BY <1>10, <1>16, <1>19
<1> QED BY <1>1, <1>2, <1>3, <1>4, <1>16, <1>21, <1>22, <1>23, <1>24, <1>25, <1>26

-----------------------------------------------------------------------------
(* The invariant, action by action.                                        *)

\* Steps that only touch the walk, the images or the clock.
LEMMA WalkKeeps ==
  ASSUME CatalogueInv,
         \/ SecondPasses \/ WalkStarts \/ WalkEnds
         \/ \E f \in Image : \/ ImageChanges(f) \/ WalkReports(f)
                             \/ \E v \in 1..LastVersion : ProcessingFails(f, v)
  PROVE  CatalogueInv'
<1>1. /\ main' = main /\ blobs' = blobs /\ pool' = pool /\ pictures' = pictures
      /\ writes' = writes /\ flushing' = flushing
  BY DEF SecondPasses, WalkStarts, WalkEnds, ImageChanges, WalkReports, ProcessingFails, TablesStay
<1>2. AllFit' /\ BuffersOwned'
  <2>1. AllFit /\ BuffersOwned
    BY DEF CatalogueInv
  <2>2. AllFit'
    BY <1>1, <2>1 DEF AllFit, TablesFit, BlobsFit
  <2>3. BuffersOwned'
    BY <1>1, <2>1 DEF BuffersOwned, Mine, Apart
  <2> QED BY <2>2, <2>3
<1>3. /\ walk = [on |-> walk.on, todo |-> walk.todo, found |-> walk.found, failed |-> walk.failed,
                 calm |-> walk.calm, runs |-> walk.runs]
      /\ walk.on \in BOOLEAN /\ walk.todo \in SUBSET Image
      /\ walk.found \in SUBSET (Image \X (1..LastVersion)) /\ walk.failed \in SUBSET Image
      /\ walk.calm \in BOOLEAN /\ walk.runs \in Nat
  BY DEF CatalogueInv, CatalogueShapes, Walk
<1>4. /\ disk \in [Image -> 1..LastVersion] /\ second \in Nat /\ walk \in Walk
      /\ ~flushing.on => flushing.batch = <<>>
  BY DEF CatalogueInv, CatalogueShapes
<1>5. ASSUME disk' \in [Image -> 1..LastVersion], second' \in Nat, walk' \in Walk
      PROVE  CatalogueShapes'
  <2>1. CatalogueShapes
    BY DEF CatalogueInv
  <2> QED BY <1>1, <1>5, <2>1 DEF CatalogueShapes
<1>6. CalmInv
  BY DEF CatalogueInv
<1>7. ASSUME walk' = walk \/ ~(walk'.on /\ walk'.calm), walk' = walk => disk' = disk
      PROVE  CalmInv'
  <2>1. CASE ~(walk'.on /\ walk'.calm)
    BY <2>1 DEF CalmInv
  <2>2. CASE walk' = walk /\ disk' = disk
    BY <1>1, <1>6, <2>2
       DEF CalmInv, NoneOlder, NoneForgotten, TransactionKnows, Current, Underway, InWrites, InBatch, Known
  <2> QED BY <1>7, <2>1, <2>2
<1>8. CASE SecondPasses
  <2>1. disk' = disk /\ second' \in Nat /\ walk' = walk
    BY <1>4, <1>8 DEF SecondPasses
  <2> QED BY <1>2, <1>4, <1>5, <1>7, <2>1 DEF CatalogueInv
<1>9. CASE WalkStarts
  <2>1. /\ disk' = disk /\ second' = second
        /\ walk' = [on |-> TRUE, todo |-> Image, found |-> {}, failed |-> {}, runs |-> walk.runs + 1,
                    calm |-> writes = <<>> /\ ~flushing.on]
    BY <1>9 DEF WalkStarts, BoundsStay
  <2>2. walk' \in Walk
    <3>1. walk.runs + 1 \in Nat
      BY <1>3
    <3> QED BY <2>1, <3>1 DEF Walk
  <2>3. CalmInv'
    <3>1. SUFFICES ASSUME walk'.calm PROVE (NoneOlder /\ NoneForgotten /\ TransactionKnows)'
      BY DEF CalmInv
    <3>2. writes = <<>> /\ ~flushing.on /\ walk'.todo = Image /\ walk'.found = {}
      BY <2>1, <3>1
    <3>3. 1..Len(writes) = {} /\ 1..Len(flushing.batch) = {}
      BY <1>4, <3>2, EmptySeq
    <3> QED BY <1>1, <2>1, <3>2, <3>3 DEF NoneOlder, NoneForgotten, TransactionKnows, Underway
  <2> QED BY <1>2, <1>4, <1>5, <2>1, <2>2, <2>3 DEF CatalogueInv
<1>10. CASE WalkEnds
  <2>1. disk' = disk /\ second' = second /\ walk' = [walk EXCEPT !.on = FALSE]
    BY <1>10 DEF WalkEnds, BoundsStay
  <2>2. walk' = [on |-> FALSE, todo |-> walk.todo, found |-> walk.found, failed |-> walk.failed,
                 calm |-> walk.calm, runs |-> walk.runs]
    BY <1>3, <2>1
  <2>3. walk' \in Walk /\ ~walk'.on
    BY <1>3, <2>2 DEF Walk
  <2> QED BY <1>2, <1>4, <1>5, <1>7, <2>1, <2>3 DEF CatalogueInv
<1>11. ASSUME NEW f \in Image, ImageChanges(f) PROVE CatalogueInv'
  <2>1. second' = second /\ walk' = [walk EXCEPT !.calm = FALSE] /\ disk' \in [Image -> 1..LastVersion]
    BY <1>4, <1>11 DEF ImageChanges, Stormy
  <2>2. walk' = [on |-> walk.on, todo |-> walk.todo, found |-> walk.found, failed |-> walk.failed,
                 calm |-> FALSE, runs |-> walk.runs]
    BY <1>3, <2>1
  <2>3. walk' \in Walk /\ ~walk'.calm
    BY <1>3, <2>2 DEF Walk
  <2>4. CalmInv'
    BY <2>3 DEF CalmInv
  <2> QED BY <1>2, <1>4, <1>5, <2>1, <2>3, <2>4 DEF CatalogueInv
<1>12. ASSUME NEW f \in Image, WalkReports(f) PROVE CatalogueInv'
  <2>1. PICK found : found = (IF discoveryModificationDecision(f) THEN walk.found \cup {<<f, disk[f]>>} ELSE walk.found)
    OBVIOUS
  <2>2. disk' = disk /\ second' = second /\ walk.on /\ walk' = [walk EXCEPT !.todo = @ \ {f}, !.found = found]
    BY <1>12, <2>1 DEF WalkReports, BoundsStay
  <2>3. walk' = [on |-> walk.on, todo |-> walk.todo \ {f}, found |-> found, failed |-> walk.failed,
                 calm |-> walk.calm, runs |-> walk.runs]
    BY <1>3, <2>2
  <2>4. found \in SUBSET (Image \X (1..LastVersion))
    BY <1>3, <1>4, <1>12, <2>1
  <2>5. walk' \in Walk
    BY <1>3, <2>3, <2>4 DEF Walk
  <2>6. /\ walk'.on = walk.on /\ walk'.todo = walk.todo \ {f} /\ walk'.found = found
        /\ walk'.failed = walk.failed /\ walk'.calm = walk.calm
    BY <2>3
  <2>7. <<f, disk[f]>> \in found \/ Known(main, f)
    BY <2>1 DEF discoveryModificationDecision, Known
  <2>8. CalmInv'
    <3>1. SUFFICES ASSUME walk'.on, walk'.calm PROVE (NoneOlder /\ NoneForgotten /\ TransactionKnows)'
      BY DEF CalmInv
    <3>2. NoneOlder /\ NoneForgotten /\ TransactionKnows
      BY <1>6, <2>6, <3>1 DEF CalmInv
    <3>3. NoneOlder'
      <4>1. \A g \in Image, v \in 1..LastVersion : <<g, v>> \in found => v = disk[g]
        BY <2>1, <3>2 DEF NoneOlder
      <4> QED BY <1>1, <2>2, <2>6, <3>2, <4>1 DEF NoneOlder, Current
    <3>4. NoneForgotten'
      BY <1>1, <2>1, <2>2, <2>6, <2>7, <3>2 DEF NoneForgotten, Underway, Known, InWrites, InBatch
    <3>5. TransactionKnows'
      BY <1>1, <2>2, <3>2 DEF TransactionKnows, Known
    <3> QED BY <3>3, <3>4, <3>5
  <2> QED BY <1>2, <1>4, <1>5, <2>2, <2>5, <2>8 DEF CatalogueInv
<1>13. ASSUME NEW f \in Image, NEW v \in 1..LastVersion, ProcessingFails(f, v) PROVE CatalogueInv'
  <2>1. /\ disk' = disk /\ second' = second
        /\ walk' = [walk EXCEPT !.found = @ \ {<<f, v>>}, !.failed = @ \cup {f}]
    BY <1>13 DEF ProcessingFails, BoundsStay
  <2>2. walk' = [on |-> walk.on, todo |-> walk.todo, found |-> walk.found \ {<<f, v>>},
                 failed |-> walk.failed \cup {f}, calm |-> walk.calm, runs |-> walk.runs]
    BY <1>3, <2>1
  <2>3. walk' \in Walk
    BY <1>3, <1>13, <2>2 DEF Walk
  <2>4. /\ walk'.on = walk.on /\ walk'.todo = walk.todo /\ walk'.found = walk.found \ {<<f, v>>}
        /\ walk'.failed = walk.failed \cup {f} /\ walk'.calm = walk.calm
    BY <2>2
  <2>5. CalmInv'
    <3>1. SUFFICES ASSUME walk'.on, walk'.calm PROVE (NoneOlder /\ NoneForgotten /\ TransactionKnows)'
      BY DEF CalmInv
    <3>2. NoneOlder /\ NoneForgotten /\ TransactionKnows
      BY <1>6, <2>4, <3>1 DEF CalmInv
    <3>3. NoneOlder'
      BY <1>1, <2>1, <2>4, <3>2 DEF NoneOlder, Current
    <3>4. \A g \in Image : <<g, disk[g]>> \in walk.found => <<g, disk[g]>> \in walk'.found \/ g \in walk'.failed
      BY <2>4
    <3>5. NoneForgotten'
      BY <1>1, <2>1, <2>4, <3>2, <3>4 DEF NoneForgotten, Underway, Known, InWrites, InBatch
    <3>6. TransactionKnows'
      BY <1>1, <2>1, <3>2 DEF TransactionKnows, Known
    <3> QED BY <3>3, <3>5, <3>6
  <2> QED BY <1>2, <1>4, <1>5, <2>1, <2>3, <2>5 DEF CatalogueInv
<1> QED BY <1>8, <1>9, <1>10, <1>11, <1>12, <1>13

\* ProcessDiscoveryFile: the buffer it gets belongs to no other write.
LEMMA ProcessKeeps ==
  ASSUME CatalogueInv, NEW f \in Image, NEW v \in 1..LastVersion, ProcessDiscoveryFile(f, v)
  PROVE  CatalogueInv'
<1>1. CatalogueShapes /\ AllFit /\ BuffersOwned /\ CalmInv
  BY DEF CatalogueInv
<1>2. PICK b \in Buffer :
        /\ GetBytesBuffer(b) /\ pool' = [pool EXCEPT ![b] = IF pool[b] = 0 THEN 0 ELSE pool[b] - 1]
        /\ pictures' = [pictures EXCEPT ![b] = [of |-> f, v |-> disk[f]]]
        /\ writes' = Append(writes, [file |-> f, version |-> v, buffer |-> b, exists |-> FALSE])
  BY DEF ProcessDiscoveryFile
<1>3. /\ <<f, v>> \in walk.found /\ walk' = [walk EXCEPT !.found = @ \ {<<f, v>>}]
      /\ main' = main /\ blobs' = blobs /\ flushing' = flushing /\ disk' = disk /\ second' = second
  BY DEF ProcessDiscoveryFile, TablesStay, BoundsStay
<1>4. PICK e : e = [file |-> f, version |-> v, buffer |-> b, exists |-> FALSE]
  OBVIOUS
<1>5. /\ writes \in Seq(Write) /\ flushing.batch \in Seq(Write) /\ pool \in [Buffer -> {0, 1}]
      /\ pictures \in [Buffer -> Picture] /\ disk \in [Image -> 1..LastVersion] /\ LastVersion \in Nat
      /\ Len(flushing.batch) \in Nat
  BY <1>1, CatalogueAssumption DEF CatalogueShapes, Flush
<1>6. /\ e \in Write /\ e.file = f /\ e.version = v /\ e.buffer = b /\ b # NoBuffer
  BY <1>4, CatalogueAssumption DEF Write
<1>7. /\ writes' \in Seq(Write) /\ Len(writes) \in Nat /\ Len(writes') = Len(writes) + 1
      /\ writes'[Len(writes) + 1] = e /\ \A i \in 1..Len(writes) : writes'[i] = writes[i]
  <2>1. writes' = Append(writes, e)
    BY <1>2, <1>4
  <2> QED BY <1>5, <1>6, <2>1, AppendProperties
<1>8. \A i \in 1..Len(writes') : i \in 1..Len(writes) \/ i = Len(writes) + 1
  BY <1>7
<1>9. /\ pool' \in [Buffer -> {0, 1}] /\ pool'[b] = 0
      /\ \A c \in Buffer : c # b => pool'[c] = pool[c] /\ pictures'[c] = pictures[c]
  <2>1. (IF pool[b] = 0 THEN 0 ELSE pool[b] - 1) = 0
    BY <1>5
  <2> QED BY <1>2, <1>5, <2>1
<1>10. pictures' \in [Buffer -> Picture] /\ pictures'[b].of = f
  <2>1. disk[f] \in Nat
    BY <1>5
  <2>2. [of |-> f, v |-> disk[f]] \in Picture
    BY <2>1 DEF Picture
  <2> QED BY <1>2, <1>5, <2>2
<1>11. ASSUME NEW o \in Write, Mine(o), o.buffer = b PROVE FALSE
  <2>1. pool[b] = 0 /\ pictures[b].of = o.file
    BY <1>6, <1>11 DEF Mine
  <2>2. pictures[b] # NoPicture
    BY <1>11, <2>1, CatalogueAssumption DEF NoPicture, Write
  <2> QED BY <1>2, <2>1, <2>2 DEF GetBytesBuffer
<1>12. ASSUME NEW o \in Write, Mine(o)
       PROVE  Mine(o)' /\ Apart(o, e) /\ Apart(e, o)
  <2>1. o.buffer # b
    BY <1>11, <1>12
  <2>2. Mine(o)'
    BY <1>9, <1>12, <2>1 DEF Mine, Write
  <2> QED BY <1>6, <2>1, <2>2 DEF Apart
<1>13. Mine(e)'
  BY <1>6, <1>9, <1>10 DEF Mine
<1>14. BuffersOwned'
  <2>1. \A i \in 1..Len(writes) : writes[i] \in Write /\ Mine(writes[i])
    BY <1>1, <1>5, ElementOfSeq DEF BuffersOwned
  <2>2. \A j \in 1..Len(flushing.batch) : flushing.batch[j] \in Write /\ Mine(flushing.batch[j])
    BY <1>1, <1>5, ElementOfSeq DEF BuffersOwned
  <2>3. (\A i \in 1..Len(writes) : Mine(writes[i]))'
    <3> SUFFICES ASSUME NEW i \in 1..Len(writes') PROVE Mine(writes[i])'
      OBVIOUS
    <3>1. PICK o \in Write : o = writes'[i] /\ Mine(o)'
      BY <1>6, <1>7, <1>8, <1>12, <1>13, <2>1
    <3> QED BY <3>1 DEF Mine
  <2>4. (\A j \in 1..Len(flushing.batch) : Mine(flushing.batch[j]))'
    <3> SUFFICES ASSUME NEW j \in 1..Len(flushing'.batch) PROVE Mine(flushing.batch[j])'
      OBVIOUS
    <3>1. PICK o \in Write : o = flushing'.batch[j] /\ Mine(o)'
      BY <1>3, <1>12, <2>2
    <3> QED BY <3>1 DEF Mine
  <2>5. \A i, j \in 1..Len(writes') : i # j => Apart(writes'[i], writes'[j])
    <3>1. \A i, j \in 1..Len(writes) : i # j => Apart(writes[i], writes[j])
      BY <1>1 DEF BuffersOwned
    <3>2. \A i \in 1..Len(writes) : Apart(writes[i], e) /\ Apart(e, writes[i])
      BY <1>12, <2>1
    <3> QED BY <1>7, <1>8, <3>1, <3>2
  <2>6. \A i \in 1..Len(writes'), j \in 1..Len(flushing.batch) : Apart(writes'[i], flushing.batch[j])
    <3>1. \A i \in 1..Len(writes), j \in 1..Len(flushing.batch) : Apart(writes[i], flushing.batch[j])
      BY <1>1 DEF BuffersOwned
    <3>2. \A j \in 1..Len(flushing.batch) : Apart(e, flushing.batch[j])
      BY <1>12, <2>2
    <3> QED BY <1>7, <1>8, <3>1, <3>2
  <2>7. \A i, j \in 1..Len(flushing.batch) : i # j => Apart(flushing.batch[i], flushing.batch[j])
    BY <1>1 DEF BuffersOwned
  <2> QED BY <1>3, <2>3, <2>4, <2>5, <2>6, <2>7 DEF BuffersOwned, Apart
<1>15. /\ walk = [on |-> walk.on, todo |-> walk.todo, found |-> walk.found, failed |-> walk.failed,
                  calm |-> walk.calm, runs |-> walk.runs]
       /\ walk.on \in BOOLEAN /\ walk.todo \in SUBSET Image
       /\ walk.found \in SUBSET (Image \X (1..LastVersion)) /\ walk.failed \in SUBSET Image
       /\ walk.calm \in BOOLEAN /\ walk.runs \in Nat
  BY <1>1 DEF CatalogueShapes, Walk
<1>16. walk' = [on |-> walk.on, todo |-> walk.todo, found |-> walk.found \ {<<f, v>>},
                failed |-> walk.failed, calm |-> walk.calm, runs |-> walk.runs]
  BY <1>3, <1>15
<1>17. walk' \in Walk
  BY <1>15, <1>16 DEF Walk
<1>18. CatalogueShapes'
  BY <1>1, <1>3, <1>7, <1>9, <1>10, <1>17 DEF CatalogueShapes
<1>19. AllFit'
  BY <1>1, <1>3 DEF AllFit, TablesFit, BlobsFit
<1>20. CalmInv'
  <2>1. /\ walk'.on = walk.on /\ walk'.todo = walk.todo /\ walk'.found = walk.found \ {<<f, v>>}
        /\ walk'.failed = walk.failed /\ walk'.calm = walk.calm
    BY <1>16
  <2>2. SUFFICES ASSUME walk'.on, walk'.calm PROVE (NoneOlder /\ NoneForgotten /\ TransactionKnows)'
    BY DEF CalmInv
  <2>3. NoneOlder /\ NoneForgotten /\ TransactionKnows
    BY <1>1, <2>1, <2>2 DEF CalmInv
  <2>4. e.version = disk[e.file]
    BY <1>3, <1>6, <2>3 DEF NoneOlder
  <2>5. NoneOlder'
    <3>1. (\A i \in 1..Len(writes) : Current(writes[i]))'
      BY <1>3, <1>7, <1>8, <2>3, <2>4 DEF NoneOlder, Current
    <3> QED BY <1>3, <2>1, <2>3, <3>1 DEF NoneOlder, Current
  <2>6. \A g \in Image : InWrites(g) \/ g = f => InWrites(g)'
    <3>1. \A i \in 1..Len(writes) : i \in 1..Len(writes')
      BY <1>7
    <3>2. Len(writes) + 1 \in 1..Len(writes')
      BY <1>7
    <3> QED BY <1>6, <1>7, <3>1, <3>2 DEF InWrites
  <2>7. \A g \in Image : <<g, disk[g]>> \in walk.found => <<g, disk[g]>> \in walk'.found \/ g = f
    BY <2>1
  <2>8. \A g \in Image : Underway(g) => Underway(g)'
    BY <1>3, <2>1, <2>6, <2>7 DEF Underway, InBatch
  <2>9. NoneForgotten'
    BY <1>3, <2>3, <2>8 DEF NoneForgotten, Known
  <2>10. TransactionKnows'
    BY <1>3, <2>3 DEF TransactionKnows, Known
  <2> QED BY <2>5, <2>9, <2>10
<1> QED BY <1>14, <1>18, <1>19, <1>20 DEF CatalogueInv

\* recordInvalidFileFromPath: the image is known now, or the walk is not calm.
LEMMA InvalidKeeps ==
  ASSUME CatalogueInv, NEW f \in Image, recordInvalidFileFromPath(f)
  PROVE  CatalogueInv'
<1>1. CatalogueShapes /\ AllFit /\ BuffersOwned /\ CalmInv
  BY DEF CatalogueInv
<1>2. /\ ~flushing.on /\ disk' = disk /\ blobs' = blobs /\ pool' = pool /\ pictures' = pictures
      /\ writes' = writes /\ flushing' = flushing /\ second' = second
      /\ walk' = [walk EXCEPT !.failed = @ \ {f}, !.calm = @ /\ Last(Chain[f]) \in main.folders]
  BY DEF recordInvalidFileFromPath, BoundsStay
<1>3. /\ walk = [on |-> walk.on, todo |-> walk.todo, found |-> walk.found, failed |-> walk.failed,
                 calm |-> walk.calm, runs |-> walk.runs]
      /\ walk.on \in BOOLEAN /\ walk.todo \in SUBSET Image
      /\ walk.found \in SUBSET (Image \X (1..LastVersion)) /\ walk.failed \in SUBSET Image
      /\ walk.calm \in BOOLEAN /\ walk.runs \in Nat
  BY <1>1 DEF CatalogueShapes, Walk
<1>4. PICK here \in BOOLEAN : here <=> Last(Chain[f]) \in main.folders
  <2>1. CASE Last(Chain[f]) \in main.folders
    BY <2>1
  <2>2. CASE Last(Chain[f]) \notin main.folders
    BY <2>2
  <2> QED BY <2>1, <2>2
<1>5. walk' = [on |-> walk.on, todo |-> walk.todo, found |-> walk.found, failed |-> walk.failed \ {f},
               calm |-> walk.calm /\ here, runs |-> walk.runs]
  BY <1>2, <1>3, <1>4
<1>6. /\ walk' \in Walk /\ walk'.on = walk.on /\ walk'.todo = walk.todo /\ walk'.found = walk.found
      /\ walk'.failed = walk.failed \ {f} /\ walk'.calm = (walk.calm /\ here)
  <2>1. (walk.calm /\ here) \in BOOLEAN
    BY <1>3
  <2> QED BY <1>3, <1>5, <2>1 DEF Walk
<1>7. /\ main = [rows |-> main.rows, created |-> main.created, invalid |-> main.invalid,
                 thumbs |-> main.thumbs, folders |-> main.folders, tile |-> main.tile]
      /\ main.rows \in [Image -> 0..LastVersion] /\ main.created \in [Image -> Nat]
      /\ main.invalid \in [Image -> 0..LastVersion] /\ main.thumbs \in SUBSET Image
      /\ main.folders \in SUBSET Folder /\ main.tile \in [Folder -> Image \cup {NoImage}]
  BY <1>1 DEF CatalogueShapes, Tables
<1>8. disk[f] \in 0..LastVersion
  <2>1. disk[f] \in 1..LastVersion /\ LastVersion \in Nat
    BY <1>1, CatalogueAssumption DEF CatalogueShapes
  <2> QED BY <2>1
<1>9. ASSUME here
      PROVE  main' = [rows |-> main.rows, created |-> main.created, invalid |-> [main.invalid EXCEPT ![f] = disk[f]],
                      thumbs |-> main.thumbs, folders |-> main.folders, tile |-> main.tile]
  <2>1. main' = [main EXCEPT !.invalid[f] = disk[f]]
    BY <1>4, <1>9 DEF recordInvalidFileFromPath
  <2>2. main' = [main EXCEPT !.invalid = [main.invalid EXCEPT ![f] = disk[f]]]
    BY <1>7, <2>1
  <2> QED BY <1>7, <2>2
<1>10. ~here => main' = main
  BY <1>4 DEF recordInvalidFileFromPath
<1>11. /\ main' \in Tables /\ main'.rows = main.rows /\ main'.thumbs = main.thumbs
       /\ main'.folders = main.folders /\ main'.tile = main.tile
       /\ \A g \in Image : g # f => main'.invalid[g] = main.invalid[g]
       /\ here => main'.invalid[f] = disk[f]
  <2>1. CASE here
    <3>1. [main.invalid EXCEPT ![f] = disk[f]] \in [Image -> 0..LastVersion]
      BY <1>7, <1>8
    <3>2. main' \in Tables
      BY <1>7, <1>9, <2>1, <3>1 DEF Tables
    <3> QED BY <1>7, <1>9, <2>1, <3>2
  <2>2. CASE ~here
    BY <1>1, <1>10, <2>2 DEF CatalogueShapes
  <2> QED BY <2>1, <2>2
<1>12. CatalogueShapes'
  BY <1>1, <1>2, <1>6, <1>11 DEF CatalogueShapes
<1>13. AllFit'
  BY <1>1, <1>2, <1>11 DEF AllFit, TablesFit, BlobsFit
<1>14. BuffersOwned'
  BY <1>1, <1>2 DEF BuffersOwned, Mine, Apart
<1>15. CalmInv'
  <2>1. SUFFICES ASSUME walk'.on, walk'.calm PROVE (NoneOlder /\ NoneForgotten /\ TransactionKnows)'
    BY DEF CalmInv
  <2>2. here /\ NoneOlder /\ NoneForgotten
    BY <1>1, <1>6, <2>1 DEF CalmInv
  <2>3. NoneOlder'
    BY <1>2, <1>6, <2>2 DEF NoneOlder, Current
  <2>4. NoneForgotten'
    BY <1>2, <1>6, <1>11, <2>2 DEF NoneForgotten, Underway, Known, InWrites, InBatch
  <2>5. TransactionKnows'
    BY <1>2 DEF TransactionKnows
  <2> QED BY <2>3, <2>4, <2>5
<1> QED BY <1>12, <1>13, <1>14, <1>15 DEF CatalogueInv

\* BeginTx: what is taken and what stays are the writes, each of them once.
LEMMA BeginKeeps ==
  ASSUME CatalogueInv, BeginTx
  PROVE  CatalogueInv'
<1>1. CatalogueShapes /\ AllFit /\ BuffersOwned /\ CalmInv
  BY DEF CatalogueInv
<1>2. PICK taken \in SUBSET (1..Len(writes)) :
        /\ flushing' = [on |-> TRUE, main |-> main, blobs |-> blobs, batch |-> WritesAt(taken), n |-> 0]
        /\ writes' = WritesAt((1..Len(writes)) \ taken)
  BY DEF BeginTx
<1>3. /\ ~flushing.on /\ main' = main /\ blobs' = blobs /\ pool' = pool /\ pictures' = pictures
      /\ disk' = disk /\ walk' = walk /\ second' = second
  BY DEF BeginTx, BoundsStay
<1>4. PICK rest : rest = (1..Len(writes)) \ taken
  OBVIOUS
<1>5. PICK b : b = WritesAt(taken)
  OBVIOUS
<1>6. PICK s : s = WritesAt(rest)
  OBVIOUS
<1>7. /\ flushing' = [on |-> TRUE, main |-> main, blobs |-> blobs, batch |-> b, n |-> 0]
      /\ writes' = s
  BY <1>2, <1>4, <1>5, <1>6
<1>8. writes \in Seq(Write) /\ taken \in SUBSET (1..Len(writes)) /\ rest \in SUBSET (1..Len(writes))
  BY <1>1, <1>4 DEF CatalogueShapes
<1>9. /\ b \in Seq(Write) /\ Len(b) \in Nat
      /\ \A k \in 1..Len(b) : Nth(taken, k) \in taken /\ b[k] = writes[Nth(taken, k)]
      /\ \A k, l \in 1..Len(b) : Nth(taken, k) = Nth(taken, l) => k = l
      /\ \A i \in taken : \E k \in 1..Len(b) : b[k] = writes[i]
  <2>1. b \in Seq(Write) /\ Len(b) \in Nat /\ OnceEach(b, taken)
    BY <1>5, <1>8, WritesThere
  <2> QED BY <2>1 DEF OnceEach
<1>10. /\ s \in Seq(Write) /\ Len(s) \in Nat
       /\ \A k \in 1..Len(s) : Nth(rest, k) \in rest /\ s[k] = writes[Nth(rest, k)]
       /\ \A k, l \in 1..Len(s) : Nth(rest, k) = Nth(rest, l) => k = l
       /\ \A i \in rest : \E k \in 1..Len(s) : s[k] = writes[i]
  <2>1. s \in Seq(Write) /\ Len(s) \in Nat /\ OnceEach(s, rest)
    BY <1>6, <1>8, WritesThere
  <2> QED BY <2>1 DEF OnceEach
<1>11. /\ flushing'.on /\ flushing'.main = main /\ flushing'.blobs = blobs /\ flushing'.batch = b
       /\ flushing'.n = 0
  BY <1>7
<1>12. CatalogueShapes'
  <2>1. main \in Tables /\ blobs \in [Image -> Picture]
    BY <1>1 DEF CatalogueShapes
  <2>2. flushing' \in Flush
    BY <1>7, <1>9, <2>1 DEF Flush
  <2>3. flushing'.n <= Len(flushing'.batch)
    BY <1>9, <1>11
  <2> QED BY <1>1, <1>3, <1>7, <1>10, <1>11, <2>2, <2>3 DEF CatalogueShapes
<1>13. AllFit'
  BY <1>1, <1>3, <1>11 DEF AllFit, TablesFit, BlobsFit
<1>14. /\ \A i \in 1..Len(writes) : Mine(writes[i])
       /\ \A i, j \in 1..Len(writes) : i # j => Apart(writes[i], writes[j])
  BY <1>1 DEF BuffersOwned
<1>15. BuffersOwned'
  <2>1. (\A i \in 1..Len(s) : Mine(s[i])) /\ (\A j \in 1..Len(b) : Mine(b[j]))
    BY <1>8, <1>9, <1>10, <1>14
  <2>2. \A i, j \in 1..Len(s) : i # j => Apart(s[i], s[j])
    <3> SUFFICES ASSUME NEW i \in 1..Len(s), NEW j \in 1..Len(s), i # j PROVE Apart(s[i], s[j])
      OBVIOUS
    <3>1. Nth(rest, i) # Nth(rest, j) /\ Nth(rest, i) \in 1..Len(writes) /\ Nth(rest, j) \in 1..Len(writes)
      BY <1>8, <1>10
    <3> QED BY <1>10, <1>14, <3>1
  <2>3. \A i, j \in 1..Len(b) : i # j => Apart(b[i], b[j])
    <3> SUFFICES ASSUME NEW i \in 1..Len(b), NEW j \in 1..Len(b), i # j PROVE Apart(b[i], b[j])
      OBVIOUS
    <3>1. Nth(taken, i) # Nth(taken, j) /\ Nth(taken, i) \in 1..Len(writes) /\ Nth(taken, j) \in 1..Len(writes)
      BY <1>8, <1>9
    <3> QED BY <1>9, <1>14, <3>1
  <2>4. \A i \in 1..Len(s), j \in 1..Len(b) : Apart(s[i], b[j])
    <3> SUFFICES ASSUME NEW i \in 1..Len(s), NEW j \in 1..Len(b) PROVE Apart(s[i], b[j])
      OBVIOUS
    <3>1. Nth(rest, i) \in rest /\ Nth(taken, j) \in taken
      BY <1>9, <1>10
    <3>2. Nth(rest, i) # Nth(taken, j) /\ Nth(rest, i) \in 1..Len(writes) /\ Nth(taken, j) \in 1..Len(writes)
      BY <1>4, <1>8, <3>1
    <3> QED BY <1>9, <1>10, <1>14, <3>2
  <2> QED BY <1>3, <1>7, <1>11, <2>1, <2>2, <2>3, <2>4 DEF BuffersOwned, Mine, Apart
<1>16. CalmInv'
  <2>1. SUFFICES ASSUME walk'.on, walk'.calm PROVE (NoneOlder /\ NoneForgotten /\ TransactionKnows)'
    BY DEF CalmInv
  <2>2. NoneOlder /\ NoneForgotten
    BY <1>1, <1>3, <2>1 DEF CalmInv
  <2>3. NoneOlder'
    <3>1. \A i \in 1..Len(writes) : Current(writes[i])
      BY <2>2 DEF NoneOlder
    <3>2. (\A i \in 1..Len(s) : Current(s[i])) /\ (\A j \in 1..Len(b) : Current(b[j]))
      BY <1>8, <1>9, <1>10, <3>1
    <3> QED BY <1>3, <1>7, <1>11, <2>2, <3>2 DEF NoneOlder, Current
  <2>4. \A i \in 1..Len(writes) : (\E k \in 1..Len(s) : s[k] = writes[i]) \/ (\E k \in 1..Len(b) : b[k] = writes[i])
    BY <1>4, <1>9, <1>10
  <2>5. \A g \in Image : InWrites(g) => (InWrites(g) \/ InBatch(g))'
    <3> SUFFICES ASSUME NEW g \in Image, InWrites(g) PROVE (InWrites(g) \/ InBatch(g))'
      OBVIOUS
    <3>1. PICK i \in 1..Len(writes) : writes[i].file = g
      BY DEF InWrites
    <3>2. CASE \E k \in 1..Len(s) : s[k] = writes[i]
      BY <1>7, <3>1, <3>2 DEF InWrites
    <3>3. CASE \E k \in 1..Len(b) : b[k] = writes[i]
      BY <1>11, <3>1, <3>3 DEF InBatch
    <3> QED BY <2>4, <3>2, <3>3
  <2>6. \A g \in Image : ~InBatch(g)
    <3>1. flushing.batch = <<>>
      BY <1>1, <1>3 DEF CatalogueShapes
    <3>2. 1..Len(flushing.batch) = {}
      BY <3>1, EmptySeq
    <3> QED BY <3>2 DEF InBatch
  <2>7. \A g \in Image : Underway(g) => Underway(g)'
    BY <1>3, <2>5, <2>6 DEF Underway
  <2>8. NoneForgotten'
    BY <1>3, <2>2, <2>7 DEF NoneForgotten, Known
  <2>9. TransactionKnows'
    BY <1>3, <1>11 DEF TransactionKnows, Known
  <2> QED BY <2>3, <2>8, <2>9
<1> QED BY <1>12, <1>13, <1>15, <1>16 DEF CatalogueInv

\* SubmitFails: the buffer it got belonged to no write, and goes to the pool.
LEMMA SubmitFailsKeeps ==
  ASSUME CatalogueInv, NEW f \in Image, NEW v \in 1..LastVersion, SubmitFails(f, v)
  PROVE  CatalogueInv'
<1>1. CatalogueShapes /\ AllFit /\ BuffersOwned
  BY DEF CatalogueInv
<1>2. PICK b \in Buffer :
        /\ GetBytesBuffer(b) /\ pool' = [pool EXCEPT ![b] = IF pool[b] = 0 THEN 1 ELSE pool[b]]
        /\ pictures' = [pictures EXCEPT ![b] = [of |-> f, v |-> disk[f]]]
  BY DEF SubmitFails
<1>3. /\ walk' = Stormy([walk EXCEPT !.found = @ \ {<<f, v>>}])
      /\ main' = main /\ blobs' = blobs /\ flushing' = flushing /\ disk' = disk /\ second' = second
      /\ writes' = writes
  BY DEF SubmitFails, TablesStay, BoundsStay
<1>4. /\ writes \in Seq(Write) /\ flushing.batch \in Seq(Write) /\ pool \in [Buffer -> {0, 1}]
      /\ pictures \in [Buffer -> Picture] /\ disk \in [Image -> 1..LastVersion] /\ LastVersion \in Nat
  BY <1>1, CatalogueAssumption DEF CatalogueShapes, Flush
<1>5. pool' \in [Buffer -> {0, 1}] /\ pictures' \in [Buffer -> Picture]
  <2>1. disk[f] \in Nat
    BY <1>4
  <2>2. [of |-> f, v |-> disk[f]] \in Picture
    BY <2>1 DEF Picture
  <2> QED BY <1>2, <1>4, <2>2
<1>6. walk' \in Walk /\ ~walk'.calm
  <2>1. /\ walk = [on |-> walk.on, todo |-> walk.todo, found |-> walk.found, failed |-> walk.failed,
                   calm |-> walk.calm, runs |-> walk.runs]
        /\ walk.on \in BOOLEAN /\ walk.todo \in SUBSET Image
        /\ walk.found \in SUBSET (Image \X (1..LastVersion)) /\ walk.failed \in SUBSET Image
        /\ walk.runs \in Nat
    BY <1>1 DEF CatalogueShapes, Walk
  <2>2. walk' = [on |-> walk.on, todo |-> walk.todo, found |-> walk.found \ {<<f, v>>},
                 failed |-> walk.failed, calm |-> FALSE, runs |-> walk.runs]
    BY <1>3, <2>1 DEF Stormy
  <2> QED BY <2>1, <2>2 DEF Walk
<1>7. ASSUME NEW o \in Write, Mine(o) PROVE Mine(o)'
  <2>1. SUFFICES ASSUME o.buffer # NoBuffer PROVE pool'[o.buffer] = 0 /\ pictures'[o.buffer].of = o.file
    BY DEF Mine
  <2>2. o.buffer \in Buffer /\ pool[o.buffer] = 0 /\ pictures[o.buffer].of = o.file
    BY <1>7, <2>1 DEF Mine, Write
  <2>3. pictures[o.buffer] # NoPicture
    BY <2>2, CatalogueAssumption DEF NoPicture, Write
  <2>4. o.buffer # b
    BY <1>2, <2>2, <2>3 DEF GetBytesBuffer
  <2> QED BY <1>2, <1>4, <2>2, <2>4
<1>8. CatalogueShapes'
  BY <1>1, <1>3, <1>5, <1>6 DEF CatalogueShapes
<1>9. AllFit'
  BY <1>1, <1>3 DEF AllFit, TablesFit, BlobsFit
<1>10. BuffersOwned'
  <2>1. \A i \in 1..Len(writes) : writes[i] \in Write /\ Mine(writes[i])
    BY <1>1, <1>4, ElementOfSeq DEF BuffersOwned
  <2>2. \A j \in 1..Len(flushing.batch) : flushing.batch[j] \in Write /\ Mine(flushing.batch[j])
    BY <1>1, <1>4, ElementOfSeq DEF BuffersOwned
  <2>3. (\A i \in 1..Len(writes) : Mine(writes[i]))'
    <3> SUFFICES ASSUME NEW i \in 1..Len(writes') PROVE Mine(writes[i])'
      OBVIOUS
    <3>1. PICK o \in Write : o = writes'[i] /\ Mine(o)'
      BY <1>3, <1>7, <2>1
    <3> QED BY <3>1 DEF Mine
  <2>4. (\A j \in 1..Len(flushing.batch) : Mine(flushing.batch[j]))'
    <3> SUFFICES ASSUME NEW j \in 1..Len(flushing'.batch) PROVE Mine(flushing.batch[j])'
      OBVIOUS
    <3>1. PICK o \in Write : o = flushing'.batch[j] /\ Mine(o)'
      BY <1>3, <1>7, <2>2
    <3> QED BY <3>1 DEF Mine
  <2> QED BY <1>1, <1>3, <2>3, <2>4 DEF BuffersOwned, Apart
<1>11. CalmInv'
  BY <1>6 DEF CalmInv
<1> QED BY <1>8, <1>9, <1>10, <1>11 DEF CatalogueInv

\* WriteFileInTx, and with the update of a tile failing.
LEMMA WriteKeeps ==
  ASSUME CatalogueInv, WriteFileInTx \/ TileFails
  PROVE  CatalogueInv'
<1>1. CatalogueShapes /\ AllFit /\ BuffersOwned /\ CalmInv
  BY DEF CatalogueInv
<1>2. PICK e, f : e = Writing /\ f = e.file
  OBVIOUS
<1>3. /\ flushing.on /\ flushing.n + 1 \in 1..Len(flushing.batch) /\ flushing.n \in Nat
      /\ e = flushing.batch[flushing.n + 1] /\ e \in Write /\ f \in Image
      /\ flushing' \in Flush /\ flushing'.on /\ flushing'.n = flushing.n + 1
      /\ Len(flushing'.batch) = Len(flushing.batch) /\ Len(flushing.batch) \in Nat
      /\ \A j \in 1..Len(flushing.batch) : j # flushing.n + 1 => flushing'.batch[j] = flushing.batch[j]
      /\ flushing'.batch[flushing.n + 1].file = f /\ flushing'.batch[flushing.n + 1].version = e.version
      /\ flushing'.batch[flushing.n + 1].buffer = NoBuffer
      /\ flushing'.main.rows[f] = e.version
      /\ \A g \in Image : g # f => /\ flushing'.main.rows[g] = flushing.main.rows[g]
                                  /\ flushing'.main.invalid[g] = flushing.main.invalid[g]
      /\ TablesFit(flushing.main) => TablesFit(flushing'.main)
      /\ PutBack({e.buffer} \cap Buffer)
      /\ (walk' = walk \/ walk' = Stormy(walk))
  <2>1. CatalogueShapes /\ (WriteFileInTx \/ TileFails) /\ e = Writing /\ f = e.file
    BY <1>1, <1>2
  <2>2. /\ flushing.on /\ flushing.n + 1 \in 1..Len(flushing.batch) /\ flushing.n \in Nat
        /\ e = flushing.batch[flushing.n + 1] /\ e \in Write /\ f \in Image
        /\ flushing' \in Flush /\ flushing'.on /\ flushing'.n = flushing.n + 1
        /\ Len(flushing'.batch) = Len(flushing.batch) /\ Len(flushing.batch) \in Nat
    BY <2>1, FileWritten
  <2>3. /\ \A j \in 1..Len(flushing.batch) : j # flushing.n + 1 => flushing'.batch[j] = flushing.batch[j]
        /\ flushing'.batch[flushing.n + 1].file = f /\ flushing'.batch[flushing.n + 1].version = e.version
        /\ flushing'.batch[flushing.n + 1].buffer = NoBuffer
    BY <2>1, FileWritten
  <2>4. flushing'.main.rows[f] = e.version
    BY <2>1, FileWritten
  <2>5. ASSUME NEW g \in Image, g # f
        PROVE  flushing'.main.rows[g] = flushing.main.rows[g] /\ flushing'.main.invalid[g] = flushing.main.invalid[g]
    BY <2>1, <2>5, FileWritten
  <2>6. TablesFit(flushing.main) => TablesFit(flushing'.main)
    BY <2>1, FileWritten
  <2>7. PutBack({e.buffer} \cap Buffer) /\ (walk' = walk \/ walk' = Stormy(walk))
    BY <2>1, FileWritten
  <2> QED BY <2>2, <2>3, <2>4, <2>5, <2>6, <2>7
<1>4. /\ BlobsFit(flushing.blobs) /\ Mine(e) => BlobsFit(flushing'.blobs)
      /\ disk' = disk /\ main' = main /\ blobs' = blobs /\ pictures' = pictures /\ writes' = writes
      /\ second' = second
  <2>1. BlobsFit(flushing.blobs) /\ Mine(e) => BlobsFit(flushing'.blobs)
    BY <1>1, <1>2, FileWritten
  <2>2. UNCHANGED <<disk, main, blobs, pictures, writes, second>>
    BY DEF WriteFileInTx, TileFails, BoundsStay
  <2> QED BY <2>1, <2>2
<1>5. /\ \A i \in 1..Len(writes) : Mine(writes[i])
      /\ \A j \in 1..Len(flushing.batch) : Mine(flushing.batch[j])
      /\ \A i, j \in 1..Len(writes) : i # j => Apart(writes[i], writes[j])
      /\ \A i, j \in 1..Len(flushing.batch) : i # j => Apart(flushing.batch[i], flushing.batch[j])
      /\ \A i \in 1..Len(writes), j \in 1..Len(flushing.batch) : Apart(writes[i], flushing.batch[j])
  BY <1>1 DEF BuffersOwned
<1>6. /\ writes \in Seq(Write) /\ flushing.batch \in Seq(Write) /\ pool \in [Buffer -> {0, 1}]
      /\ flushing.blobs \in [Image -> Picture] /\ pictures \in [Buffer -> Picture]
  BY <1>1 DEF CatalogueShapes, Flush
<1>7. e.buffer \in Buffer \cup {NoBuffer} /\ e.file = f
  BY <1>2, <1>3 DEF Write
<1>8. /\ \A b \in Buffer : b # e.buffer => pool'[b] = pool[b]
      /\ pool' \in [Buffer -> {0, 1}]
  <2>1. pool' = [b \in Buffer |-> pool[b] + IF b \in {e.buffer} \cap Buffer THEN 1 ELSE 0]
    BY <1>3 DEF PutBack
  <2>2. \A b \in Buffer : b # e.buffer => pool'[b] = pool[b]
    <3> SUFFICES ASSUME NEW b \in Buffer, b # e.buffer PROVE pool'[b] = pool[b]
      OBVIOUS
    <3>1. pool'[b] = pool[b] + 0 /\ pool[b] \in {0, 1}
      BY <1>6, <2>1
    <3> QED BY <3>1
  <2>3. e.buffer \in Buffer => pool'[e.buffer] = 1
    <3> SUFFICES ASSUME e.buffer \in Buffer PROVE pool'[e.buffer] = 1
      OBVIOUS
    <3>1. pool[e.buffer] = 0
      BY <1>3, <1>5, CatalogueAssumption DEF Mine
    <3> QED BY <2>1, <3>1
  <2>4. \A b \in Buffer : pool'[b] \in {0, 1}
    BY <1>6, <2>2, <2>3
  <2> QED BY <2>1, <2>2, <2>4
<1>9. walk' \in Walk /\ (walk'.calm => walk' = walk)
  <2>1. /\ walk = [on |-> walk.on, todo |-> walk.todo, found |-> walk.found, failed |-> walk.failed,
                   calm |-> walk.calm, runs |-> walk.runs]
        /\ walk.on \in BOOLEAN /\ walk.todo \in SUBSET Image
        /\ walk.found \in SUBSET (Image \X (1..LastVersion)) /\ walk.failed \in SUBSET Image
        /\ walk.calm \in BOOLEAN /\ walk.runs \in Nat
    BY <1>1 DEF CatalogueShapes, Walk
  <2>2. CASE walk' = Stormy(walk)
    <3>1. walk' = [on |-> walk.on, todo |-> walk.todo, found |-> walk.found, failed |-> walk.failed,
                   calm |-> FALSE, runs |-> walk.runs]
      BY <2>1, <2>2 DEF Stormy
    <3> QED BY <2>1, <3>1 DEF Walk
  <2>3. CASE walk' = walk
    BY <1>1, <2>3 DEF CatalogueShapes
  <2> QED BY <1>3, <2>2, <2>3
<1>10. CatalogueShapes'
  BY <1>1, <1>3, <1>4, <1>8, <1>9 DEF CatalogueShapes
<1>11. AllFit'
  <2>1. TablesFit(flushing'.main)
    BY <1>1, <1>3 DEF AllFit
  <2>2. BlobsFit(flushing'.blobs)
    <3>1. BlobsFit(flushing.blobs) /\ Mine(e)
      BY <1>1, <1>3, <1>5 DEF AllFit
    <3> QED BY <1>4, <3>1
  <2> QED BY <1>1, <1>4, <2>1, <2>2 DEF AllFit, TablesFit, BlobsFit
<1>12. ASSUME NEW o \in Write, Mine(o), Apart(o, e) \/ o.buffer = NoBuffer PROVE Mine(o)'
  <2>1. o.buffer \in Buffer \cup {NoBuffer}
    BY DEF Write
  <2>2. o.buffer # NoBuffer => pool'[o.buffer] = pool[o.buffer]
    BY <1>8, <1>12, <2>1 DEF Apart
  <2> QED BY <1>4, <1>12, <2>2 DEF Mine
<1>13. BuffersOwned'
  <2>1. (\A i \in 1..Len(writes) : Mine(writes[i]))'
    <3> SUFFICES ASSUME NEW i \in 1..Len(writes') PROVE Mine(writes[i])'
      OBVIOUS
    <3>1. writes[i] \in Write /\ Mine(writes[i]) /\ Apart(writes[i], e) /\ i \in 1..Len(writes)
      BY <1>3, <1>4, <1>5, <1>6, ElementOfSeq
    <3>2. PICK o \in Write : o = writes'[i] /\ Mine(o)'
      BY <1>4, <1>12, <3>1
    <3> QED BY <3>2 DEF Mine
  <2>2. (\A j \in 1..Len(flushing.batch) : Mine(flushing.batch[j]))'
    <3> SUFFICES ASSUME NEW j \in 1..Len(flushing'.batch) PROVE Mine(flushing.batch[j])'
      OBVIOUS
    <3>1. CASE j = flushing.n + 1
      BY <1>3, <3>1 DEF Mine
    <3>2. CASE j # flushing.n + 1
      <4>1. j \in 1..Len(flushing.batch) /\ flushing'.batch[j] = flushing.batch[j]
        BY <1>3, <3>2
      <4>2. flushing.batch[j] \in Write /\ Mine(flushing.batch[j]) /\ Apart(flushing.batch[j], e)
        BY <1>3, <1>5, <1>6, <3>2, <4>1, ElementOfSeq
      <4>3. PICK o \in Write : o = flushing'.batch[j] /\ Mine(o)'
        BY <1>12, <4>1, <4>2
      <4> QED BY <4>3 DEF Mine
    <3> QED BY <3>1, <3>2
  <2>3. \A i, j \in 1..Len(writes') : i # j => Apart(writes'[i], writes'[j])
    BY <1>4, <1>5
  <2>4. \A i, j \in 1..Len(flushing'.batch) : i # j => Apart(flushing'.batch[i], flushing'.batch[j])
    <3> SUFFICES ASSUME NEW i \in 1..Len(flushing'.batch), NEW j \in 1..Len(flushing'.batch), i # j
                 PROVE  Apart(flushing'.batch[i], flushing'.batch[j])
      OBVIOUS
    <3>1. i \in 1..Len(flushing.batch) /\ j \in 1..Len(flushing.batch)
      BY <1>3
    <3>2. Apart(flushing.batch[i], flushing.batch[j])
      BY <1>5, <3>1
    <3>3. CASE i = flushing.n + 1
      BY <1>3, <3>3 DEF Apart
    <3>4. CASE i # flushing.n + 1 /\ j = flushing.n + 1
      BY <1>3, <3>1, <3>4 DEF Apart
    <3>5. CASE i # flushing.n + 1 /\ j # flushing.n + 1
      BY <1>3, <3>1, <3>2, <3>5
    <3> QED BY <3>3, <3>4, <3>5
  <2>5. \A i \in 1..Len(writes'), j \in 1..Len(flushing'.batch) : Apart(writes'[i], flushing'.batch[j])
    <3> SUFFICES ASSUME NEW i \in 1..Len(writes'), NEW j \in 1..Len(flushing'.batch)
                 PROVE  Apart(writes'[i], flushing'.batch[j])
      OBVIOUS
    <3>1. i \in 1..Len(writes) /\ j \in 1..Len(flushing.batch) /\ writes'[i] = writes[i]
      BY <1>3, <1>4
    <3>2. Apart(writes[i], flushing.batch[j])
      BY <1>5, <3>1
    <3>3. CASE j = flushing.n + 1
      BY <1>3, <3>3 DEF Apart
    <3>4. CASE j # flushing.n + 1
      BY <1>3, <3>1, <3>2, <3>4
    <3> QED BY <3>3, <3>4
  <2> QED BY <2>1, <2>2, <2>3, <2>4, <2>5 DEF BuffersOwned, Apart
<1>14. CalmInv'
  <2>1. SUFFICES ASSUME walk'.on, walk'.calm PROVE (NoneOlder /\ NoneForgotten /\ TransactionKnows)'
    BY DEF CalmInv
  <2>2. walk' = walk
    BY <1>9, <2>1
  <2>3. NoneOlder /\ NoneForgotten /\ TransactionKnows
    BY <1>1, <2>1, <2>2 DEF CalmInv
  <2>4. \A j \in 1..Len(flushing.batch) : /\ flushing'.batch[j].file = flushing.batch[j].file
                                        /\ flushing'.batch[j].version = flushing.batch[j].version
    <3> SUFFICES ASSUME NEW j \in 1..Len(flushing.batch)
                 PROVE  /\ flushing'.batch[j].file = flushing.batch[j].file
                        /\ flushing'.batch[j].version = flushing.batch[j].version
      OBVIOUS
    <3>1. CASE j = flushing.n + 1
      BY <1>3, <1>7, <3>1
    <3>2. CASE j # flushing.n + 1
      BY <1>3, <3>2
    <3> QED BY <3>1, <3>2
  <2>5. NoneOlder'
    BY <1>3, <1>4, <2>2, <2>3, <2>4 DEF NoneOlder, Current
  <2>6. \A g \in Image : Underway(g) => Underway(g)'
    BY <1>3, <1>4, <2>2, <2>4 DEF Underway, InWrites, InBatch
  <2>7. NoneForgotten'
    BY <1>4, <2>3, <2>6 DEF NoneForgotten, Known
  <2>8. e.version = disk[f]
    BY <1>3, <1>7, <2>3 DEF NoneOlder, Current
  <2>9. TransactionKnows'
    <3>1. \A g \in Image : Known(main, g) => disk[g] \in {flushing'.main.rows[g], flushing'.main.invalid[g]}
      <4> SUFFICES ASSUME NEW g \in Image, Known(main, g)
                   PROVE  disk[g] \in {flushing'.main.rows[g], flushing'.main.invalid[g]}
        OBVIOUS
      <4>1. CASE g = f
        BY <1>3, <2>8, <4>1
      <4>2. CASE g # f
        BY <1>3, <2>3, <4>2 DEF TransactionKnows, Known
      <4> QED BY <4>1, <4>2
    <3>2. ASSUME NEW j \in 1..flushing'.n
          PROVE  flushing'.main.rows[flushing'.batch[j].file] = disk[flushing'.batch[j].file]
      <4>1. j \in 1..Len(flushing.batch) /\ (j = flushing.n + 1 \/ j \in 1..flushing.n)
        <5>1. PICK n, l : n = flushing.n /\ l = Len(flushing.batch)
          OBVIOUS
        <5>2. n \in Nat /\ l \in Nat /\ n + 1 \in 1..l /\ j \in 1..(n + 1)
          BY <1>3, <3>2, <5>1
        <5>3. j \in 1..l /\ (j = n + 1 \/ j \in 1..n)
          BY <5>2
        <5> QED BY <5>1, <5>3
      <4>2. flushing.batch[j].file \in Image
        <5>1. flushing.batch[j] \in Write
          BY <1>6, <4>1, ElementOfSeq
        <5> QED BY <5>1 DEF Write
      <4>3. CASE j = flushing.n + 1
        BY <1>3, <2>8, <4>3
      <4>4. CASE j \in 1..flushing.n
        <5>1. flushing.main.rows[flushing.batch[j].file] = disk[flushing.batch[j].file]
          BY <1>3, <2>3, <4>4 DEF TransactionKnows
        <5> QED BY <1>3, <2>4, <2>8, <4>1, <4>2, <5>1
      <4> QED BY <4>1, <4>3, <4>4
    <3> QED BY <1>4, <3>1, <3>2 DEF TransactionKnows, Known
  <2> QED BY <2>5, <2>7, <2>9
<1> QED BY <1>10, <1>11, <1>13, <1>14 DEF CatalogueInv

\* A refused or failed flush puts its batch behind the other writes.
LEMMA RollbackKeeps ==
  ASSUME CatalogueInv, FlushRefused \/ FlushFails
  PROVE  CatalogueInv'
<1>1. CatalogueShapes /\ AllFit /\ BuffersOwned /\ CalmInv
  BY DEF CatalogueInv
<1>2. /\ flushing' = NoFlush /\ writes' = writes \o flushing.batch /\ main' = main /\ blobs' = blobs
      /\ pool' = pool /\ pictures' = pictures /\ disk' = disk /\ second' = second
      /\ (walk' = walk \/ walk' = Stormy(walk))
  BY DEF FlushRefused, FlushFails, RollsBack, BoundsStay
<1>3. writes \in Seq(Write) /\ flushing.batch \in Seq(Write)
  BY <1>1 DEF CatalogueShapes, Flush
<1>4. PICK n, m : n = Len(writes) /\ m = Len(flushing.batch)
  OBVIOUS
<1>5. /\ n \in Nat /\ m \in Nat /\ writes' \in Seq(Write) /\ Len(writes') = n + m
      /\ \A i \in 1..n : writes'[i] = writes[i]
      /\ \A j \in 1..m : writes'[n + j] = flushing.batch[j]
  <2>1. n \in Nat /\ m \in Nat
    BY <1>3, <1>4
  <2>2. writes' \in Seq(Write) /\ Len(writes') = n + m
    BY <1>2, <1>3, <1>4
  <2>3. \A i \in 1..n : writes'[i] = writes[i]
    BY <1>2, <1>3, <1>4
  <2>4. \A j \in 1..m : writes'[n + j] = flushing.batch[j]
    BY <1>2, <1>3, <1>4
  <2> QED BY <2>1, <2>2, <2>3, <2>4
<1>6. \A i \in 1..(n + m) : i \in 1..n \/ \E j \in 1..m : i = n + j
  <2> SUFFICES ASSUME NEW i \in 1..(n + m), i \notin 1..n PROVE \E j \in 1..m : i = n + j
    OBVIOUS
  <2>1. i - n \in 1..m /\ i = n + (i - n)
    BY <1>5
  <2> QED BY <2>1
<1>7. /\ \A i \in 1..n : i \in 1..(n + m)
      /\ \A j \in 1..m : n + j \in 1..(n + m) /\ n + j \notin 1..n
  BY <1>5
<1>8. /\ flushing' \in Flush /\ ~flushing'.on /\ flushing'.n = 0 /\ flushing'.batch = <<>>
      /\ Len(flushing'.batch) = 0 /\ TablesFit(flushing'.main) /\ BlobsFit(flushing'.blobs)
  BY <1>2, NoFlushFits
<1>9. walk' \in Walk /\ (walk'.calm => walk' = walk)
  <2>1. /\ walk = [on |-> walk.on, todo |-> walk.todo, found |-> walk.found, failed |-> walk.failed,
                   calm |-> walk.calm, runs |-> walk.runs]
        /\ walk.on \in BOOLEAN /\ walk.todo \in SUBSET Image
        /\ walk.found \in SUBSET (Image \X (1..LastVersion)) /\ walk.failed \in SUBSET Image
        /\ walk.calm \in BOOLEAN /\ walk.runs \in Nat
    BY <1>1 DEF CatalogueShapes, Walk
  <2>2. CASE walk' = Stormy(walk)
    <3>1. walk' = [on |-> walk.on, todo |-> walk.todo, found |-> walk.found, failed |-> walk.failed,
                   calm |-> FALSE, runs |-> walk.runs]
      BY <2>1, <2>2 DEF Stormy
    <3> QED BY <2>1, <3>1 DEF Walk
  <2>3. CASE walk' = walk
    BY <1>1, <2>3 DEF CatalogueShapes
  <2> QED BY <1>2, <2>2, <2>3
<1>10. CatalogueShapes'
  <2>1. flushing'.n <= Len(flushing'.batch)
    BY <1>8
  <2> QED BY <1>1, <1>2, <1>5, <1>8, <1>9, <2>1 DEF CatalogueShapes
<1>11. AllFit'
  BY <1>1, <1>2, <1>8 DEF AllFit, TablesFit, BlobsFit
<1>12. BuffersOwned'
  <2>1. /\ \A i \in 1..n : Mine(writes[i])
        /\ \A j \in 1..m : Mine(flushing.batch[j])
        /\ \A i, j \in 1..n : i # j => Apart(writes[i], writes[j])
        /\ \A i, j \in 1..m : i # j => Apart(flushing.batch[i], flushing.batch[j])
        /\ \A i \in 1..n, j \in 1..m : Apart(writes[i], flushing.batch[j])
    BY <1>1, <1>4 DEF BuffersOwned
  <2>2. \A i \in 1..n, j \in 1..m : Apart(flushing.batch[j], writes[i])
    <3> SUFFICES ASSUME NEW i \in 1..n, NEW j \in 1..m PROVE Apart(flushing.batch[j], writes[i])
      OBVIOUS
    <3>1. Apart(writes[i], flushing.batch[j])
      BY <2>1
    <3> QED BY <3>1 DEF Apart
  <2>3. \A i \in 1..(n + m) : Mine(writes'[i])
    <3> SUFFICES ASSUME NEW i \in 1..(n + m) PROVE Mine(writes'[i])
      OBVIOUS
    <3>1. CASE i \in 1..n
      BY <1>5, <2>1, <3>1
    <3>2. CASE \E j \in 1..m : i = n + j
      BY <1>5, <2>1, <3>2
    <3> QED BY <1>6, <3>1, <3>2
  <2>4. \A i, k \in 1..(n + m) : i # k => Apart(writes'[i], writes'[k])
    <3> SUFFICES ASSUME NEW i \in 1..(n + m), NEW k \in 1..(n + m), i # k
                 PROVE  Apart(writes'[i], writes'[k])
      OBVIOUS
    <3>1. CASE i \in 1..n /\ k \in 1..n
      BY <1>5, <2>1, <3>1
    <3>2. CASE i \in 1..n /\ \E j \in 1..m : k = n + j
      BY <1>5, <2>1, <3>2
    <3>3. CASE k \in 1..n /\ \E j \in 1..m : i = n + j
      BY <1>5, <2>2, <3>3
    <3>4. CASE (\E j \in 1..m : i = n + j) /\ (\E l \in 1..m : k = n + l)
      <4>1. PICK j \in 1..m, l \in 1..m : i = n + j /\ k = n + l
        BY <3>4
      <4>2. Apart(flushing.batch[j], flushing.batch[l])
        BY <2>1, <4>1
      <4> QED BY <1>5, <4>1, <4>2
    <3> QED BY <1>6, <3>1, <3>2, <3>3, <3>4
  <2>5. 1..Len(flushing'.batch) = {}
    BY <1>8
  <2>6. (\A i \in 1..Len(writes) : Mine(writes[i]))'
    BY <1>2, <1>5, <2>3 DEF Mine
  <2>7. \A i, k \in 1..Len(writes') : i # k => Apart(writes'[i], writes'[k])
    BY <1>5, <2>4
  <2> QED BY <2>5, <2>6, <2>7 DEF BuffersOwned, Apart
<1>13. CalmInv'
  <2>1. SUFFICES ASSUME walk'.on, walk'.calm PROVE (NoneOlder /\ NoneForgotten /\ TransactionKnows)'
    BY DEF CalmInv
  <2>2. walk' = walk
    BY <1>9, <2>1
  <2>3. NoneOlder /\ NoneForgotten
    BY <1>1, <2>1, <2>2 DEF CalmInv
  <2>4. 1..Len(flushing'.batch) = {}
    BY <1>8
  <2>5. NoneOlder'
    <3>1. \A i \in 1..(n + m) : Current(writes'[i])
      <4> SUFFICES ASSUME NEW i \in 1..(n + m) PROVE Current(writes'[i])
        OBVIOUS
      <4>1. CASE i \in 1..n
        BY <1>4, <1>5, <2>3, <4>1 DEF NoneOlder
      <4>2. CASE \E j \in 1..m : i = n + j
        BY <1>4, <1>5, <2>3, <4>2 DEF NoneOlder
      <4> QED BY <1>6, <4>1, <4>2
    <3>2. (\A i \in 1..Len(writes) : Current(writes[i]))'
      BY <1>2, <1>5, <3>1 DEF Current
    <3> QED BY <1>2, <2>2, <2>3, <2>4, <3>2 DEF NoneOlder
  <2>6. \A g \in Image : InWrites(g) \/ InBatch(g) => InWrites(g)'
    <3> SUFFICES ASSUME NEW g \in Image, InWrites(g) \/ InBatch(g) PROVE InWrites(g)'
      OBVIOUS
    <3>1. CASE InWrites(g)
      <4>1. PICK i \in 1..n : writes[i].file = g
        BY <1>4, <3>1 DEF InWrites
      <4>2. i \in 1..Len(writes') /\ writes'[i].file = g
        BY <1>5, <1>7, <4>1
      <4> QED BY <4>2 DEF InWrites
    <3>2. CASE InBatch(g)
      <4>1. PICK j \in 1..m : flushing.batch[j].file = g
        BY <1>4, <3>2 DEF InBatch
      <4>2. n + j \in 1..Len(writes') /\ writes'[n + j].file = g
        BY <1>5, <1>7, <4>1
      <4> QED BY <4>2 DEF InWrites
    <3> QED BY <3>1, <3>2
  <2>7. NoneForgotten'
    BY <1>2, <2>2, <2>3, <2>6 DEF NoneForgotten, Underway, Known
  <2>8. TransactionKnows'
    BY <1>8 DEF TransactionKnows
  <2> QED BY <2>5, <2>7, <2>8
<1> QED BY <1>10, <1>11, <1>12, <1>13 DEF CatalogueInv

\* Commit: what the transaction saw becomes the database, and the buffers that
\* are left go back to the pool.
LEMMA CommitKeeps ==
  ASSUME CatalogueInv, Commits
  PROVE  CatalogueInv'
<1>1. CatalogueShapes /\ AllFit /\ BuffersOwned /\ CalmInv
  BY DEF CatalogueInv
<1>2. /\ flushing.on /\ flushing.n = Len(flushing.batch) /\ flushing' = NoFlush
      /\ main' = flushing.main /\ blobs' = flushing.blobs /\ PutBack(cleanupBatchedWriteResources)
      /\ pictures' = pictures /\ disk' = disk /\ writes' = writes /\ walk' = walk /\ second' = second
  BY DEF Commits, BoundsStay
<1>3. /\ flushing' \in Flush /\ ~flushing'.on /\ flushing'.n = 0 /\ flushing'.batch = <<>>
      /\ Len(flushing'.batch) = 0 /\ TablesFit(flushing'.main) /\ BlobsFit(flushing'.blobs)
  BY <1>2, NoFlushFits
<1>4. /\ writes \in Seq(Write) /\ flushing.batch \in Seq(Write) /\ pool \in [Buffer -> {0, 1}]
      /\ flushing.main \in Tables /\ flushing.blobs \in [Image -> Picture]
  BY <1>1 DEF CatalogueShapes, Flush
<1>5. PICK put : put = cleanupBatchedWriteResources
  OBVIOUS
<1>6. \A b \in put : b \in Buffer /\ \E j \in 1..Len(flushing.batch) : flushing.batch[j].buffer = b
  BY <1>4, <1>5 DEF cleanupBatchedWriteResources, Range
<1>7. pool' = [b \in Buffer |-> pool[b] + IF b \in put THEN 1 ELSE 0]
  BY <1>2, <1>5 DEF PutBack
<1>8. \A b \in put : pool[b] = 0
  BY <1>1, <1>6, CatalogueAssumption DEF BuffersOwned, Mine
<1>9. /\ pool' \in [Buffer -> {0, 1}]
      /\ \A b \in Buffer : b \notin put => pool'[b] = pool[b]
  <2>1. \A b \in Buffer : b \in put => pool'[b] = 1
    BY <1>7, <1>8
  <2>2. \A b \in Buffer : b \notin put => pool'[b] = pool[b]
    <3> SUFFICES ASSUME NEW b \in Buffer, b \notin put PROVE pool'[b] = pool[b]
      OBVIOUS
    <3>1. pool'[b] = pool[b] + 0 /\ pool[b] \in {0, 1}
      BY <1>4, <1>7
    <3> QED BY <3>1
  <2>3. \A b \in Buffer : pool'[b] \in {0, 1}
    BY <1>4, <2>1, <2>2
  <2> QED BY <1>7, <2>2, <2>3
<1>10. CatalogueShapes'
  <2>1. flushing'.n <= Len(flushing'.batch)
    BY <1>3
  <2> QED BY <1>1, <1>2, <1>3, <1>4, <1>9, <2>1 DEF CatalogueShapes
<1>11. AllFit'
  BY <1>1, <1>2, <1>3 DEF AllFit, TablesFit, BlobsFit
<1>12. BuffersOwned'
  <2>1. 1..Len(flushing'.batch) = {}
    BY <1>3
  <2>2. \A i \in 1..Len(writes) : writes[i] \in Write /\ Mine(writes[i])
    BY <1>1, <1>4, ElementOfSeq DEF BuffersOwned
  <2>3. \A i \in 1..Len(writes) : writes[i].buffer # NoBuffer => writes[i].buffer \notin put
    <3> SUFFICES ASSUME NEW i \in 1..Len(writes), writes[i].buffer # NoBuffer, writes[i].buffer \in put PROVE FALSE
      OBVIOUS
    <3>1. PICK j \in 1..Len(flushing.batch) : flushing.batch[j].buffer = writes[i].buffer
      BY <1>6
    <3>2. Apart(writes[i], flushing.batch[j])
      BY <1>1 DEF BuffersOwned
    <3> QED BY <3>1, <3>2 DEF Apart
  <2>4. (\A i \in 1..Len(writes) : Mine(writes[i]))'
    <3> SUFFICES ASSUME NEW i \in 1..Len(writes') PROVE Mine(writes[i])'
      OBVIOUS
    <3>1. i \in 1..Len(writes) /\ writes'[i] = writes[i]
      BY <1>2
    <3>2. writes[i].buffer # NoBuffer => pool'[writes[i].buffer] = pool[writes[i].buffer]
      BY <1>9, <2>2, <2>3, <3>1 DEF Write
    <3> QED BY <1>2, <2>2, <3>1, <3>2 DEF Mine
  <2>5. \A i, j \in 1..Len(writes) : i # j => Apart(writes[i], writes[j])
    BY <1>1 DEF BuffersOwned
  <2> QED BY <1>2, <2>1, <2>4, <2>5 DEF BuffersOwned, Apart
<1>13. CalmInv'
  <2>1. SUFFICES ASSUME walk'.on, walk'.calm PROVE (NoneOlder /\ NoneForgotten /\ TransactionKnows)'
    BY DEF CalmInv
  <2>2. NoneOlder /\ NoneForgotten /\ TransactionKnows
    BY <1>1, <1>2, <2>1 DEF CalmInv
  <2>3. 1..Len(flushing'.batch) = {}
    BY <1>3
  <2>4. NoneOlder'
    BY <1>2, <2>2, <2>3 DEF NoneOlder, Current
  <2>5. \A g \in Image : InBatch(g) \/ Known(main, g) => Known(flushing.main, g)
    <3>1. \A g \in Image : InBatch(g) => flushing.main.rows[g] = disk[g]
      BY <1>2, <2>2 DEF InBatch, TransactionKnows
    <3> QED BY <1>2, <2>2, <3>1 DEF TransactionKnows, Known
  <2>6. NoneForgotten'
    BY <1>2, <2>2, <2>5 DEF NoneForgotten, Underway, Known, InWrites
  <2>7. TransactionKnows'
    BY <1>3 DEF TransactionKnows
  <2> QED BY <2>4, <2>6, <2>7
<1> QED BY <1>10, <1>11, <1>12, <1>13 DEF CatalogueInv

\* The process dies: a write that is on disk comes back with its own picture.
LEMMA PowerCutKeeps ==
  ASSUME CatalogueInv, PowerCut
  PROVE  CatalogueInv'
<1>1. CatalogueShapes /\ AllFit /\ BuffersOwned
  BY DEF CatalogueInv
<1>2. PICK kept \in SUBSET (1..Len(writes)) : writes' = WritesAt(kept) /\ pictures' = FilesDecoded(kept)
  BY DEF PowerCut, BacklogDecoded
<1>3. /\ main' = main \/ main' = flushing.main
      /\ pool' = [b \in Buffer |-> 0] /\ flushing' = NoFlush /\ walk' = [NoWalk EXCEPT !.runs = walk.runs]
      /\ disk' = disk /\ blobs' = blobs /\ second' = second
  BY DEF PowerCut
<1>4. PICK s : s = WritesAt(kept)
  OBVIOUS
<1>5. /\ writes \in Seq(Write) /\ flushing.main \in Tables /\ main \in Tables /\ walk.runs \in Nat
      /\ pictures \in [Buffer -> Picture]
  BY <1>1 DEF CatalogueShapes, Flush, Walk
<1>6. /\ s \in Seq(Write) /\ Len(s) \in Nat
      /\ \A k \in 1..Len(s) : Nth(kept, k) \in kept /\ s[k] = writes[Nth(kept, k)]
      /\ \A k, l \in 1..Len(s) : Nth(kept, k) = Nth(kept, l) => k = l
  <2>1. s \in Seq(Write) /\ Len(s) \in Nat /\ OnceEach(s, kept)
    BY <1>4, <1>5, WritesThere
  <2> QED BY <2>1 DEF OnceEach
<1>7. writes' = s
  BY <1>2, <1>4
<1>8. /\ flushing' \in Flush /\ ~flushing'.on /\ flushing'.n = 0 /\ flushing'.batch = <<>>
      /\ Len(flushing'.batch) = 0 /\ TablesFit(flushing'.main) /\ BlobsFit(flushing'.blobs)
  BY <1>3, NoFlushFits
<1>9. walk' \in Walk /\ ~walk'.on
  <2>1. walk' = [on |-> FALSE, todo |-> {}, found |-> {}, failed |-> {}, calm |-> FALSE, runs |-> walk.runs]
    BY <1>3 DEF NoWalk
  <2> QED BY <1>5, <2>1 DEF Walk
<1>10. /\ pictures' \in [Buffer -> Picture]
       /\ \A b \in Buffer : (\E i \in kept : writes[i].buffer = b) => pictures'[b] = pictures[b]
  <2>1. pictures' = [b \in Buffer |-> IF \E i \in kept : writes[i].buffer = b THEN pictures[b] ELSE NoPicture]
    BY <1>2 DEF FilesDecoded
  <2>2. NoPicture \in Picture
    BY DEF NoPicture, Picture
  <2> QED BY <1>5, <2>1, <2>2
<1>11. pool' \in [Buffer -> {0, 1}] /\ \A b \in Buffer : pool'[b] = 0
  BY <1>3
<1>12. CatalogueShapes'
  <2>1. flushing'.n <= Len(flushing'.batch)
    BY <1>8
  <2> QED BY <1>1, <1>3, <1>5, <1>6, <1>7, <1>8, <1>9, <1>10, <1>11, <2>1 DEF CatalogueShapes
<1>13. AllFit'
  BY <1>1, <1>3, <1>8 DEF AllFit, TablesFit, BlobsFit
<1>14. BuffersOwned'
  <2>1. 1..Len(flushing'.batch) = {}
    BY <1>8
  <2>2. \A i \in 1..Len(writes) : writes[i] \in Write /\ Mine(writes[i])
    BY <1>1, <1>5, ElementOfSeq DEF BuffersOwned
  <2>3. (\A i \in 1..Len(writes) : Mine(writes[i]))'
    <3> SUFFICES ASSUME NEW k \in 1..Len(writes') PROVE Mine(writes[k])'
      OBVIOUS
    <3>1. PICK i \in kept : writes'[k] = writes[i]
      BY <1>6, <1>7
    <3>2. writes[i].buffer \in Buffer \cup {NoBuffer} /\ Mine(writes[i])
      BY <2>2 DEF Write
    <3>3. writes[i].buffer # NoBuffer => /\ pool'[writes[i].buffer] = 0
                                         /\ pictures'[writes[i].buffer] = pictures[writes[i].buffer]
      BY <1>10, <1>11, <3>2
    <3> QED BY <3>1, <3>2, <3>3 DEF Mine
  <2>4. \A k, l \in 1..Len(writes') : k # l => Apart(writes'[k], writes'[l])
    <3> SUFFICES ASSUME NEW k \in 1..Len(writes'), NEW l \in 1..Len(writes'), k # l
                 PROVE  Apart(writes'[k], writes'[l])
      OBVIOUS
    <3>1. Nth(kept, k) # Nth(kept, l) /\ Nth(kept, k) \in 1..Len(writes) /\ Nth(kept, l) \in 1..Len(writes)
      BY <1>2, <1>6, <1>7
    <3>2. Apart(writes[Nth(kept, k)], writes[Nth(kept, l)])
      BY <1>1, <3>1 DEF BuffersOwned
    <3> QED BY <1>6, <1>7, <3>2
  <2> QED BY <2>1, <2>3, <2>4 DEF BuffersOwned, Apart
<1>15. CalmInv'
  BY <1>9 DEF CalmInv
<1> QED BY <1>12, <1>13, <1>14, <1>15 DEF CatalogueInv

\* The catalogue's invariant holds in every state.
LEMMA CatalogueInductive == CatalogueSpec => []CatalogueInv
<1>1. ASSUME CatalogueInv, CatalogueNext PROVE CatalogueInv'
  <2>1. CASE \/ SecondPasses \/ WalkStarts \/ WalkEnds
             \/ \E f \in Image : \/ ImageChanges(f) \/ WalkReports(f)
                                 \/ \E v \in 1..LastVersion : ProcessingFails(f, v)
    BY <1>1, <2>1, WalkKeeps
  <2>2. CASE \E f \in Image, v \in 1..LastVersion : ProcessDiscoveryFile(f, v)
    BY <1>1, <2>2, ProcessKeeps
  <2>3. CASE \E f \in Image : recordInvalidFileFromPath(f)
    BY <1>1, <2>3, InvalidKeeps
  <2>9. CASE \E f \in Image, v \in 1..LastVersion : SubmitFails(f, v)
    BY <1>1, <2>9, SubmitFailsKeeps
  <2>4. CASE BeginTx
    BY <1>1, <2>4, BeginKeeps
  <2>5. CASE WriteFileInTx \/ TileFails
    BY <1>1, <2>5, WriteKeeps
  <2>6. CASE FlushRefused \/ FlushFails
    BY <1>1, <2>6, RollbackKeeps
  <2>7. CASE Commits
    BY <1>1, <2>7, CommitKeeps
  <2>8. CASE PowerCut
    BY <1>1, <2>8, PowerCutKeeps
  <2> QED BY <1>1, <2>1, <2>2, <2>3, <2>4, <2>5, <2>6, <2>7, <2>8, <2>9 DEF CatalogueNext
<1>2. ASSUME CatalogueInv, UNCHANGED catalogueVars PROVE CatalogueInv'
  <2>1. /\ disk' = disk /\ main' = main /\ blobs' = blobs /\ pool' = pool /\ pictures' = pictures
        /\ writes' = writes /\ flushing' = flushing /\ walk' = walk /\ second' = second
    BY <1>2 DEF catalogueVars
  <2>2. CatalogueShapes'
    BY <1>2, <2>1 DEF CatalogueInv, CatalogueShapes
  <2>3. AllFit'
    BY <1>2, <2>1 DEF CatalogueInv, AllFit, TablesFit, BlobsFit
  <2>4. BuffersOwned'
    BY <1>2, <2>1 DEF CatalogueInv, BuffersOwned, Mine, Apart
  <2>5. CalmInv'
    BY <1>2, <2>1 DEF CatalogueInv, CalmInv, NoneOlder, NoneForgotten, TransactionKnows, Underway,
                      InWrites, InBatch, Known, Current
  <2> QED BY <2>2, <2>3, <2>4, <2>5 DEF CatalogueInv
<1> QED BY <1>1, <1>2, CatalogueBegins, PTL DEF CatalogueSpec

\* Whatever is rolled back, retried, overtaken or lost (WriteFileInTx, flush,
\* GobDecode): a stored picture is one of its own image, a folder's tile lies
\* beneath it, a row's folders are all there, and a calm discovery leaves every
\* image catalogued as it is or known to be invalid.
THEOREM CatalogueIsSafe == CatalogueSpec => [](CatalogueTypeOK /\ CatalogueSafety)
<1>1. ASSUME CatalogueInv PROVE CatalogueTypeOK
  <2>1. /\ main.rows \in [Image -> 0..LastVersion] /\ main.invalid \in [Image -> 0..LastVersion]
        /\ flushing.n \in Nat /\ flushing.batch \in Seq(Write) /\ pool \in [Buffer -> {0, 1}]
        /\ flushing.n <= Len(flushing.batch)
    BY <1>1 DEF CatalogueInv, CatalogueShapes, Tables, Flush
  <2>2. flushing.n \in 0..Len(flushing.batch)
    <3>1. Len(flushing.batch) \in Nat
      BY <2>1
    <3> QED BY <2>1, <3>1
  <2>3. \A b \in Buffer : pool[b] \in Nat
    BY <2>1
  <2> QED BY <2>1, <2>2, <2>3 DEF CatalogueTypeOK
<1>2. ASSUME CatalogueInv PROVE PicturesFit
  BY <1>2 DEF CatalogueInv, AllFit, TablesFit, BlobsFit, PicturesFit
<1>3. ASSUME CatalogueInv PROVE CalmWalkSettles
  <2>1. SUFFICES ASSUME walk.on, walk.calm, AllWritten, NEW f \in Image PROVE Known(main, f)
    BY DEF CalmWalkSettles, Known
  <2>2. /\ walk.todo = {} /\ walk.found = {} /\ walk.failed = {} /\ writes = <<>> /\ ~flushing.on
    BY <2>1 DEF AllWritten
  <2>3. flushing.batch = <<>>
    BY <1>3, <2>2 DEF CatalogueInv, CatalogueShapes
  <2>4. 1..Len(writes) = {} /\ 1..Len(flushing.batch) = {}
    BY <2>2, <2>3, EmptySeq
  <2>5. ~Underway(f)
    BY <2>2, <2>4 DEF Underway, InWrites, InBatch
  <2> QED BY <1>3, <2>1, <2>5 DEF CatalogueInv, CalmInv, NoneForgotten
<1>4. CatalogueInv => CatalogueTypeOK /\ CatalogueSafety
  BY <1>1, <1>2, <1>3 DEF CatalogueSafety
<1> QED BY <1>4, CatalogueInductive, PTL
=============================================================================
