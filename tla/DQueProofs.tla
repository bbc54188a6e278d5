----------------------------- MODULE DQueProofs -----------------------------
(***************************************************************************)
(* Proofs about internal/dque: the files and the two segments in memory    *)
(* keep step over every failure and crash, and the queue they make is      *)
(* DurableFifo.                                                            *)
(***************************************************************************)
EXTENDS DQue, FiniteSetTheorems, SequenceTheorems, TLAPS

(* The inductive invariant.                                                *)

\* Files without a gap in their numbering: all but the newest have had
\* ItemsPerSegment items, and only the oldest one has lost any.
SoundFile(f) == f \in File /\ f.removed <= Len(f.added) /\ Len(f.added) <= ItemsPerSegment
DiskSound ==
    /\ IsFiniteSet(DOMAIN disk) /\ disk = [n \in DOMAIN disk |-> disk[n]]
    /\ \A n \in DOMAIN disk : n \in Nat /\ SoundFile(disk[n])
    /\ \A m, n \in DOMAIN disk : m..n \subseteq DOMAIN disk
    /\ \A m, n \in DOMAIN disk :
         m < n => Len(disk[m].added) = ItemsPerSegment /\ disk[n].removed = 0

\* The types of the other variables.
Rest ==
    /\ status \in {"open", "loading", "down"}
    /\ segs \in [IF status = "open" THEN {first, last} ELSE {} -> Segment]
    /\ first \in Nat /\ last \in Nat /\ bytes \in Int
    /\ first <= last \/ (status = "loading" /\ first = last + 1)
    /\ step \in {"idle", "len", "body", "unlink", "advance"}
    /\ adding \subseteq Item /\ waiting \subseteq Consumer
    /\ taken \in Seq(Item) /\ used \subseteq Item /\ hit \subseteq FaultKinds
    /\ crashes \in 0..MaxCrashes

\* Each of the two segments in memory is what a load of its file would give,
\* but for the first one's file when it has been unlinked.
Reflects(n) == segs[n].objs = Live(disk[n]) /\ segs[n].removed = disk[n].removed
Retired(n) == segs[n].objs = <<>> /\ segs[n].removed >= ItemsPerSegment
MemorySound ==
    status = "open" =>
      /\ \A n \in DOMAIN disk :
           n \in first..last \/ (n = last + 1 /\ disk[n] = NewFile /\ Full(segs[last]))
      /\ (first + 1)..last \subseteq DOMAIN disk
      /\ \A n \in {first, last} :
           IF n \in DOMAIN disk THEN Reflects(n) ELSE n = first /\ Retired(n)
      /\ first \in DOMAIN disk \/ step = "advance" \/ hit \cap {"create", "open"} # {}
      /\ last + 1 \in DOMAIN disk => "close" \in hit
      /\ \A n \in DOMAIN disk : n # first => disk[n].removed = 0

\* Where the operation under way stands, and who waits for what.
Retiring == step \in {"unlink", "advance"}
StepSound ==
    /\ IF step \in {"len", "body"}
         THEN (\E x \in Item : adding = {x}) /\ last \in DOMAIN disk /\ ~Full(segs[last])
         ELSE adding = {}
    /\ step = "body" => disk[last].torn > 0
    /\ Retiring => Retired(first) /\ waiting = {}
    /\ step = "unlink" => first \in DOMAIN disk
    /\ step = "advance" => first \notin DOMAIN disk
    /\ status = "open" /\ Retired(first) =>
         Retiring \/ hit \cap {"create", "unlink", "open"} # {}
    /\ status = "open" /\ waiting # {} => FirstIsEmpty
    /\ status # "open" => step = "idle" /\ waiting = {}

QueueInv == Rest /\ DiskSound /\ MemorySound /\ StepSound

\* How far a load has come: the files left are those it has still to look at,
\* from the first to the last.
LoadSound ==
    status = "loading" =>
      /\ \A n \in DOMAIN disk : first <= n /\ n <= last
      /\ first <= last => first \in DOMAIN disk /\ last \in DOMAIN disk
      /\ hit = {}

-----------------------------------------------------------------------------
(* Files and segments.                                                     *)

\* What a load leaves of a file, item by item.
LEMMA LiveItems ==
  ASSUME NEW f, SoundFile(f)
  PROVE  /\ Live(f) \in Seq(Item) /\ Len(Live(f)) = Len(f.added) - f.removed
         /\ \A i \in 1 .. Len(Live(f)) : Live(f)[i] = f.added[f.removed + i]
<1>1. f.added \in Seq(Item) /\ f.removed \in Nat /\ Len(f.added) \in Nat
  BY DEF SoundFile, File
<1>2. \A i \in f.removed + 1 .. Len(f.added) : f.added[i] \in Item
  BY <1>1, ElementOfSeq DEF SoundFile
<1>3. /\ Live(f) \in Seq(Item)
      /\ Len(Live(f)) = IF f.removed + 1 <= Len(f.added) THEN Len(f.added) - (f.removed + 1) + 1 ELSE 0
      /\ \A i \in 1 .. Len(f.added) - (f.removed + 1) + 1 : Live(f)[i] = f.added[f.removed + 1 + i - 1]
  BY SMTT(30), <1>1, <1>2, SubSeqProperties DEF Live
<1>4. Len(Live(f)) = Len(f.added) - f.removed
  BY <1>1, <1>3 DEF SoundFile
<1>5. ASSUME NEW i \in 1 .. Len(Live(f)) PROVE Live(f)[i] = f.added[f.removed + i]
  <2>1. i \in 1 .. Len(f.added) - (f.removed + 1) + 1 /\ f.removed + 1 + i - 1 = f.removed + i
    BY <1>1, <1>4
  <2> QED BY <1>3, <2>1
<1> QED BY <1>3, <1>4, <1>5

\* What a segment in memory shows of its file's size.
LEMMA SegmentSize ==
  ASSUME NEW f, SoundFile(f), NEW s, s.objs = Live(f), s.removed = f.removed
  PROVE  /\ SizeOnDisk(s) = Len(f.added) /\ (Full(s) <=> Len(f.added) = ItemsPerSegment)
         /\ s.objs = <<>> <=> f.removed = Len(f.added)
<1>1. f.added \in Seq(Item) /\ f.removed \in Nat /\ Len(f.added) \in Nat
  BY DEF SoundFile, File
<1>2. SizeOnDisk(s) = Len(f.added)
  BY <1>1, LiveItems DEF SizeOnDisk
<1>3. s.objs = <<>> <=> Len(Live(f)) = 0
  BY LiveItems, EmptySeq
<1> QED BY <1>1, <1>2, <1>3, LiveItems, DQueAssumption DEF SoundFile, Full

\* segment.add: a prefix changes nothing a load would see, a body adds its item.
LEMMA FileBegun ==
  ASSUME NEW f, SoundFile(f)
  PROVE  /\ SoundFile(Begun(f)) /\ Live(Begun(f)) = Live(f) /\ Begun(f).torn > 0
         /\ Begun(f).added = f.added /\ Begun(f).removed = f.removed
         /\ FileBytes(Begun(f)) = FileBytes(f) + 1 /\ Begun(f).torn = f.torn + 1
<1>1. Begun(f) = [added |-> f.added, removed |-> f.removed, torn |-> f.torn + 1]
  BY DEF SoundFile, File, Begun
<1>2. f.added \in Seq(Item) /\ f.removed \in Nat /\ f.torn \in Nat /\ Len(f.added) \in Nat
  BY DEF SoundFile, File
<1>3. Begun(f).added = f.added /\ Begun(f).removed = f.removed /\ Begun(f).torn = f.torn + 1
  BY <1>1
<1>4. Begun(f) \in File
  BY <1>1, <1>2 DEF File
<1> QED BY SMTT(30), <1>2, <1>3, <1>4 DEF SoundFile, Live, FileBytes

\* A body completes its prefix and adds its item at the end.
LEMMA FileEnded ==
  ASSUME NEW f, SoundFile(f), NEW x \in Item, Len(f.added) < ItemsPerSegment, f.torn > 0
  PROVE  /\ SoundFile(Ended(f, x)) /\ Live(Ended(f, x)) = Append(Live(f), x)
         /\ Ended(f, x).added = Append(f.added, x) /\ Ended(f, x).removed = f.removed
         /\ FileBytes(Ended(f, x)) = FileBytes(f) + 1
<1> DEFINE g == Ended(f, x)
<1>1. g.added = Append(f.added, x) /\ g.removed = f.removed /\ g.torn = f.torn - 1
  BY DEF Ended
<1>2. f.added \in Seq(Item) /\ f.removed \in Nat /\ Len(f.added) \in Nat /\ f.torn \in Nat
  BY DEF SoundFile, File
<1>3. /\ Append(f.added, x) \in Seq(Item) /\ Len(Append(f.added, x)) = Len(f.added) + 1
      /\ \A i \in 1 .. Len(f.added) : Append(f.added, x)[i] = f.added[i]
      /\ Append(f.added, x)[Len(f.added) + 1] = x
  BY <1>2, AppendProperties
<1>4. SoundFile(g)
  BY <1>1, <1>2, <1>3, DQueAssumption DEF SoundFile, File, Ended
<1>5. Live(g) = Append(Live(f), x)
  <2>1. /\ Live(g) \in Seq(Item) /\ Len(Live(g)) = Len(g.added) - g.removed
        /\ \A i \in 1 .. Len(Live(g)) : Live(g)[i] = g.added[g.removed + i]
    BY <1>4, LiveItems
  <2>2. /\ Live(f) \in Seq(Item) /\ Len(Live(f)) = Len(f.added) - f.removed
        /\ \A i \in 1 .. Len(Live(f)) : Live(f)[i] = f.added[f.removed + i]
    BY LiveItems
  <2>3. /\ Append(Live(f), x) \in Seq(Item) /\ Len(Append(Live(f), x)) = Len(Live(f)) + 1
        /\ \A i \in 1 .. Len(Live(f)) : Append(Live(f), x)[i] = Live(f)[i]
        /\ Append(Live(f), x)[Len(Live(f)) + 1] = x
    BY <2>2, AppendProperties
  <2>4. Len(Live(g)) = Len(Append(Live(f), x))
    BY <1>1, <1>2, <1>3, <2>1, <2>2, <2>3
  <2>5. ASSUME NEW i \in 1 .. Len(Live(g)) PROVE Live(g)[i] = Append(Live(f), x)[i]
    <3>0. /\ Live(g)[i] = Append(f.added, x)[f.removed + i]
          /\ f.removed <= Len(f.added)
      BY <1>1, <2>1 DEF SoundFile
    <3>1. CASE i = Len(Live(f)) + 1
      <4>1. f.removed + i = Len(f.added) + 1
        BY <1>2, <2>2, <3>0, <3>1
      <4> QED BY <1>3, <2>3, <3>0, <3>1, <4>1
    <3>2. CASE i \in 1 .. Len(Live(f))
      <4>1. f.removed + i \in 1 .. Len(f.added)
        BY <1>2, <2>2, <3>0, <3>2
      <4> QED BY <1>3, <2>2, <2>3, <3>0, <3>2, <4>1
    <3>3. i \in 1 .. Len(Live(f)) + 1
      BY <2>3, <2>4
    <3> QED BY <1>2, <2>2, <3>1, <3>2, <3>3
  <2> QED BY <2>1, <2>3, <2>4, <2>5, SeqEqual
<1>6. FileBytes(g) = FileBytes(f) + 1
  BY <1>1, <1>2, <1>3 DEF FileBytes
<1> QED BY <1>1, <1>4, <1>5, <1>6

\* segment.remove: a marker takes the oldest item.
LEMMA FileMarked ==
  ASSUME NEW f, SoundFile(f), f.removed < Len(f.added)
  PROVE  /\ SoundFile(Marked(f)) /\ Live(Marked(f)) = Tail(Live(f))
         /\ Head(Live(f)) = f.added[f.removed + 1] /\ Live(f) # <<>>
         /\ Marked(f).added = f.added /\ Marked(f).removed = f.removed + 1
         /\ FileBytes(Marked(f)) = FileBytes(f) + 1
<1> DEFINE g == Marked(f)
<1>0. g = [added |-> f.added, removed |-> f.removed + 1, torn |-> f.torn]
  BY DEF SoundFile, File, Marked
<1>1. g.added = f.added /\ g.removed = f.removed + 1 /\ g.torn = f.torn
  BY <1>0
<1>2. f.added \in Seq(Item) /\ f.removed \in Nat /\ Len(f.added) \in Nat /\ f.torn \in Nat
  BY DEF SoundFile, File
<1>3. SoundFile(g)
  <2>1. g \in File
    BY <1>0, <1>2 DEF File
  <2>2. f.removed + 1 <= Len(f.added) /\ Len(f.added) <= ItemsPerSegment
    BY <1>2 DEF SoundFile
  <2> QED BY <1>1, <2>1, <2>2 DEF SoundFile
<1>4. Head(Live(f)) = f.added[f.removed + 1] /\ Tail(Live(f)) = Live(g)
  <2>1. f.removed + 1 \in 1 .. Len(f.added) /\ Len(f.added) \in f.removed + 1 .. Len(f.added)
    BY <1>2
  <2>2. /\ Head(SubSeq(f.added, f.removed + 1, Len(f.added))) = f.added[f.removed + 1]
        /\ Tail(SubSeq(f.added, f.removed + 1, Len(f.added)))
             = SubSeq(f.added, f.removed + 1 + 1, Len(f.added))
    BY <1>2, <2>1, HeadTailOfSubSeq
  <2>3. Live(g) = SubSeq(f.added, f.removed + 1 + 1, Len(f.added))
    BY <1>1 DEF Live
  <2> QED BY <2>2, <2>3 DEF Live
<1>5. Live(f) # <<>>
  BY <1>2, LiveItems, EmptySeq
<1>6. FileBytes(g) = FileBytes(f) + 1
  BY <1>1, <1>2 DEF FileBytes
<1> QED BY <1>1, <1>3, <1>4, <1>5, <1>6

\* newQueueSegment: a file and a segment with nothing in them.
LEMMA FileNew ==
  /\ SoundFile(NewFile) /\ Live(NewFile) = <<>> /\ NewFile.removed = 0
  /\ NewFile.added = <<>> /\ FileBytes(NewFile) = 0 /\ Len(NewFile.added) = 0
  /\ Empty \in Segment /\ Empty.objs = <<>> /\ Empty.removed = 0 /\ ~Full(Empty)
<1>1. SoundFile(NewFile) /\ NewFile.added = <<>> /\ NewFile.removed = 0 /\ NewFile.torn = 0
  BY EmptySeq, DQueAssumption DEF SoundFile, File, NewFile
<1>2. Live(NewFile) = <<>>
  BY <1>1, LiveItems, EmptySeq
<1>3. Empty \in Segment /\ Empty.objs = <<>> /\ Empty.removed = 0
  BY EmptySeq DEF Empty, Segment
<1> QED BY <1>1, <1>2, <1>3, EmptySeq, DQueAssumption DEF FileBytes, Full, SizeOnDisk

-----------------------------------------------------------------------------
(* Numbers of files.                                                       *)

\* Naturals are well ordered.
LEMMA LeastOf ==
  ASSUME NEW S, S \subseteq Nat, S # {}
  PROVE  \E m \in S : \A n \in S : m <= n
<1>1. PICK m \in S : \A n \in S : ~ (<<n, m>> \in OpToRel(<, Nat))
  BY NatLessThanWellFounded, WFMin
<1>2. \A n \in S : ~(n < m)
  BY <1>1 DEF OpToRel
<1>3. m \in Int /\ \A n \in S : n \in Int
  OBVIOUS
<1> QED BY <1>2, <1>3

\* A finite set of naturals has a greatest element.
LEMMA GreatestOf ==
  ASSUME NEW S, S \subseteq Nat, S # {}, IsFiniteSet(S)
  PROVE  \E m \in S : \A n \in S : n <= m
<1> DEFINE From(n) == {k \in S : k >= n}
           Sizes == {Cardinality(From(n)) : n \in S}
<1>1. \A n \in S : IsFiniteSet(From(n)) /\ Cardinality(From(n)) \in Nat
  BY FS_Subset, FS_CardinalityType
<1>2. Sizes \subseteq Nat /\ Sizes # {}
  BY <1>1
<1>3. PICK c \in Sizes : \A d \in Sizes : c <= d
  <2> HIDE DEF Sizes
  <2> QED BY <1>2, LeastOf
<1>4. PICK m \in S : c = Cardinality(From(m))
  BY <1>3
<1>5. ASSUME NEW n \in S, m < n PROVE FALSE
  <2>1. m \in From(m) /\ m \notin From(n) /\ From(n) \in SUBSET From(m)
    <3>1. \A k \in S : k \in Int
      OBVIOUS
    <3>2. m >= m /\ ~(m >= n) /\ \A k \in S : k >= n => k >= m
      BY <1>5, <3>1
    <3> QED BY <3>2
  <2>2. Cardinality(From(n)) <= Cardinality(From(m)) /\ Cardinality(From(n)) # Cardinality(From(m))
    <3> HIDE DEF From
    <3> QED BY <1>1, <2>1, FS_Subset
  <2>3. Cardinality(From(n)) \in Sizes
    OBVIOUS
  <2>4. Cardinality(From(m)) <= Cardinality(From(n))
    BY <1>3, <1>4, <2>3
  <2>5. Cardinality(From(m)) \in Nat /\ Cardinality(From(n)) \in Nat
    BY <1>1
  <2> HIDE DEF From
  <2> QED BY <2>2, <2>4, <2>5
<1>6. m \in Int /\ \A n \in S : n \in Int
  OBVIOUS
<1> QED BY <1>5, <1>6

\* The oldest and the newest file.
LEMMA Ends ==
  ASSUME NEW S, S \subseteq Nat, S # {}, IsFiniteSet(S)
  PROVE  /\ Min(S) \in S /\ \A n \in S : Min(S) <= n
         /\ Max(S) \in S /\ \A n \in S : n <= Max(S)
<1>1. \E m \in S : \A n \in S : m <= n
  BY LeastOf
<1>2. \E m \in S : \A n \in S : m >= n
  <2>1. PICK m \in S : \A n \in S : n <= m
    BY GreatestOf
  <2>2. m \in Nat /\ \A n \in S : n \in Nat
    OBVIOUS
  <2> QED BY <2>1, <2>2
<1>3. Min(S) \in S /\ \A n \in S : Min(S) <= n
  BY <1>1 DEF Min
<1>4. Max(S) \in S /\ \A n \in S : Max(S) >= n
  BY <1>2 DEF Max
<1>5. \A n \in S : n \in Nat
  OBVIOUS
<1> QED BY <1>3, <1>4, <1>5

-----------------------------------------------------------------------------
(* Changes to the directory.                                               *)

\* One file is written to.
LEMMA DiskWritten ==
  ASSUME DiskSound, NEW n \in DOMAIN disk, NEW f, SoundFile(f),
         disk' = [disk EXCEPT ![n] = f],
         \A m \in DOMAIN disk : n < m => Len(f.added) = ItemsPerSegment,
         \A m \in DOMAIN disk : m < n => f.removed = 0
  PROVE  /\ DiskSound' /\ DOMAIN disk' = DOMAIN disk /\ disk'[n] = f
         /\ \A m \in DOMAIN disk : m # n => disk'[m] = disk[m]
<1>1. /\ DOMAIN disk' = DOMAIN disk /\ disk'[n] = f
      /\ \A m \in DOMAIN disk : m # n => disk'[m] = disk[m]
  OBVIOUS
<1>2. disk' = [m \in DOMAIN disk' |-> disk'[m]]
  OBVIOUS
<1>3. \A m \in DOMAIN disk' : m \in Nat /\ SoundFile(disk'[m])
  BY <1>1 DEF DiskSound
<1>4. ASSUME NEW k \in DOMAIN disk', NEW m \in DOMAIN disk', k < m
      PROVE  Len(disk'[k].added) = ItemsPerSegment /\ disk'[m].removed = 0
  <2>1. k \in Nat /\ m \in Nat /\ k # m
    BY <1>3, <1>4
  <2>2. Len(disk[k].added) = ItemsPerSegment /\ disk[m].removed = 0
    BY <1>1, <1>4 DEF DiskSound
  <2> QED BY <1>1, <1>4, <2>1, <2>2
<1> QED BY <1>1, <1>2, <1>3, <1>4 DEF DiskSound

\* An empty file is created after the newest one, which is complete.
LEMMA DiskGrown ==
  ASSUME DiskSound, NEW n \in Nat, \A m \in DOMAIN disk : m < n,
         DOMAIN disk = {} \/ \E m \in DOMAIN disk : n = m + 1 /\ Len(disk[m].added) = ItemsPerSegment,
         disk' = With(disk, n, NewFile)
  PROVE  /\ DiskSound' /\ DOMAIN disk' = DOMAIN disk \cup {n} /\ disk'[n] = NewFile
         /\ \A m \in DOMAIN disk : disk'[m] = disk[m]
<1>0. \A m \in DOMAIN disk : m \in Nat /\ m # n
  BY DEF DiskSound
<1>1. /\ DOMAIN disk' = DOMAIN disk \cup {n} /\ disk'[n] = NewFile
      /\ \A m \in DOMAIN disk : disk'[m] = disk[m]
  BY <1>0 DEF With
<1>2. disk' = [m \in DOMAIN disk' |-> disk'[m]]
  BY DEF With
<1>3. \A m \in DOMAIN disk' : m \in Nat /\ SoundFile(disk'[m])
  BY <1>1, FileNew DEF DiskSound
<1>4. IsFiniteSet(DOMAIN disk')
  BY <1>1, FS_AddElement DEF DiskSound
<1>5. ASSUME NEW k \in DOMAIN disk', NEW m \in DOMAIN disk', NEW j \in k..m
      PROVE  j \in DOMAIN disk'
  <2>1. CASE m \in DOMAIN disk
    <3>1. k \in DOMAIN disk
      BY <1>0, <1>1, <1>3, <2>1
    <3> QED BY <1>1, <2>1, <3>1 DEF DiskSound
  <2>2. CASE m = n /\ j # n /\ DOMAIN disk # {}
    <3>1. k \in DOMAIN disk
      BY <1>1, <1>3, <2>2
    <3>2. j \in k..(n - 1)
      BY <1>3, <2>2
    <3> QED BY <1>1, <2>2, <3>1, <3>2 DEF DiskSound
  <2>3. CASE m = n /\ DOMAIN disk = {}
    <3>1. k = n
      BY <1>1, <2>3
    <3> QED BY <1>1, <2>3, <3>1
  <2> QED BY <1>1, <2>1, <2>2, <2>3
<1>6. ASSUME NEW k \in DOMAIN disk', NEW m \in DOMAIN disk', k < m
      PROVE  Len(disk'[k].added) = ItemsPerSegment /\ disk'[m].removed = 0
  <2>1. k \in DOMAIN disk
    BY <1>0, <1>1, <1>3, <1>6
  <2>2. CASE m \in DOMAIN disk
    BY <1>1, <1>6, <2>1, <2>2 DEF DiskSound
  <2>3. CASE m = n
    <3>1. Len(disk[k].added) = ItemsPerSegment
      <4>1. PICK j \in DOMAIN disk : n = j + 1 /\ Len(disk[j].added) = ItemsPerSegment
        BY <2>1
      <4>2. k = j \/ k < j
        BY <1>0, <1>6, <2>1, <2>3, <4>1
      <4> QED BY <2>1, <4>1, <4>2 DEF DiskSound
    <3> QED BY <1>1, <2>1, <2>3, <3>1, FileNew
  <2> QED BY <1>1, <2>2, <2>3
<1> QED BY <1>1, <1>2, <1>3, <1>4, <1>5, <1>6 DEF DiskSound

\* The oldest files are unlinked.
LEMMA DiskShrunk ==
  ASSUME DiskSound, NEW K, disk' = Without(disk, K),
         \A k \in K, m \in DOMAIN disk : m <= k => m \in K
  PROVE  /\ DiskSound' /\ DOMAIN disk' = DOMAIN disk \ K
         /\ \A m \in DOMAIN disk' : disk'[m] = disk[m]
<1>1. /\ DOMAIN disk' = DOMAIN disk \ K
      /\ \A m \in DOMAIN disk' : disk'[m] = disk[m]
      /\ disk' = [m \in DOMAIN disk' |-> disk'[m]]
  BY DEF Without
<1>2. \A m \in DOMAIN disk' : m \in Nat /\ SoundFile(disk'[m])
  BY <1>1 DEF DiskSound
<1>3. IsFiniteSet(DOMAIN disk')
  BY <1>1, FS_Subset DEF DiskSound
<1>4. ASSUME NEW k \in DOMAIN disk', NEW m \in DOMAIN disk', NEW j \in k..m
      PROVE  j \in DOMAIN disk'
  <2>1. j \in DOMAIN disk /\ k <= j
    BY <1>1, <1>2 DEF DiskSound
  <2> QED BY <1>1, <2>1
<1>5. \A k, m \in DOMAIN disk' : k < m => Len(disk'[k].added) = ItemsPerSegment /\ disk'[m].removed = 0
  BY <1>1 DEF DiskSound
<1> QED BY <1>1, <1>2, <1>3, <1>4, <1>5 DEF DiskSound

-----------------------------------------------------------------------------
(* Places in files, and the bytes of files, are finite in number.          *)

\* A finite number of files with a finite number of places each.
LEMMA PlacesFinite ==
  ASSUME NEW D, IsFiniteSet(D), NEW F, \A n \in D : IsFiniteSet(F[n])
  PROVE  IsFiniteSet(UNION {{n} \X F[n] : n \in D})
<1> DEFINE Part == [n \in D |-> {n} \X F[n]]
           Parts == {{n} \X F[n] : n \in D}
<1>1. Part \in Surjection(D, Parts)
  <2>1. Part \in [D -> Parts]
    OBVIOUS
  <2>2. \A T \in Parts : \E n \in D : Part[n] = T
    OBVIOUS
  <2> HIDE DEF Part, Parts
  <2> QED BY <2>1, <2>2 DEF Surjection
<1>2. IsFiniteSet(Parts)
  <2> HIDE DEF Part, Parts
  <2> QED BY <1>1, FS_Surjection
<1>3. \A T \in Parts : IsFiniteSet(T)
  <2>1. ASSUME NEW n \in D PROVE IsFiniteSet({n} \X F[n])
    <3>1. IsFiniteSet({n}) /\ IsFiniteSet(F[n])
      BY FS_Singleton
    <3> QED BY <3>1, FS_Product
  <2> QED BY <2>1
<1> QED BY <1>2, <1>3, FS_UNION

\* The bytes of a directory can be counted.
LEMMA UnitsFinite ==
  ASSUME NEW d, IsFiniteSet(DOMAIN d), \A n \in DOMAIN d : SoundFile(d[n])
  PROVE  /\ IsFiniteSet(Units(d)) /\ Cardinality(Units(d)) \in Nat
         /\ \A n \in DOMAIN d : FileBytes(d[n]) \in Nat
<1>1. \A n \in DOMAIN d : FileBytes(d[n]) \in Nat
  BY DEF SoundFile, File, FileBytes
<1> DEFINE F == [n \in DOMAIN d |-> 1 .. FileBytes(d[n])]
<1>2. \A n \in DOMAIN d : IsFiniteSet(F[n])
  BY <1>1, FS_Interval
<1>3. Units(d) = UNION {{n} \X F[n] : n \in DOMAIN d}
  BY DEF Units
<1>4. IsFiniteSet(UNION {{n} \X F[n] : n \in DOMAIN d})
  <2> HIDE DEF F
  <2> QED BY <1>2, PlacesFinite
<1> QED BY <1>1, <1>3, <1>4, FS_CardinalityType

-----------------------------------------------------------------------------
(* Each action keeps the invariant.                                        *)

\* What the invariant says of an open queue.
LEMMA OpenFacts ==
  ASSUME QueueInv, status = "open"
  PROVE  /\ segs \in [{first, last} -> Segment] /\ segs[first] \in Segment /\ segs[last] \in Segment
         /\ \A n \in DOMAIN disk : n \in Nat /\ first <= n /\ n <= last + 1 /\ SoundFile(disk[n])
         /\ first # last => last \in DOMAIN disk
         /\ last \notin DOMAIN disk => DOMAIN disk \subseteq {last + 1} /\ Full(segs[last])
         /\ first \notin DOMAIN disk => FirstIsEmpty /\ Full(segs[first]) /\ Retired(first)
         /\ \A n \in {first, last} : n \in DOMAIN disk =>
              /\ Reflects(n)
              /\ segs[n].objs = <<>> <=> disk[n].removed = Len(disk[n].added)
              /\ Full(segs[n]) <=> Len(disk[n].added) = ItemsPerSegment
              /\ SizeOnDisk(segs[n]) = Len(disk[n].added)
<1> USE DEF QueueInv, Rest
<1>1. segs \in [{first, last} -> Segment] /\ segs[first] \in Segment /\ segs[last] \in Segment
  OBVIOUS
<1>2. \A n \in DOMAIN disk : n \in Nat /\ first <= n /\ n <= last + 1 /\ SoundFile(disk[n])
  <2>1. \A n \in DOMAIN disk : n \in Nat /\ SoundFile(disk[n])
    BY DEF DiskSound
  <2>2. \A n \in DOMAIN disk : n \in first..last \/ n = last + 1
    BY DEF MemorySound
  <2>3. first \in Nat /\ last \in Nat /\ first <= last
    OBVIOUS
  <2> QED BY <2>1, <2>2, <2>3
<1>3. first # last => last \in DOMAIN disk
  BY DEF MemorySound
<1>4. first \notin DOMAIN disk => FirstIsEmpty /\ Full(segs[first]) /\ Retired(first)
  <2> SUFFICES ASSUME first \notin DOMAIN disk PROVE FirstIsEmpty /\ Full(segs[first]) /\ Retired(first)
    OBVIOUS
  <2>1. Retired(first)
    BY DEF MemorySound
  <2>2. segs[first].objs = <<>> /\ segs[first].removed >= ItemsPerSegment
    BY <2>1 DEF Retired
  <2>3. segs[first].removed \in Nat /\ Len(segs[first].objs) = 0
    BY <1>1, <2>2, EmptySeq DEF Segment
  <2>4. Full(segs[first])
    BY <2>2, <2>3, DQueAssumption DEF Full, SizeOnDisk
  <2> QED BY <2>1, <2>2, <2>4 DEF FirstIsEmpty
<1>5. last \notin DOMAIN disk => DOMAIN disk \subseteq {last + 1} /\ Full(segs[last])
  <2> SUFFICES ASSUME last \notin DOMAIN disk PROVE DOMAIN disk \subseteq {last + 1} /\ Full(segs[last])
    OBVIOUS
  <2>1. first = last
    BY <1>3
  <2>2. ASSUME NEW n \in DOMAIN disk PROVE n = last + 1
    <3>1. n \in first..last \/ n = last + 1
      BY DEF MemorySound
    <3>2. last \in Nat
      OBVIOUS
    <3> QED BY <2>1, <3>1, <3>2
  <2> QED BY <1>4, <2>1, <2>2
<1>6. ASSUME NEW n \in {first, last}, n \in DOMAIN disk
      PROVE  /\ Reflects(n)
             /\ segs[n].objs = <<>> <=> disk[n].removed = Len(disk[n].added)
             /\ Full(segs[n]) <=> Len(disk[n].added) = ItemsPerSegment
             /\ SizeOnDisk(segs[n]) = Len(disk[n].added)
  <2>1. Reflects(n) /\ SoundFile(disk[n])
    BY <1>2, <1>6 DEF MemorySound
  <2> QED BY <2>1, SegmentSize DEF Reflects
<1> QED BY <1>1, <1>2, <1>3, <1>4, <1>5, <1>6

\* A handle that is closed or bad leaves the segment's contents alone.
LEMMA BadHandle ==
  ASSUME NEW S, segs \in [S -> Segment], NEW n \in S, segs' = [segs EXCEPT ![n].good = FALSE]
  PROVE  /\ segs' \in [S -> Segment]
         /\ \A m \in S : /\ segs'[m].objs = segs[m].objs /\ segs'[m].removed = segs[m].removed
                         /\ Full(segs'[m]) <=> Full(segs[m])
<1>1. segs[n] \in Segment
  OBVIOUS
<1>2. segs'[n] = [objs |-> segs[n].objs, removed |-> segs[n].removed, good |-> FALSE]
  BY <1>1 DEF Segment
<1>3. segs'[n] \in Segment /\ segs'[n].objs = segs[n].objs /\ segs'[n].removed = segs[n].removed
  BY <1>1, <1>2 DEF Segment
<1>4. \A m \in S : segs'[m] \in Segment /\ segs'[m].objs = segs[m].objs /\ segs'[m].removed = segs[m].removed
  BY <1>3
<1>5. segs' = [m \in S |-> segs'[m]]
  OBVIOUS
<1> QED BY <1>4, <1>5 DEF Full, SizeOnDisk

\* Failures are added to those seen since the queue was opened.
LEMMA HitGrows ==
  ASSUME hit \subseteq FaultKinds, NEW kind, Fails(kind) PROVE hit' = hit \cup {kind} /\ hit' \subseteq FaultKinds
BY DQueAssumption DEF Fails, MayFail

\* The cached total stays a number, whatever sizeOfFile answers.
LEMMA Recounted ==
  ASSUME bytes \in Int, hit \subseteq FaultKinds, NEW old \in Int, NEW new \in Int, Recount(old, new)
  PROVE  bytes' \in Int /\ hit \subseteq hit' /\ hit' \subseteq FaultKinds
BY HitGrows DEF Recount

-----------------------------------------------------------------------------
\* The range of numbers a load starts with.
LEMMA LoadBeginsKeepsInv == QueueInv /\ LoadBegins => QueueInv' /\ LoadSound'
<1> SUFFICES ASSUME QueueInv, LoadBegins PROVE QueueInv' /\ LoadSound'
  OBVIOUS
<1>1. /\ status = "down" /\ status' = "loading" /\ hit' = {}
      /\ UNCHANGED <<disk, segs, bytes, step, adding, waiting, taken, used, crashes>>
  BY DEF LoadBegins, hist
<1>2. DOMAIN disk \subseteq Nat /\ IsFiniteSet(DOMAIN disk)
  BY DEF QueueInv, DiskSound
<1>3. /\ first' \in Nat /\ last' \in Nat /\ (first' <= last' \/ first' = last' + 1)
      /\ \A n \in DOMAIN disk : first' <= n /\ n <= last'
      /\ first' <= last' => first' \in DOMAIN disk /\ last' \in DOMAIN disk
  <2>1. CASE DOMAIN disk = {}
    <3>1. first' = 1 /\ last' = 0
      BY <2>1 DEF LoadBegins
    <3> QED BY <2>1, <3>1
  <2>2. CASE DOMAIN disk # {}
    <3>1. first' = Min(DOMAIN disk) /\ last' = Max(DOMAIN disk)
      BY <2>2 DEF LoadBegins, Lowest, Highest
    <3>2. /\ first' \in DOMAIN disk /\ last' \in DOMAIN disk
          /\ \A n \in DOMAIN disk : first' <= n /\ n <= last'
      BY <1>2, <2>2, <3>1, Ends
    <3> QED BY <1>2, <3>2
  <2> QED BY <2>1, <2>2
<1>4. Rest'
  BY <1>1, <1>3 DEF QueueInv, Rest
<1>5. DiskSound' /\ MemorySound' /\ LoadSound'
  BY <1>1, <1>3 DEF QueueInv, DiskSound, MemorySound, LoadSound
<1>6. StepSound'
  BY <1>1 DEF QueueInv, StepSound, Retiring
<1> QED BY <1>4, <1>5, <1>6 DEF QueueInv

\* One leading segment less, and the numbering still without a gap.
LEMMA LoadSkipsKeepsInv == QueueInv /\ LoadSound /\ LoadSkips => QueueInv' /\ LoadSound'
<1> SUFFICES ASSUME QueueInv, LoadSound, LoadSkips PROVE QueueInv' /\ LoadSound'
  OBVIOUS
<1>1. /\ status = "loading" /\ first \in DOMAIN disk /\ disk' = Without(disk, {first}) /\ first' = first + 1
      /\ UNCHANGED <<status, segs, last, bytes, step, adding, waiting, hit, taken, used, crashes>>
  BY DEF LoadSkips, Loadable, hist
<1>2. /\ first \in Nat /\ last \in Nat /\ first <= last /\ last \in DOMAIN disk
      /\ \A n \in DOMAIN disk : n \in Nat /\ first <= n /\ n <= last
      /\ first..last \subseteq DOMAIN disk
  BY <1>1 DEF QueueInv, Rest, DiskSound, LoadSound
<1>3. DiskSound' /\ DOMAIN disk' = DOMAIN disk \ {first}
  <2>1. \A k \in {first}, m \in DOMAIN disk : m <= k => m \in {first}
    BY <1>2
  <2> QED BY <1>1, <2>1, DiskShrunk DEF QueueInv
<1>4. Rest' /\ MemorySound'
  BY <1>1, <1>2 DEF QueueInv, Rest, MemorySound
<1>5. LoadSound'
  <2>1. \A n \in DOMAIN disk' : first + 1 <= n /\ n <= last
    BY <1>2, <1>3
  <2>2. first + 1 <= last => first + 1 \in DOMAIN disk' /\ last \in DOMAIN disk'
    BY <1>2, <1>3
  <2> QED BY <1>1, <2>1, <2>2 DEF LoadSound
<1>6. StepSound'
  BY <1>1 DEF QueueInv, StepSound, Retiring
<1> QED BY <1>3, <1>4, <1>5, <1>6 DEF QueueInv

\* A new queue, over a directory with nothing left in it, has one empty segment.
LEMMA OpenNewKeepsInv == QueueInv /\ LoadSound /\ OpenNew => QueueInv'
<1> SUFFICES ASSUME QueueInv, LoadSound, OpenNew PROVE QueueInv'
  OBVIOUS
<1> USE DEF QueueInv
<1>0. /\ status = "loading" /\ status' = "open" /\ first' = 1 /\ last' = 1 /\ bytes' = 0 /\ hit' = {}
      /\ UNCHANGED <<step, adding, waiting, taken, used, crashes>>
  BY DEF OpenNew, LoadSound, hist
<1>1. disk' = With(disk, 1, NewFile) /\ segs' = With(Nothing, 1, Empty)
  BY DEF OpenNew
<1>2. DOMAIN disk' = {1} /\ disk'[1] = NewFile /\ disk' = [n \in {1} |-> NewFile]
  <2>1. DOMAIN disk = {}
    <3>1. first > last /\ first \in Nat /\ last \in Nat /\ \A n \in DOMAIN disk : n \in Nat /\ first <= n /\ n <= last
      BY <1>0 DEF OpenNew, Rest, DiskSound, LoadSound
    <3>2. \A n \in DOMAIN disk : FALSE
      BY <3>1
    <3> QED BY <3>2
  <2> QED BY <1>1, <2>1 DEF With
<1>3. DOMAIN segs' = {1} /\ segs'[1] = Empty /\ segs' = [n \in {1} |-> Empty]
  BY <1>1 DEF With, Nothing
<1>4. DiskSound'
  <2>1. IsFiniteSet({1}) /\ 1..1 = {1}
    BY FS_Singleton
  <2>2. disk' = [n \in DOMAIN disk' |-> disk'[n]]
    BY <1>2
  <2>3. \A n \in {1} : n \in Nat /\ SoundFile(disk'[n])
    BY <1>2, FileNew
  <2> QED BY <1>2, <2>1, <2>2, <2>3 DEF DiskSound
<1>5. step' = "idle" /\ waiting' = {} /\ adding' = {}
  BY <1>0 DEF StepSound
<1>6. Rest'
  <2>1. {first', last'} = {1}
    BY <1>0
  <2>2. segs' \in [{first', last'} -> Segment]
    BY <1>3, <2>1, FileNew
  <2> QED BY <1>0, <1>5, <2>2 DEF Rest
<1>7. MemorySound'
  BY <1>0, <1>2, <1>3, FileNew DEF MemorySound, Reflects
<1>8. StepSound'
  BY <1>0, <1>3, <1>5, FileNew, DQueAssumption DEF StepSound, Retiring, Retired
<1> QED BY <1>4, <1>6, <1>7, <1>8

\* load takes the first and the last segment from their files.
LEMMA LoadsKeepsInv ==
  ASSUME QueueInv, LoadSound, Loads, bytes' \in Int, hit \subseteq hit', hit' \subseteq FaultKinds PROVE QueueInv'
<1> USE DEF QueueInv
<1>1. /\ status = "loading" /\ status' = "open"
      /\ segs' = [n \in {first, last} |-> LoadSegment(disk[n])]
      /\ UNCHANGED <<disk, first, last, step, adding, waiting, taken, used, crashes>>
  BY DEF Loads, hist
<1>2. /\ first \in DOMAIN disk /\ last \in DOMAIN disk /\ ~Skippable(disk[first])
      /\ \A n \in DOMAIN disk : first <= n /\ n <= last
  BY <1>1 DEF Loads, Loadable, LoadSound
<1>3. /\ \A n \in DOMAIN disk : n \in Nat /\ SoundFile(disk[n])
      /\ \A m, n \in DOMAIN disk : m..n \subseteq DOMAIN disk
      /\ \A m, n \in DOMAIN disk : m < n => disk[n].removed = 0
  BY DEF DiskSound
<1>5. \A n \in {first, last} : /\ segs'[n].objs = Live(disk[n]) /\ segs'[n].removed = disk[n].removed
                               /\ segs'[n] \in Segment
  <2> SUFFICES ASSUME NEW n \in {first, last}
               PROVE /\ segs'[n].objs = Live(disk[n]) /\ segs'[n].removed = disk[n].removed
                     /\ segs'[n] \in Segment
    OBVIOUS
  <2>1. segs'[n] = [objs |-> Live(disk[n]), removed |-> disk[n].removed, good |-> TRUE]
    BY <1>1 DEF LoadSegment
  <2>2. Live(disk[n]) \in Seq(Item) /\ disk[n].removed \in Nat
    BY <1>2, <1>3, LiveItems DEF SoundFile, File
  <2> QED BY <2>1, <2>2 DEF Segment
<1>6. step' = "idle" /\ waiting' = {} /\ adding' = {}
  BY <1>1 DEF StepSound
<1>7. Rest'
  <2>1. segs' \in [{first', last'} -> Segment]
    BY <1>1, <1>5
  <2>2. first \in Nat /\ last \in Nat /\ first <= last
    BY <1>2, <1>3
  <2> QED BY <1>1, <1>6, <2>1, <2>2 DEF Rest
<1>8. MemorySound' /\ DiskSound'
  <2>1. \A n \in DOMAIN disk : n \in first..last
    BY <1>2, <1>3
  <2>2. (first + 1)..last \subseteq DOMAIN disk
    <3>1. first..last \subseteq DOMAIN disk /\ first \in Nat /\ last \in Nat
      BY <1>2, <1>3
    <3>2. \A a, b \in Nat : (a + 1)..b \subseteq a..b
      OBVIOUS
    <3> QED BY <3>1, <3>2
  <2>3. last + 1 \notin DOMAIN disk
    BY <1>2, <1>3
  <2>4. \A n \in DOMAIN disk : n # first => disk[n].removed = 0
    <3>1. \A n \in DOMAIN disk : n # first => first < n
      BY <1>2, <1>3
    <3> QED BY <1>2, <1>3, <3>1
  <2> QED BY <1>1, <1>2, <1>5, <2>1, <2>2, <2>3, <2>4 DEF MemorySound, Reflects, DiskSound
<1>9. StepSound'
  <2>1. ~Retired(first)'
    <3> SUFFICES ASSUME Retired(first)' PROVE FALSE
      OBVIOUS
    <3>1. Live(disk[first]) = <<>> /\ disk[first].removed >= ItemsPerSegment
      BY <1>1, <1>5 DEF Retired
    <3>2. SoundFile(disk[first]) /\ Len(disk[first].added) \in Nat /\ disk[first].removed \in Nat
      BY <1>2, <1>3 DEF SoundFile, File
    <3>3. Len(disk[first].added) = disk[first].removed /\ Full(LoadSegment(disk[first]))
      <4>1. LoadSegment(disk[first]).objs = Live(disk[first])
            /\ LoadSegment(disk[first]).removed = disk[first].removed
        BY DEF LoadSegment
      <4>2. /\ Live(disk[first]) = <<>> <=> disk[first].removed = Len(disk[first].added)
            /\ Full(LoadSegment(disk[first])) <=> Len(disk[first].added) = ItemsPerSegment
        BY <3>2, <4>1, SegmentSize
      <4> QED BY <3>1, <3>2, <4>2, DQueAssumption DEF SoundFile
    <3> QED BY <1>2, <3>3 DEF Skippable
  <2> QED BY <1>1, <1>6, <2>1 DEF StepSound, Retiring
<1> QED BY <1>7, <1>8, <1>9

\* The total may be read from all files, from some or from none.
LEMMA OpenExistingKeepsInv == QueueInv /\ LoadSound /\ (OpenExisting \/ OpenUnseeded) => QueueInv'
<1> SUFFICES ASSUME QueueInv, LoadSound, OpenExisting \/ OpenUnseeded PROVE QueueInv'
  OBVIOUS
<1>1. IsFiniteSet(DOMAIN disk) /\ (\A n \in DOMAIN disk : SoundFile(disk[n])) /\ hit \subseteq FaultKinds
  BY DEF QueueInv, DiskSound, Rest
<1>2. CASE OpenExisting
  <2>1. bytes' \in Int
    BY <1>1, <1>2, UnitsFinite DEF OpenExisting
  <2> QED BY <1>1, <1>2, <2>1, LoadsKeepsInv DEF OpenExisting
<1>3. CASE OpenUnseeded
  <2>1. PICK seen \in SUBSET DOMAIN disk : bytes' = Cardinality(Units(Only(disk, seen)))
    BY <1>3 DEF OpenUnseeded
  <2>2. /\ DOMAIN Only(disk, seen) = DOMAIN disk \cap seen
        /\ \A n \in DOMAIN Only(disk, seen) : Only(disk, seen)[n] = disk[n]
    BY DEF Only
  <2>3. IsFiniteSet(DOMAIN Only(disk, seen)) /\ \A n \in DOMAIN Only(disk, seen) : SoundFile(Only(disk, seen)[n])
    BY <1>1, <2>2, FS_Subset
  <2>4. bytes' \in Int
    BY <2>1, <2>3, UnitsFinite
  <2>5. hit \subseteq hit' /\ hit' \subseteq FaultKinds
    BY <1>1, <1>3, HitGrows DEF OpenUnseeded
  <2> QED BY <1>3, <2>4, <2>5, LoadsKeepsInv DEF OpenUnseeded
<1> QED BY <1>2, <1>3

\* load gives up: the segments it has skipped are gone all the same.
LEMMA LoadFailsKeepsInv == QueueInv /\ LoadFails => QueueInv'
<1> SUFFICES ASSUME QueueInv, LoadFails PROVE QueueInv'
  OBVIOUS
<1>1. /\ status = "loading" /\ status' = "down" /\ first' = 0 /\ last' = 0
      /\ UNCHANGED <<disk, segs, bytes, step, adding, waiting, hit, taken, used, crashes>>
  BY DEF LoadFails, hist
<1>2. Rest' /\ DiskSound' /\ MemorySound'
  BY <1>1 DEF QueueInv, Rest, DiskSound, MemorySound
<1>3. StepSound'
  BY <1>1 DEF QueueInv, StepSound, Retiring
<1> QED BY <1>2, <1>3 DEF QueueInv

\* Close and a crash leave the files alone and forget the rest.
LEMMA CloseKeepsInv == QueueInv /\ Close => QueueInv'
<1> SUFFICES ASSUME QueueInv, Close PROVE QueueInv'
  OBVIOUS
<1>1. /\ status' = "down" /\ segs' = Nothing /\ first' = 0 /\ last' = 0 /\ bytes' = 0 /\ waiting' = {}
      /\ step = "idle" /\ UNCHANGED <<disk, step, adding, hit, taken, used, crashes>>
  BY DEF Close, Open0, hist
<1>2. segs' \in [{} -> Segment]
  BY <1>1 DEF Nothing
<1>3. Rest'
  BY <1>1, <1>2 DEF QueueInv, Rest
<1>4. DiskSound' /\ MemorySound'
  BY <1>1 DEF QueueInv, DiskSound, MemorySound
<1>5. StepSound'
  BY <1>1 DEF QueueInv, StepSound, Retiring
<1> QED BY <1>3, <1>4, <1>5 DEF QueueInv

\* The death of the process leaves the files and nothing else.
LEMMA CrashKeepsInv == QueueInv /\ Crash => QueueInv'
<1> SUFFICES ASSUME QueueInv, Crash PROVE QueueInv'
  OBVIOUS
<1>1. /\ status' = "down" /\ segs' = Nothing /\ first' = 0 /\ last' = 0 /\ bytes' = 0 /\ waiting' = {}
      /\ step' = "idle" /\ adding' = {} /\ UNCHANGED <<disk, hit, taken, used>>
      /\ crashes < MaxCrashes /\ crashes' = crashes + 1
  BY DEF Crash
<1>2. segs' \in [{} -> Segment]
  BY <1>1 DEF Nothing
<1>3. crashes' \in 0..MaxCrashes
  BY <1>1, DQueAssumption DEF QueueInv, Rest
<1>4. Rest'
  BY <1>1, <1>2, <1>3 DEF QueueInv, Rest
<1>5. DiskSound' /\ MemorySound'
  BY <1>1 DEF QueueInv, DiskSound, MemorySound
<1>6. StepSound'
  BY <1>1 DEF StepSound, Retiring
<1> QED BY <1>4, <1>5, <1>6 DEF QueueInv

\* Nothing but the start of a load and the skipping of a segment goes on loading.
LEMMA LoadSoundKept == QueueInv /\ LoadSound /\ [Next]_vars => LoadSound'
<1> SUFFICES ASSUME QueueInv, LoadSound, [Next]_vars PROVE LoadSound'
  OBVIOUS
<1>1. CASE LoadBegins \/ LoadSkips
  BY <1>1, LoadBeginsKeepsInv, LoadSkipsKeepsInv
<1>2. CASE OpenNew \/ OpenExisting \/ OpenUnseeded \/ LoadFails \/ Close \/ Crash
  BY <1>2 DEF OpenNew, OpenExisting, OpenUnseeded, Loads, LoadFails, Close, Crash, LoadSound
<1>3. CASE Add \/ Dequeue \/ (\E x \in Item : Enqueue(x)) \/ (\E c \in Consumer : Park(c))
  <2>1. status = "open"
    BY <1>3 DEF Add, AddLen, AddLenFails, AddBody, AddBodyFails, Dequeue, RemoveHead, RemoveFails, Unlink,
       UnlinkFails, AdvanceToNew, AdvanceToLast, AdvanceToNext, AdvanceFails, Enqueue, EnqueueToRoom,
       EnqueueRollover, EnqueueCreateFails, EnqueueCloseFails, Park, Open0, QueueInv, StepSound
  <2>2. status' = status
    BY <1>3 DEF Add, AddLen, AddLenFails, AddBody, AddBodyFails, Dequeue, RemoveHead, RemoveFails, Unlink,
       UnlinkFails, AdvanceToNew, AdvanceToLast, AdvanceToNext, AdvanceFails, Enqueue, EnqueueToRoom,
       EnqueueRollover, EnqueueCreateFails, EnqueueCloseFails, Park
  <2> QED BY <2>1, <2>2 DEF LoadSound
<1>4. CASE UNCHANGED vars
  BY <1>4 DEF vars, LoadSound
<1> QED BY <1>1, <1>2, <1>3, <1>4 DEF Next, Open

-----------------------------------------------------------------------------
\* A step that changes neither the files nor what the segments hold.
LEMMA SameMemory ==
  ASSUME QueueInv, status = "open", UNCHANGED <<disk, status, first, last>>, hit \subseteq hit',
         \A m \in {first, last} : /\ segs'[m].objs = segs[m].objs /\ segs'[m].removed = segs[m].removed
                                  /\ Full(segs'[m]) <=> Full(segs[m]),
         first \in DOMAIN disk \/ step' = "advance" \/ hit' \cap {"create", "open"} # {}
  PROVE  DiskSound' /\ MemorySound' /\ (Retired(first)' <=> Retired(first)) /\ (FirstIsEmpty' <=> FirstIsEmpty)
<1>1. DiskSound'
  BY DEF QueueInv, DiskSound
<1>2. Retired(first)' <=> Retired(first)
  BY DEF Retired
<1>3. \A n \in {first, last} : Reflects(n) => (segs'[n].objs = Live(disk'[n]) /\ segs'[n].removed = disk'[n].removed)
  BY DEF Reflects
<1>4. \A n \in {first, last} : Retired(n) => (segs'[n].objs = <<>> /\ segs'[n].removed >= ItemsPerSegment)
  BY DEF Retired
<1>5. MemorySound'
  <2>1. /\ \A n \in DOMAIN disk' :
             n \in first'..last' \/ (n = last' + 1 /\ disk'[n] = NewFile /\ Full(segs'[last']))
        /\ (first' + 1)..last' \subseteq DOMAIN disk'
        /\ last' + 1 \in DOMAIN disk' => "close" \in hit'
        /\ \A n \in DOMAIN disk' : n # first' => disk'[n].removed = 0
    BY DEF QueueInv, MemorySound
  <2>2. \A n \in {first', last'} :
           IF n \in DOMAIN disk' THEN segs'[n].objs = Live(disk'[n]) /\ segs'[n].removed = disk'[n].removed
                                 ELSE n = first' /\ segs'[n].objs = <<>> /\ segs'[n].removed >= ItemsPerSegment
    BY <1>3, <1>4 DEF QueueInv, MemorySound
  <2> QED BY <2>1, <2>2 DEF MemorySound, Reflects, Retired
<1> QED BY <1>1, <1>2, <1>5 DEF FirstIsEmpty

\* An Enqueue that finds room has its segment's file to write to.
LEMMA EnqueueToRoomKeepsInv == \A x \in Item : QueueInv /\ EnqueueToRoom(x) => QueueInv'
<1> SUFFICES ASSUME NEW x \in Item, QueueInv, EnqueueToRoom(x) PROVE QueueInv'
  OBVIOUS
<1>1. /\ status = "open" /\ step = "idle" /\ ~Full(segs[last])
      /\ step' = "len" /\ adding' = {x} /\ used' = used \cup {x}
      /\ UNCHANGED <<disk, status, segs, first, last, bytes, waiting, taken, hit, crashes>>
  BY DEF EnqueueToRoom, Open0, mem
<1>2. last \in DOMAIN disk
  BY <1>1, OpenFacts
<1>3. first \in DOMAIN disk \/ hit' \cap {"create", "open"} # {}
  BY <1>1 DEF QueueInv, MemorySound
<1>4. DiskSound' /\ MemorySound' /\ (Retired(first)' <=> Retired(first)) /\ (FirstIsEmpty' <=> FirstIsEmpty)
  BY <1>1, <1>3, SameMemory
<1>5. Rest'
  BY <1>1 DEF QueueInv, Rest
<1>6. StepSound'
  BY <1>1, <1>2, <1>4 DEF QueueInv, StepSound, Retiring
<1> QED BY <1>4, <1>5, <1>6 DEF QueueInv

\* A segment that cannot be created leaves the queue as it was.
LEMMA EnqueueCreateFailsKeepsInv == \A x \in Item : QueueInv /\ EnqueueCreateFails(x) => QueueInv'
<1> SUFFICES ASSUME NEW x \in Item, QueueInv, EnqueueCreateFails(x) PROVE QueueInv'
  OBVIOUS
<1>1. /\ status = "open" /\ step = "idle" /\ used' = used \cup {x}
      /\ UNCHANGED <<disk, status, segs, first, last, bytes, step, adding, waiting, taken, crashes>>
  BY DEF EnqueueCreateFails, Open0, mem
<1>2. hit \subseteq hit' /\ hit' \subseteq FaultKinds
  BY HitGrows DEF EnqueueCreateFails, QueueInv, Rest
<1>3. first \in DOMAIN disk \/ hit' \cap {"create", "open"} # {}
  BY <1>1, <1>2 DEF QueueInv, MemorySound
<1>4. DiskSound' /\ MemorySound' /\ (Retired(first)' <=> Retired(first)) /\ (FirstIsEmpty' <=> FirstIsEmpty)
  BY <1>1, <1>2, <1>3, SameMemory
<1>5. Rest'
  BY <1>1, <1>2 DEF QueueInv, Rest
<1>6. StepSound'
  BY <1>1, <1>2, <1>4 DEF QueueInv, StepSound, Retiring
<1> QED BY <1>4, <1>5, <1>6 DEF QueueInv

\* A call to write fails, for an item or for a marker, or a consumer parks.
LEMMA AddLenFailsKeepsInv == QueueInv /\ (AddLenFails \/ AddBodyFails) => QueueInv'
<1> SUFFICES ASSUME QueueInv, AddLenFails \/ AddBodyFails PROVE QueueInv'
  OBVIOUS
<1>1. /\ step \in {"len", "body"} /\ step' = "idle" /\ adding' = {}
      /\ UNCHANGED <<disk, status, segs, first, last, bytes, waiting, taken, used, crashes>>
  BY DEF AddLenFails, AddBodyFails, mem, hist
<1>2. hit \subseteq hit' /\ hit' \subseteq FaultKinds
  BY HitGrows DEF AddLenFails, AddBodyFails, QueueInv, Rest
<1>3. status = "open"
  BY <1>1 DEF QueueInv, Rest, StepSound
<1>4. first \in DOMAIN disk \/ hit' \cap {"create", "open"} # {}
  BY <1>1, <1>2, <1>3 DEF QueueInv, MemorySound
<1>5. DiskSound' /\ MemorySound' /\ (Retired(first)' <=> Retired(first)) /\ (FirstIsEmpty' <=> FirstIsEmpty)
  BY <1>1, <1>2, <1>3, <1>4, SameMemory
<1>6. Rest'
  BY <1>1, <1>2 DEF QueueInv, Rest
<1>7. StepSound'
  BY <1>1, <1>2, <1>3, <1>5 DEF QueueInv, StepSound, Retiring
<1> QED BY <1>5, <1>6, <1>7 DEF QueueInv

\* A marker that cannot be written removes nothing.
LEMMA RemoveFailsKeepsInv == QueueInv /\ RemoveFails => QueueInv'
<1> SUFFICES ASSUME QueueInv, RemoveFails PROVE QueueInv'
  OBVIOUS
<1>1. /\ status = "open" /\ step = "idle"
      /\ UNCHANGED <<disk, status, segs, first, last, bytes, step, adding, waiting, taken, used, crashes>>
  BY DEF RemoveFails, Open0, mem, hist
<1>2. hit \subseteq hit' /\ hit' \subseteq FaultKinds
  BY HitGrows DEF RemoveFails, QueueInv, Rest
<1>3. first \in DOMAIN disk \/ hit' \cap {"create", "open"} # {}
  BY <1>1, <1>2 DEF QueueInv, MemorySound
<1>4. DiskSound' /\ MemorySound' /\ (Retired(first)' <=> Retired(first)) /\ (FirstIsEmpty' <=> FirstIsEmpty)
  BY <1>1, <1>2, <1>3, SameMemory
<1>5. Rest'
  BY <1>1, <1>2 DEF QueueInv, Rest
<1>6. StepSound'
  BY <1>1, <1>2, <1>4 DEF QueueInv, StepSound, Retiring
<1> QED BY <1>4, <1>5, <1>6 DEF QueueInv

\* A consumer parks while the first segment is empty only.
LEMMA ParkKeepsInv == \A c \in Consumer : QueueInv /\ Park(c) => QueueInv'
<1> SUFFICES ASSUME NEW c \in Consumer, QueueInv, Park(c) PROVE QueueInv'
  OBVIOUS
<1>1. /\ status = "open" /\ step = "idle" /\ FirstIsEmpty /\ waiting' = waiting \cup {c}
      /\ UNCHANGED <<disk, status, segs, first, last, bytes, step, adding, hit, taken, used, crashes>>
  BY DEF Park, Open0, mem, hist
<1>2. first \in DOMAIN disk \/ hit' \cap {"create", "open"} # {}
  BY <1>1 DEF QueueInv, MemorySound
<1>3. DiskSound' /\ MemorySound' /\ (Retired(first)' <=> Retired(first)) /\ (FirstIsEmpty' <=> FirstIsEmpty)
  BY <1>1, <1>2, SameMemory
<1>4. Rest'
  BY <1>1 DEF QueueInv, Rest
<1>5. StepSound'
  BY <1>1, <1>3 DEF QueueInv, StepSound, Retiring
<1> QED BY <1>3, <1>4, <1>5 DEF QueueInv

\* A retired segment whose file stays has its failure recorded.
LEMMA UnlinkFailsKeepsInv == QueueInv /\ UnlinkFails => QueueInv'
<1> SUFFICES ASSUME QueueInv, UnlinkFails PROVE QueueInv'
  OBVIOUS
<1>1. /\ step = "unlink" /\ step' = "idle" /\ Fails("unlink") /\ segs' = [segs EXCEPT ![first].good = FALSE]
      /\ UNCHANGED <<disk, status, first, last, bytes, adding, waiting, taken, used, crashes>>
  BY DEF UnlinkFails, hist
<1>2. hit \subseteq hit' /\ hit' \subseteq FaultKinds /\ "unlink" \in hit'
  BY <1>1, HitGrows DEF QueueInv, Rest
<1>3. status = "open" /\ first \in DOMAIN disk
  BY <1>1 DEF QueueInv, Rest, StepSound
<1>4. /\ segs' \in [{first, last} -> Segment]
      /\ \A m \in {first, last} : /\ segs'[m].objs = segs[m].objs /\ segs'[m].removed = segs[m].removed
                                  /\ Full(segs'[m]) <=> Full(segs[m])
  <2>1. segs \in [{first, last} -> Segment] /\ first \in {first, last}
    BY <1>3, OpenFacts
  <2> QED BY <1>1, <2>1, BadHandle
<1>5. DiskSound' /\ MemorySound' /\ (Retired(first)' <=> Retired(first)) /\ (FirstIsEmpty' <=> FirstIsEmpty)
  BY <1>1, <1>2, <1>3, <1>4, SameMemory
<1>6. Rest'
  BY <1>1, <1>2, <1>3, <1>4 DEF QueueInv, Rest
<1>7. StepSound'
  BY <1>1, <1>2, <1>3, <1>5 DEF QueueInv, StepSound, Retiring
<1> QED BY <1>5, <1>6, <1>7 DEF QueueInv

\* A retired segment that has no successor has its failure recorded.
LEMMA AdvanceFailsKeepsInv == QueueInv /\ AdvanceFails => QueueInv'
<1> SUFFICES ASSUME QueueInv, AdvanceFails PROVE QueueInv'
  OBVIOUS
<1>1. /\ step = "advance" /\ step' = "idle"
      /\ UNCHANGED <<disk, status, segs, first, last, bytes, adding, waiting, taken, used, crashes>>
  BY DEF AdvanceFails, mem, hist
<1>2. \E kind \in {"create", "open"} : hit' = hit \cup {kind}
  BY HitGrows DEF AdvanceFails, QueueInv, Rest
<1>3. hit \subseteq hit' /\ hit' \subseteq FaultKinds /\ hit' \cap {"create", "open"} # {}
      /\ hit' \cap {"create", "unlink", "open"} # {}
  BY <1>2 DEF QueueInv, Rest, FaultKinds
<1>4. status = "open"
  BY <1>1 DEF QueueInv, Rest, StepSound
<1>5. DiskSound' /\ MemorySound' /\ (Retired(first)' <=> Retired(first)) /\ (FirstIsEmpty' <=> FirstIsEmpty)
  BY <1>1, <1>3, <1>4, SameMemory
<1>6. Rest'
  BY <1>1, <1>3 DEF QueueInv, Rest
<1>7. StepSound'
  BY <1>1, <1>3, <1>4, <1>5 DEF QueueInv, StepSound, Retiring
<1> QED BY <1>5, <1>6, <1>7 DEF QueueInv

-----------------------------------------------------------------------------
\* The rollover's new file, whether or not its segment becomes the last one.
LEMMA RollsOver ==
  ASSUME QueueInv, status = "open", Full(segs[last]), last + 1 \notin DOMAIN disk,
         disk' = With(disk, last + 1, NewFile)
  PROVE  /\ DiskSound' /\ DOMAIN disk' = DOMAIN disk \cup {last + 1} /\ disk'[last + 1] = NewFile
         /\ \A m \in DOMAIN disk : disk'[m] = disk[m]
         /\ \A n \in DOMAIN disk : n \in first..last
         /\ \A n \in DOMAIN disk' : n # first => disk'[n].removed = 0
<1>1. first \in Nat /\ last \in Nat /\ first <= last
  BY DEF QueueInv, Rest
<1>2. /\ \A n \in DOMAIN disk : n \in Nat /\ first <= n /\ n <= last + 1
      /\ last \notin DOMAIN disk => DOMAIN disk \subseteq {last + 1}
      /\ last \in DOMAIN disk => Len(disk[last].added) = ItemsPerSegment
  BY OpenFacts
<1>3. \A n \in DOMAIN disk : n \in first..last /\ n < last + 1
  BY <1>1, <1>2
<1>4. DOMAIN disk = {} \/ \E m \in DOMAIN disk : last + 1 = m + 1 /\ Len(disk[m].added) = ItemsPerSegment
  <2>1. last \notin DOMAIN disk => DOMAIN disk = {}
    BY <1>2
  <2> QED BY <1>2, <2>1
<1>5. /\ DiskSound' /\ DOMAIN disk' = DOMAIN disk \cup {last + 1} /\ disk'[last + 1] = NewFile
      /\ \A m \in DOMAIN disk : disk'[m] = disk[m]
  <2>1. last + 1 \in Nat /\ DiskSound
    BY <1>1 DEF QueueInv
  <2> QED BY <1>3, <1>4, <2>1, DiskGrown
<1>6. \A n \in DOMAIN disk : n # first => disk[n].removed = 0
  BY DEF QueueInv, MemorySound
<1> QED BY <1>3, <1>5, <1>6, FileNew

\* The next segment's file comes after a full one.
LEMMA EnqueueRolloverKeepsInv == \A x \in Item : QueueInv /\ EnqueueRollover(x) => QueueInv'
<1> SUFFICES ASSUME NEW x \in Item, QueueInv, EnqueueRollover(x) PROVE QueueInv'
  OBVIOUS
<1>1. /\ status = "open" /\ step = "idle" /\ Full(segs[last]) /\ last + 1 \notin DOMAIN disk
      /\ disk' = With(disk, last + 1, NewFile) /\ segs' = With(Only(segs, {first}), last + 1, Empty)
      /\ last' = last + 1 /\ step' = "len" /\ adding' = {x} /\ used' = used \cup {x}
      /\ UNCHANGED <<status, first, bytes, waiting, taken, hit, crashes>>
  BY DEF EnqueueRollover, Open0
<1>2. first \in Nat /\ last \in Nat /\ first <= last /\ first # last + 1
  BY <1>1 DEF QueueInv, Rest
<1>3. /\ DiskSound' /\ DOMAIN disk' = DOMAIN disk \cup {last + 1} /\ disk'[last + 1] = NewFile
      /\ \A m \in DOMAIN disk : disk'[m] = disk[m]
      /\ \A n \in DOMAIN disk : n \in first..last
      /\ \A n \in DOMAIN disk' : n # first => disk'[n].removed = 0
  BY <1>1, RollsOver
<1>4. segs' \in [{first, last + 1} -> Segment] /\ segs'[first] = segs[first] /\ segs'[last + 1] = Empty
  <2>1. DOMAIN segs \cap {first} = {first} /\ segs[first] \in Segment
    BY <1>1, OpenFacts
  <2>2. Only(segs, {first}) = [n \in {first} |-> segs[n]]
    BY <2>1 DEF Only
  <2>3. segs' = [m \in {first, last + 1} |-> IF m = last + 1 THEN Empty ELSE Only(segs, {first})[m]]
    BY <1>1, <2>2 DEF With
  <2> QED BY <1>2, <2>1, <2>2, <2>3, FileNew
<1>5. Rest'
  BY <1>1, <1>2, <1>4 DEF QueueInv, Rest
<1>6. MemorySound'
  <2>1. \A n \in DOMAIN disk' : n \in first..(last + 1)
    BY <1>2, <1>3
  <2>2. (first + 1)..(last + 1) \subseteq DOMAIN disk'
    <3>1. (first + 1)..last \subseteq DOMAIN disk
      BY <1>1 DEF QueueInv, MemorySound
    <3>2. (first + 1)..(last + 1) \subseteq ((first + 1)..last) \cup {last + 1}
      BY <1>2
    <3> QED BY <1>3, <3>1, <3>2
  <2>3. last + 1 + 1 \notin DOMAIN disk'
    BY <1>2, <2>1
  <2>4. IF first \in DOMAIN disk' THEN segs'[first].objs = Live(disk'[first]) /\ segs'[first].removed = disk'[first].removed
                                  ELSE segs'[first].objs = <<>> /\ segs'[first].removed >= ItemsPerSegment
    BY <1>1, <1>2, <1>3, <1>4 DEF QueueInv, MemorySound, Reflects, Retired
  <2>5. segs'[last + 1].objs = Live(disk'[last + 1]) /\ segs'[last + 1].removed = disk'[last + 1].removed
        /\ last + 1 \in DOMAIN disk'
    BY <1>3, <1>4, FileNew
  <2>6. first \in DOMAIN disk' \/ hit' \cap {"create", "open"} # {}
    BY <1>1, <1>3 DEF QueueInv, MemorySound
  <2> QED BY <1>1, <1>3, <2>1, <2>2, <2>3, <2>4, <2>5, <2>6 DEF MemorySound, Reflects, Retired
<1>7. StepSound'
  <2>1. last' \in DOMAIN disk' /\ ~Full(segs'[last'])
    BY <1>1, <1>3, <1>4, FileNew
  <2>2. (Retired(first)' <=> Retired(first)) /\ (FirstIsEmpty' <=> FirstIsEmpty)
    BY <1>1, <1>4 DEF Retired, FirstIsEmpty
  <2> QED BY <1>1, <2>1, <2>2 DEF QueueInv, StepSound, Retiring
<1> QED BY <1>3, <1>5, <1>6, <1>7 DEF QueueInv

\* A failed close leaves one empty file more than the queue knows of.
LEMMA EnqueueCloseFailsKeepsInv == \A x \in Item : QueueInv /\ EnqueueCloseFails(x) => QueueInv'
<1> SUFFICES ASSUME NEW x \in Item, QueueInv, EnqueueCloseFails(x) PROVE QueueInv'
  OBVIOUS
<1>1. /\ status = "open" /\ step = "idle" /\ Full(segs[last]) /\ first # last /\ last + 1 \notin DOMAIN disk
      /\ Fails("close") /\ disk' = With(disk, last + 1, NewFile)
      /\ segs' = [segs EXCEPT ![last].good = FALSE] /\ used' = used \cup {x}
      /\ UNCHANGED <<status, first, last, bytes, step, adding, waiting, taken, crashes>>
  BY DEF EnqueueCloseFails, Open0
<1>2. first \in Nat /\ last \in Nat /\ first <= last /\ first # last + 1
  BY <1>1 DEF QueueInv, Rest
<1>3. /\ DiskSound' /\ DOMAIN disk' = DOMAIN disk \cup {last + 1} /\ disk'[last + 1] = NewFile
      /\ \A m \in DOMAIN disk : disk'[m] = disk[m]
      /\ \A n \in DOMAIN disk : n \in first..last
      /\ \A n \in DOMAIN disk' : n # first => disk'[n].removed = 0
  BY <1>1, RollsOver
<1>4. /\ segs' \in [{first, last} -> Segment]
      /\ \A m \in {first, last} : /\ segs'[m].objs = segs[m].objs /\ segs'[m].removed = segs[m].removed
                                  /\ Full(segs'[m]) <=> Full(segs[m])
  <2>1. segs \in [{first, last} -> Segment] /\ last \in {first, last}
    BY <1>1, OpenFacts
  <2> QED BY <1>1, <2>1, BadHandle
<1>5. hit \subseteq hit' /\ hit' \subseteq FaultKinds /\ "close" \in hit'
  BY <1>1, HitGrows DEF QueueInv, Rest
<1>6. Rest'
  BY <1>1, <1>2, <1>4, <1>5 DEF QueueInv, Rest
<1>7. MemorySound'
  <2>1. \A n \in DOMAIN disk' : n \in first..last \/ (n = last + 1 /\ disk'[n] = NewFile /\ Full(segs'[last]))
    BY <1>1, <1>3, <1>4
  <2>2. (first + 1)..last \subseteq DOMAIN disk'
    BY <1>1, <1>3 DEF QueueInv, MemorySound
  <2>3. \A n \in {first, last} :
          IF n \in DOMAIN disk' THEN segs'[n].objs = Live(disk'[n]) /\ segs'[n].removed = disk'[n].removed
                                ELSE n = first /\ segs'[n].objs = <<>> /\ segs'[n].removed >= ItemsPerSegment
    <3> SUFFICES ASSUME NEW n \in {first, last}
                 PROVE IF n \in DOMAIN disk' THEN segs'[n].objs = Live(disk'[n]) /\ segs'[n].removed = disk'[n].removed
                          ELSE n = first /\ segs'[n].objs = <<>> /\ segs'[n].removed >= ItemsPerSegment
      OBVIOUS
    <3>1. n # last + 1
      BY <1>2
    <3>2. n \in DOMAIN disk' <=> n \in DOMAIN disk
      BY <1>3, <3>1
    <3>3. IF n \in DOMAIN disk THEN Reflects(n) ELSE n = first /\ Retired(n)
      BY <1>1 DEF QueueInv, MemorySound
    <3> QED BY <1>3, <1>4, <3>2, <3>3 DEF Reflects, Retired
  <2>4. first \in DOMAIN disk' \/ hit' \cap {"create", "open"} # {}
    BY <1>1, <1>3, <1>5 DEF QueueInv, MemorySound
  <2> QED BY <1>1, <1>3, <1>5, <2>1, <2>2, <2>3, <2>4 DEF MemorySound, Reflects, Retired
<1>8. StepSound'
  <2>1. (Retired(first)' <=> Retired(first)) /\ (FirstIsEmpty' <=> FirstIsEmpty)
    BY <1>1, <1>4 DEF Retired, FirstIsEmpty
  <2> QED BY <1>1, <1>5, <2>1 DEF QueueInv, StepSound, Retiring
<1> QED BY <1>3, <1>6, <1>7, <1>8 DEF QueueInv

-----------------------------------------------------------------------------
\* A write to the last file, which is the newest one while there is room in it.
LEMMA LastWritten ==
  ASSUME QueueInv, status = "open", ~Full(segs[last]), NEW f, SoundFile(f),
         f.removed = disk[last].removed, disk' = [disk EXCEPT ![last] = f]
  PROVE  /\ last \in DOMAIN disk /\ SoundFile(disk[last]) /\ Len(disk[last].added) < ItemsPerSegment
         /\ DiskSound' /\ DOMAIN disk' = DOMAIN disk /\ disk'[last] = f
         /\ \A m \in DOMAIN disk : m # last => disk'[m] = disk[m]
         /\ \A n \in DOMAIN disk : n \in first..last
         /\ \A n \in DOMAIN disk' : n # first => disk'[n].removed = 0
<1>1. first \in Nat /\ last \in Nat /\ first <= last
  BY DEF QueueInv, Rest
<1>2. last \in DOMAIN disk /\ SoundFile(disk[last]) /\ Len(disk[last].added) # ItemsPerSegment
  BY OpenFacts
<1>3. Len(disk[last].added) < ItemsPerSegment
  <2>1. Len(disk[last].added) \in Nat /\ Len(disk[last].added) <= ItemsPerSegment
    BY <1>2 DEF SoundFile, File
  <2> QED BY <1>2, <2>1, DQueAssumption
<1>4. \A n \in DOMAIN disk : n \in first..last
  BY DEF QueueInv, MemorySound
<1>5. /\ DiskSound' /\ DOMAIN disk' = DOMAIN disk /\ disk'[last] = f
      /\ \A m \in DOMAIN disk : m # last => disk'[m] = disk[m]
  <2>1. \A m \in DOMAIN disk : ~(last < m)
    BY <1>1, <1>4
  <2>2. \A m \in DOMAIN disk : m < last => f.removed = 0
    BY <1>2 DEF QueueInv, DiskSound
  <2>3. DiskSound
    BY DEF QueueInv
  <2> QED BY <1>2, <2>1, <2>2, <2>3, DiskWritten
<1>6. \A n \in DOMAIN disk : n # first => disk[n].removed = 0
  BY DEF QueueInv, MemorySound
<1> QED BY <1>2, <1>3, <1>4, <1>5, <1>6

\* A prefix is no item: the segment in memory still reflects its file.
LEMMA AddLenKeepsInv == QueueInv /\ AddLen => QueueInv'
<1> SUFFICES ASSUME QueueInv, AddLen PROVE QueueInv'
  OBVIOUS
<1>1. /\ step = "len" /\ step' = "body" /\ disk' = [disk EXCEPT ![last] = Begun(disk[last])]
      /\ UNCHANGED <<status, segs, first, last, bytes, adding, waiting, hit, taken, used, crashes>>
  BY DEF AddLen, mem, hist
<1>2. status = "open" /\ last \in DOMAIN disk /\ ~Full(segs[last])
  BY <1>1 DEF QueueInv, Rest, StepSound
<1>3. /\ SoundFile(Begun(disk[last])) /\ Live(Begun(disk[last])) = Live(disk[last]) /\ Begun(disk[last]).torn > 0
      /\ Begun(disk[last]).removed = disk[last].removed
  BY <1>2, OpenFacts, FileBegun
<1>4. /\ DiskSound' /\ DOMAIN disk' = DOMAIN disk /\ disk'[last] = Begun(disk[last])
      /\ \A m \in DOMAIN disk : m # last => disk'[m] = disk[m]
      /\ \A n \in DOMAIN disk : n \in first..last
      /\ \A n \in DOMAIN disk' : n # first => disk'[n].removed = 0
  BY <1>1, <1>2, <1>3, LastWritten
<1>5. Rest'
  BY <1>1 DEF QueueInv, Rest
<1>6. MemorySound'
  <2>1. \A n \in {first, last} :
          IF n \in DOMAIN disk' THEN segs'[n].objs = Live(disk'[n]) /\ segs'[n].removed = disk'[n].removed
                                ELSE n = first /\ segs'[n].objs = <<>> /\ segs'[n].removed >= ItemsPerSegment
    BY <1>1, <1>2, <1>3, <1>4 DEF QueueInv, MemorySound, Reflects, Retired
  <2>2. /\ (first + 1)..last \subseteq DOMAIN disk' /\ (last + 1 \in DOMAIN disk' => "close" \in hit')
        /\ first \in DOMAIN disk' \/ hit' \cap {"create", "open"} # {}
    BY <1>1, <1>2, <1>4 DEF QueueInv, MemorySound
  <2> QED BY <1>1, <1>4, <2>1, <2>2 DEF MemorySound, Reflects, Retired
<1>7. StepSound'
  <2>1. (Retired(first)' <=> Retired(first)) /\ (FirstIsEmpty' <=> FirstIsEmpty)
    BY <1>1 DEF Retired, FirstIsEmpty
  <2> QED BY <1>1, <1>2, <1>3, <1>4, <2>1 DEF QueueInv, StepSound, Retiring
<1> QED BY <1>4, <1>5, <1>6, <1>7 DEF QueueInv

\* The item goes to the file and to the segment in memory, and wakes who waits.
LEMMA AddBodyKeepsInv == QueueInv /\ AddBody => QueueInv'
<1> SUFFICES ASSUME QueueInv, AddBody PROVE QueueInv'
  OBVIOUS
<1>1. PICK x \in adding : disk' = [disk EXCEPT ![last] = Ended(disk[last], x)]
                          /\ segs' = [segs EXCEPT ![last].objs = Append(@, x)]
  BY DEF AddBody
<1>2. /\ step = "body" /\ step' = "idle" /\ adding' = {} /\ waiting' = {}
      /\ Recount(FileBytes(disk[last]) - 1, FileBytes(disk'[last]))
      /\ UNCHANGED <<status, first, last, taken, used, crashes>>
  BY DEF AddBody, hist
<1>3. status = "open" /\ ~Full(segs[last]) /\ x \in Item /\ disk[last].torn > 0
  BY <1>2 DEF QueueInv, Rest, StepSound
<1>4. /\ last \in DOMAIN disk /\ SoundFile(disk[last]) /\ Reflects(last)
      /\ Len(disk[last].added) # ItemsPerSegment
  BY <1>3, OpenFacts
<1>5. Len(disk[last].added) < ItemsPerSegment
  <2>1. Len(disk[last].added) \in Nat /\ Len(disk[last].added) <= ItemsPerSegment
    BY <1>4 DEF SoundFile, File
  <2> QED BY <1>4, <2>1, DQueAssumption
<1>6. /\ SoundFile(Ended(disk[last], x)) /\ Live(Ended(disk[last], x)) = Append(Live(disk[last]), x)
      /\ Ended(disk[last], x).removed = disk[last].removed
  BY <1>3, <1>4, <1>5, FileEnded
<1>7. /\ DiskSound' /\ DOMAIN disk' = DOMAIN disk /\ disk'[last] = Ended(disk[last], x)
      /\ \A m \in DOMAIN disk : m # last => disk'[m] = disk[m]
      /\ \A n \in DOMAIN disk : n \in first..last
      /\ \A n \in DOMAIN disk' : n # first => disk'[n].removed = 0
  BY <1>1, <1>3, <1>6, LastWritten
<1>8. /\ segs' \in [{first, last} -> Segment] /\ segs'[last].objs = Append(segs[last].objs, x)
      /\ segs'[last].removed = segs[last].removed /\ \A m \in {first, last} : m # last => segs'[m] = segs[m]
  <2>1. segs \in [{first, last} -> Segment] /\ segs[last] \in Segment
    BY <1>3, OpenFacts
  <2>2. segs'[last] = [objs |-> Append(segs[last].objs, x), removed |-> segs[last].removed, good |-> segs[last].good]
    BY <1>1, <2>1 DEF Segment
  <2>3. segs'[last].objs = Append(segs[last].objs, x) /\ segs'[last].removed = segs[last].removed
    BY <2>2
  <2>4. segs'[last] \in Segment
    BY <1>3, <2>1, <2>2, AppendProperties DEF Segment
  <2> QED BY <1>1, <2>1, <2>3, <2>4
<1>12. bytes' \in Int /\ hit \subseteq hit' /\ hit' \subseteq FaultKinds
  <2>1. bytes \in Int /\ FileBytes(disk[last]) \in Int /\ FileBytes(disk'[last]) \in Int /\ hit \subseteq FaultKinds
    BY <1>4, <1>6, <1>7 DEF QueueInv, Rest, FileBytes, SoundFile, File
  <2>2. FileBytes(disk[last]) - 1 \in Int
    BY <2>1
  <2> QED BY <1>2, <2>1, <2>2, Recounted
<1>9. Rest'
  BY <1>2, <1>3, <1>8, <1>12 DEF QueueInv, Rest
<1>10. MemorySound'
  <2>1. \A n \in {first, last} :
          IF n \in DOMAIN disk' THEN segs'[n].objs = Live(disk'[n]) /\ segs'[n].removed = disk'[n].removed
                                ELSE n = first /\ segs'[n].objs = <<>> /\ segs'[n].removed >= ItemsPerSegment
    BY <1>3, <1>4, <1>6, <1>7, <1>8 DEF QueueInv, MemorySound, Reflects, Retired
  <2>2. /\ (first + 1)..last \subseteq DOMAIN disk' /\ (last + 1 \in DOMAIN disk' => "close" \in hit')
        /\ first \in DOMAIN disk' \/ hit' \cap {"create", "open"} # {}
    BY <1>2, <1>3, <1>7, <1>12 DEF QueueInv, MemorySound
  <2> QED BY <1>2, <1>7, <2>1, <2>2 DEF MemorySound, Reflects, Retired
<1>11. StepSound'
  <2>1. Append(segs[last].objs, x) # <<>>
    <3>1. segs[last].objs \in Seq(Item)
      BY <1>3, OpenFacts DEF Segment
    <3> QED BY <1>3, <3>1, AppendProperties
  <2>2. Retired(first)' => Retired(first)
    BY <1>2, <1>8, <2>1 DEF Retired
  <2>3. ~Retiring
    BY <1>2 DEF Retiring
  <2> QED BY <1>2, <1>12, <2>2, <2>3 DEF QueueInv, StepSound, Retiring
<1> QED BY <1>7, <1>9, <1>10, <1>11 DEF QueueInv

-----------------------------------------------------------------------------
\* What a removal finds: the first segment has a file with an item left in it.
LEMMA HeadFacts ==
  ASSUME QueueInv, status = "open", ~FirstIsEmpty
  PROVE  /\ first \in DOMAIN disk /\ SoundFile(disk[first]) /\ Reflects(first)
         /\ disk[first].removed < Len(disk[first].added)
         /\ segs \in [{first, last} -> Segment] /\ segs[first] \in Segment /\ segs[first].objs # <<>>
<1>1. first \in DOMAIN disk /\ SoundFile(disk[first]) /\ Reflects(first) /\ segs[first].objs # <<>>
  BY OpenFacts DEF FirstIsEmpty
<1>2. disk[first].removed # Len(disk[first].added)
  BY <1>1, OpenFacts
<1>3. disk[first].removed < Len(disk[first].added)
  BY <1>1, <1>2 DEF SoundFile, File
<1> QED BY <1>1, <1>3, OpenFacts

\* The effect of a removal on the first segment.
LEMMA HeadRemoved ==
  ASSUME QueueInv, RemoveHead
  PROVE  /\ segs' \in [{first, last} -> Segment] /\ segs'[first].objs = Tail(segs[first].objs)
         /\ segs'[first].removed = segs[first].removed + 1
         /\ \A m \in {first, last} : m # first => segs'[m] = segs[m]
         /\ SizeOnDisk(segs'[first]) = SizeOnDisk(segs[first])
         /\ segs[first].objs \in Seq(Item) /\ segs[first].objs # <<>>
         /\ segs[first].removed \in Nat
<1>1. /\ status = "open" /\ ~FirstIsEmpty
      /\ segs' = [segs EXCEPT ![first].objs = Tail(@), ![first].removed = @ + 1]
  BY DEF RemoveHead, Open0
<1>2. segs \in [{first, last} -> Segment] /\ segs[first] \in Segment /\ segs[first].objs # <<>>
  BY <1>1, HeadFacts
<1>3. segs'[first] = [objs |-> Tail(segs[first].objs), removed |-> segs[first].removed + 1, good |-> segs[first].good]
  BY <1>1, <1>2 DEF Segment
<1>4. segs'[first].objs = Tail(segs[first].objs) /\ segs'[first].removed = segs[first].removed + 1
  BY <1>3
<1>5. segs[first].objs \in Seq(Item) /\ segs[first].removed \in Nat /\ segs[first].good \in BOOLEAN
  BY <1>2 DEF Segment
<1>6. Tail(segs[first].objs) \in Seq(Item) /\ Len(Tail(segs[first].objs)) = Len(segs[first].objs) - 1
  BY <1>2, <1>5, HeadTailProperties
<1>7. segs'[first] \in Segment
  BY <1>3, <1>5, <1>6 DEF Segment
<1>8. SizeOnDisk(segs'[first]) = SizeOnDisk(segs[first])
  <2>1. Len(segs[first].objs) \in Nat
    BY <1>5
  <2> QED BY <1>4, <1>5, <1>6, <2>1 DEF SizeOnDisk
<1> QED BY <1>1, <1>2, <1>4, <1>5, <1>7, <1>8

\* The marker goes to the file of the first segment, which decides on its retirement.
LEMMA RemoveHeadKeepsInv == QueueInv /\ RemoveHead => QueueInv'
<1> SUFFICES ASSUME QueueInv, RemoveHead PROVE QueueInv'
  OBVIOUS
<1>1. /\ status = "open" /\ step = "idle" /\ ~FirstIsEmpty
      /\ disk' = [disk EXCEPT ![first] = Marked(disk[first])]
      /\ Recount(FileBytes(disk[first]), FileBytes(disk'[first]))
      /\ taken' = Append(taken, Head(segs[first].objs))
      /\ step' = IF segs'[first].objs = <<>> /\ Full(segs'[first]) THEN "unlink" ELSE "idle"
      /\ UNCHANGED <<status, first, last, adding, waiting, used, crashes>>
  BY DEF RemoveHead, Open0
<1>2. /\ first \in DOMAIN disk /\ SoundFile(disk[first]) /\ Reflects(first)
      /\ disk[first].removed < Len(disk[first].added)
  BY <1>1, HeadFacts
<1>3. /\ SoundFile(Marked(disk[first])) /\ Live(Marked(disk[first])) = Tail(Live(disk[first]))
      /\ Marked(disk[first]).added = disk[first].added
      /\ Marked(disk[first]).removed = disk[first].removed + 1
  BY <1>2, FileMarked
<1>4. first \in Nat /\ last \in Nat /\ first <= last
  BY <1>1 DEF QueueInv, Rest
<1>5. /\ DiskSound' /\ DOMAIN disk' = DOMAIN disk /\ disk'[first] = Marked(disk[first])
      /\ \A m \in DOMAIN disk : m # first => disk'[m] = disk[m]
  <2>1. \A m \in DOMAIN disk : first < m => Len(Marked(disk[first]).added) = ItemsPerSegment
    BY <1>2, <1>3 DEF QueueInv, DiskSound
  <2>2. \A m \in DOMAIN disk : ~(m < first)
    <3>1. \A m \in DOMAIN disk : m \in Nat /\ first <= m
      BY <1>1, OpenFacts
    <3> QED BY <1>4, <3>1
  <2>3. DiskSound
    BY DEF QueueInv
  <2> QED BY <1>1, <1>2, <1>3, <2>1, <2>2, <2>3, DiskWritten
<1>6. /\ segs' \in [{first, last} -> Segment] /\ segs'[first].objs = Tail(segs[first].objs)
      /\ segs'[first].removed = segs[first].removed + 1
      /\ \A m \in {first, last} : m # first => segs'[m] = segs[m]
      /\ SizeOnDisk(segs'[first]) = SizeOnDisk(segs[first])
      /\ segs[first].objs \in Seq(Item) /\ segs[first].objs # <<>> /\ segs[first].removed \in Nat
  BY HeadRemoved
<1>10. bytes' \in Int /\ hit \subseteq hit' /\ hit' \subseteq FaultKinds
  <2>1. bytes \in Int /\ FileBytes(disk[first]) \in Int /\ FileBytes(disk'[first]) \in Int /\ hit \subseteq FaultKinds
    BY <1>2, <1>3, <1>5 DEF QueueInv, Rest, FileBytes, SoundFile, File
  <2> QED BY <1>1, <2>1, Recounted
<1>7. Rest'
  <2>1. taken' \in Seq(Item)
    <3>1. Head(segs[first].objs) \in Item /\ taken \in Seq(Item)
      BY <1>6, HeadTailProperties DEF QueueInv, Rest
    <3> QED BY <1>1, <3>1, AppendProperties
  <2> QED BY <1>1, <1>6, <1>10, <2>1 DEF QueueInv, Rest
<1>8. MemorySound'
  <2>1. \A n \in {first, last} :
          IF n \in DOMAIN disk' THEN segs'[n].objs = Live(disk'[n]) /\ segs'[n].removed = disk'[n].removed
                                ELSE n = first /\ segs'[n].objs = <<>> /\ segs'[n].removed >= ItemsPerSegment
    BY <1>1, <1>2, <1>3, <1>5, <1>6 DEF QueueInv, MemorySound, Reflects, Retired
  <2>2. Full(segs'[last]) <=> Full(segs[last])
    BY <1>6 DEF Full
  <2>3. first # last + 1
    BY <1>4
  <2>4. \A n \in DOMAIN disk' : n \in first..last \/ (n = last + 1 /\ disk'[n] = NewFile /\ Full(segs'[last]))
    <3> SUFFICES ASSUME NEW n \in DOMAIN disk'
                 PROVE n \in first..last \/ (n = last + 1 /\ disk'[n] = NewFile /\ Full(segs'[last]))
      OBVIOUS
    <3>1. n \in first..last \/ (n = last + 1 /\ disk[n] = NewFile /\ Full(segs[last]))
      BY <1>1, <1>5 DEF QueueInv, MemorySound
    <3> QED BY <1>5, <2>2, <2>3, <3>1
  <2>5. /\ (first + 1)..last \subseteq DOMAIN disk' /\ (last + 1 \in DOMAIN disk' => "close" \in hit')
        /\ \A n \in DOMAIN disk' : n # first => disk'[n].removed = 0
    BY <1>1, <1>5, <1>10 DEF QueueInv, MemorySound
  <2> QED BY <1>1, <1>2, <1>5, <2>1, <2>4, <2>5 DEF MemorySound, Reflects, Retired
<1>9. StepSound'
  <2>1. waiting = {} /\ adding = {}
    BY <1>1 DEF QueueInv, StepSound
  <2>2. Retired(first)' <=> step' = "unlink"
    <3>1. segs'[first].removed \in Nat
      BY <1>6
    <3>2. segs'[first].objs = <<>> => (Full(segs'[first]) <=> segs'[first].removed >= ItemsPerSegment)
      <4>1. segs'[first].objs = <<>> => Len(segs'[first].objs) = 0
        BY EmptySeq
      <4> QED BY <3>1, <4>1 DEF Full, SizeOnDisk
    <3> QED BY <1>1, <3>2 DEF Retired
  <2>3. step' \in {"unlink", "idle"}
    BY <1>1
  <2> QED BY <1>1, <1>2, <1>5, <1>10, <2>1, <2>2, <2>3 DEF StepSound, Retiring
<1> QED BY <1>5, <1>7, <1>8, <1>9 DEF QueueInv

\* The oldest file goes when it is complete and every item in it was removed.
LEMMA UnlinkKeepsInv == QueueInv /\ Unlink => QueueInv'
<1> SUFFICES ASSUME QueueInv, Unlink PROVE QueueInv'
  OBVIOUS
<1>1. /\ step = "unlink" /\ step' = "advance" /\ disk' = Without(disk, {first})
      /\ (bytes' = bytes - FileBytes(disk[first]) /\ hit' = hit) \/ (bytes' = bytes /\ Fails("stat"))
      /\ segs' = [segs EXCEPT ![first].good = FALSE]
      /\ UNCHANGED <<status, first, last, adding, waiting, taken, used, crashes>>
  BY DEF Unlink, hist
<1>2. status = "open" /\ first \in DOMAIN disk /\ Retired(first) /\ adding = {} /\ waiting = {}
  BY <1>1 DEF QueueInv, Rest, StepSound, Retiring
<1>3. /\ segs' \in [{first, last} -> Segment]
      /\ \A m \in {first, last} : /\ segs'[m].objs = segs[m].objs /\ segs'[m].removed = segs[m].removed
                                  /\ Full(segs'[m]) <=> Full(segs[m])
  <2>1. segs \in [{first, last} -> Segment] /\ first \in {first, last}
    BY <1>2, OpenFacts
  <2> QED BY <1>1, <2>1, BadHandle
<1>4. first \in Nat /\ last \in Nat /\ first <= last
  BY <1>2 DEF QueueInv, Rest
<1>5. /\ DiskSound' /\ DOMAIN disk' = DOMAIN disk \ {first}
      /\ \A m \in DOMAIN disk' : disk'[m] = disk[m]
  <2>1. \A k \in {first}, m \in DOMAIN disk : m <= k => m \in {first}
    <3>1. \A m \in DOMAIN disk : m \in Nat /\ first <= m
      BY <1>2, OpenFacts
    <3> QED BY <1>4, <3>1
  <2>2. DiskSound
    BY DEF QueueInv
  <2> QED BY <1>1, <2>1, <2>2, DiskShrunk
<1>9. hit \subseteq hit' /\ hit' \subseteq FaultKinds
  BY <1>1, HitGrows DEF QueueInv, Rest
<1>6. Rest'
  <2>1. FileBytes(disk[first]) \in Nat
    BY <1>2, OpenFacts DEF FileBytes, SoundFile, File
  <2>2. bytes' \in Int
    BY <1>1, <2>1 DEF QueueInv, Rest
  <2> QED BY <1>1, <1>2, <1>3, <1>9, <2>2 DEF QueueInv, Rest
<1>7. MemorySound'
  <2>1. \A n \in {first, last} :
          IF n \in DOMAIN disk' THEN segs'[n].objs = Live(disk'[n]) /\ segs'[n].removed = disk'[n].removed
                                ELSE n = first /\ segs'[n].objs = <<>> /\ segs'[n].removed >= ItemsPerSegment
    BY <1>2, <1>3, <1>5 DEF QueueInv, MemorySound, Reflects, Retired
  <2>2. \A n \in DOMAIN disk' : n \in first..last \/ (n = last + 1 /\ disk'[n] = NewFile /\ Full(segs'[last]))
    BY <1>2, <1>3, <1>5 DEF QueueInv, MemorySound
  <2>3. (first + 1)..last \subseteq DOMAIN disk'
    <3>1. (first + 1)..last \subseteq DOMAIN disk
      BY <1>2 DEF QueueInv, MemorySound
    <3>2. first \notin (first + 1)..last
      BY <1>4
    <3> QED BY <1>5, <3>1, <3>2
  <2>4. /\ last + 1 \in DOMAIN disk' => "close" \in hit'
        /\ \A n \in DOMAIN disk' : n # first => disk'[n].removed = 0
    BY <1>1, <1>2, <1>5, <1>9 DEF QueueInv, MemorySound
  <2> QED BY <1>1, <2>1, <2>2, <2>3, <2>4 DEF MemorySound, Reflects, Retired
<1>8. StepSound'
  <2>1. Retired(first)'
    BY <1>1, <1>2, <1>3 DEF Retired
  <2> QED BY <1>1, <1>2, <1>5, <2>1 DEF StepSound, Retiring
<1> QED BY <1>5, <1>6, <1>7, <1>8 DEF QueueInv

-----------------------------------------------------------------------------
\* Where a retirement stands once the file is gone.
LEMMA AdvanceFacts ==
  ASSUME QueueInv, step = "advance"
  PROVE  /\ status = "open" /\ first \notin DOMAIN disk /\ Retired(first)
         /\ adding = {} /\ waiting = {} /\ first \in Nat /\ last \in Nat /\ first <= last
         /\ segs \in [{first, last} -> Segment]
         /\ \A n \in DOMAIN disk : n # first /\ disk[n].removed = 0 /\ SoundFile(disk[n])
<1>1. status = "open" /\ first \notin DOMAIN disk /\ Retired(first) /\ adding = {} /\ waiting = {}
  BY DEF QueueInv, Rest, StepSound, Retiring
<1>2. \A n \in DOMAIN disk : n # first /\ disk[n].removed = 0 /\ SoundFile(disk[n])
  BY <1>1 DEF QueueInv, MemorySound, DiskSound
<1> QED BY <1>1, <1>2 DEF QueueInv, Rest

\* The only segment is succeeded by an empty one.
LEMMA AdvanceToNewKeepsInv == QueueInv /\ AdvanceToNew => QueueInv'
<1> SUFFICES ASSUME QueueInv, AdvanceToNew PROVE QueueInv'
  OBVIOUS
<1>1. /\ step = "advance" /\ first = last /\ first + 1 \notin DOMAIN disk
      /\ disk' = With(disk, first + 1, NewFile) /\ segs' = With(Nothing, first + 1, Empty)
      /\ first' = first + 1 /\ last' = first + 1 /\ step' = "idle"
      /\ UNCHANGED <<status, bytes, adding, waiting, hit, taken, used, crashes>>
  BY DEF AdvanceToNew, hist
<1>2. /\ status = "open" /\ first \notin DOMAIN disk /\ adding = {} /\ waiting = {} /\ first \in Nat
  BY <1>1, AdvanceFacts
<1>3. DOMAIN disk = {}
  BY <1>1, <1>2, OpenFacts
<1>4. DiskSound' /\ DOMAIN disk' = {first + 1} /\ disk'[first + 1] = NewFile
  <2>1. first + 1 \in Nat /\ DiskSound /\ \A m \in DOMAIN disk : m < first + 1
    BY <1>2, <1>3 DEF QueueInv
  <2> QED BY <1>1, <1>3, <2>1, DiskGrown
<1>5. segs' = [m \in {first + 1} |-> Empty]
  BY <1>1 DEF With, Nothing
<1>6. segs' \in [{first', last'} -> Segment] /\ segs'[first'] = Empty
  BY <1>1, <1>5, FileNew
<1>7. Rest'
  BY <1>1, <1>2, <1>6 DEF QueueInv, Rest
<1>8. MemorySound'
  <2>1. first + 1 \in (first + 1)..(first + 1) /\ (first + 1 + 1)..(first + 1) = {} /\ first + 1 + 1 # first + 1
    BY <1>2
  <2> QED BY <1>1, <1>4, <1>6, <2>1, FileNew DEF MemorySound, Reflects
<1>9. StepSound'
  <2>1. ~Retired(first)'
    BY <1>6, FileNew, DQueAssumption DEF Retired
  <2> QED BY <1>1, <1>2, <2>1 DEF StepSound, Retiring
<1> QED BY <1>4, <1>7, <1>8, <1>9 DEF QueueInv

\* The last segment becomes the first one too.
LEMMA AdvanceToLastKeepsInv == QueueInv /\ AdvanceToLast => QueueInv'
<1> SUFFICES ASSUME QueueInv, AdvanceToLast PROVE QueueInv'
  OBVIOUS
<1>1. /\ step = "advance" /\ first + 1 = last /\ segs' = Only(segs, {last}) /\ first' = last /\ step' = "idle"
      /\ UNCHANGED <<disk, status, last, bytes, adding, waiting, hit, taken, used, crashes>>
  BY DEF AdvanceToLast, hist
<1>2. /\ status = "open" /\ first \notin DOMAIN disk /\ adding = {} /\ waiting = {}
      /\ first \in Nat /\ last \in Nat /\ first # last /\ segs \in [{first, last} -> Segment]
      /\ \A n \in DOMAIN disk : n # first /\ disk[n].removed = 0 /\ SoundFile(disk[n])
  BY <1>1, AdvanceFacts
<1>3. last \in DOMAIN disk /\ Reflects(last)
  BY <1>2, OpenFacts
<1>4. segs' \in [{first', last'} -> Segment] /\ segs'[last] = segs[last]
  <2>1. DOMAIN segs \cap {last} = {last} /\ {first', last'} = {last}
    BY <1>1, <1>2
  <2> QED BY <1>1, <1>2, <2>1 DEF Only
<1>5. DiskSound'
  BY <1>1 DEF QueueInv, DiskSound
<1>6. Rest'
  BY <1>1, <1>2, <1>4 DEF QueueInv, Rest
<1>7. MemorySound'
  <2>1. \A n \in DOMAIN disk : n \in last..last \/ (n = last + 1 /\ disk[n] = NewFile /\ Full(segs[last]))
    <3> SUFFICES ASSUME NEW n \in DOMAIN disk
                 PROVE n \in last..last \/ (n = last + 1 /\ disk[n] = NewFile /\ Full(segs[last]))
      OBVIOUS
    <3>1. n \in first..last \/ (n = last + 1 /\ disk[n] = NewFile /\ Full(segs[last]))
      BY <1>2 DEF QueueInv, MemorySound
    <3>2. n # first
      BY <1>2
    <3> QED BY <1>1, <1>2, <3>1, <3>2
  <2>2. (last + 1)..last = {}
    BY <1>2
  <2>3. last + 1 \in DOMAIN disk => "close" \in hit
    BY <1>2 DEF QueueInv, MemorySound
  <2> QED BY <1>1, <1>2, <1>3, <1>4, <2>1, <2>2, <2>3 DEF MemorySound, Reflects
<1>8. StepSound'
  <2>1. ~Retired(first)'
    BY <1>1, <1>2, <1>3, <1>4, DQueAssumption DEF Retired, Reflects
  <2> QED BY <1>1, <1>2, <2>1 DEF StepSound, Retiring
<1> QED BY <1>5, <1>6, <1>7, <1>8 DEF QueueInv

\* A segment between the two is loaded as its file has it.
LEMMA AdvanceToNextKeepsInv == QueueInv /\ AdvanceToNext => QueueInv'
<1> SUFFICES ASSUME QueueInv, AdvanceToNext PROVE QueueInv'
  OBVIOUS
<1>1. /\ step = "advance" /\ first + 1 < last /\ first + 1 \in DOMAIN disk
      /\ segs' = With(Only(segs, {last}), first + 1, LoadSegment(disk[first + 1]))
      /\ first' = first + 1 /\ step' = "idle"
      /\ UNCHANGED <<disk, status, last, bytes, adding, waiting, hit, taken, used, crashes>>
  BY DEF AdvanceToNext, hist
<1>2. /\ status = "open" /\ first \notin DOMAIN disk /\ adding = {} /\ waiting = {}
      /\ first \in Nat /\ last \in Nat /\ segs \in [{first, last} -> Segment]
      /\ \A n \in DOMAIN disk : n # first /\ disk[n].removed = 0 /\ SoundFile(disk[n])
  BY <1>1, AdvanceFacts
<1>3. last \in DOMAIN disk /\ Reflects(last) /\ first # last /\ first + 1 # last
  BY <1>1, <1>2, OpenFacts
<1>4. /\ LoadSegment(disk[first + 1]).objs = Live(disk[first + 1])
      /\ LoadSegment(disk[first + 1]).removed = disk[first + 1].removed
      /\ LoadSegment(disk[first + 1]) \in Segment
  <2>1. SoundFile(disk[first + 1])
    BY <1>1, <1>2
  <2>2. Live(disk[first + 1]) \in Seq(Item) /\ disk[first + 1].removed \in Nat
    BY <2>1, LiveItems DEF SoundFile, File
  <2> QED BY <2>2 DEF LoadSegment, Segment
<1>5. segs' \in [{first', last'} -> Segment] /\ segs'[last] = segs[last]
      /\ segs'[first + 1] = LoadSegment(disk[first + 1])
  <2>1. DOMAIN segs \cap {last} = {last} /\ segs[last] \in Segment
    BY <1>2
  <2>2. Only(segs, {last}) = [n \in {last} |-> segs[n]]
    BY <2>1 DEF Only
  <2>3. segs' = [m \in {last} \cup {first + 1} |->
                   IF m = first + 1 THEN LoadSegment(disk[first + 1]) ELSE Only(segs, {last})[m]]
    BY <1>1, <2>2 DEF With
  <2>4. {first', last'} = {last} \cup {first + 1}
    BY <1>1
  <2> QED BY <1>3, <1>4, <2>1, <2>2, <2>3, <2>4
<1>6. DiskSound'
  BY <1>1 DEF QueueInv, DiskSound
<1>7. Rest'
  BY <1>1, <1>2, <1>5 DEF QueueInv, Rest
<1>8. MemorySound'
  <2>1. \A n \in DOMAIN disk : n \in (first + 1)..last \/ (n = last + 1 /\ disk[n] = NewFile /\ Full(segs[last]))
    <3> SUFFICES ASSUME NEW n \in DOMAIN disk
                 PROVE n \in (first + 1)..last \/ (n = last + 1 /\ disk[n] = NewFile /\ Full(segs[last]))
      OBVIOUS
    <3>1. n \in first..last \/ (n = last + 1 /\ disk[n] = NewFile /\ Full(segs[last]))
      BY <1>2 DEF QueueInv, MemorySound
    <3>2. n # first
      BY <1>2
    <3> QED BY <1>2, <3>1, <3>2
  <2>2. (first + 1 + 1)..last \subseteq DOMAIN disk
    <3>1. (first + 1)..last \subseteq DOMAIN disk
      BY <1>2 DEF QueueInv, MemorySound
    <3>2. (first + 1 + 1)..last \subseteq (first + 1)..last
      BY <1>2
    <3> QED BY <3>1, <3>2
  <2>3. last + 1 \in DOMAIN disk => "close" \in hit
    BY <1>2 DEF QueueInv, MemorySound
  <2> QED BY <1>1, <1>2, <1>3, <1>4, <1>5, <2>1, <2>2, <2>3 DEF MemorySound, Reflects
<1>9. StepSound'
  <2>1. ~Retired(first)'
    BY <1>1, <1>2, <1>4, <1>5, DQueAssumption DEF Retired
  <2> QED BY <1>1, <1>2, <2>1 DEF StepSound, Retiring
<1> QED BY <1>6, <1>7, <1>8, <1>9 DEF QueueInv

-----------------------------------------------------------------------------
\* The queue starts sound.
LEMMA QueueInvInit == Init => QueueInv
<1> SUFFICES ASSUME Init PROVE QueueInv
  OBVIOUS
<1> USE DEF Init
<1>1. disk = [n \in {} |-> NewFile] /\ DOMAIN disk = {} /\ segs \in [{} -> Segment]
  BY DEF Nothing
<1>2. Rest
  BY <1>1, EmptySeq, DQueAssumption DEF Rest
<1>3. DiskSound
  BY <1>1, FS_EmptySet DEF DiskSound
<1> QED BY <1>2, <1>3 DEF QueueInv, MemorySound, StepSound, Retiring

\* And every step of it keeps it so.
LEMMA QueueInvKept == QueueInv /\ LoadSound /\ [Next]_vars => QueueInv'
<1> SUFFICES ASSUME QueueInv, LoadSound, [Next]_vars PROVE QueueInv'
  OBVIOUS
<1>1. CASE Open \/ Close \/ Crash
  BY <1>1, LoadBeginsKeepsInv, LoadSkipsKeepsInv, OpenNewKeepsInv, OpenExistingKeepsInv, LoadFailsKeepsInv,
     CloseKeepsInv, CrashKeepsInv DEF Open
<1>2. ASSUME NEW x \in Item, Enqueue(x) PROVE QueueInv'
  BY <1>2, EnqueueToRoomKeepsInv, EnqueueRolloverKeepsInv, EnqueueCreateFailsKeepsInv, EnqueueCloseFailsKeepsInv DEF Enqueue
<1>3. CASE Add
  BY <1>3, AddLenKeepsInv, AddLenFailsKeepsInv, AddBodyKeepsInv DEF Add
<1>4. CASE Dequeue
  BY <1>4, RemoveHeadKeepsInv, RemoveFailsKeepsInv, UnlinkKeepsInv, UnlinkFailsKeepsInv, AdvanceToNewKeepsInv,
     AdvanceToLastKeepsInv, AdvanceToNextKeepsInv, AdvanceFailsKeepsInv DEF Dequeue
<1>5. ASSUME NEW c \in Consumer, Park(c) PROVE QueueInv'
  BY <1>5, ParkKeepsInv
<1>6. CASE UNCHANGED vars
  BY <1>6 DEF vars, QueueInv, Rest, DiskSound, MemorySound, StepSound, Reflects, Retired, Retiring, FirstIsEmpty
<1> QED BY <1>1, <1>2, <1>3, <1>4, <1>5, <1>6 DEF Next

\* Over every failure and crash, whatever the number of items, segments and
\* consumers, the files stay without a gap and the two segments in memory
\* agree with theirs.
THEOREM QueueStaysSound == Spec => [](QueueInv /\ LoadSound)
<1>1. Init => LoadSound
  BY DEF Init, LoadSound
<1> QED BY <1>1, QueueInvInit, QueueInvKept, LoadSoundKept, PTL DEF Spec

-----------------------------------------------------------------------------
\* Every variable keeps its type, over every failure, crash and reopening.
THEOREM QueueTypes == Spec => []TypeOK
<1>1. QueueInv => TypeOK
  <2> SUFFICES ASSUME QueueInv PROVE TypeOK
    OBVIOUS
  <2>1. \A n \in DOMAIN disk : n \in Nat /\ disk[n] \in File
    BY DEF QueueInv, DiskSound, SoundFile
  <2>2. DOMAIN segs = IF status = "open" THEN {first, last} ELSE {}
    BY DEF QueueInv, Rest
  <2>3. \A n \in DOMAIN segs : segs[n] \in Segment
    BY DEF QueueInv, Rest
  <2> QED BY <2>1, <2>2, <2>3 DEF QueueInv, Rest, TypeOK
<1> QED BY <1>1, QueueStaysSound, PTL

\* A consumer asleep on emptyCond beside an object it could take: AddBody
\* broadcasts, and no other step gives the first segment an object while
\* somebody is parked.
THEOREM NobodySleepsBesideWork == Spec => []NoLostWakeup
<1>1. QueueInv => NoLostWakeup
  BY DEF QueueInv, StepSound, NoLostWakeup, Open0
<1> QED BY <1>1, QueueStaysSound, PTL

\* load fails on a torn file and on nothing else: what crashes and failed
\* calls leave behind has no gap and no marker without its item.
THEOREM OnlyTornFilesStopLoad == Spec => []OnlyTornFilesFail
<1>1. QueueInv /\ LoadSound => OnlyTornFilesFail
  <2> SUFFICES ASSUME QueueInv, LoadSound, ~TornFile, LoadBlocked PROVE FALSE
    BY DEF OnlyTornFilesFail
  <2>1. \A n \in DOMAIN disk : Loadable(n)
    BY DEF TornFile, QueueInv, DiskSound, SoundFile, File, Corrupt, Loadable
  <2>2. first \in DOMAIN disk /\ last \in DOMAIN disk
    BY DEF LoadBlocked, LoadSound
  <2> QED BY <2>1, <2>2 DEF LoadBlocked
<1> QED BY <1>1, QueueStaysSound, PTL

-----------------------------------------------------------------------------
(* Places in order: what Content is made of.                               *)

Place == Nat \X Nat
Before(q, p) == q[1] < p[1] \/ (q[1] = p[1] /\ q[2] < p[2])
Rank(p, P) == Cardinality(UpTo(p, P))

\* The place of p in P is one more than that of the place before it.
LEMMA RankGrows ==
  ASSUME NEW P, P \subseteq Place, IsFiniteSet(P), NEW p \in P, NEW q \in P, Before(q, p)
  PROVE  Rank(q, P) < Rank(p, P)
<1>1. IsFiniteSet(UpTo(p, P)) /\ IsFiniteSet(UpTo(q, P))
  BY FS_Subset DEF UpTo
<1>2. \A r \in P : r[1] \in Nat /\ r[2] \in Nat
  BY DEF Place
<1>3. UpTo(q, P) \in SUBSET UpTo(p, P)
  BY <1>2 DEF UpTo, Before
<1>4. p \in UpTo(p, P) /\ p \notin UpTo(q, P)
  BY <1>2 DEF UpTo, Before
<1>5. /\ Cardinality(UpTo(q, P)) <= Cardinality(UpTo(p, P))
      /\ Cardinality(UpTo(q, P)) # Cardinality(UpTo(p, P))
  BY <1>1, <1>3, <1>4, FS_Subset
<1>6. Cardinality(UpTo(q, P)) \in Nat /\ Cardinality(UpTo(p, P)) \in Nat
  BY <1>1, FS_CardinalityType
<1> QED BY <1>5, <1>6 DEF Rank

\* Places have the ranks 1 to Cardinality(P), each of them once.
LEMMA Ranks ==
  ASSUME NEW P, P \subseteq Place, IsFiniteSet(P)
  PROVE  /\ Cardinality(P) \in Nat
         /\ \A p \in P : Rank(p, P) \in 1 .. Cardinality(P)
         /\ \A p, q \in P : Rank(p, P) = Rank(q, P) => p = q
         /\ \A i \in 1 .. Cardinality(P) : \E p \in P : Rank(p, P) = i
<1>0. Cardinality(P) \in Nat
  BY FS_CardinalityType
<1>1. ASSUME NEW p \in P PROVE Rank(p, P) \in 1 .. Cardinality(P)
  <2>1. UpTo(p, P) \in SUBSET P /\ p \in UpTo(p, P)
    <3>1. p[1] \in Nat /\ p[2] \in Nat
      BY DEF Place
    <3> QED BY <3>1 DEF UpTo
  <2>2. IsFiniteSet(UpTo(p, P)) /\ Cardinality(UpTo(p, P)) <= Cardinality(P)
    BY <2>1, FS_Subset
  <2>3. Cardinality(UpTo(p, P)) \in Nat /\ Cardinality(UpTo(p, P)) # 0
    BY <2>1, <2>2, FS_CardinalityType, FS_EmptySet
  <2> QED BY <1>0, <2>2, <2>3 DEF Rank
<1>2. ASSUME NEW p \in P, NEW q \in P, p # q PROVE Rank(p, P) # Rank(q, P)
  <2>1. /\ p[1] \in Nat /\ p[2] \in Nat /\ q[1] \in Nat /\ q[2] \in Nat
        /\ p = <<p[1], p[2]>> /\ q = <<q[1], q[2]>>
    BY DEF Place
  <2>2. Before(p, q) \/ Before(q, p)
    BY <1>2, <2>1 DEF Before
  <2>3. Rank(p, P) \in Int /\ Rank(q, P) \in Int
    BY <1>1
  <2> QED BY <2>2, <2>3, RankGrows
<1>3. ASSUME NEW i \in 1 .. Cardinality(P) PROVE \E p \in P : Rank(p, P) = i
  <2> DEFINE f == [p \in P |-> Rank(p, P)]
  <2>1. f \in [P -> 1 .. Cardinality(P)]
    BY <1>1
  <2>2. f \in Injection(P, 1 .. Cardinality(P))
    <3>1. \A p, q \in P : f[p] = f[q] => p = q
      BY <1>2
    <3> HIDE DEF f
    <3> QED BY <2>1, <3>1 DEF Injection, IsInjective
  <2>3. IsFiniteSet(1 .. Cardinality(P)) /\ Cardinality(1 .. Cardinality(P)) = Cardinality(P)
    BY <1>0, FS_Interval
  <2>4. f \in Surjection(P, 1 .. Cardinality(P))
    <3> HIDE DEF f
    <3> QED BY <2>2, <2>3, FS_Injection
  <2>5. \E p \in P : f[p] = i
    <3> HIDE DEF f
    <3> QED BY <2>4 DEF Surjection
  <2> QED BY <2>5
<1> QED BY <1>0, <1>1, <1>2, <1>3

\* The values V has at the places of P, in the order of the places.
Listed(P, V) == [i \in 1 .. Cardinality(P) |-> V[CHOOSE p \in P : Rank(p, P) = i]]

\* The sequence has at each rank the value of the place with that rank.
LEMMA ListedAt ==
  ASSUME NEW P, P \subseteq Place, IsFiniteSet(P), NEW V, \A p \in P : V[p] \in Item
  PROVE  /\ Listed(P, V) \in Seq(Item) /\ Len(Listed(P, V)) = Cardinality(P)
         /\ \A p \in P : Listed(P, V)[Rank(p, P)] = V[p]
<1>1. /\ Cardinality(P) \in Nat
      /\ \A p \in P : Rank(p, P) \in 1 .. Cardinality(P)
      /\ \A p, q \in P : Rank(p, P) = Rank(q, P) => p = q
      /\ \A i \in 1 .. Cardinality(P) : \E p \in P : Rank(p, P) = i
  BY Ranks
<1>2. \A i \in 1 .. Cardinality(P) :
        /\ (CHOOSE p \in P : Rank(p, P) = i) \in P
        /\ Rank((CHOOSE p \in P : Rank(p, P) = i), P) = i
  BY <1>1
<1>3. Listed(P, V) \in [1 .. Cardinality(P) -> Item]
  BY <1>2 DEF Listed
<1>4. Listed(P, V) \in Seq(Item) /\ Len(Listed(P, V)) = Cardinality(P)
  BY <1>1, <1>3
<1>5. ASSUME NEW p \in P PROVE Listed(P, V)[Rank(p, P)] = V[p]
  <2>1. Rank(p, P) \in 1 .. Cardinality(P)
    BY <1>1
  <2>2. (CHOOSE q \in P : Rank(q, P) = Rank(p, P)) = p
    BY <1>1, <1>2, <2>1
  <2> QED BY <2>1, <2>2 DEF Listed
<1> QED BY <1>4, <1>5

\* A place behind all the others comes last.
LEMMA ListedGrows ==
  ASSUME NEW P, P \subseteq Place, IsFiniteSet(P), NEW g \in Place, \A p \in P : Before(p, g),
         NEW V, NEW W, W[g] \in Item, \A p \in P : V[p] \in Item /\ W[p] = V[p],
         NEW Q, Q = P \cup {g}
  PROVE  Listed(Q, W) = Append(Listed(P, V), W[g])
<1> DEFINE k == Cardinality(P)
<1>1. /\ Q \subseteq Place /\ IsFiniteSet(Q) /\ g \notin P /\ Cardinality(Q) = k + 1 /\ k \in Nat
  <2>1. g \notin P
    BY DEF Before, Place
  <2> QED BY <2>1, FS_AddElement, FS_CardinalityType
<1>2. \A p \in P : Rank(p, Q) = Rank(p, P)
  <2>1. \A p \in P : UpTo(p, Q) = UpTo(p, P)
    <3> SUFFICES ASSUME NEW p \in P PROVE g \notin UpTo(p, Q)
      BY DEF UpTo
    <3>1. p[1] \in Nat /\ p[2] \in Nat /\ g[1] \in Nat /\ g[2] \in Nat
      BY DEF Place
    <3>2. Before(p, g)
      OBVIOUS
    <3> QED BY <3>1, <3>2 DEF UpTo, Before
  <2> QED BY <2>1 DEF Rank
<1>3. Rank(g, Q) = k + 1
  <2>1. UpTo(g, Q) = Q
    <3>1. g[1] \in Nat /\ g[2] \in Nat /\ \A p \in P : p[1] \in Nat /\ p[2] \in Nat /\ Before(p, g)
      BY DEF Place
    <3> QED BY <3>1 DEF UpTo, Before
  <2> QED BY <1>1, <2>1 DEF Rank
<1>4. /\ Listed(P, V) \in Seq(Item) /\ Len(Listed(P, V)) = k
      /\ \A p \in P : Listed(P, V)[Rank(p, P)] = V[p]
  BY ListedAt
<1>5. /\ Listed(Q, W) \in Seq(Item) /\ Len(Listed(Q, W)) = k + 1
      /\ \A p \in Q : Listed(Q, W)[Rank(p, Q)] = W[p]
  <2>1. \A p \in Q : W[p] \in Item
    OBVIOUS
  <2> QED BY ZenonT(30), <1>1, <2>1, ListedAt
<1>6. /\ Append(Listed(P, V), W[g]) \in Seq(Item) /\ Len(Append(Listed(P, V), W[g])) = k + 1
      /\ \A i \in 1 .. k : Append(Listed(P, V), W[g])[i] = Listed(P, V)[i]
      /\ Append(Listed(P, V), W[g])[k + 1] = W[g]
  <2> HIDE DEF k
  <2> QED BY <1>4, AppendProperties
<1>7. ASSUME NEW i \in 1 .. k + 1 PROVE Listed(Q, W)[i] = Append(Listed(P, V), W[g])[i]
  <2>1. CASE i = k + 1
    BY <1>3, <1>5, <1>6, <2>1
  <2>2. CASE i \in 1 .. k
    <3>1. PICK p \in P : Rank(p, P) = i
      BY <2>2, Ranks
    <3>2. Listed(Q, W)[i] = W[p] /\ Listed(P, V)[i] = V[p]
      BY <1>2, <1>4, <1>5, <3>1
    <3> QED BY <1>6, <2>2, <3>2
  <2>3. i = k + 1 \/ i \in 1 .. k
    BY <1>1
  <2> QED BY <2>1, <2>2, <2>3
<1> HIDE DEF k
<1> QED BY <1>5, <1>6, <1>7, SeqEqual

\* The place before all the others comes first.
LEMMA ListedShrinks ==
  ASSUME NEW P, P \subseteq Place, IsFiniteSet(P), NEW l \in P, \A p \in P \ {l} : Before(l, p),
         NEW V, NEW W, \A p \in P : V[p] \in Item, \A p \in P \ {l} : W[p] = V[p],
         NEW Q, \A p : p \in Q <=> p \in P \ {l}
  PROVE  /\ Listed(P, V) # <<>> /\ Head(Listed(P, V)) = V[l]
         /\ Listed(Q, W) = Tail(Listed(P, V))
<1>0. PICK k : k = Cardinality(Q)
  OBVIOUS
<1>1. /\ Q \subseteq Place /\ IsFiniteSet(Q) /\ Cardinality(P) = k + 1 /\ k \in Nat
  <2>0. Q = P \ {l}
    OBVIOUS
  <2>1. IsFiniteSet(Q) /\ Cardinality(Q) = Cardinality(P) - 1
    BY <2>0, FS_RemoveElement
  <2>2. Cardinality(P) \in Nat /\ Cardinality(Q) \in Nat
    BY <2>1, FS_CardinalityType
  <2> QED BY <1>0, <2>1, <2>2
<1>2. Rank(l, P) = 1
  <2>1. UpTo(l, P) = {l}
    <3>1. l[1] \in Nat /\ l[2] \in Nat /\ \A p \in P : p[1] \in Nat /\ p[2] \in Nat
      BY DEF Place
    <3>2. \A p \in P \ {l} : Before(l, p)
      OBVIOUS
    <3> QED BY <3>1, <3>2 DEF UpTo, Before
  <2> QED BY <2>1, FS_Singleton DEF Rank
<1>3. ASSUME NEW p \in Q PROVE Rank(p, P) = Rank(p, Q) + 1
  <2>1. /\ l \in UpTo(p, P) /\ UpTo(p, Q) = UpTo(p, P) \ {l}
    <3>1. p[1] \in Nat /\ p[2] \in Nat /\ l[1] \in Nat /\ l[2] \in Nat /\ Before(l, p)
      BY DEF Place
    <3> QED BY <3>1 DEF UpTo, Before
  <2>2. IsFiniteSet(UpTo(p, P))
    BY FS_Subset DEF UpTo
  <2>3. Cardinality(UpTo(p, Q)) = Cardinality(UpTo(p, P)) - 1
    BY <2>1, <2>2, FS_RemoveElement
  <2>4. Cardinality(UpTo(p, P)) \in Nat
    BY <2>2, FS_CardinalityType
  <2> QED BY <2>3, <2>4 DEF Rank
<1>4. /\ Listed(P, V) \in Seq(Item) /\ Len(Listed(P, V)) = k + 1
      /\ \A p \in P : Listed(P, V)[Rank(p, P)] = V[p]
  BY <1>1, ListedAt
<1>5. /\ Listed(Q, W) \in Seq(Item) /\ Len(Listed(Q, W)) = k
      /\ \A p \in Q : Listed(Q, W)[Rank(p, Q)] = W[p]
  <2>1. \A p \in Q : W[p] \in Item
    OBVIOUS
  <2>2. Q \subseteq Place /\ IsFiniteSet(Q)
    BY <1>1
  <2>3. /\ Listed(Q, W) \in Seq(Item) /\ Len(Listed(Q, W)) = Cardinality(Q)
        /\ \A p \in Q : Listed(Q, W)[Rank(p, Q)] = W[p]
    BY <2>1, <2>2, ListedAt
  <2> QED BY <1>0, <2>3
<1>6. /\ Listed(P, V) # <<>> /\ Head(Listed(P, V)) = V[l]
      /\ Tail(Listed(P, V)) \in Seq(Item) /\ Len(Tail(Listed(P, V))) = k
      /\ \A i \in 1 .. k : Tail(Listed(P, V))[i] = Listed(P, V)[i + 1]
  <2>1. Listed(P, V) # <<>>
    BY <1>1, <1>4, EmptySeq
  <2>2. /\ Head(Listed(P, V)) = Listed(P, V)[1] /\ Tail(Listed(P, V)) \in Seq(Item)
        /\ Len(Tail(Listed(P, V))) = Len(Listed(P, V)) - 1
        /\ \A i \in 1 .. Len(Tail(Listed(P, V))) : Tail(Listed(P, V))[i] = Listed(P, V)[i + 1]
    BY <1>4, <2>1, HeadTailProperties
  <2> QED BY <1>1, <1>2, <1>4, <2>1, <2>2
<1>7. ASSUME NEW i \in 1 .. k PROVE Listed(Q, W)[i] = Tail(Listed(P, V))[i]
  <2>1. PICK p \in Q : Rank(p, Q) = i
    <3> QED BY <1>0, <1>1, Ranks
  <2>2. Rank(p, P) = i + 1
    BY <1>3, <2>1
  <2>3. Listed(Q, W)[i] = W[p] /\ Listed(P, V)[i + 1] = V[p] /\ W[p] = V[p]
    BY <1>4, <1>5, <2>1, <2>2
  <2> QED BY <1>6, <2>3
<1>8. Listed(Q, W) = Tail(Listed(P, V))
  BY <1>5, <1>6, <1>7, SeqEqual
<1> QED BY <1>6, <1>8

-----------------------------------------------------------------------------
(* The contents of a directory.                                            *)

Sound(d) == IsFiniteSet(DOMAIN d) /\ \A n \in DOMAIN d : n \in Nat /\ SoundFile(d[n])
Values(d) == [p \in Held(d) |-> d[p[1]].added[p[2]]]

\* Places that hold an item: finite in number, each with its item.
LEMMA HeldFacts ==
  ASSUME NEW d, Sound(d)
  PROVE  /\ Held(d) \subseteq Place /\ IsFiniteSet(Held(d)) /\ Cardinality(Held(d)) \in Nat
         /\ \A p \in Held(d) : /\ p = <<p[1], p[2]>> /\ p[1] \in DOMAIN d
                               /\ p[2] \in d[p[1]].removed + 1 .. Len(d[p[1]].added)
                               /\ p[2] \in Nat /\ Values(d)[p] \in Item
         /\ \A n \in DOMAIN d : \A i \in d[n].removed + 1 .. Len(d[n].added) : <<n, i>> \in Held(d)
         /\ Contents(d) = Listed(Held(d), Values(d))
<1> DEFINE F == [n \in DOMAIN d |-> d[n].removed + 1 .. Len(d[n].added)]
<1>1. \A n \in DOMAIN d : /\ n \in Nat /\ d[n].added \in Seq(Item) /\ d[n].removed \in Nat
                          /\ Len(d[n].added) \in Nat
  BY DEF Sound, SoundFile, File
<1>2. Held(d) = UNION {{n} \X F[n] : n \in DOMAIN d}
  BY DEF Held
<1>3. IsFiniteSet(Held(d))
  <2>1. ASSUME NEW n \in DOMAIN d PROVE IsFiniteSet(F[n])
    <3>1. d[n].removed + 1 \in Int /\ Len(d[n].added) \in Int
      BY <1>1
    <3>2. IsFiniteSet(d[n].removed + 1 .. Len(d[n].added))
      BY <3>1, FS_Interval
    <3> QED BY <3>2
  <2> HIDE DEF F
  <2> QED BY <1>2, <2>1, PlacesFinite DEF Sound
<1>4. ASSUME NEW p \in Held(d)
      PROVE  /\ p = <<p[1], p[2]>> /\ p[1] \in DOMAIN d
             /\ p[2] \in d[p[1]].removed + 1 .. Len(d[p[1]].added)
             /\ p[2] \in Nat /\ Values(d)[p] \in Item
  <2>1. PICK n \in DOMAIN d : p \in {n} \X (d[n].removed + 1 .. Len(d[n].added))
    BY DEF Held
  <2>2. p = <<p[1], p[2]>> /\ p[1] = n /\ p[2] \in d[n].removed + 1 .. Len(d[n].added)
    BY <2>1
  <2>3. p[2] \in Nat /\ p[2] \in 1 .. Len(d[n].added)
    BY <1>1, <2>2
  <2>4. d[n].added[p[2]] \in Item
    BY <1>1, <2>3, ElementOfSeq
  <2>5. Values(d)[p] = d[n].added[p[2]]
    BY <2>2 DEF Values
  <2> QED BY <2>2, <2>3, <2>4, <2>5
<1>5. Held(d) \subseteq Place
  BY <1>1, <1>4 DEF Place
<1>6. \A n \in DOMAIN d : \A i \in d[n].removed + 1 .. Len(d[n].added) : <<n, i>> \in Held(d)
  BY DEF Held
<1>7. Contents(d) = Listed(Held(d), Values(d))
  <2>1. \A i \in 1 .. Cardinality(Held(d)) :
          (CHOOSE p \in Held(d) : Cardinality(UpTo(p, Held(d))) = i) \in Held(d)
    BY <1>3, <1>5, Ranks DEF Rank
  <2> QED BY <2>1 DEF Contents, Listed, Values, Rank
<1>8. Cardinality(Held(d)) \in Nat
  BY <1>3, FS_CardinalityType
<1> QED BY <1>3, <1>4, <1>5, <1>6, <1>7, <1>8

\* Files without an item left in them do not count, and the others keep theirs.
Emptied(f) == f.removed = Len(f.added)
SameItems(d, e) ==
    /\ \A n \in DOMAIN d \cap DOMAIN e :
         (e[n].added = d[n].added /\ e[n].removed = d[n].removed) \/ (Emptied(d[n]) /\ Emptied(e[n]))
    /\ \A n \in DOMAIN d \ DOMAIN e : Emptied(d[n])
    /\ \A n \in DOMAIN e \ DOMAIN d : Emptied(e[n])

\* A place that holds an item in one directory does so in the other.
LEMMA HeldInBoth ==
  ASSUME NEW d, NEW e, Sound(d), Sound(e), SameItems(d, e), NEW p \in Held(d)
  PROVE  p \in Held(e) /\ Values(e)[p] = Values(d)[p]
<1>1. /\ p = <<p[1], p[2]>> /\ p[1] \in DOMAIN d /\ p[2] \in d[p[1]].removed + 1 .. Len(d[p[1]].added)
  BY HeldFacts
<1>2. ~Emptied(d[p[1]])
  <2>1. d[p[1]].removed \in Nat /\ Len(d[p[1]].added) \in Nat
    BY <1>1 DEF Sound, SoundFile, File
  <2> QED BY <1>1, <2>1 DEF Emptied
<1>3. p[1] \in DOMAIN e /\ e[p[1]].added = d[p[1]].added /\ e[p[1]].removed = d[p[1]].removed
  BY <1>1, <1>2 DEF SameItems
<1>4. p \in Held(e)
  BY <1>1, <1>3, HeldFacts
<1> QED BY <1>3, <1>4 DEF Values

\* Such directories hold the same items in the same order.
LEMMA ContentsSame ==
  ASSUME NEW d, NEW e, Sound(d), Sound(e), SameItems(d, e)
  PROVE  Contents(e) = Contents(d)
<1>1. SameItems(e, d)
  BY DEF SameItems
<1>2. Held(e) = Held(d)
  BY <1>1, HeldInBoth
<1>3. Values(e) = Values(d)
  <2>1. \A p \in Held(d) : Values(e)[p] = Values(d)[p]
    BY HeldInBoth
  <2> QED BY <1>2, <2>1 DEF Values
<1> QED BY <1>2, <1>3, HeldFacts

\* An item added to the newest file that holds any comes last.
LEMMA ContentsGrow ==
  ASSUME NEW d, NEW e, Sound(d), Sound(e), DOMAIN e = DOMAIN d, NEW n \in DOMAIN d, NEW x \in Item,
         \A m \in DOMAIN d : m <= n,
         e[n].added = Append(d[n].added, x), e[n].removed = d[n].removed,
         \A m \in DOMAIN d : m # n => e[m].added = d[m].added /\ e[m].removed = d[m].removed
  PROVE  Contents(e) = Append(Contents(d), x)
<1> DEFINE g == <<n, Len(d[n].added) + 1>>
<1>1. /\ d[n].added \in Seq(Item) /\ Len(d[n].added) \in Nat /\ d[n].removed \in Nat
      /\ d[n].removed <= Len(d[n].added) /\ n \in Nat
  BY DEF Sound, SoundFile, File
<1>2. /\ Len(e[n].added) = Len(d[n].added) + 1 /\ e[n].added[Len(d[n].added) + 1] = x
      /\ \A i \in 1 .. Len(d[n].added) : e[n].added[i] = d[n].added[i]
  BY <1>1, AppendProperties
<1>3. g \in Held(e) /\ Values(e)[g] = x /\ g \in Place
  <2>1. Len(d[n].added) + 1 \in e[n].removed + 1 .. Len(e[n].added)
    BY <1>1, <1>2
  <2>2. g \in Held(e)
    BY <2>1, HeldFacts
  <2> QED BY <1>1, <1>2, <2>2 DEF Values, Place
<1>4. ASSUME NEW p \in Held(d) PROVE p \in Held(e) /\ Values(e)[p] = Values(d)[p] /\ Before(p, g)
  <2>1. /\ p = <<p[1], p[2]>> /\ p[1] \in DOMAIN d /\ p[2] \in d[p[1]].removed + 1 .. Len(d[p[1]].added)
        /\ p[2] \in Nat /\ p[1] \in Nat
    BY HeldFacts DEF Sound
  <2>2. CASE p[1] = n
    <3>1. /\ p[2] \in e[n].removed + 1 .. Len(e[n].added) /\ p[2] \in 1 .. Len(d[n].added)
          /\ p[2] < Len(d[n].added) + 1
      BY <1>1, <1>2, <2>1, <2>2
    <3>2. p \in Held(e) /\ e[n].added[p[2]] = d[n].added[p[2]]
      BY <1>2, <2>1, <2>2, <3>1, HeldFacts
    <3> QED BY <2>2, <3>1, <3>2 DEF Values, Before
  <2>3. CASE p[1] # n
    <3>1. p \in Held(e) /\ e[p[1]].added = d[p[1]].added
      BY <2>1, <2>3, HeldFacts
    <3>2. p[1] < n
      BY <1>1, <2>1, <2>3
    <3> QED BY <3>1, <3>2 DEF Values, Before
  <2> QED BY <2>2, <2>3
<1>5. ASSUME NEW p \in Held(e), p # g PROVE p \in Held(d)
  <2>1. /\ p = <<p[1], p[2]>> /\ p[1] \in DOMAIN d /\ p[2] \in e[p[1]].removed + 1 .. Len(e[p[1]].added)
    BY HeldFacts
  <2>2. CASE p[1] = n
    <3>1. p[2] # Len(d[n].added) + 1
      BY <1>5, <2>1, <2>2
    <3>2. p[2] \in d[n].removed + 1 .. Len(d[n].added)
      BY <1>1, <1>2, <2>1, <2>2, <3>1
    <3> QED BY <2>1, <2>2, <3>2, HeldFacts
  <2>3. CASE p[1] # n
    BY <2>1, <2>3, HeldFacts
  <2> QED BY <2>2, <2>3
<1> HIDE DEF g
<1>6. Held(e) = Held(d) \cup {g}
  BY <1>3, <1>4, <1>5
<1>7. Listed(Held(e), Values(e)) = Append(Listed(Held(d), Values(d)), Values(e)[g])
  <2>1. Held(d) \subseteq Place /\ IsFiniteSet(Held(d)) /\ \A p \in Held(d) : Values(d)[p] \in Item
    BY HeldFacts
  <2>2. Values(e)[g] \in Item /\ g \in Place
    BY <1>3
  <2>3. \A p \in Held(d) : Before(p, g)
    BY <1>4
  <2>4. \A p \in Held(d) : Values(d)[p] \in Item /\ Values(e)[p] = Values(d)[p]
    BY <1>4, <2>1
  <2> QED BY <2>1, <2>2, <2>3, <2>4, <1>6, ListedGrows
<1> QED BY <1>3, <1>7, HeldFacts

\* The item removed from the oldest file that holds any comes first.
LEMMA ContentsShrink ==
  ASSUME NEW d, NEW e, Sound(d), Sound(e), DOMAIN e = DOMAIN d, NEW n \in DOMAIN d,
         \A m \in DOMAIN d : n <= m, d[n].removed < Len(d[n].added),
         e[n].added = d[n].added, e[n].removed = d[n].removed + 1,
         \A m \in DOMAIN d : m # n => e[m].added = d[m].added /\ e[m].removed = d[m].removed
  PROVE  /\ Contents(d) # <<>> /\ Head(Contents(d)) = d[n].added[d[n].removed + 1]
         /\ Contents(e) = Tail(Contents(d))
<1> DEFINE l == <<n, d[n].removed + 1>>
<1>1. /\ Len(d[n].added) \in Nat /\ d[n].removed \in Nat /\ n \in Nat
  BY DEF Sound, SoundFile, File
<1>2. l \in Held(d) /\ Values(d)[l] = d[n].added[d[n].removed + 1]
  <2>1. d[n].removed + 1 \in d[n].removed + 1 .. Len(d[n].added)
    BY <1>1
  <2>2. l \in Held(d)
    BY <2>1, HeldFacts
  <2> QED BY <2>2 DEF Values
<1>3. ASSUME NEW p \in Held(d), p # l PROVE p \in Held(e) /\ Values(e)[p] = Values(d)[p] /\ Before(l, p)
  <2>1. /\ p = <<p[1], p[2]>> /\ p[1] \in DOMAIN d /\ p[2] \in d[p[1]].removed + 1 .. Len(d[p[1]].added)
        /\ p[2] \in Nat /\ p[1] \in Nat
    BY HeldFacts DEF Sound
  <2>2. CASE p[1] = n
    <3>1. p[2] # d[n].removed + 1
      BY <1>3, <2>1, <2>2
    <3>2. p[2] \in e[n].removed + 1 .. Len(e[n].added) /\ d[n].removed + 1 < p[2]
      BY <1>1, <2>1, <2>2, <3>1
    <3>3. p \in Held(e)
      BY <2>1, <2>2, <3>2, HeldFacts
    <3> QED BY <2>2, <3>2, <3>3 DEF Values, Before
  <2>3. CASE p[1] # n
    <3>1. p \in Held(e) /\ e[p[1]].added = d[p[1]].added
      BY <2>1, <2>3, HeldFacts
    <3>2. n < p[1]
      BY <1>1, <2>1, <2>3
    <3> QED BY <3>1, <3>2 DEF Values, Before
  <2> QED BY <2>2, <2>3
<1>4. ASSUME NEW p \in Held(e) PROVE p \in Held(d) /\ p # l
  <2>1. /\ p = <<p[1], p[2]>> /\ p[1] \in DOMAIN d /\ p[2] \in e[p[1]].removed + 1 .. Len(e[p[1]].added)
    BY HeldFacts
  <2>2. CASE p[1] = n
    <3>1. p[2] \in d[n].removed + 1 .. Len(d[n].added) /\ p[2] # d[n].removed + 1
      BY <1>1, <2>1, <2>2
    <3> QED BY <2>1, <2>2, <3>1, HeldFacts
  <2>3. CASE p[1] # n
    BY <2>1, <2>3, HeldFacts
  <2> QED BY <2>2, <2>3
<1> HIDE DEF l
<1>5. Held(e) = Held(d) \ {l}
  BY <1>3, <1>4
<1>6. /\ Listed(Held(d), Values(d)) # <<>> /\ Head(Listed(Held(d), Values(d))) = Values(d)[l]
      /\ Listed(Held(e), Values(e)) = Tail(Listed(Held(d), Values(d)))
  <2>1. Held(d) \subseteq Place /\ IsFiniteSet(Held(d)) /\ \A p \in Held(d) : Values(d)[p] \in Item
    BY HeldFacts
  <2>2. \A p \in Held(d) \ {l} : Before(l, p)
    BY <1>3
  <2>3. \A p \in Held(d) \ {l} : Values(e)[p] = Values(d)[p]
    BY <1>3
  <2> QED BY <1>2, <2>1, <2>2, <2>3, <1>5, ListedShrinks
<1> QED BY <1>2, <1>6, HeldFacts

-----------------------------------------------------------------------------
(* The queue is first in, first out.                                       *)

\* The files are sound whether the invariant is read before or after a step.
LEMMA SoundDisk == (DiskSound => Sound(disk)) /\ (DiskSound' => Sound(disk'))
BY DEF DiskSound, Sound

\* Opening, rolling over, writing a prefix and unlinking move no item.
LEMMA NothingMoves ==
  ASSUME QueueInv, LoadSound, [Next]_vars, ~AddBody, ~RemoveHead
  PROVE  SameItems(disk, disk') /\ taken' = taken
<1>1. \A n \in DOMAIN disk : SoundFile(disk[n])
  BY DEF QueueInv, DiskSound
<1>2. CASE disk' = disk
  BY <1>2 DEF SameItems, Next, vars, Close, Crash, Open, LoadBegins, LoadSkips, OpenNew, OpenExisting, OpenUnseeded,
      Loads, LoadFails, Enqueue, EnqueueToRoom,
      EnqueueRollover, EnqueueCreateFails, EnqueueCloseFails, Add, AddLen, AddLenFails, AddBodyFails, Dequeue,
      RemoveFails, Unlink, UnlinkFails, AdvanceToNew, AdvanceToLast, AdvanceToNext, AdvanceFails, Park, hist
<1>3. CASE OpenNew
  <2>1. disk' = With(disk, 1, NewFile) /\ taken' = taken /\ status = "loading" /\ first > last
    BY <1>3 DEF OpenNew, hist
  <2>2. DOMAIN disk = {}
    <3>1. first \in Nat /\ last \in Nat /\ \A n \in DOMAIN disk : n \in Nat /\ first <= n /\ n <= last
      BY <2>1 DEF QueueInv, Rest, DiskSound, LoadSound
    <3> QED BY <2>1, <3>1
  <2>3. DOMAIN disk' = {1} /\ disk'[1] = NewFile
    BY <2>1, <2>2 DEF With
  <2> QED BY <2>1, <2>2, <2>3, FileNew DEF SameItems, Emptied
<1>4. CASE LoadSkips
  <2>1. disk' = Without(disk, {first}) /\ taken' = taken /\ Emptied(disk[first])
    BY <1>4 DEF LoadSkips, Skippable, Emptied, hist
  <2> QED BY <2>1 DEF Without, SameItems
<1>5. ASSUME NEW n, n \notin DOMAIN disk, disk' = With(disk, n, NewFile) PROVE SameItems(disk, disk')
  <2>1. DOMAIN disk' = DOMAIN disk \cup {n} /\ disk'[n] = NewFile /\ \A m \in DOMAIN disk : disk'[m] = disk[m]
    BY <1>5 DEF With
  <2> QED BY <2>1, FileNew DEF SameItems, Emptied
<1>6. ASSUME NEW x \in Item, EnqueueRollover(x) \/ EnqueueCloseFails(x) PROVE SameItems(disk, disk') /\ taken' = taken
  BY <1>5, <1>6 DEF EnqueueRollover, EnqueueCloseFails
<1>7. CASE AdvanceToNew
  BY <1>5, <1>7 DEF AdvanceToNew, hist
<1>8. CASE AddLen
  <2>1. last \in DOMAIN disk /\ disk' = [disk EXCEPT ![last] = Begun(disk[last])] /\ taken' = taken
    BY <1>8 DEF AddLen, QueueInv, StepSound, hist
  <2>2. Begun(disk[last]).added = disk[last].added /\ Begun(disk[last]).removed = disk[last].removed
    BY <1>1, <2>1, FileBegun
  <2> QED BY <2>1, <2>2 DEF SameItems
<1>9. CASE Unlink
  <2>1. disk' = Without(disk, {first}) /\ taken' = taken /\ step = "unlink"
    BY <1>9 DEF Unlink, hist
  <2>2. status = "open" /\ first \in DOMAIN disk /\ Retired(first)
    BY <2>1 DEF QueueInv, Rest, StepSound, Retiring
  <2>3. Emptied(disk[first])
    BY <2>2, OpenFacts DEF Retired, Emptied
  <2> QED BY <2>1, <2>3 DEF Without, SameItems
<1>10. CASE \/ LoadBegins \/ OpenExisting \/ OpenUnseeded \/ LoadFails
            \/ Close \/ Crash \/ AddLenFails \/ AddBodyFails \/ RemoveFails \/ UnlinkFails
            \/ AdvanceToLast \/ AdvanceToNext \/ AdvanceFails \/ UNCHANGED vars
            \/ (\E x \in Item : EnqueueToRoom(x) \/ EnqueueCreateFails(x)) \/ (\E c \in Consumer : Park(c))
  <2>1. disk' = disk
    BY <1>10 DEF LoadBegins, OpenExisting, OpenUnseeded, Loads, LoadFails, Close, Crash, AddLenFails, AddBodyFails, RemoveFails, UnlinkFails, AdvanceToLast, AdvanceToNext,
       AdvanceFails, vars, EnqueueToRoom, EnqueueCreateFails, Park
  <2> QED BY <1>2, <2>1
<1> QED BY <1>3, <1>4, <1>6, <1>7, <1>8, <1>9, <1>10 DEF Next, Open, Enqueue, Add, Dequeue

\* AddBody puts its item at the end.
LEMMA AddBodyPuts ==
  ASSUME QueueInv, QueueInv', AddBody
  PROVE  \E x \in Item : Content' = Append(Content, x) /\ taken' = taken
<1>1. PICK x \in adding : disk' = [disk EXCEPT ![last] = Ended(disk[last], x)]
  BY DEF AddBody
<1>2. step = "body" /\ taken' = taken
  BY DEF AddBody, hist
<1>3. status = "open" /\ ~Full(segs[last]) /\ x \in Item /\ disk[last].torn > 0
  BY <1>2 DEF QueueInv, Rest, StepSound
<1>4. /\ last \in DOMAIN disk /\ SoundFile(disk[last]) /\ Len(disk[last].added) # ItemsPerSegment
  BY <1>3, OpenFacts
<1>5. Len(disk[last].added) < ItemsPerSegment
  <2>1. Len(disk[last].added) \in Nat /\ Len(disk[last].added) <= ItemsPerSegment
    BY <1>4 DEF SoundFile, File
  <2> QED BY <1>4, <2>1, DQueAssumption
<1>6. /\ Ended(disk[last], x).added = Append(disk[last].added, x)
      /\ Ended(disk[last], x).removed = disk[last].removed
  BY <1>3, <1>4, <1>5, FileEnded
<1>7. /\ DOMAIN disk' = DOMAIN disk /\ disk'[last] = Ended(disk[last], x)
      /\ \A m \in DOMAIN disk : m # last => disk'[m] = disk[m]
  BY <1>1, <1>4
<1>8. \A m \in DOMAIN disk : m <= last
  <2>1. \A m \in DOMAIN disk : m \in first..last
    BY <1>3 DEF QueueInv, MemorySound
  <2> QED BY <2>1 DEF QueueInv, Rest
<1>9. Sound(disk) /\ Sound(disk')
  BY SoundDisk DEF QueueInv
<1>10. Contents(disk') = Append(Contents(disk), x)
  <2>1. disk'[last].added = Append(disk[last].added, x) /\ disk'[last].removed = disk[last].removed
    BY <1>6, <1>7
  <2>2. \A m \in DOMAIN disk : m # last => disk'[m].added = disk[m].added /\ disk'[m].removed = disk[m].removed
    BY <1>7
  <2> QED BY <1>3, <1>4, <1>7, <1>8, <1>9, <2>1, <2>2, ContentsGrow
<1> QED BY <1>2, <1>3, <1>10 DEF Content

\* RemoveHead takes the item at the front.
LEMMA RemoveHeadTakes ==
  ASSUME QueueInv, QueueInv', RemoveHead
  PROVE  /\ Content # <<>> /\ Content' = Tail(Content)
         /\ taken' = Append(taken, Head(Content))
<1>1. /\ status = "open" /\ ~FirstIsEmpty
      /\ disk' = [disk EXCEPT ![first] = Marked(disk[first])] /\ taken' = Append(taken, Head(segs[first].objs))
  BY DEF RemoveHead, Open0
<1>2. /\ first \in DOMAIN disk /\ SoundFile(disk[first]) /\ Reflects(first)
      /\ disk[first].removed < Len(disk[first].added)
  BY <1>1, HeadFacts
<1>3. /\ Head(Live(disk[first])) = disk[first].added[disk[first].removed + 1]
      /\ Marked(disk[first]).added = disk[first].added
      /\ Marked(disk[first]).removed = disk[first].removed + 1
  BY <1>2, FileMarked
<1>4. /\ DOMAIN disk' = DOMAIN disk /\ disk'[first] = Marked(disk[first])
      /\ \A m \in DOMAIN disk : m # first => disk'[m] = disk[m]
  BY <1>1, <1>2
<1>5. \A m \in DOMAIN disk : first <= m
  BY <1>1, OpenFacts
<1>6. Sound(disk) /\ Sound(disk')
  BY SoundDisk DEF QueueInv
<1>7. /\ Contents(disk) # <<>> /\ Head(Contents(disk)) = disk[first].added[disk[first].removed + 1]
      /\ Contents(disk') = Tail(Contents(disk))
  <2>1. disk'[first].added = disk[first].added /\ disk'[first].removed = disk[first].removed + 1
    BY <1>3, <1>4
  <2>2. \A m \in DOMAIN disk : m # first => disk'[m].added = disk[m].added /\ disk'[m].removed = disk[m].removed
    BY <1>4
  <2> QED BY <1>2, <1>4, <1>5, <1>6, <2>1, <2>2, ContentsShrink
<1>8. Head(segs[first].objs) = Head(Contents(disk))
  BY <1>2, <1>3, <1>7 DEF Reflects
<1> QED BY <1>1, <1>7, <1>8 DEF Content

\* Whatever fails and whenever the process dies, the holder of the queue sees
\* a first-in first-out sequence: no record is lost, repeated or reordered.
THEOREM QueueIsFifo == Spec => ImplementsFifo
<1>1. Init => Fifo!FifoInit
  <2> SUFFICES ASSUME Init PROVE Content = <<>> /\ taken = <<>>
    BY DEF Fifo!FifoInit
  <2>1. DOMAIN disk = {} /\ taken = <<>>
    BY DEF Init, Nothing
  <2>2. Held(disk) = {}
    BY <2>1 DEF Held
  <2>3. Cardinality(Held(disk)) = 0 /\ 1..0 = {}
    BY <2>2, FS_EmptySet
  <2>4. Sound(disk)
    BY <2>1, FS_EmptySet DEF Sound
  <2>5. /\ Contents(disk) = Listed(Held(disk), Values(disk)) /\ Held(disk) \subseteq Place /\ IsFiniteSet(Held(disk))
        /\ \A p \in Held(disk) : Values(disk)[p] \in Item
    BY <2>4, HeldFacts
  <2>6. Contents(disk) \in Seq(Item) /\ Len(Contents(disk)) = 0
    BY <2>3, <2>5, ListedAt
  <2> QED BY <2>1, <2>6, EmptySeq DEF Content
<1>2. QueueInv /\ LoadSound /\ QueueInv' /\ [Next]_vars => [Fifo!FifoNext]_Fifo!fifoVars
  <2> SUFFICES ASSUME QueueInv, LoadSound, QueueInv', [Next]_vars PROVE [Fifo!FifoNext]_Fifo!fifoVars
    OBVIOUS
  <2>1. CASE AddBody
    BY <2>1, AddBodyPuts DEF Fifo!FifoNext, Fifo!Put, Fifo!fifoVars
  <2>2. CASE RemoveHead
    BY <2>2, RemoveHeadTakes DEF Fifo!FifoNext, Fifo!Take, Fifo!fifoVars
  <2>3. CASE ~AddBody /\ ~RemoveHead
    <3>1. SameItems(disk, disk') /\ taken' = taken /\ Sound(disk) /\ Sound(disk')
      BY <2>3, NothingMoves, SoundDisk DEF QueueInv
    <3>2. Content' = Content
      BY <3>1, ContentsSame DEF Content
    <3> QED BY <3>1, <3>2 DEF Fifo!fifoVars
  <2> QED BY <2>1, <2>2, <2>3
<1> QED BY <1>1, <1>2, QueueStaysSound, PTL DEF Spec, ImplementsFifo, Fifo!FifoSpec

-----------------------------------------------------------------------------
(* The bytes on disk.                                                      *)

\* Files of no bytes do not count, and the others keep theirs.
LEMMA UnitsSame ==
  ASSUME NEW d, NEW e,
         \A n \in DOMAIN d \cap DOMAIN e : FileBytes(e[n]) = FileBytes(d[n]),
         \A n \in DOMAIN d \ DOMAIN e : FileBytes(d[n]) = 0,
         \A n \in DOMAIN e \ DOMAIN d : FileBytes(e[n]) = 0
  PROVE  Units(e) = Units(d)
<1>0. 1..0 = {}
  OBVIOUS
<1>1. ASSUME NEW u \in Units(d) PROVE u \in Units(e)
  <2>1. PICK n \in DOMAIN d : u \in {n} \X (1 .. FileBytes(d[n]))
    BY DEF Units
  <2>2. FileBytes(d[n]) # 0
    BY <1>0, <2>1
  <2> QED BY <2>1, <2>2 DEF Units
<1>2. ASSUME NEW u \in Units(e) PROVE u \in Units(d)
  <2>1. PICK n \in DOMAIN e : u \in {n} \X (1 .. FileBytes(e[n]))
    BY DEF Units
  <2>2. FileBytes(e[n]) # 0
    BY <1>0, <2>1
  <2> QED BY <2>1, <2>2 DEF Units
<1> QED BY <1>1, <1>2

\* One file grows by a unit.
LEMMA UnitsGrow ==
  ASSUME NEW d, NEW e, Sound(d), DOMAIN e = DOMAIN d, NEW n \in DOMAIN d,
         FileBytes(e[n]) = FileBytes(d[n]) + 1,
         \A m \in DOMAIN d : m # n => e[m] = d[m]
  PROVE  Cardinality(Units(e)) = Cardinality(Units(d)) + 1
<1> DEFINE g == <<n, FileBytes(d[n]) + 1>>
<1>1. IsFiniteSet(Units(d)) /\ \A m \in DOMAIN d : FileBytes(d[m]) \in Nat
  BY UnitsFinite DEF Sound
<1>2. g \notin Units(d)
  <2> SUFFICES ASSUME g \in Units(d) PROVE FALSE
    OBVIOUS
  <2>1. PICK m \in DOMAIN d : g \in {m} \X (1 .. FileBytes(d[m]))
    BY DEF Units
  <2>2. FileBytes(d[n]) + 1 \in 1 .. FileBytes(d[n])
    BY <2>1
  <2> QED BY <1>1, <2>2
<1>3. g \in Units(e)
  <2>1. FileBytes(d[n]) + 1 \in 1 .. FileBytes(e[n])
    BY <1>1
  <2> QED BY <2>1 DEF Units
<1>4. ASSUME NEW u \in Units(d) PROVE u \in Units(e)
  <2>1. PICK m \in DOMAIN d : u \in {m} \X (1 .. FileBytes(d[m]))
    BY DEF Units
  <2>2. u \in {m} \X (1 .. FileBytes(e[m]))
    <3>1. CASE m = n
      <4>1. 1 .. FileBytes(d[n]) \subseteq 1 .. FileBytes(e[n])
        BY <1>1
      <4> QED BY <2>1, <3>1, <4>1
    <3>2. CASE m # n
      BY <2>1, <3>2
    <3> QED BY <3>1, <3>2
  <2> QED BY <2>2 DEF Units
<1>5. ASSUME NEW u \in Units(e), u # g PROVE u \in Units(d)
  <2>1. PICK m \in DOMAIN d : u \in {m} \X (1 .. FileBytes(e[m]))
    BY DEF Units
  <2>2. u \in {m} \X (1 .. FileBytes(d[m]))
    <3>1. CASE m = n
      <4>1. u = <<n, u[2]>> /\ u[2] \in 1 .. FileBytes(e[n])
        BY <2>1, <3>1
      <4>2. u[2] # FileBytes(d[n]) + 1
        BY <1>5, <4>1
      <4>3. u[2] \in 1 .. FileBytes(d[n])
        BY <1>1, <4>1, <4>2
      <4> QED BY <3>1, <4>1, <4>3
    <3>2. CASE m # n
      BY <2>1, <3>2
    <3> QED BY <3>1, <3>2
  <2> QED BY <2>2 DEF Units
<1> HIDE DEF g
<1>6. Units(e) = Units(d) \cup {g}
  BY <1>3, <1>4, <1>5
<1> QED BY <1>1, <1>2, <1>6, FS_AddElement

\* One file goes, and its bytes with it.
LEMMA UnitsLost ==
  ASSUME NEW d, NEW e, Sound(d), NEW n \in DOMAIN d, DOMAIN e = DOMAIN d \ {n},
         \A m \in DOMAIN e : e[m] = d[m]
  PROVE  Cardinality(Units(e)) = Cardinality(Units(d)) - FileBytes(d[n])
<1> DEFINE own == {n} \X (1 .. FileBytes(d[n]))
<1>1. IsFiniteSet(Units(d)) /\ FileBytes(d[n]) \in Nat
  BY UnitsFinite DEF Sound
<1>2. IsFiniteSet(own) /\ Cardinality(own) = FileBytes(d[n])
  <2>1. IsFiniteSet({n}) /\ Cardinality({n}) = 1
    BY FS_Singleton
  <2>2. IsFiniteSet(1 .. FileBytes(d[n])) /\ Cardinality(1 .. FileBytes(d[n])) = FileBytes(d[n])
    BY <1>1, FS_Interval
  <2>3. IsFiniteSet(own) /\ Cardinality(own) = 1 * FileBytes(d[n])
    BY ZenonT(30), <2>1, <2>2, FS_Product
  <2>4. 1 * FileBytes(d[n]) = FileBytes(d[n])
    BY <1>1
  <2> HIDE DEF own
  <2> QED BY <2>3, <2>4
<1>3. own \subseteq Units(d)
  BY DEF Units
<1>4. ASSUME NEW u \in Units(e) PROVE u \in Units(d) /\ u \notin own
  <2>1. PICK m \in DOMAIN e : u \in {m} \X (1 .. FileBytes(e[m]))
    BY DEF Units
  <2>2. m \in DOMAIN d /\ m # n /\ u \in {m} \X (1 .. FileBytes(d[m]))
    BY <2>1
  <2> QED BY <2>2 DEF Units
<1>5. ASSUME NEW u \in Units(d), u \notin own PROVE u \in Units(e)
  <2>1. PICK m \in DOMAIN d : u \in {m} \X (1 .. FileBytes(d[m]))
    BY DEF Units
  <2>2. m # n
    BY <1>5, <2>1
  <2>3. m \in DOMAIN e /\ u \in {m} \X (1 .. FileBytes(e[m]))
    BY <2>1, <2>2
  <2> QED BY <2>3 DEF Units
<1> HIDE DEF own
<1>6. Units(e) = Units(d) \ own /\ Units(d) \cap own = own
  BY <1>3, <1>4, <1>5
<1> QED BY <1>1, <1>2, <1>6, FS_Difference

\* DiskBytes() is exact unless a body write, a listing of the directory or a
\* stat of a file failed since the queue was opened, and until a body write fails a prefix without a body is there only while AddBody is due.
Torn(n) == disk[n].torn = IF step = "body" /\ n = last THEN 1 ELSE 0
Counted ==
    status = "open" /\ hit \cap Miscounts = {} =>
      /\ Cardinality(Units(disk)) = bytes + IF step = "body" THEN 1 ELSE 0
      /\ \A n \in {first, last} : n \in DOMAIN disk => Torn(n)

\* A step that touches no file and finishes or starts no write of a body.
LEMMA CountedSame ==
  ASSUME QueueInv, Counted, UNCHANGED <<disk, status, first, last, bytes>>, hit \subseteq hit',
         step # "body", step' # "body"
  PROVE  Counted'
BY DEF Counted, Torn

\* A new file after the last one.
LEMMA CountedNew ==
  ASSUME QueueInv, QueueInv', Counted, UNCHANGED <<status, bytes>>, hit \subseteq hit', step # "body", step' # "body",
         NEW n, n \notin DOMAIN disk, disk' = With(disk, n, NewFile),
         \A m \in {first', last'} : m \in {first, last, n}
  PROVE  Counted'
<1>1. DOMAIN disk' = DOMAIN disk \cup {n} /\ disk'[n] = NewFile /\ \A m \in DOMAIN disk : disk'[m] = disk[m]
  BY DEF With
<1>2. Units(disk') = Units(disk)
  BY <1>1, UnitsSame, FileNew
<1>3. disk'[n].torn = 0
  BY <1>1 DEF NewFile
<1> QED BY <1>1, <1>2, <1>3 DEF Counted, Torn

\* One file changes by one unit, and the cached total as much, but for the
\* prefix of a body still to come.
LEMMA CountedGrows ==
  ASSUME QueueInv, QueueInv', Counted, UNCHANGED <<status, first, last>>, hit \subseteq hit', status = "open",
         NEW n \in DOMAIN disk, NEW f, disk' = [disk EXCEPT ![n] = f], FileBytes(f) = FileBytes(disk[n]) + 1,
         bytes' + (IF step' = "body" THEN 1 ELSE 0) = bytes + (IF step = "body" THEN 1 ELSE 0) + 1,
         \A m \in {first, last} : m \in DOMAIN disk /\ Torn(m) => disk'[m].torn = IF step' = "body" /\ m = last THEN 1 ELSE 0
  PROVE  Counted'
<1>1. DOMAIN disk' = DOMAIN disk /\ disk'[n] = f /\ \A m \in DOMAIN disk : m # n => disk'[m] = disk[m]
  OBVIOUS
<1>2. Cardinality(Units(disk')) = Cardinality(Units(disk)) + 1
  <2>1. Sound(disk)
    BY SoundDisk DEF QueueInv
  <2> QED BY <1>1, <2>1, UnitsGrow
<1>3. bytes \in Int /\ bytes' \in Int
  BY DEF QueueInv, Rest
<1>4. ASSUME hit' \cap Miscounts = {} PROVE Cardinality(Units(disk')) = bytes' + IF step' = "body" THEN 1 ELSE 0
  <2>1. Cardinality(Units(disk)) = bytes + IF step = "body" THEN 1 ELSE 0
    BY <1>4 DEF Counted
  <2> QED BY <1>2, <1>3, <2>1
<1> QED BY <1>1, <1>4 DEF Counted, Torn

\* No step makes DiskBytes() differ from the files but the failure it excludes.
LEMMA CountedKept == QueueInv /\ LoadSound /\ QueueInv' /\ Counted /\ [Next]_vars => Counted'
<1> SUFFICES ASSUME QueueInv, LoadSound, QueueInv', Counted, [Next]_vars PROVE Counted'
  OBVIOUS
<1>0. /\ status # "open" => step = "idle"
      /\ \A n \in DOMAIN disk : SoundFile(disk[n])
      /\ Sound(disk) /\ Sound(disk') /\ first \in Nat /\ last \in Nat /\ bytes \in Int
      /\ hit \subseteq FaultKinds
  BY SoundDisk DEF QueueInv, StepSound, DiskSound, Rest
<1>1. CASE OpenNew
  <2>1. /\ disk' = With(disk, 1, NewFile) /\ status = "loading" /\ first > last
        /\ first' = 1 /\ last' = 1 /\ bytes' = 0 /\ step' = "idle"
    BY <1>0, <1>1 DEF OpenNew
  <2>2. DOMAIN disk = {}
    <3>1. \A n \in DOMAIN disk : first <= n /\ n <= last
      BY <2>1 DEF LoadSound
    <3>2. \A n \in DOMAIN disk : n \in Nat
      BY DEF QueueInv, DiskSound
    <3> QED BY <1>0, <2>1, <3>1, <3>2
  <2>3. DOMAIN disk' = {1} /\ disk'[1] = NewFile
    BY <2>1, <2>2 DEF With
  <2>4. Units(disk') = {}
    <3>1. 1..0 = {} /\ FileBytes(disk'[1]) = 0
      BY <2>3, FileNew
    <3> QED BY <2>3, <3>1 DEF Units
  <2>5. Cardinality(Units(disk')) = 0 /\ disk'[1].torn = 0
    BY <2>3, <2>4, FS_EmptySet DEF NewFile
  <2> QED BY <2>1, <2>5 DEF Counted, Torn
<1>2. CASE OpenExisting
  <2>1. /\ UNCHANGED <<disk, first, last, step>> /\ bytes' = Cardinality(Units(disk)) /\ step = "idle"
        /\ ~Corrupt(disk[first]) /\ ~Corrupt(disk[last])
    BY <1>0, <1>2 DEF OpenExisting, Loads, Loadable
  <2>2. \A n \in {first, last} : n \in DOMAIN disk => disk[n].torn = 0
    <3>1. \A n \in DOMAIN disk : disk[n].torn \in Nat
      BY <1>0 DEF SoundFile, File
    <3> QED BY <2>1, <3>1 DEF Corrupt
  <2>3. bytes' \in Int
    BY DEF QueueInv, Rest
  <2> QED BY <2>1, <2>2, <2>3 DEF Counted, Torn
<1>19. CASE OpenUnseeded
  <2>1. "list" \in hit'
    BY <1>0, <1>19, HitGrows DEF OpenUnseeded
  <2> QED BY <2>1 DEF Counted, Miscounts
<1>3. CASE LoadBegins \/ LoadSkips \/ LoadFails \/ Close \/ Crash
  BY <1>3 DEF LoadBegins, LoadSkips, LoadFails, Close, Crash, Counted
<1>4. ASSUME NEW x \in Item, Enqueue(x) PROVE Counted'
  <2>1. CASE EnqueueToRoom(x)
    BY <2>1, CountedSame DEF EnqueueToRoom, Open0, mem
  <2>2. CASE EnqueueRollover(x)
    <3>1. UNCHANGED <<status, bytes>> /\ hit \subseteq hit' /\ step # "body" /\ step' # "body"
          /\ first' = first /\ last' = last + 1 /\ last + 1 \notin DOMAIN disk /\ disk' = With(disk, last + 1, NewFile)
      BY <2>2 DEF EnqueueRollover, Open0
    <3> QED BY <3>1, CountedNew
  <2>3. CASE EnqueueCreateFails(x)
    BY <1>0, <2>3, CountedSame, HitGrows DEF EnqueueCreateFails, Open0, mem
  <2>4. CASE EnqueueCloseFails(x)
    <3>1. UNCHANGED <<status, bytes>> /\ hit \subseteq hit' /\ step # "body" /\ step' # "body"
          /\ first' = first /\ last' = last /\ last + 1 \notin DOMAIN disk /\ disk' = With(disk, last + 1, NewFile)
      BY <1>0, <2>4, HitGrows DEF EnqueueCloseFails, Open0
    <3> QED BY <3>1, CountedNew
  <2> QED BY <1>4, <2>1, <2>2, <2>3, <2>4 DEF Enqueue
<1>5. CASE AddLen
  <2>1. /\ step = "len" /\ step' = "body" /\ disk' = [disk EXCEPT ![last] = Begun(disk[last])]
        /\ UNCHANGED <<status, first, last, bytes, hit>>
    BY <1>5 DEF AddLen, mem
  <2>2. status = "open" /\ last \in DOMAIN disk
    BY <2>1 DEF QueueInv, Rest, StepSound
  <2>3. FileBytes(Begun(disk[last])) = FileBytes(disk[last]) + 1 /\ Begun(disk[last]).torn = disk[last].torn + 1
    BY <1>0, <2>2, FileBegun
  <2>4. \A m \in {first, last} :
          m \in DOMAIN disk /\ Torn(m) => disk'[m].torn = IF step' = "body" /\ m = last THEN 1 ELSE 0
    <3> SUFFICES ASSUME NEW m \in {first, last}, m \in DOMAIN disk, Torn(m)
                 PROVE disk'[m].torn = IF step' = "body" /\ m = last THEN 1 ELSE 0
      OBVIOUS
    <3>1. disk[m].torn = 0
      BY <2>1 DEF Torn
    <3>2. CASE m = last
      BY <2>1, <2>2, <2>3, <3>1, <3>2
    <3>3. CASE m # last
      BY <2>1, <2>2, <3>1, <3>3
    <3> QED BY <3>2, <3>3
  <2>5. bytes' + (IF step' = "body" THEN 1 ELSE 0) = bytes + (IF step = "body" THEN 1 ELSE 0) + 1
    BY <1>0, <2>1
  <2> QED BY <2>1, <2>2, <2>3, <2>4, <2>5, CountedGrows
<1>6. CASE AddBody
  <2>1. PICK x \in adding : disk' = [disk EXCEPT ![last] = Ended(disk[last], x)]
    BY <1>6 DEF AddBody
  <2>2. /\ step = "body" /\ step' = "idle" /\ UNCHANGED <<status, first, last>>
        /\ Recount(FileBytes(disk[last]) - 1, FileBytes(disk'[last]))
    BY <1>6 DEF AddBody
  <2>3. status = "open" /\ last \in DOMAIN disk /\ ~Full(segs[last]) /\ x \in Item /\ disk[last].torn > 0
    BY <2>2 DEF QueueInv, Rest, StepSound
  <2>4. Len(disk[last].added) < ItemsPerSegment
    <3>1. Len(disk[last].added) # ItemsPerSegment
      BY <2>3, OpenFacts
    <3>2. Len(disk[last].added) \in Nat /\ Len(disk[last].added) <= ItemsPerSegment
      BY <1>0, <2>3 DEF SoundFile, File
    <3> QED BY <3>1, <3>2, DQueAssumption
  <2>5. FileBytes(Ended(disk[last], x)) = FileBytes(disk[last]) + 1
    BY <1>0, <2>3, <2>4, FileEnded
  <2>6. \A m \in {first, last} :
          m \in DOMAIN disk /\ Torn(m) => disk'[m].torn = IF step' = "body" /\ m = last THEN 1 ELSE 0
    <3> SUFFICES ASSUME NEW m \in {first, last}, m \in DOMAIN disk, Torn(m)
                 PROVE disk'[m].torn = IF step' = "body" /\ m = last THEN 1 ELSE 0
      OBVIOUS
    <3>1. CASE m = last
      <4>1. disk[last].torn = 1
        BY <2>2, <3>1 DEF Torn
      <4>2. disk'[last].torn = 0
        BY <2>1, <2>3, <4>1 DEF Ended
      <4> QED BY <2>2, <3>1, <4>2
    <3>2. CASE m # last
      <4>1. disk[m].torn = 0 /\ disk'[m] = disk[m]
        BY <2>1, <2>2, <3>2 DEF Torn
      <4> QED BY <2>2, <4>1
    <3> QED BY <3>1, <3>2
  <2>7. disk'[last] = Ended(disk[last], x) /\ FileBytes(disk[last]) \in Nat
    BY <1>0, <2>1, <2>3 DEF FileBytes, SoundFile, File
  <2>8. CASE bytes' = bytes + FileBytes(disk'[last]) - (FileBytes(disk[last]) - 1) /\ UNCHANGED hit
    <3>1. bytes' + (IF step' = "body" THEN 1 ELSE 0) = bytes + (IF step = "body" THEN 1 ELSE 0) + 1
      BY <1>0, <2>2, <2>5, <2>7, <2>8
    <3> QED BY <2>1, <2>2, <2>3, <2>5, <2>6, <2>8, <3>1, CountedGrows
  <2>9. CASE Fails("stat")
    BY <1>0, <2>9, HitGrows DEF Counted, Miscounts
  <2> QED BY <2>2, <2>8, <2>9 DEF Recount
<1>7. CASE AddLenFails
  BY <1>0, <1>7, CountedSame, HitGrows DEF AddLenFails, mem
<1>8. CASE AddBodyFails
  BY <1>0, <1>8, HitGrows DEF AddBodyFails, Counted, Miscounts
<1>9. CASE RemoveHead
  <2>1. /\ status = "open" /\ ~FirstIsEmpty /\ step = "idle" /\ step' # "body"
        /\ Recount(FileBytes(disk[first]), FileBytes(disk'[first]))
        /\ disk' = [disk EXCEPT ![first] = Marked(disk[first])] /\ UNCHANGED <<status, first, last>>
    BY <1>9 DEF RemoveHead, Open0
  <2>2. first \in DOMAIN disk /\ SoundFile(disk[first]) /\ disk[first].removed < Len(disk[first].added)
    BY <2>1, HeadFacts
  <2>3. FileBytes(Marked(disk[first])) = FileBytes(disk[first]) + 1
    BY <2>2, FileMarked
  <2>4. \A m \in {first, last} :
          m \in DOMAIN disk /\ Torn(m) => disk'[m].torn = IF step' = "body" /\ m = last THEN 1 ELSE 0
    <3>1. Marked(disk[first]).torn = disk[first].torn
      BY <2>2 DEF Marked, SoundFile, File
    <3>2. \A m \in DOMAIN disk : disk'[m].torn = disk[m].torn
      BY <2>1, <2>2, <3>1
    <3> QED BY <2>1, <3>2 DEF Torn
  <2>5. disk'[first] = Marked(disk[first]) /\ FileBytes(disk[first]) \in Nat
    BY <2>1, <2>2 DEF FileBytes, SoundFile, File
  <2>6. CASE bytes' = bytes + FileBytes(disk'[first]) - FileBytes(disk[first]) /\ UNCHANGED hit
    <3>1. bytes' + (IF step' = "body" THEN 1 ELSE 0) = bytes + (IF step = "body" THEN 1 ELSE 0) + 1
      BY <1>0, <2>1, <2>3, <2>5, <2>6
    <3> QED BY <2>1, <2>2, <2>3, <2>4, <2>6, <3>1, CountedGrows
  <2>7. CASE Fails("stat")
    BY <1>0, <2>7, HitGrows DEF Counted, Miscounts
  <2> QED BY <2>1, <2>6, <2>7 DEF Recount
<1>10. CASE RemoveFails
  BY <1>0, <1>10, CountedSame, HitGrows DEF RemoveFails, Open0, mem
<1>11. CASE Unlink
  <2>1. /\ step = "unlink" /\ step' = "advance" /\ disk' = Without(disk, {first})
        /\ UNCHANGED <<status, first, last>>
    BY <1>11 DEF Unlink
  <2>2. first \in DOMAIN disk
    BY <2>1 DEF QueueInv, StepSound
  <2>3. DOMAIN disk' = DOMAIN disk \ {first} /\ \A m \in DOMAIN disk' : disk'[m] = disk[m]
    BY <2>1 DEF Without
  <2>4. Cardinality(Units(disk')) = Cardinality(Units(disk)) - FileBytes(disk[first])
    BY <1>0, <2>2, <2>3, UnitsLost
  <2>5. FileBytes(disk[first]) \in Nat
    BY <1>0, <2>2, UnitsFinite DEF Sound
  <2>6. CASE bytes' = bytes - FileBytes(disk[first]) /\ UNCHANGED hit
    <3>1. ASSUME status = "open", hit \cap Miscounts = {}
          PROVE  Cardinality(Units(disk')) = bytes' + 0
      <4>1. Cardinality(Units(disk)) = bytes
        BY <1>0, <2>1, <3>1 DEF Counted
      <4> QED BY <1>0, <2>1, <2>4, <2>5, <2>6, <4>1
    <3> QED BY <2>1, <2>3, <2>6, <3>1 DEF Counted, Torn
  <2>7. CASE Fails("stat")
    BY <1>0, <2>7, HitGrows DEF Counted, Miscounts
  <2> QED BY <1>11, <2>6, <2>7 DEF Unlink
<1>12. CASE UnlinkFails
  BY <1>0, <1>12, CountedSame, HitGrows DEF UnlinkFails
<1>13. CASE AdvanceToNew
  <2>1. UNCHANGED <<status, bytes>> /\ hit \subseteq hit' /\ step # "body" /\ step' # "body"
        /\ first' = first + 1 /\ last' = first + 1 /\ first + 1 \notin DOMAIN disk
        /\ disk' = With(disk, first + 1, NewFile)
    BY <1>13 DEF AdvanceToNew
  <2> QED BY <2>1, CountedNew
<1>14. CASE AdvanceToLast
  BY <1>14 DEF AdvanceToLast, Counted, Torn
<1>15. CASE AdvanceToNext
  <2>1. /\ step = "advance" /\ step' = "idle" /\ first + 1 \in DOMAIN disk /\ ~Corrupt(disk[first + 1])
        /\ first' = first + 1 /\ UNCHANGED <<disk, status, last, bytes, hit>>
    BY <1>15 DEF AdvanceToNext
  <2>2. disk[first + 1].torn = 0
    <3>1. disk[first + 1].torn \in Nat
      BY <1>0, <2>1 DEF SoundFile, File
    <3> QED BY <2>1, <3>1 DEF Corrupt
  <2> QED BY <2>1, <2>2 DEF Counted, Torn
<1>16. CASE AdvanceFails
  <2>1. hit \subseteq hit'
    BY <1>0, <1>16, HitGrows DEF AdvanceFails
  <2> QED BY <1>16, <2>1, CountedSame DEF AdvanceFails, mem
<1>17. ASSUME NEW c \in Consumer, Park(c) PROVE Counted'
  BY <1>17, CountedSame DEF Park, Open0, mem
<1>18. CASE UNCHANGED vars
  BY <1>18 DEF vars, Counted, Torn
<1> QED BY <1>1, <1>2, <1>3, <1>4, <1>5, <1>6, <1>7, <1>8, <1>9, <1>10, <1>11, <1>12, <1>13, <1>14,
           <1>15, <1>16, <1>17, <1>18, <1>19 DEF Next, Open, Add, Dequeue

-----------------------------------------------------------------------------
(* What Dequeue, Size() and DiskBytes() tell their callers.                *)

\* A retired first segment is left as it is by a failure only.
LEMMA NotRetired ==
  ASSUME QueueInv, Open0, hit \cap {"create", "unlink", "open"} = {}
  PROVE  /\ first \in DOMAIN disk /\ SoundFile(disk[first]) /\ Reflects(first)
         /\ Emptied(disk[first]) => Len(disk[first].added) < ItemsPerSegment
<1>1. first \in DOMAIN disk
  BY DEF QueueInv, MemorySound, Open0
<1>2. SoundFile(disk[first]) /\ Reflects(first) /\ ~Retired(first)
  <2>1. ~Retired(first)
    BY DEF QueueInv, StepSound, Open0, Retiring
  <2> QED BY <1>1, <2>1, OpenFacts DEF Open0
<1>3. ASSUME Emptied(disk[first]) PROVE Len(disk[first].added) < ItemsPerSegment
  <2>1. segs[first].objs = <<>> /\ segs[first].removed = Len(disk[first].added)
    BY <1>1, <1>2, <1>3, OpenFacts DEF Open0, Emptied, Reflects
  <2>2. ~(Len(disk[first].added) >= ItemsPerSegment)
    BY <1>2, <2>1 DEF Retired
  <2>3. Len(disk[first].added) \in Nat
    BY <1>2 DEF SoundFile, File
  <2> QED BY <2>2, <2>3, DQueAssumption
<1> QED BY <1>1, <1>2, <1>3

\* Content is as long as the places that hold an item are many.
LEMMA ContentsLength ==
  ASSUME NEW d, Sound(d)
  PROVE  /\ Len(Contents(d)) = Cardinality(Held(d))
         /\ Contents(d) = <<>> <=> Held(d) = {}
<1>1. Held(d) \subseteq Place /\ IsFiniteSet(Held(d)) /\ \A p \in Held(d) : Values(d)[p] \in Item
  BY HeldFacts
<1>2. Contents(d) \in Seq(Item) /\ Len(Contents(d)) = Cardinality(Held(d))
  BY <1>1, HeldFacts, ListedAt
<1>3. Contents(d) = <<>> <=> Cardinality(Held(d)) = 0
  BY <1>2, EmptySeq
<1> QED BY <1>1, <1>2, <1>3, FS_EmptySet

\* The oldest item, when the oldest file has one.
LEMMA ContentsHead ==
  ASSUME NEW d, Sound(d), NEW n \in DOMAIN d, \A m \in DOMAIN d : n <= m, d[n].removed < Len(d[n].added)
  PROVE  Head(Contents(d)) = d[n].added[d[n].removed + 1]
<1>1. PICK e : e = [d EXCEPT ![n] = Marked(d[n])]
  OBVIOUS
<1>2. SoundFile(d[n]) /\ SoundFile(Marked(d[n])) /\ Marked(d[n]).added = d[n].added /\ Marked(d[n]).removed = d[n].removed + 1
  BY FileMarked DEF Sound
<1>3. DOMAIN e = DOMAIN d /\ e[n] = Marked(d[n]) /\ \A m \in DOMAIN d : m # n => e[m] = d[m]
  BY <1>1
<1>4. Sound(e)
  BY <1>2, <1>3 DEF Sound
<1>5. e[n].added = d[n].added /\ e[n].removed = d[n].removed + 1
  BY <1>2, <1>3
<1>6. \A m \in DOMAIN d : m # n => e[m].added = d[m].added /\ e[m].removed = d[m].removed
  BY <1>3
<1> QED BY <1>3, <1>4, <1>5, <1>6, ContentsShrink

\* Dequeue answers ErrEmpty on an empty queue only, and gives out the oldest
\* item on disk, while no failure left a retired segment in front.
THEOREM DequeueServesTheOldest == Spec => []ServesTheOldest
<1>1. QueueInv => ServesTheOldest
  <2> SUFFICES ASSUME QueueInv, Open0, Content # <<>>, hit \cap {"create", "unlink", "open"} = {}
               PROVE  ~FirstIsEmpty /\ Head(segs[first].objs) = Head(Content)
    BY DEF ServesTheOldest
  <2>1. /\ first \in DOMAIN disk /\ SoundFile(disk[first]) /\ Reflects(first)
        /\ Emptied(disk[first]) => Len(disk[first].added) < ItemsPerSegment
    BY NotRetired
  <2>2. Sound(disk) /\ status = "open" /\ \A m \in DOMAIN disk : first <= m
    BY SoundDisk, OpenFacts DEF QueueInv, Open0
  <2>3. ~FirstIsEmpty
    <3> SUFFICES ASSUME FirstIsEmpty PROVE FALSE
      OBVIOUS
    <3>1. Emptied(disk[first])
      BY <2>1, <2>2, OpenFacts DEF FirstIsEmpty, Emptied
    <3>2. PICK p \in Held(disk) : TRUE
      BY <2>2, ContentsLength DEF Content
    <3>3. p[1] \in DOMAIN disk /\ p[2] \in disk[p[1]].removed + 1 .. Len(disk[p[1]].added)
      BY <2>2, <3>2, HeldFacts
    <3>4. p[1] \in Nat /\ first \in Nat /\ disk[p[1]].removed \in Nat /\ Len(disk[p[1]].added) \in Nat
      BY <2>1, <2>2, <3>3 DEF Sound, SoundFile, File
    <3>5. p[1] # first
      BY <3>1, <3>3, <3>4 DEF Emptied
    <3>6. first < p[1]
      BY <2>2, <3>3, <3>4, <3>5
    <3>7. Len(disk[first].added) = ItemsPerSegment
      BY <2>1, <3>3, <3>6 DEF QueueInv, DiskSound
    <3> QED BY <2>1, <3>1, <3>7, DQueAssumption
  <2>4. disk[first].removed < Len(disk[first].added)
    BY <2>2, <2>3, HeadFacts
  <2>5. Head(segs[first].objs) = disk[first].added[disk[first].removed + 1]
    BY <2>1, <2>4, FileMarked DEF Reflects
  <2>6. Head(Content) = disk[first].added[disk[first].removed + 1]
    BY <2>1, <2>2, <2>4, ContentsHead DEF Content
  <2> QED BY <2>3, <2>5, <2>6
<1> QED BY <1>1, QueueStaysSound, PTL

\* The items of one file.
LEMMA PartSize ==
  ASSUME NEW n, NEW f, SoundFile(f), NEW S, S = {n} \X (f.removed + 1 .. Len(f.added))
  PROVE  IsFiniteSet(S) /\ Cardinality(S) = Len(Live(f))
<1>1. f.removed \in Nat /\ Len(f.added) \in Nat /\ f.removed <= Len(f.added)
  BY DEF SoundFile, File
<1>2. IsFiniteSet({n}) /\ Cardinality({n}) = 1
  BY FS_Singleton
<1>3. /\ IsFiniteSet(f.removed + 1 .. Len(f.added))
      /\ Cardinality(f.removed + 1 .. Len(f.added)) = Len(f.added) - f.removed
  <2>1. f.removed + 1 \in Int /\ Len(f.added) \in Int
    BY <1>1
  <2>2. /\ IsFiniteSet(f.removed + 1 .. Len(f.added))
        /\ Cardinality(f.removed + 1 .. Len(f.added))
             = IF f.removed + 1 > Len(f.added) THEN 0 ELSE Len(f.added) - (f.removed + 1) + 1
    BY <2>1, FS_Interval
  <2> QED BY <1>1, <2>2
<1>4. IsFiniteSet(S) /\ Cardinality(S) = 1 * (Len(f.added) - f.removed)
  <2> DEFINE T == f.removed + 1 .. Len(f.added)
  <2>1. IsFiniteSet(T) /\ Cardinality(T) = Len(f.added) - f.removed /\ S = {n} \X T
    BY <1>3
  <2> HIDE DEF T
  <2>2. IsFiniteSet({n} \X T) /\ Cardinality({n} \X T) = Cardinality({n}) * Cardinality(T)
    BY <1>2, <2>1, FS_Product
  <2> QED BY <1>2, <2>1, <2>2
<1>5. Len(Live(f)) = Len(f.added) - f.removed
  BY LiveItems
<1> QED BY <1>1, <1>4, <1>5

\* Sets without a common element add up.
LEMMA Disjoint ==
  ASSUME NEW S, NEW T, IsFiniteSet(S), IsFiniteSet(T), S \cap T = {}
  PROVE  /\ IsFiniteSet(S \cup T) /\ Cardinality(S \cup T) = Cardinality(S) + Cardinality(T)
         /\ Cardinality(S) \in Nat /\ Cardinality(T) \in Nat
<1>1. Cardinality(S) \in Nat /\ Cardinality(T) \in Nat
  BY FS_CardinalityType
<1>2. Cardinality(S \cap T) = 0
  BY FS_EmptySet
<1>3. /\ IsFiniteSet(S \cup T)
      /\ Cardinality(S \cup T) = Cardinality(S) + Cardinality(T) - Cardinality(S \cap T)
  BY FS_Union
<1> QED BY <1>1, <1>2, <1>3

\* The items of the first segment, in memory as on disk.
LEMMA FirstPart ==
  ASSUME QueueInv, status = "open", NEW A, A = {p \in Held(disk) : p[1] = first}
  PROVE  IsFiniteSet(A) /\ Cardinality(A) = Len(segs[first].objs)
<1>1. Sound(disk)
  BY SoundDisk DEF QueueInv
<1>2. CASE first \in DOMAIN disk
  <2>1. SoundFile(disk[first]) /\ segs[first].objs = Live(disk[first])
    BY <1>2, OpenFacts DEF Reflects
  <2>2. A = {first} \X (disk[first].removed + 1 .. Len(disk[first].added))
    <3>1. ASSUME NEW p \in A PROVE p \in {first} \X (disk[first].removed + 1 .. Len(disk[first].added))
      BY <1>1, HeldFacts
    <3>2. ASSUME NEW p \in {first} \X (disk[first].removed + 1 .. Len(disk[first].added)) PROVE p \in A
      <4>1. p = <<first, p[2]>> /\ p[1] = first /\ p[2] \in disk[first].removed + 1 .. Len(disk[first].added)
        OBVIOUS
      <4> QED BY <1>1, <1>2, <4>1, HeldFacts
    <3> QED BY <3>1, <3>2
  <2> QED BY <2>1, <2>2, PartSize
<1>3. CASE first \notin DOMAIN disk
  <2>1. A = {}
    BY <1>1, <1>3, HeldFacts
  <2>2. segs[first].objs = <<>>
    BY <1>3, OpenFacts DEF FirstIsEmpty
  <2> QED BY <2>1, <2>2, FS_EmptySet, EmptySeq
<1> QED BY <1>2, <1>3

\* The items of the last segment, when it is not the first one too.
LEMMA LastPart ==
  ASSUME QueueInv, status = "open", first # last, NEW B, B = {p \in Held(disk) : p[1] = last}
  PROVE  IsFiniteSet(B) /\ Cardinality(B) = Len(segs[last].objs)
<1>1. Sound(disk) /\ last \in DOMAIN disk
  BY SoundDisk, OpenFacts DEF QueueInv
<1>2. SoundFile(disk[last]) /\ segs[last].objs = Live(disk[last])
  BY <1>1, OpenFacts DEF Reflects
<1>3. B = {last} \X (disk[last].removed + 1 .. Len(disk[last].added))
  <2>1. ASSUME NEW p \in B PROVE p \in {last} \X (disk[last].removed + 1 .. Len(disk[last].added))
    BY <1>1, HeldFacts
  <2>2. ASSUME NEW p \in {last} \X (disk[last].removed + 1 .. Len(disk[last].added)) PROVE p \in B
    <3>1. p = <<last, p[2]>> /\ p[1] = last /\ p[2] \in disk[last].removed + 1 .. Len(disk[last].added)
      OBVIOUS
    <3> QED BY <1>1, <3>1, HeldFacts
  <2> QED BY <2>1, <2>2
<1> QED BY <1>2, <1>3, PartSize

\* The items of the segments between the first and the last, which Size()
\* counts without looking.
LEMMA MiddlePart ==
  ASSUME QueueInv, status = "open", first # last, NEW M, M = {p \in Held(disk) : first < p[1] /\ p[1] < last}
  PROVE  IsFiniteSet(M) /\ Cardinality(M) = (last - first - 1) * ItemsPerSegment
<1> DEFINE ns == first + 1 .. last - 1
           is == 1 .. ItemsPerSegment
<1>0. first \in Nat /\ last \in Nat /\ first < last /\ ItemsPerSegment \in Nat
  BY DQueAssumption DEF QueueInv, Rest
<1>1. Sound(disk) /\ last \in DOMAIN disk
  BY SoundDisk, OpenFacts DEF QueueInv
<1>2. ASSUME NEW n \in ns
      PROVE n \in DOMAIN disk /\ disk[n].removed = 0 /\ Len(disk[n].added) = ItemsPerSegment /\ first < n /\ n < last
  <2>1. n \in (first + 1)..last /\ n # first /\ n < last /\ first < n
    BY <1>0
  <2>2. n \in DOMAIN disk
    BY <2>1 DEF QueueInv, MemorySound
  <2> QED BY <1>1, <2>1, <2>2 DEF QueueInv, MemorySound, DiskSound
<1>3. M = ns \X is
  <2>1. ASSUME NEW p \in M PROVE p \in ns \X is
    <3>1. /\ p = <<p[1], p[2]>> /\ p[1] \in DOMAIN disk
          /\ p[2] \in disk[p[1]].removed + 1 .. Len(disk[p[1]].added) /\ first < p[1] /\ p[1] < last
      BY <1>1, HeldFacts
    <3>2. p[1] \in Nat
      BY <1>1, <3>1 DEF Sound
    <3>3. p[1] \in ns
      BY <1>0, <3>1, <3>2
    <3>4. p[2] \in 0 + 1 .. ItemsPerSegment
      BY <1>2, <3>1, <3>3
    <3> QED BY <3>1, <3>3, <3>4
  <2>2. ASSUME NEW p \in ns \X is PROVE p \in M
    <3>1. p = <<p[1], p[2]>> /\ p[1] \in ns /\ p[2] \in is
      OBVIOUS
    <3>2. p[2] \in disk[p[1]].removed + 1 .. Len(disk[p[1]].added)
      BY <1>2, <3>1
    <3>3. <<p[1], p[2]>> \in Held(disk)
      BY <1>1, <1>2, <3>1, <3>2, HeldFacts
    <3> QED BY <1>2, <3>1, <3>3
  <2> QED BY <2>1, <2>2
<1>4. IsFiniteSet(ns) /\ Cardinality(ns) = last - first - 1
  <2>1. first + 1 \in Int /\ last - 1 \in Int
    BY <1>0
  <2>2. IsFiniteSet(ns) /\ Cardinality(ns) = IF first + 1 > last - 1 THEN 0 ELSE (last - 1) - (first + 1) + 1
    BY <2>1, FS_Interval
  <2> QED BY <1>0, <2>2
<1>5. IsFiniteSet(is) /\ Cardinality(is) = ItemsPerSegment
  BY <1>0, DQueAssumption, FS_Interval
<1> HIDE DEF ns, is
<1>6. IsFiniteSet(ns \X is) /\ Cardinality(ns \X is) = Cardinality(ns) * Cardinality(is)
  BY <1>4, <1>5, FS_Product
<1> QED BY <1>3, <1>4, <1>5, <1>6

\* Size() is what the files hold.
LEMMA SizeExact ==
  ASSUME QueueInv, status = "open" PROVE Size = Cardinality(Held(disk))
<1>0. Sound(disk) /\ first \in Nat /\ last \in Nat /\ first <= last /\ ItemsPerSegment \in Nat
  BY SoundDisk, DQueAssumption DEF QueueInv, Rest
<1>1. ASSUME NEW p \in Held(disk) PROVE p[1] \in Nat /\ first <= p[1] /\ p[1] <= last
  <2>1. /\ p[1] \in DOMAIN disk /\ p[2] \in disk[p[1]].removed + 1 .. Len(disk[p[1]].added)
    BY <1>0, HeldFacts
  <2>2. disk[p[1]] # NewFile
    <3>1. 0 + 1 .. 0 = {}
      OBVIOUS
    <3> QED BY <2>1, <3>1, FileNew
  <2>3. p[1] \in first..last
    BY <2>1, <2>2 DEF QueueInv, MemorySound
  <2> QED BY <1>0, <2>3
<1>2. PICK A, B, M : /\ A = {p \in Held(disk) : p[1] = first}
                     /\ B = {p \in Held(disk) : p[1] = last}
                     /\ M = {p \in Held(disk) : first < p[1] /\ p[1] < last}
  OBVIOUS
<1>3. IsFiniteSet(A) /\ Cardinality(A) = Len(segs[first].objs)
  BY <1>2, FirstPart
<1>4. CASE first = last
  <2>1. Held(disk) = A
    BY <1>0, <1>1, <1>2, <1>4
  <2> QED BY <1>3, <1>4, <2>1 DEF Size
<1>5. CASE first # last
  <2>1. IsFiniteSet(B) /\ Cardinality(B) = Len(segs[last].objs)
    BY <1>2, <1>5, LastPart
  <2>2. IsFiniteSet(M) /\ Cardinality(M) = (last - first - 1) * ItemsPerSegment
    BY <1>2, <1>5, MiddlePart
  <2>3. Held(disk) = (A \cup M) \cup B /\ A \cap M = {} /\ (A \cup M) \cap B = {}
    <3>1. \A p \in Held(disk) : p \in A \/ p \in M \/ p \in B
      BY <1>0, <1>1, <1>2
    <3>2. \A p : p \in A => p \notin M /\ p \notin B
      BY <1>0, <1>2, <1>5
    <3>3. \A p : p \in M => p \notin B
      BY <1>0, <1>2
    <3>4. A \subseteq Held(disk) /\ B \subseteq Held(disk) /\ M \subseteq Held(disk)
      BY <1>2
    <3> QED BY <3>1, <3>2, <3>3, <3>4
  <2>4. /\ IsFiniteSet(A \cup M) /\ Cardinality(A \cup M) = Cardinality(A) + Cardinality(M)
        /\ Cardinality(A) \in Nat /\ Cardinality(M) \in Nat
    BY <1>3, <2>2, <2>3, Disjoint
  <2>5. /\ Cardinality((A \cup M) \cup B) = Cardinality(A \cup M) + Cardinality(B)
        /\ Cardinality(B) \in Nat
    BY <2>1, <2>3, <2>4, Disjoint
  <2>6. Size = Cardinality(A) + Cardinality(M) + Cardinality(B)
    BY <1>3, <1>5, <2>1, <2>2 DEF Size
  <2> QED BY <2>3, <2>4, <2>5, <2>6
<1> QED BY <1>4, <1>5

\* A drained queue is one unfinished segment, unless something failed.
LEMMA DrainedBytes ==
  ASSUME QueueInv, Counted, Open0, Content = <<>>, hit = {}
  PROVE  bytes <= 3 * (ItemsPerSegment - 1)
<1>0. Sound(disk) /\ status = "open" /\ step = "idle" /\ first \in Nat /\ last \in Nat /\ first <= last
  BY SoundDisk DEF QueueInv, Rest, Open0
<1>1. \A n \in DOMAIN disk : Emptied(disk[n])
  <2> SUFFICES ASSUME NEW n \in DOMAIN disk, ~Emptied(disk[n]) PROVE FALSE
    OBVIOUS
  <2>1. disk[n].removed \in Nat /\ Len(disk[n].added) \in Nat /\ disk[n].removed <= Len(disk[n].added)
    BY <1>0 DEF Sound, SoundFile, File
  <2>2. Len(disk[n].added) \in disk[n].removed + 1 .. Len(disk[n].added)
    BY <2>1 DEF Emptied
  <2>3. <<n, Len(disk[n].added)>> \in Held(disk)
    BY <1>0, <2>2, HeldFacts
  <2> QED BY <1>0, <2>3, ContentsLength DEF Content
<1>2. first \in DOMAIN disk /\ SoundFile(disk[first]) /\ Len(disk[first].added) < ItemsPerSegment
  BY <1>1, NotRetired
<1>3. first = last
  <2> SUFFICES ASSUME first # last PROVE FALSE
    OBVIOUS
  <2>1. last \in DOMAIN disk /\ first < last
    BY <1>0, OpenFacts
  <2>2. Len(disk[first].added) = ItemsPerSegment
    BY <1>2, <2>1 DEF QueueInv, DiskSound
  <2> QED BY <1>2, <2>2, DQueAssumption
<1>4. DOMAIN disk = {first}
  <2>1. last + 1 \notin DOMAIN disk
    BY <1>0 DEF QueueInv, MemorySound
  <2>2. \A n \in DOMAIN disk : n \in first..last
    BY <1>0, <2>1 DEF QueueInv, MemorySound
  <2>3. \A n \in DOMAIN disk : n = first
    BY <1>0, <1>3, <2>2
  <2> QED BY <1>2, <2>3
<1>5. bytes = Cardinality(Units(disk)) /\ disk[first].torn = 0
  <2>1. Cardinality(Units(disk)) = bytes + 0 /\ disk[first].torn = 0
    BY <1>0, <1>2 DEF Counted, Torn
  <2> QED BY <2>1 DEF QueueInv, Rest
<1>6. FileBytes(disk[first]) = 3 * Len(disk[first].added) /\ Len(disk[first].added) \in Nat
  BY <1>1, <1>2, <1>5 DEF FileBytes, Emptied, SoundFile, File
<1>7. Cardinality(Units(disk)) = FileBytes(disk[first])
  <2>1. Units(disk) = {first} \X (1 .. FileBytes(disk[first]))
    BY <1>4 DEF Units
  <2>2. IsFiniteSet({first}) /\ Cardinality({first}) = 1
    BY FS_Singleton
  <2>3. /\ FileBytes(disk[first]) \in Nat
        /\ IsFiniteSet(1 .. FileBytes(disk[first]))
        /\ Cardinality(1 .. FileBytes(disk[first])) = FileBytes(disk[first])
    <3>1. FileBytes(disk[first]) \in Nat
      BY <1>6
    <3> QED BY <3>1, FS_Interval
  <2>4. Cardinality(Units(disk)) = 1 * FileBytes(disk[first])
    BY <2>1, <2>2, <2>3, FS_Product
  <2> QED BY <2>3, <2>4
<1> QED BY <1>2, <1>5, <1>6, <1>7, DQueAssumption

\* Size() and DiskBytes(), which the write batcher compares with its quotas,
\* say what the files hold.
THEOREM CountsAreExact == Spec => []QueueCountsExact
<1>1. QueueInv /\ Counted => QueueCountsExact
  <2> SUFFICES ASSUME QueueInv, Counted, Open0
               PROVE  /\ Size = Len(Content)
                      /\ hit \cap Miscounts = {} => bytes = Cardinality(Units(disk))
                      /\ Content = <<>> /\ hit = {} => bytes <= 3 * (ItemsPerSegment - 1)
    BY DEF QueueCountsExact
  <2>1. Size = Len(Content)
    <3>1. Sound(disk) /\ status = "open"
      BY SoundDisk DEF QueueInv, Open0
    <3> QED BY <3>1, SizeExact, ContentsLength DEF Content
  <2>2. hit \cap Miscounts = {} => bytes = Cardinality(Units(disk))
    <3>1. hit \cap Miscounts = {} => Cardinality(Units(disk)) = bytes + 0
      BY DEF Open0, Counted
    <3> QED BY <3>1 DEF QueueInv, Rest
  <2> QED BY <2>1, <2>2, DrainedBytes
<1>2. Init => Counted
  BY DEF Init, Counted
<1> QED BY <1>1, <1>2, QueueStaysSound, CountedKept, PTL DEF Spec
=============================================================================
