-------------------------------- MODULE DQue --------------------------------
(***************************************************************************)
(* internal/dque: the segment-backed queue on disk behind the write        *)
(* batcher's overflow and the discovery backlog.  A queue is a directory   *)
(* of numbered, append-only segment files; only the first and the last     *)
(* segment are held in memory.  A removal appends a deletion marker, and a *)
(* segment that is full and emptied is unlinked.                           *)
(*                                                                         *)
(* Every public method holds q.mutex, so one operation is under way at a   *)
(* time, but each file-system effect is a step of its own: the process can *)
(* die between any two, and a call to the file system can fail (Faults).   *)
(*                                                                         *)
(* The queue is modelled with turbo on, as both callers leave it           *)
(* (writebatcher/dque.go:67, server/discovery_dque.go:45): _sync never     *)
(* fails and a crash is the death of the process, not of the machine.      *)
(***************************************************************************)
EXTENDS Integers, Sequences, FiniteSets, FiniteSetsExt

CONSTANTS Item,              \* values; each is enqueued at most once
          ItemsPerSegment,   \* q.config.ItemsPerSegment
          Consumer,          \* goroutines inside DequeueBlock
          Faults,            \* the file-system calls that may fail
          MaxFaults,         \* bound: failures per opening of the queue
          MaxCrashes         \* bound: deaths of the process

FaultKinds == {"write", "short", "create", "close", "unlink", "open", "list", "stat"}

ASSUME DQueAssumption ==
    /\ ItemsPerSegment \in Nat \ {0}
    /\ Faults \subseteq FaultKinds
    /\ MaxFaults \in Nat /\ MaxCrashes \in Nat

VARIABLES disk,      \* segment number -> its file
          status,    \* "open", "loading" (in NewOrOpen), or "down": neither
          segs,      \* segment number -> qSegment, for the first and the last
          first,     \* q.firstSegment.number, and minNum while loading
          last,      \* q.lastSegment.number, and maxNum while loading
          bytes,     \* q.cachedDiskBytes
          step,      \* where the operation that holds q.mutex stands
          adding,    \* the item an Enqueue is writing, as a set of at most one
          waiting,   \* consumers parked on q.emptyCond
          \* History and bounds, no part of the code:
          taken,     \* items removed so far, in order
          used,      \* items some Enqueue was called with
          hit,       \* kinds of failure since the queue was opened
          crashes    \* deaths so far

mem  == <<segs, first, last, bytes>>
hist == <<taken, used, crashes>>
vars == <<disk, status, segs, first, last, bytes, step, adding, waiting,
          taken, used, hit, crashes>>

-----------------------------------------------------------------------------
(* Segment files: the items added, the deletion markers, each of which cancels
   the oldest item left, and the length prefixes that got no body. *)

NewFile == [added |-> <<>>, removed |-> 0, torn |-> 0]
Live(f) == SubSeq(f.added, f.removed + 1, Len(f.added))

\* A prefix without its body, or a marker with nothing to cancel.
Corrupt(f) == f.torn > 0 \/ f.removed > Len(f.added)

\* A prefix or a marker is one unit of the file, an item's body another.
FileBytes(f) == 2 * Len(f.added) + f.removed + f.torn

\* What a call to write leaves behind: a prefix, its body, a marker.
Begun(f)    == [f EXCEPT !.torn = @ + 1]
Ended(f, x) == [added |-> Append(f.added, x), removed |-> f.removed, torn |-> f.torn - 1]
Marked(f)   == [f EXCEPT !.removed = @ + 1]

Without(fn, keys) == [n \in DOMAIN fn \ keys |-> fn[n]]
Only(fn, keys) == [n \in DOMAIN fn \cap keys |-> fn[n]]
With(fn, n, v) == [m \in DOMAIN fn \cup {n} |-> IF m = n THEN v ELSE fn[m]]
Nothing == [n \in {} |-> NewFile]

Empty == [objs |-> <<>>, removed |-> 0, good |-> TRUE]
\* Faulty variant: deletion markers are counted but not applied.
LoadSegmentMarkersIgnored(f) ==
    [objs |-> f.added, removed |-> f.removed, good |-> TRUE]

LoadSegment(f) == [objs |-> Live(f), removed |-> f.removed, good |-> TRUE]
SizeOnDisk(s) == Len(s.objs) + s.removed
Full(s) == SizeOnDisk(s) >= ItemsPerSegment

Lowest(d)  == Min(DOMAIN d)
Highest(d) == Max(DOMAIN d)

\* Where the items not yet removed stand, by file and place in the file, and
\* what the files hold in that order: what the queue stands for.
Held(d) == UNION {{n} \X (d[n].removed + 1 .. Len(d[n].added)) : n \in DOMAIN d}
UpTo(p, places) == {q \in places : q[1] < p[1] \/ (q[1] = p[1] /\ q[2] <= p[2])}
Contents(d) ==
    LET places == Held(d)
    IN  [i \in 1 .. Cardinality(places) |->
           LET p == CHOOSE p \in places : Cardinality(UpTo(p, places)) = i
           IN  d[p[1]].added[p[2]]]
Content == Contents(disk)

\* The bytes of a set of files, one by one.
Units(d) == UNION {{n} \X (1 .. FileBytes(d[n])) : n \in DOMAIN d}

-----------------------------------------------------------------------------
Open0 == status = "open" /\ step = "idle"
MayFail(kind) == kind \in Faults /\ Cardinality(hit) < MaxFaults
Fails(kind) == MayFail(kind) /\ hit' = hit \cup {kind}

\* The cached total follows one file from the sizes before and after a write:
\* sizeOfFile takes a file it cannot stat for empty.
Recount(old, new) ==
    \/ bytes' = bytes + new - old /\ UNCHANGED hit
    \/ Fails("stat") /\ bytes' \in {bytes, bytes + new, bytes - old}

Init == /\ disk = Nothing /\ status = "down"
        /\ segs = Nothing /\ first = 0 /\ last = 0 /\ bytes = 0
        /\ step = "idle" /\ adding = {} /\ waiting = {}
        /\ taken = <<>> /\ used = {} /\ hit = {} /\ crashes = 0

-----------------------------------------------------------------------------
(* NewOrOpen, load. *)

\* The lowest and the highest number in the directory.
LoadBegins ==
    /\ status = "down" /\ status' = "loading" /\ hit' = {}
    /\ IF DOMAIN disk = {} THEN first' = 1 /\ last' = 0
       ELSE first' = Lowest(disk) /\ last' = Highest(disk)
    /\ UNCHANGED <<disk, segs, bytes, step, adding, waiting, hist>>

\* openQueueSegment finds a file that parses.
Loadable(n) == n \in DOMAIN disk /\ ~Corrupt(disk[n])
Skippable(f) == f.removed = Len(f.added) /\ Full(LoadSegment(f))

\* load unlinks leading segments that are complete and empty.
LoadSkips ==
    /\ status = "loading" /\ Loadable(first) /\ Skippable(disk[first])
    /\ disk' = Without(disk, {first}) /\ first' = first + 1
    /\ UNCHANGED <<status, segs, last, bytes, step, adding, waiting, hit, hist>>

\* No segment is left. The total is 0 whether it could be read or not.
OpenNew ==
    /\ status = "loading" /\ first > last
    /\ disk' = With(disk, 1, NewFile)
    /\ segs' = With(Nothing, 1, Empty) /\ first' = 1 /\ last' = 1
    /\ bytes' = 0 /\ status' = "open"
    /\ UNCHANGED <<step, adding, waiting, hit, hist>>

Loads ==
    /\ status = "loading" /\ Loadable(first) /\ ~Skippable(disk[first]) /\ Loadable(last)
    /\ segs' = [n \in {first, last} |-> LoadSegment(disk[n])]
    /\ status' = "open"
    /\ UNCHANGED <<disk, first, last, step, adding, waiting, hist>>

\* initQueue adds up the files for the cached total. What cannot be listed, the
\* directory or one of its files, is left out of it, and the queue opens.
OpenExisting == Loads /\ bytes' = Cardinality(Units(disk)) /\ UNCHANGED hit
OpenUnseeded ==
    /\ Loads /\ Fails("list")
    /\ \E seen \in SUBSET DOMAIN disk : bytes' = Cardinality(Units(Only(disk, seen)))

\* A gap in the numbering, or a file that does not parse, makes load fail; so
\* does any of its calls. What it has unlinked is gone.
LoadBlocked ==
    /\ status = "loading" /\ first <= last
    /\ \/ ~Loadable(first)
       \/ ~Skippable(disk[first]) /\ ~Loadable(last)
LoadFails ==
    /\ status = "loading"
    /\ LoadBlocked \/ \E kind \in {"list", "open", "unlink", "create"} : MayFail(kind)
    /\ status' = "down" /\ first' = 0 /\ last' = 0
    /\ UNCHANGED <<disk, segs, bytes, step, adding, waiting, hit, hist>>

\* Close drops both segments and wakes every parked consumer.
Close ==
    /\ Open0 /\ status' = "down"
    /\ segs' = Nothing /\ first' = 0 /\ last' = 0 /\ bytes' = 0 /\ waiting' = {}
    /\ UNCHANGED <<disk, step, adding, hit, hist>>

Crash ==
    /\ status # "down" /\ crashes < MaxCrashes
    /\ status' = "down" /\ crashes' = crashes + 1
    /\ segs' = Nothing /\ first' = 0 /\ last' = 0 /\ bytes' = 0
    /\ step' = "idle" /\ adding' = {} /\ waiting' = {}
    /\ UNCHANGED <<disk, taken, used, hit>>

-----------------------------------------------------------------------------
(* Enqueue. *)

EnqueueToRoom(x) ==
    /\ Open0 /\ x \notin used /\ ~Full(segs[last])
    /\ step' = "len" /\ adding' = {x} /\ used' = used \cup {x}
    /\ UNCHANGED <<disk, status, mem, waiting, taken, hit, crashes>>

\* Faulty variant: a number is skipped.
EnqueueRolloverSkips(x) ==
    /\ Open0 /\ x \notin used /\ Full(segs[last])
    /\ disk' = With(disk, last + 2, NewFile)
    /\ segs' = With(Only(segs, {first}), last + 2, Empty)
    /\ last' = last + 2
    /\ step' = "len" /\ adding' = {x} /\ used' = used \cup {x}
    /\ UNCHANGED <<status, first, bytes, waiting, taken, hit, crashes>>

\* The last segment is full: create the next, close the old one unless it is
\* also the first, and go on with the new one.
EnqueueRollover(x) ==
    /\ Open0 /\ x \notin used /\ Full(segs[last])
    /\ last + 1 \notin DOMAIN disk
    /\ disk' = With(disk, last + 1, NewFile)
    /\ segs' = With(Only(segs, {first}), last + 1, Empty)
    /\ last' = last + 1
    /\ step' = "len" /\ adding' = {x} /\ used' = used \cup {x}
    /\ UNCHANGED <<status, first, bytes, waiting, taken, hit, crashes>>

\* newQueueSegment fails: on purpose if the file is already there.
EnqueueCreateFails(x) ==
    /\ Open0 /\ x \notin used /\ Full(segs[last])
    /\ \/ last + 1 \in DOMAIN disk /\ UNCHANGED hit
       \/ Fails("create")
    /\ used' = used \cup {x}
    /\ UNCHANGED <<disk, status, mem, step, adding, waiting, taken, crashes>>

\* The new file exists, but q.lastSegment is still the old one, its handle bad.
EnqueueCloseFails(x) ==
    /\ Open0 /\ x \notin used /\ Full(segs[last]) /\ first # last
    /\ last + 1 \notin DOMAIN disk /\ Fails("close")
    /\ disk' = With(disk, last + 1, NewFile)
    /\ segs' = [segs EXCEPT ![last].good = FALSE]
    /\ used' = used \cup {x}
    /\ UNCHANGED <<status, first, last, bytes, step, adding, waiting, taken, crashes>>

\* segment.add writes the length, then the body, as two calls.
AddLen ==
    /\ step = "len"
    /\ disk' = [disk EXCEPT ![last] = Begun(@)]
    /\ step' = "body"
    /\ UNCHANGED <<status, mem, adding, waiting, hit, hist>>

AddLenFails ==
    /\ step = "len" /\ Fails("write")
    /\ step' = "idle" /\ adding' = {}
    /\ UNCHANGED <<disk, status, mem, waiting, hist>>

\* Faulty variant: Signal where the code broadcasts.
AddBodySignals ==
    /\ step = "body"
    /\ \E x \in adding :
         /\ disk' = [disk EXCEPT ![last] = Ended(@, x)]
         /\ segs' = [segs EXCEPT ![last].objs = Append(@, x)]
    /\ Recount(FileBytes(disk[last]) - 1, FileBytes(disk'[last]))
    /\ \/ waiting = {} /\ waiting' = {}
       \/ \E c \in waiting : waiting' = waiting \ {c}
    /\ step' = "idle" /\ adding' = {}
    /\ UNCHANGED <<status, first, last, hist>>

\* Success: one more object in memory, the cached total grown, waiters woken.
AddBody ==
    /\ step = "body"
    /\ \E x \in adding :
         /\ disk' = [disk EXCEPT ![last] = Ended(@, x)]
         /\ segs' = [segs EXCEPT ![last].objs = Append(@, x)]
    /\ Recount(FileBytes(disk[last]) - 1, FileBytes(disk'[last]))
    /\ waiting' = {} /\ step' = "idle" /\ adding' = {}
    /\ UNCHANGED <<status, first, last, hist>>

AddBodyFails ==
    /\ step = "body" /\ Fails("short")
    /\ step' = "idle" /\ adding' = {}
    /\ UNCHANGED <<disk, status, mem, waiting, hist>>

-----------------------------------------------------------------------------
(* Dequeue and DequeueBlock. *)

\* ErrEmpty: the first segment holds no object in memory.
FirstIsEmpty == segs[first].objs = <<>>

\* Faulty variant: the marker goes to the segment being appended to.
RemoveHeadMarksLast ==
    /\ Open0 /\ ~FirstIsEmpty /\ segs[first].good
    /\ disk' = [disk EXCEPT ![last] = Marked(@)]
    /\ segs' = [segs EXCEPT ![first].objs = Tail(@), ![first].removed = @ + 1]
    /\ Recount(FileBytes(disk[first]), FileBytes(disk'[first]))
    /\ taken' = Append(taken, Head(segs[first].objs))
    /\ step' = IF segs'[first].objs = <<>> /\ Full(segs'[first])
                  THEN "unlink" ELSE "idle"
    /\ UNCHANGED <<status, first, last, adding, waiting, used, crashes>>

\* segment.remove, then the decision to retire the segment.
RemoveHead ==
    /\ Open0 /\ ~FirstIsEmpty /\ segs[first].good
    /\ disk' = [disk EXCEPT ![first] = Marked(@)]
    /\ segs' = [segs EXCEPT ![first].objs = Tail(@), ![first].removed = @ + 1]
    /\ Recount(FileBytes(disk[first]), FileBytes(disk'[first]))
    /\ taken' = Append(taken, Head(segs[first].objs))
    /\ step' = IF segs'[first].objs = <<>> /\ Full(segs'[first])
                  THEN "unlink" ELSE "idle"
    /\ UNCHANGED <<status, first, last, adding, waiting, used, crashes>>

RemoveFails ==
    /\ Open0 /\ ~FirstIsEmpty
    /\ \/ ~segs[first].good /\ UNCHANGED hit
       \/ Fails("write")
    /\ UNCHANGED <<disk, status, mem, step, adding, waiting, hist>>

\* segment.delete of the emptied first segment.
Unlink ==
    /\ step = "unlink"
    /\ disk' = Without(disk, {first})
    /\ \/ bytes' = bytes - FileBytes(disk[first]) /\ UNCHANGED hit
       \/ Fails("stat") /\ UNCHANGED bytes
    /\ segs' = [segs EXCEPT ![first].good = FALSE]
    /\ step' = "advance"
    /\ UNCHANGED <<status, first, last, adding, waiting, hist>>

UnlinkFails ==
    /\ step = "unlink" /\ Fails("unlink")
    /\ segs' = [segs EXCEPT ![first].good = FALSE]
    /\ step' = "idle"
    /\ UNCHANGED <<disk, status, first, last, bytes, adding, waiting, hist>>

\* The only segment is gone: start an empty one.
AdvanceToNew ==
    /\ step = "advance" /\ first = last /\ first + 1 \notin DOMAIN disk
    /\ disk' = With(disk, first + 1, NewFile)
    /\ segs' = With(Nothing, first + 1, Empty)
    /\ first' = first + 1 /\ last' = first + 1 /\ step' = "idle"
    /\ UNCHANGED <<status, bytes, adding, waiting, hit, hist>>

\* Faulty variant: the retired segment is still the first one.
AdvanceToLastKeeps ==
    /\ step = "advance" /\ first + 1 = last
    /\ first' = last /\ step' = "idle"
    /\ UNCHANGED <<disk, status, segs, last, bytes, adding, waiting, hit, hist>>

\* Two segments become one that both names share.
AdvanceToLast ==
    /\ step = "advance" /\ first + 1 = last
    /\ segs' = Only(segs, {last}) /\ first' = last /\ step' = "idle"
    /\ UNCHANGED <<disk, status, last, bytes, adding, waiting, hit, hist>>

\* Faulty variant: straight to the last segment, over those between.
AdvanceToNextSkips ==
    /\ step = "advance" /\ first + 1 < last
    /\ segs' = Only(segs, {last}) /\ first' = last /\ step' = "idle"
    /\ UNCHANGED <<disk, status, last, bytes, adding, waiting, hit, hist>>

\* openQueueSegment loads the next segment from its file.
AdvanceToNext ==
    /\ step = "advance" /\ first + 1 < last
    /\ first + 1 \in DOMAIN disk /\ ~Corrupt(disk[first + 1])
    /\ segs' = With(Only(segs, {last}), first + 1, LoadSegment(disk[first + 1]))
    /\ first' = first + 1 /\ step' = "idle"
    /\ UNCHANGED <<disk, status, last, bytes, adding, waiting, hit, hist>>

\* The next segment cannot be made or opened: q.firstSegment stays the deleted
\* one, and the object goes back to the caller together with an error.
AdvanceFails ==
    /\ step = "advance"
    /\ \/ first = last /\ Fails("create")
       \/ first = last /\ first + 1 \in DOMAIN disk /\ hit' = hit \cup {"create"}
       \/ first + 1 < last /\ Fails("open")
       \/ first + 1 < last /\ ~Loadable(first + 1) /\ hit' = hit \cup {"open"}
    /\ step' = "idle"
    /\ UNCHANGED <<disk, status, mem, adding, waiting, hist>>

\* DequeueBlock parks on emptyCond, which releases q.mutex.
Park(c) ==
    /\ Open0 /\ FirstIsEmpty /\ c \notin waiting
    /\ waiting' = waiting \cup {c}
    /\ UNCHANGED <<disk, status, mem, step, adding, hit, hist>>

-----------------------------------------------------------------------------
Enqueue(x) == \/ EnqueueToRoom(x) \/ EnqueueRollover(x)
              \/ EnqueueCreateFails(x) \/ EnqueueCloseFails(x)

Add == AddLen \/ AddLenFails \/ AddBody \/ AddBodyFails

Dequeue == \/ RemoveHead \/ RemoveFails \/ Unlink \/ UnlinkFails
           \/ AdvanceToNew \/ AdvanceToLast \/ AdvanceToNext \/ AdvanceFails

Open == LoadBegins \/ LoadSkips \/ OpenNew \/ OpenExisting \/ OpenUnseeded \/ LoadFails

Next == \/ Open \/ Close \/ Crash
        \/ \E x \in Item : Enqueue(x)
        \/ Add \/ Dequeue
        \/ \E c \in Consumer : Park(c)

Spec == Init /\ [][Next]_vars

-----------------------------------------------------------------------------
(* Properties. *)

File == [added : Seq(Item), removed : Nat, torn : Nat]
Segment == [objs : Seq(Item), removed : Nat, good : BOOLEAN]

\* Every variable keeps its type; the two segments in memory are the first
\* and the last.
TypeOK ==
    /\ \A n \in DOMAIN disk : n \in Nat /\ disk[n] \in File
    /\ status \in {"open", "loading", "down"}
    /\ DOMAIN segs = IF status = "open" THEN {first, last} ELSE {}
    /\ \A n \in DOMAIN segs : segs[n] \in Segment
    /\ first \in Nat /\ last \in Nat /\ bytes \in Int
    /\ first <= last \/ (status = "loading" /\ first = last + 1)
    /\ step \in {"idle", "len", "body", "unlink", "advance"}
    /\ adding \subseteq Item /\ waiting \subseteq Consumer
    /\ taken \in Seq(Item) /\ used \subseteq Item /\ hit \subseteq FaultKinds
    /\ crashes \in 0..MaxCrashes

\* The queue implements a first-in first-out sequence that crashes, reopening
\* and every modelled failure leave intact: load, rollover, retirement and the
\* error paths of Enqueue and Dequeue never lose, repeat or reorder a record.
Fifo == INSTANCE DurableFifo WITH content <- Content
ImplementsFifo == Fifo!FifoSpec

\* q.Size() (sizeUnsafeLocked): it trusts that the segments it does not look
\* at hold ItemsPerSegment items each.
Size == IF first = last THEN Len(segs[first].objs)
        ELSE Len(segs[first].objs) + (last - first - 1) * ItemsPerSegment
             + Len(segs[last].objs)

\* Between operations, over rollovers, reopening and failures, Size() is what
\* the files hold; DiskBytes() is their bytes, unless since the queue was opened
\* a body write failed (a path that returns before the cached total is updated),
\* the directory could not be listed for the first total, or a file could not be
\* statted for the next; and an empty queue keeps one unfinished segment at most,
\* so that a disk quota above that size cannot stay exceeded once the backlog is
\* drained.
Miscounts == {"short", "list", "stat"}
QueueCountsExact ==
    Open0 =>
        /\ Size = Len(Content)
        /\ hit \cap Miscounts = {} =>
              bytes = Cardinality(Units(disk))
        /\ Content = <<>> /\ hit = {} => bytes <= 3 * (ItemsPerSegment - 1)

\* ErrEmpty only when empty, and the object removed next is the oldest one on
\* disk, unless retiring or opening a segment failed since the queue was opened.
ServesTheOldest ==
    Open0 /\ Content # <<>> /\ hit \cap {"create", "unlink", "open"} = {}
        => ~FirstIsEmpty /\ Head(segs[first].objs) = Head(Content)

\* A parked DequeueBlock is never left asleep beside an object it could take.
NoLostWakeup == Open0 /\ waiting # {} => FirstIsEmpty

\* load comes to its end after any crash or close, its own included, as long as
\* no call of it fails and no file ends in a length without its body.
TornFile == \E n \in DOMAIN disk : disk[n].torn > 0
OnlyTornFilesFail == ~TornFile => ~LoadBlocked

\* docs/ARCHITECTURE.md:374 "Pending overflow writes persist across process
\* restarts and are flushed on the next startup": the queue opens again.
AlwaysReopens == ~LoadBlocked
=============================================================================
