---------------------------- MODULE ParallelWalk ----------------------------
(***************************************************************************)
(* internal/parallelwalkdir: directory workers fed from one channel.  A    *)
(* worker that meets a directory puts it in an unbounded queue; one feeder *)
(* moves it from there to dirCh; a coordinator decides that the walk is    *)
(* over from four facts it reads one after the other: the queue is empty,  *)
(* no worker is processing, the feeder is not feeding, and the WaitGroup   *)
(* pending is at zero.                                                     *)
(*                                                                         *)
(* A path stands for its bytes.  The channels results and errs are drained *)
(* by the caller all the time, so a send is one step; path buffers, their  *)
(* growth, and the arena of reported paths are left out.                   *)
(***************************************************************************)
EXTENDS Integers, FiniteSets, SequencesExt

CONSTANTS Walker,       \* the directory workers
          Root,         \* the directory of the path ParallelWalk is called with
          Entries,      \* Entries[d]: the names in the directory d
          Links,        \* Links[n]: the directory the symlink n leads to
          Canonical,    \* Canonical[d]: the path EvalSymlinks gives d
          RootIsCanonical, \* ParallelWalk is called with a canonical path
          Wanted,       \* files the filter lets through
          Excluded,     \* names the exclude expression matches
          Limits,       \* the values maxReportedFiles may have, 0 for none
          MaxReadErrors \* readDirAll may fail so often

Dirs == DOMAIN Entries

\* A path is the sequence of its names below the root.
Denotes(n) == IF n \in DOMAIN Links THEN Links[n] ELSE n
DirOf(path) == IF path = <<>> THEN Root ELSE Denotes(Last(path))
IsLink(path) == path # <<>> /\ Last(path) \in DOMAIN Links

ASSUME ParallelWalkAssumption ==
    /\ IsFiniteSet(Walker) /\ Walker # {} /\ IsFiniteSet(Dirs)
    /\ Root \in Dirs /\ Range(Links) \subseteq Dirs /\ DOMAIN Canonical = Dirs
    /\ RootIsCanonical \in BOOLEAN
    /\ Limits \subseteq Nat /\ MaxReadErrors \in Nat

VARIABLES dirQueue,   \* the schedule queue, a sequence of directories
          dirCh,      \* len(dirCh) <= dirChCap: never full here
          feeder,     \* where the feeder stands and what it holds
          walkers,    \* where each worker stands, its directory, what is left
          coord,      \* where the coordinator stands
          counts,     \* pending, processing and feeding
          pendingMu,  \* who holds pendingMu
          stopFeeder, \* the flag of that name
          visited,    \* hashes of the paths visited
          linked,     \* paths of symlinks whose directory was listed (history)
          reported,   \* paths sent on results, in order
          limit,      \* maxReportedFiles
          walkDone,   \* w.ctx is done
          readErrors  \* failures of readDirAll so far

walkVars == <<dirQueue, dirCh, feeder, walkers, coord, counts, pendingMu,
              stopFeeder, visited, linked, reported, limit, walkDone, readErrors>>

\* What the directories have yielded so far.
results == <<visited, linked, reported, limit, walkDone, readErrors>>

None == "none"

WalkInit ==
    /\ dirQueue = << <<>> >> /\ dirCh = <<>>
    /\ feeder = [pc |-> "loop", work |-> None]
    /\ walkers = [w \in Walker |-> [pc |-> "idle", work |-> None, todo |-> {}]]
    /\ coord = "test" /\ counts = [pending |-> 0, processing |-> 0, feeding |-> 0]
    /\ pendingMu = None /\ stopFeeder = FALSE
    /\ visited = {} /\ linked = {} /\ reported = <<>>
    /\ limit \in Limits /\ walkDone = FALSE /\ readErrors = 0

-----------------------------------------------------------------------------
(* Helpers: the counters, and the condition the coordinator sleeps on. *)

Bump(f, n) == counts' = [counts EXCEPT ![f] = @ + n]

\* idleBroadcast: a coordinator asleep tests again.
Broadcast == coord' = IF coord = "asleep" THEN "test" ELSE coord

FeederAt(place, work) == feeder' = [pc |-> place, work |-> work]

-----------------------------------------------------------------------------
(* The feeder. *)

\* The test of stopFeeder at the head of the loop, before DequeueWait.
FeederLoops ==
    /\ feeder.pc = "loop"
    /\ FeederAt(IF stopFeeder THEN "exit" ELSE "calls", None)
    /\ UNCHANGED <<dirQueue, dirCh, walkers, coord, counts, pendingMu,
                   stopFeeder, results>>

\* DequeueWait finds the queue empty: it sleeps, or answers ctx.Err().
FeederSleeps ==
    /\ feeder.pc = "calls" /\ dirQueue = <<>>
    /\ FeederAt(IF walkDone THEN "exit" ELSE "asleep", None)
    /\ UNCHANGED <<dirQueue, dirCh, walkers, coord, counts, pendingMu,
                   stopFeeder, results>>

\* DequeueWait takes the head.  Nobody is told before FeederCounts.
FeederTakes ==
    /\ feeder.pc \in {"calls", "asleep"} /\ dirQueue # <<>>
    /\ dirQueue' = Tail(dirQueue)
    /\ FeederAt("took", Head(dirQueue))
    /\ UNCHANGED <<dirCh, walkers, coord, counts, pendingMu, stopFeeder,
                   results>>

\* The AfterFunc of the context wakes a feeder asleep.
FeederCancelled ==
    /\ feeder.pc = "asleep" /\ dirQueue = <<>> /\ walkDone
    /\ FeederAt("exit", None)
    /\ UNCHANGED <<dirQueue, dirCh, walkers, coord, counts, pendingMu,
                   stopFeeder, results>>

FeederCounts ==
    /\ feeder.pc = "took"
    /\ IF stopFeeder
       THEN FeederAt("exit", None) /\ UNCHANGED <<counts, coord>>
       ELSE FeederAt("counted", feeder.work) /\ Bump("feeding", 1) /\ Broadcast
    /\ UNCHANGED <<dirQueue, dirCh, walkers, pendingMu, stopFeeder, results>>

\* pending.Add under pendingMu, which the coordinator holds while it waits.
FeederAdds ==
    /\ feeder.pc = "counted" /\ pendingMu = None
    /\ FeederAt("sends", feeder.work) /\ Bump("pending", 1)
    /\ UNCHANGED <<dirQueue, dirCh, walkers, coord, pendingMu, stopFeeder,
                   results>>

FeederSends ==
    /\ feeder.pc = "sends"
    /\ dirCh' = Append(dirCh, feeder.work)
    /\ FeederAt("loop", None) /\ Bump("feeding", -1) /\ Broadcast
    /\ UNCHANGED <<dirQueue, walkers, pendingMu, stopFeeder, results>>

\* Faulty variant: the directory given up is still counted.
FeederGivesUpCounted ==
    /\ feeder.pc = "sends" /\ walkDone
    /\ FeederAt("exit", None) /\ Broadcast
    /\ counts' = [counts EXCEPT !.feeding = @ - 1]
    /\ UNCHANGED <<dirQueue, dirCh, walkers, pendingMu, stopFeeder, results>>
\* The other arm of that select: the directory is given up.
FeederGivesUp ==
    /\ feeder.pc = "sends" /\ walkDone
    /\ FeederAt("exit", None) /\ Broadcast
    /\ counts' = [counts EXCEPT !.feeding = @ - 1, !.pending = @ - 1]
    /\ UNCHANGED <<dirQueue, dirCh, walkers, pendingMu, stopFeeder, results>>

-----------------------------------------------------------------------------
(* The directory workers. *)

WalkerTakes(w) ==
    /\ walkers[w].pc = "idle" /\ dirCh # <<>>
    /\ walkers' = [walkers EXCEPT ![w] = [pc |-> "got", work |-> Head(dirCh), todo |-> {}]]
    /\ dirCh' = Tail(dirCh)
    /\ UNCHANGED <<dirQueue, feeder, coord, counts, pendingMu, stopFeeder,
                   results>>

\* evalDirRealPath: a plain directory is known by the path it was walked by
\* and is not tested; a symlink is known by its canonical path, and is.
VisitKey(path) == IF IsLink(path) THEN <<TRUE, Canonical[DirOf(path)]>>
                  ELSE <<RootIsCanonical, path>>
\* Faulty variant: links are followed without end.
LoopingIgnored(path) == FALSE
Looping(path) == IsLink(path) /\ VisitKey(path) \in visited

\* processDir up to the list of entries: the context, the loop guard, the
\* exclude expression, and readDirAll, which may fail with an error sent on.
WalkerOpens(w) ==
    /\ walkers[w].pc = "got" /\ Bump("processing", 1)
    /\ LET path == walkers[w].work
           Lists(names) == walkers' = [walkers EXCEPT ![w].pc = "reads", ![w].todo = names]
       IN \/ /\ walkDone \/ Looping(path)
             /\ Lists({}) /\ UNCHANGED <<visited, linked, readErrors>>
          \/ /\ ~walkDone /\ ~Looping(path)
             /\ visited' = visited \cup {VisitKey(path)}
             /\ linked' = IF IsLink(path) THEN linked \cup {path} ELSE linked
             /\ \/ Lists(Entries[DirOf(path)]) /\ UNCHANGED readErrors
                \/ /\ readErrors < MaxReadErrors /\ readErrors' = readErrors + 1
                   /\ Lists({})
    /\ UNCHANGED <<dirQueue, dirCh, feeder, coord, pendingMu, stopFeeder,
                   reported, limit, walkDone>>

\* push: refused once stopFeeder is set.
Push(d) == IF stopFeeder \/ walkDone
           THEN UNCHANGED <<dirQueue, coord>>
           ELSE dirQueue' = Append(dirQueue, d) /\ Broadcast

\* sendReported, with acquireReportSlot; a context that is done drops the
\* file, and the last file of a limited walk cancels the context.
Report(p) ==
    IF limit > 0 /\ Len(reported) >= limit
    THEN walkDone' = TRUE /\ UNCHANGED reported
    ELSE /\ \/ reported' = Append(reported, p)
            \/ walkDone /\ UNCHANGED reported
         /\ walkDone' = (walkDone \/ (limit > 0 /\ Len(reported) + 1 >= limit))

\* One entry of the directory.
WalkerEntry(w) ==
    /\ walkers[w].pc = "reads" /\ walkers[w].todo # {} /\ ~walkDone
    /\ \E n \in walkers[w].todo :
          LET path == Append(walkers[w].work, n) IN
          /\ walkers' = [walkers EXCEPT ![w].todo = @ \ {n}]
          /\ IF n \in Excluded \/ (Denotes(n) \notin Dirs /\ n \notin Wanted)
             THEN UNCHANGED <<dirQueue, coord, reported, walkDone>>
             ELSE IF Denotes(n) \in Dirs
             THEN Push(path) /\ UNCHANGED <<reported, walkDone>>
             ELSE Report(path) /\ UNCHANGED <<dirQueue, coord>>
    /\ UNCHANGED <<dirCh, feeder, counts, pendingMu, stopFeeder, visited, linked,
                   limit, readErrors>>

\* The end of processDir with endProcessing; pending.Done comes after.
WalkerEnds(w) ==
    /\ walkers[w].pc = "reads" /\ (walkers[w].todo = {} \/ walkDone)
    /\ walkers' = [walkers EXCEPT ![w].pc = "counted", ![w].todo = {}]
    /\ Bump("processing", -1) /\ Broadcast
    /\ UNCHANGED <<dirQueue, dirCh, feeder, pendingMu, stopFeeder, results>>

WalkerDone(w) ==
    /\ walkers[w].pc = "counted"
    /\ walkers' = [walkers EXCEPT ![w] = [pc |-> "idle", work |-> None, todo |-> {}]]
    /\ Bump("pending", -1)
    /\ UNCHANGED <<dirQueue, dirCh, feeder, coord, pendingMu, stopFeeder,
                   results>>

-----------------------------------------------------------------------------
(* The coordinator. *)

coordFrame == <<dirCh, walkers, counts, results>>

CoordReads(place, quiet, next, otherwise) ==
    /\ coord = place
    /\ coord' = IF quiet THEN next ELSE otherwise
    /\ UNCHANGED <<coordFrame, dirQueue, feeder, pendingMu, stopFeeder>>
Unless(done, place) == IF walkDone THEN done ELSE place

\* The loop around idleCond.Wait reads three facts in turn.  It holds idleMu
\* from the one that is not as it should be to the sleep, so that the broadcast
\* that tells of its end is not missed.
CoordTests ==
    \/ CoordReads("test", dirQueue = <<>>, "test processing", Unless("drop", "asleep"))
    \/ CoordReads("test processing", counts.processing = 0, "test feeding", Unless("drop", "asleep"))
    \/ CoordReads("test feeding", counts.feeding = 0, Unless("drop", "lock"), Unless("drop", "asleep"))

CoordLocks ==
    /\ coord = "lock" /\ pendingMu = None
    /\ coord' = "pending" /\ pendingMu' = "coord"
    /\ UNCHANGED <<coordFrame, dirQueue, feeder, stopFeeder>>

\* pending.Wait returns.
CoordPending ==
    /\ coord = "pending" /\ counts.pending = 0
    /\ pendingMu' = None /\ coord' = "ask"
    /\ UNCHANGED <<coordFrame, dirQueue, feeder, stopFeeder>>

\* scheduleQuiescent asks the three once more.
CoordAsks ==
    \/ CoordReads("ask", dirQueue = <<>>, "ask processing", Unless("drop", "test"))
    \/ CoordReads("ask processing", counts.processing = 0, "ask feeding", Unless("drop", "test"))
    \/ CoordReads("ask feeding", counts.feeding = 0, Unless("drop", "stop"), Unless("drop", "test"))

\* dropQueued, for a walk whose context is done.
CoordDrops ==
    /\ coord = "drop"
    /\ dirQueue' = <<>> /\ coord' = "stop"
    /\ UNCHANGED <<coordFrame, feeder, pendingMu, stopFeeder>>

\* stopFeederNow; BroadcastWaiters reaches a feeder that is asleep, and only
\* such a one: DequeueWait takes the epoch when it goes to sleep.
CoordStops ==
    /\ coord = "stop"
    /\ stopFeeder' = TRUE /\ coord' = "join"
    /\ feeder' = IF feeder.pc = "asleep" THEN [pc |-> "loop", work |-> None] ELSE feeder
    /\ UNCHANGED <<coordFrame, dirQueue, pendingMu>>

\* Faulty variant: the feeder is not waited for.
CoordClosesEarly ==
    /\ coord = "join" /\ counts.pending = 0
    /\ coord' = "closed"
    /\ UNCHANGED <<coordFrame, dirQueue, feeder, pendingMu, stopFeeder>>
\* feederWg.Wait, then pending.Wait, close(dirCh), workerWg.Wait and the close
\* of both channels: nothing comes between that any step could see.
CoordCloses ==
    /\ coord = "join" /\ feeder.pc = "exit" /\ counts.pending = 0
    /\ coord' = "closed"
    /\ UNCHANGED <<coordFrame, dirQueue, feeder, pendingMu, stopFeeder>>

\* The caller's context is cancelled: shutdown, or an enqueue that failed.
WalkCancelled ==
    /\ coord # "closed" /\ ~walkDone /\ walkDone' = TRUE
    /\ UNCHANGED <<dirQueue, dirCh, feeder, walkers, coord, counts, pendingMu,
                   stopFeeder, visited, linked, reported, limit, readErrors>>

\* The walk is over, or it hangs: the feeder passed the test of stopFeeder
\* before it was set and went to sleep after BroadcastWaiters.
WalkHangs == coord = "join" /\ feeder.pc = "asleep" /\ ~walkDone
WalkRests == (coord = "closed" \/ WalkHangs) /\ UNCHANGED walkVars

FeederNext == \/ FeederLoops \/ FeederSleeps \/ FeederTakes \/ FeederCancelled
              \/ FeederCounts \/ FeederAdds \/ FeederSends \/ FeederGivesUp
WalkerNext(w) == \/ WalkerTakes(w) \/ WalkerOpens(w) \/ WalkerEntry(w)
                 \/ WalkerEnds(w) \/ WalkerDone(w)
CoordNext == \/ CoordTests \/ CoordLocks \/ CoordPending \/ CoordAsks
             \/ CoordDrops \/ CoordStops \/ CoordCloses

WalkNext == \/ FeederNext \/ CoordNext \/ WalkCancelled \/ WalkRests
            \/ \E w \in Walker : WalkerNext(w)

WalkSpec == WalkInit /\ [][WalkNext]_walkVars

-----------------------------------------------------------------------------
WalkTypeOK ==
    /\ \A path \in Range(dirQueue) \cup Range(dirCh) : DirOf(path) \in Dirs
    /\ feeder.pc \in {"loop", "calls", "asleep", "took", "counted", "sends", "exit"}
    /\ \A w \in Walker : walkers[w].pc \in {"idle", "got", "reads", "counted"}
    /\ coord \in {"test", "test processing", "test feeding", "asleep", "lock", "pending",
                  "ask", "ask processing", "ask feeding", "drop", "stop", "join", "closed"}
    /\ counts.pending \in Nat /\ counts.processing \in Nat /\ counts.feeding \in 0..1

(* When the channels close, no directory is still on its way: the feeder   *)
(* has left, dirCh is empty and no worker holds a directory, so no one can *)
(* send on a closed channel (the deferred tail of ParallelWalk).           *)
ClosedMeansQuiet ==
    coord = "closed" => /\ feeder.pc = "exit" /\ dirCh = <<>>
                        /\ \A w \in Walker : walkers[w].pc = "idle"

(* No directory is listed through symlinks twice, so that a loop of links   *)
(* ends even when the walk began at a path that is not canonical, and a     *)
(* limited walk reports no more than its limit, however workers interleave  *)
(* (visited in processDir, acquireReportSlot).                              *)
LinksListedOnce ==
    /\ \A p, q \in linked : DirOf(p) = DirOf(q) => p = q
    /\ limit > 0 => Len(reported) <= limit

(* A walk lists no directory twice through links, keeps its limit, and     *)
(* closes its channels when nobody can send on them (processDir, the tail  *)
(* of ParallelWalk).                                                       *)
WalkSafety == ClosedMeansQuiet /\ LinksListedOnce

(* A walk whose context is done ends: nobody sleeps through a cancellation *)
(* (the AfterFunc of DequeueWait, the broadcasts on idleCond, the selects  *)
(* on ctx.Done).                                                           *)
WalkOwes == walkDone /\ coord # "closed"
CancelEndsWalk == WalkOwes ~> ~WalkOwes

(* "The coordinator waits ... until the schedule queue is empty and        *)
(* processing and feeding atomics are zero, then pending.Wait": a walk     *)
(* that was not cut short has reported every wanted file.                  *)
WalkReportsAll ==
    coord = "closed" /\ ~walkDone /\ readErrors = 0 =>
        \A d \in Dirs : \A n \in Entries[d] \cap Wanted :
            Append(Canonical[d], n) \in Range(reported)
=============================================================================
