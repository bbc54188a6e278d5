--------------------------- MODULE DiscoveryProofs ---------------------------
(***************************************************************************)
(* Discovery, from the walk of the directories to the end of the drain:    *)
(* ParallelWalk first, then the pool of workers that it feeds (Discovery). *)
(* Both decide that work is over by reading counters that other goroutines *)
(* keep, one after the other, so that both arguments begin with what those *)
(* counters count, at every step of every goroutine and for every number   *)
(* of them.  The third part is about the folder index that is rebuilt from *)
(* what discovery found (FolderIndex).                                     *)
(***************************************************************************)
EXTENDS ParallelWalk, Discovery, FolderIndex, FiniteSetTheorems, TLAPS

(* Of a finite set, what one element that joins or leaves does to its size. *)
LEMMA OneMoves ==
  ASSUME NEW S, IsFiniteSet(S), NEW T, NEW w, T \ {w} = S \ {w}
  PROVE  Cardinality(T) = Cardinality(S) + (IF w \in T THEN 1 ELSE 0) - (IF w \in S THEN 1 ELSE 0)
<1>1. Cardinality(S) \in Nat BY FS_CardinalityType
<1>2. /\ w \notin S => Cardinality(S \cup {w}) = Cardinality(S) + 1
      /\ w \in S => Cardinality(S \ {w}) = Cardinality(S) - 1
  BY FS_AddElement, FS_RemoveElement
<1>3. CASE w \in S /\ w \in T
  <2>1. T = S BY <1>3
  <2> QED BY <1>1, <1>3, <2>1
<1>4. CASE w \notin S /\ w \in T
  <2>1. T = S \cup {w} BY <1>4
  <2> QED BY <1>1, <1>2, <1>4, <2>1
<1>5. CASE w \in S /\ w \notin T
  <2>1. T = S \ {w} BY <1>5
  <2> QED BY <1>1, <1>2, <1>5, <2>1
<1>6. CASE w \notin S /\ w \notin T
  <2>1. T = S BY <1>6
  <2> QED BY <1>1, <1>6, <2>1
<1> QED BY <1>3, <1>4, <1>5, <1>6

-----------------------------------------------------------------------------
(* The walk: the inductive invariant.                                      *)

(* Names, the paths of directories, and the places of a worker that holds  *)
(* one.                                                                    *)
Name == UNION {Entries[d] : d \in Dirs}
Path == {path \in Seq(Name) : DirOf(path) \in Dirs}
BusyPlaces == {"got", "reads", "counted"}

(* The coordinator: tests, what comes between, and questions.              *)
CoordPlaces == {"test", "test processing", "test feeding", "asleep", "lock", "pending",
                "ask", "ask processing", "ask feeding", "drop", "stop", "join", "closed"}

WalkTypes ==
  /\ dirQueue \in Seq(Path) /\ dirCh \in Seq(Path)
  /\ feeder \in [pc : {"loop", "calls", "asleep", "took", "counted", "sends", "exit"},
                 work : Path \cup {None}]
  /\ feeder.pc \in {"took", "counted", "sends"} => feeder.work \in Path
  /\ walkers \in [Walker -> [pc : {"idle"} \cup BusyPlaces, work : Path \cup {None}, todo : SUBSET Name]]
  /\ \A w \in Walker : walkers[w].pc \in BusyPlaces => walkers[w].work \in Path
  /\ coord \in CoordPlaces
  /\ counts \in [pending : Int, processing : Int, feeding : Int]
  /\ reported \in Seq(Seq(Name)) /\ limit \in Nat

(* pending, processing and feeding count what they are named for.         *)
WalkersAt(places) == {w \in Walker : walkers[w].pc \in places}
CountsAreExact ==
  /\ counts.pending = Len(dirCh) + Cardinality(WalkersAt(BusyPlaces))
                        + (IF feeder.pc = "sends" THEN 1 ELSE 0)
  /\ counts.processing = Cardinality(WalkersAt({"reads"}))
  /\ counts.feeding = (IF feeder.pc \in {"counted", "sends"} THEN 1 ELSE 0)

(* The channels are closed on a walk that is over.                         *)
ClosedIsOver == coord = "closed" => feeder.pc = "exit" /\ counts.pending = 0

(* A link that was listed is a directory that was visited.                *)
LinksAreVisited ==
  /\ \A p \in linked : IsLink(p) /\ VisitKey(p) \in visited
  /\ LinksListedOnce

WalkInv == WalkTypes /\ CountsAreExact /\ ClosedIsOver /\ LinksAreVisited

(* A queue of paths after an addition and a removal.                       *)
LEMMA QueueOfPaths ==
  ASSUME NEW T, NEW s \in Seq(T)
  PROVE  /\ \A e \in T : Append(s, e) \in Seq(T) /\ Len(Append(s, e)) = Len(s) + 1
         /\ s # <<>> => Head(s) \in T /\ Tail(s) \in Seq(T) /\ Len(Tail(s)) = Len(s) - 1 /\ Len(s) > 0
OBVIOUS

(* An entry that denotes a directory extends the path of one.              *)
LEMMA PathGrows ==
  ASSUME NEW path \in Path, NEW n \in Name
  PROVE  /\ Append(path, n) \in Seq(Name)
         /\ Denotes(n) \in Dirs => Append(path, n) \in Path
<1>1. path \in Seq(Name) BY DEF Path
<1>2. Append(path, n) \in Seq(Name) /\ Append(path, n) # <<>> /\ Last(Append(path, n)) = n
  BY <1>1 DEF Last
<1> QED BY <1>2 DEF Path, DirOf

-----------------------------------------------------------------------------
(* Types.                                                                  *)
(* A step of the feeder keeps the types.                                   *)
LEMMA TypesOfFeeder ==
  ASSUME WalkTypes, FeederNext
  PROVE  WalkTypes'
<1>0. /\ dirQueue \in Seq(Path) /\ dirCh \in Seq(Path)
      /\ counts \in [pending : Int, processing : Int, feeding : Int]
  BY DEF WalkTypes
<1>1. counts' \in [pending : Int, processing : Int, feeding : Int]
  <2>1. CASE FeederGivesUp
    <3>1. counts.feeding - 1 \in Int /\ counts.pending - 1 \in Int BY <1>0
    <3> QED BY <1>0, <2>1, <3>1 DEF FeederGivesUp
  <2> QED
    BY <1>0, <2>1
    DEF FeederNext, FeederLoops, FeederSleeps, FeederTakes, FeederCancelled, FeederCounts, FeederAdds,
        FeederSends, Bump
<1>2. coord' \in CoordPlaces
  BY DEF FeederNext, FeederLoops, FeederSleeps, FeederTakes, FeederCancelled, FeederCounts, FeederAdds,
         FeederSends, FeederGivesUp, Broadcast, WalkTypes, CoordPlaces
<1>3. UNCHANGED <<walkers, reported, limit>>
  BY DEF FeederNext, FeederLoops, FeederSleeps, FeederTakes, FeederCancelled, FeederCounts, FeederAdds,
         FeederSends, FeederGivesUp, results
<1>4. dirQueue' \in Seq(Path)
  <2>1. FeederTakes => dirQueue' \in Seq(Path) BY <1>0, QueueOfPaths DEF FeederTakes
  <2> QED
    BY <1>0, <2>1
    DEF FeederNext, FeederLoops, FeederSleeps, FeederCancelled, FeederCounts, FeederAdds,
        FeederSends, FeederGivesUp
<1>5. dirCh' \in Seq(Path)
  <2>1. FeederSends => dirCh' \in Seq(Path) BY <1>0, QueueOfPaths DEF FeederSends, WalkTypes
  <2> QED
    BY <1>0, <2>1
    DEF FeederNext, FeederLoops, FeederSleeps, FeederTakes, FeederCancelled, FeederCounts, FeederAdds,
        FeederGivesUp
<1>6. /\ feeder' \in [pc : {"loop", "calls", "asleep", "took", "counted", "sends", "exit"},
                      work : Path \cup {None}]
      /\ feeder'.pc \in {"took", "counted", "sends"} => feeder'.work \in Path
  <2>1. CASE FeederTakes
    <3>1. Head(dirQueue) \in Path BY <1>0, <2>1, QueueOfPaths DEF FeederTakes
    <3> QED BY <2>1, <3>1 DEF FeederTakes, FeederAt
  <2>2. CASE FeederLoops \/ FeederSleeps \/ FeederCancelled \/ FeederSends \/ FeederGivesUp
    BY <2>2 DEF FeederLoops, FeederSleeps, FeederCancelled, FeederSends, FeederGivesUp, FeederAt
  <2>3. CASE FeederCounts \/ FeederAdds
    BY <2>3 DEF FeederCounts, FeederAdds, FeederAt, WalkTypes
  <2> QED BY <2>1, <2>2, <2>3 DEF FeederNext
<1> QED BY <1>1, <1>2, <1>3, <1>4, <1>5, <1>6 DEF WalkTypes

(* The same, of a worker: an entry it puts in the queue is the path of a   *)
(* directory.                                                              *)
LEMMA TypesOfWalker ==
  ASSUME WalkTypes, NEW w \in Walker, WalkerNext(w)
  PROVE  WalkTypes'
<1> DEFINE WalkerState == [pc : {"idle"} \cup BusyPlaces, work : Path \cup {None}, todo : SUBSET Name]
<1>0. /\ dirQueue \in Seq(Path) /\ dirCh \in Seq(Path) /\ reported \in Seq(Seq(Name))
      /\ counts \in [pending : Int, processing : Int, feeding : Int]
      /\ walkers \in [Walker -> WalkerState]
      /\ walkers[w].pc \in BusyPlaces => walkers[w].work \in Path
  BY DEF WalkTypes
<1>1. counts' \in [pending : Int, processing : Int, feeding : Int]
  BY <1>0 DEF WalkerNext, WalkerTakes, WalkerOpens, WalkerEntry, WalkerEnds, WalkerDone, Bump
<1>2. feeder' = feeder /\ limit' = limit
  BY DEF WalkerNext, WalkerTakes, WalkerOpens, WalkerEntry, WalkerEnds, WalkerDone, results
<1>3. coord' \in CoordPlaces
  BY DEF WalkerNext, WalkerTakes, WalkerOpens, WalkerEntry, WalkerEnds, WalkerDone, Broadcast, Push,
         WalkTypes, CoordPlaces
<1>4. dirCh' \in Seq(Path)
  <2>1. WalkerTakes(w) => dirCh' \in Seq(Path) BY <1>0, QueueOfPaths DEF WalkerTakes
  <2> QED BY <1>0, <2>1 DEF WalkerNext, WalkerOpens, WalkerEntry, WalkerEnds, WalkerDone
<1>5. ASSUME NEW s \in WalkerState, s.pc \in BusyPlaces => s.work \in Path,
             walkers' = [walkers EXCEPT ![w] = s]
      PROVE  /\ walkers' \in [Walker -> WalkerState]
             /\ \A v \in Walker : walkers'[v].pc \in BusyPlaces => walkers'[v].work \in Path
  BY <1>0, <1>5 DEF WalkTypes
<1>6. ASSUME dirQueue' \in Seq(Path), reported' \in Seq(Seq(Name)),
             NEW s \in WalkerState, s.pc \in BusyPlaces => s.work \in Path,
             walkers' = [walkers EXCEPT ![w] = s]
      PROVE  WalkTypes'
  BY <1>1, <1>2, <1>3, <1>4, <1>5, <1>6 DEF WalkTypes
<1>7. ASSUME NEW rest \in SUBSET Name, NEW pc \in BusyPlaces, walkers[w].pc \in BusyPlaces,
             walkers' = [walkers EXCEPT ![w].pc = pc, ![w].todo = rest]
      PROVE  /\ [walkers[w] EXCEPT !.pc = pc, !.todo = rest] \in WalkerState
             /\ [walkers[w] EXCEPT !.pc = pc, !.todo = rest].work \in Path
             /\ walkers' = [walkers EXCEPT ![w] = [walkers[w] EXCEPT !.pc = pc, !.todo = rest]]
  BY <1>0, <1>7
<1>8. CASE WalkerTakes(w)
  <2>1. Head(dirCh) \in Path BY <1>0, <1>8, QueueOfPaths DEF WalkerTakes
  <2> QED BY <1>0, <1>6, <1>8, <2>1 DEF WalkerTakes, BusyPlaces, results
<1>9. CASE WalkerOpens(w)
  <2>1. walkers[w].work \in Path /\ walkers[w].pc \in BusyPlaces
    BY <1>0, <1>9 DEF WalkerOpens, BusyPlaces
  <2>2. Entries[DirOf(walkers[w].work)] \subseteq Name BY <2>1 DEF Path, Name
  <2>3. PICK names \in SUBSET Name : walkers' = [walkers EXCEPT ![w].pc = "reads", ![w].todo = names]
    BY <1>9, <2>2 DEF WalkerOpens
  <2>4. UNCHANGED <<dirQueue, reported>> BY <1>9 DEF WalkerOpens
  <2>5. "reads" \in BusyPlaces BY DEF BusyPlaces
  <2> QED BY <1>0, <1>6, <1>7, <2>1, <2>3, <2>4, <2>5
<1>10. CASE WalkerEntry(w)
  <2>1. walkers[w].work \in Path /\ walkers[w].pc = "reads" /\ walkers[w].pc \in BusyPlaces
    BY <1>0, <1>10 DEF WalkerEntry, BusyPlaces
  <2>2. PICK n \in walkers[w].todo :
          /\ walkers' = [walkers EXCEPT ![w].todo = @ \ {n}]
          /\ \/ UNCHANGED <<dirQueue, reported>>
             \/ /\ Denotes(n) \in Dirs /\ UNCHANGED reported
                /\ dirQueue' \in {dirQueue, Append(dirQueue, Append(walkers[w].work, n))}
             \/ /\ UNCHANGED dirQueue
                /\ reported' \in {reported, Append(reported, Append(walkers[w].work, n))}
    BY <1>10 DEF WalkerEntry, Push, Report
  <2>3. n \in Name /\ walkers[w].todo \ {n} \in SUBSET Name BY <1>0
  <2>4. dirQueue' \in Seq(Path) /\ reported' \in Seq(Seq(Name))
    <3> DEFINE path == Append(walkers[w].work, n)
    <3>1. path \in Seq(Name) /\ (Denotes(n) \in Dirs => path \in Path) BY <2>1, <2>3, PathGrows
    <3>2. Append(reported, path) \in Seq(Seq(Name)) BY <1>0, <3>1, QueueOfPaths
    <3>3. Denotes(n) \in Dirs => Append(dirQueue, path) \in Seq(Path) BY <1>0, <3>1, QueueOfPaths
    <3> HIDE DEF path
    <3>4. \/ UNCHANGED <<dirQueue, reported>>
          \/ Denotes(n) \in Dirs /\ UNCHANGED reported /\ dirQueue' \in {dirQueue, Append(dirQueue, path)}
          \/ UNCHANGED dirQueue /\ reported' \in {reported, Append(reported, path)}
      BY <2>2 DEF path
    <3> QED BY <1>0, <3>2, <3>3, <3>4
  <2>5. walkers' = [walkers EXCEPT ![w] = [walkers[w] EXCEPT !.todo = @ \ {n}]]
    BY <2>2
  <2>6. /\ [walkers[w] EXCEPT !.todo = @ \ {n}] \in WalkerState
        /\ [walkers[w] EXCEPT !.todo = @ \ {n}].work \in Path
    BY <1>0, <2>1, <2>3
  <2> QED BY <1>6, <2>4, <2>5, <2>6
<1>11. CASE WalkerEnds(w)
  <2>1. walkers[w].pc \in BusyPlaces /\ "counted" \in BusyPlaces /\ {} \in SUBSET Name
    BY <1>11 DEF WalkerEnds, BusyPlaces
  <2> QED BY <1>0, <1>6, <1>7, <1>11, <2>1 DEF WalkerEnds, results
<1>12. CASE WalkerDone(w)
  BY <1>0, <1>6, <1>12 DEF WalkerDone, BusyPlaces, results
<1> QED BY <1>8, <1>9, <1>10, <1>11, <1>12 DEF WalkerNext

(* The coordinator that only reads moves itself, and does not close.       *)
LEMMA CoordLooks ==
  ASSUME CoordTests \/ CoordAsks
  PROVE  /\ coord # "closed" /\ coord' \in CoordPlaces \ {"closed"}
         /\ UNCHANGED <<dirQueue, dirCh, feeder, walkers, counts, pendingMu, stopFeeder, results>>
         /\ UNCHANGED <<visited, linked, reported, limit, walkDone, readErrors>>
<1>1. coord # "closed" BY DEF CoordTests, CoordAsks, CoordReads
<1>2. UNCHANGED <<coordFrame, dirQueue, feeder, pendingMu, stopFeeder>>
  BY DEF CoordTests, CoordAsks, CoordReads
<1>3. coord' \in CoordPlaces \ {"closed"}
  <2>1. CASE CoordTests BY <2>1 DEF CoordTests, CoordReads, Unless, CoordPlaces
  <2>2. CASE CoordAsks BY <2>2 DEF CoordAsks, CoordReads, Unless, CoordPlaces
  <2> QED BY <2>1, <2>2
<1> QED BY <1>1, <1>2, <1>3 DEF coordFrame, results

(* The same, of the coordinator, of a cancellation and of a step that      *)
(* changes nothing.                                                        *)
LEMMA TypesOfCoord ==
  ASSUME WalkTypes, CoordNext \/ WalkCancelled \/ UNCHANGED walkVars
  PROVE  WalkTypes'
<1>0. CASE CoordTests \/ CoordAsks
  BY <1>0, CoordLooks DEF WalkTypes
<1>1. CASE CoordLocks \/ CoordPending \/ CoordCloses
  BY <1>1
  DEF CoordPlaces, CoordLocks, CoordPending, CoordCloses,
      coordFrame, results, WalkTypes
<1>2. CASE CoordDrops
  BY <1>2 DEF CoordDrops, CoordPlaces, coordFrame, results, WalkTypes
<1>3. CASE CoordStops
  BY <1>3 DEF CoordStops, CoordPlaces, coordFrame, results, WalkTypes
<1>4. CASE WalkCancelled \/ UNCHANGED walkVars
  BY <1>4 DEF WalkCancelled, walkVars, WalkTypes
<1> QED BY <1>0, <1>1, <1>2, <1>3, <1>4 DEF CoordNext

-----------------------------------------------------------------------------
(* The three counters.                                                     *)

(* What they count, with names of their own.                               *)
BusyNow == Cardinality(WalkersAt(BusyPlaces))
ReadNow == Cardinality(WalkersAt({"reads"}))
SendNow == IF feeder.pc = "sends" THEN 1 ELSE 0
FeedNow == IF feeder.pc \in {"counted", "sends"} THEN 1 ELSE 0

(* The walkers are finitely many.                                          *)
LEMMA WalkersAreCounted ==
  ASSUME NEW P
  PROVE  /\ IsFiniteSet(WalkersAt(P)) /\ Cardinality(WalkersAt(P)) \in Nat
         /\ Cardinality(WalkersAt(P)) = 0 <=> WalkersAt(P) = {}
<1>1. WalkersAt(P) \subseteq Walker /\ IsFiniteSet(Walker) BY ParallelWalkAssumption DEF WalkersAt
<1> QED BY <1>1, FS_Subset, FS_CardinalityType, FS_EmptySet

(* The types of what the counters are compared with.                       *)
LEMMA BusyAreNumbers ==
  ASSUME WalkTypes
  PROVE  BusyNow \in Nat /\ ReadNow \in Nat /\ Len(dirCh) \in Nat
         /\ counts \in [pending : Int, processing : Int, feeding : Int]
BY WalkersAreCounted DEF BusyNow, ReadNow, WalkTypes

(* A worker that goes from one place to another.                           *)
LEMMA WalkerGoes ==
  ASSUME WalkTypes, NEW w \in Walker, NEW s, walkers' = [walkers EXCEPT ![w] = s]
  PROVE  /\ BusyNow' = BusyNow + (IF s.pc \in BusyPlaces THEN 1 ELSE 0)
                             - (IF walkers[w].pc \in BusyPlaces THEN 1 ELSE 0)
         /\ ReadNow' = ReadNow + (IF s.pc = "reads" THEN 1 ELSE 0)
                                - (IF walkers[w].pc = "reads" THEN 1 ELSE 0)
<1>1. walkers'[w] = s /\ \A v \in Walker \ {w} : walkers'[v] = walkers[v]
  BY DEF WalkTypes
<1>2. ASSUME NEW P
      PROVE  Cardinality(WalkersAt(P)') = Cardinality(WalkersAt(P))
               + (IF s.pc \in P THEN 1 ELSE 0) - (IF walkers[w].pc \in P THEN 1 ELSE 0)
  <2> DEFINE S == WalkersAt(P)
             T == WalkersAt(P)'
  <2>1. T \ {w} = S \ {w} /\ (w \in T <=> s.pc \in P) /\ (w \in S <=> walkers[w].pc \in P)
    BY <1>1 DEF WalkersAt
  <2>2. IsFiniteSet(S) BY WalkersAreCounted
  <2> HIDE DEF S, T
  <2>3. Cardinality(T) = Cardinality(S) + (IF w \in T THEN 1 ELSE 0) - (IF w \in S THEN 1 ELSE 0)
    BY <2>1, <2>2, OneMoves
  <2>4. Cardinality(T) = Cardinality(S) + (IF s.pc \in P THEN 1 ELSE 0)
                           - (IF walkers[w].pc \in P THEN 1 ELSE 0)
    BY <2>1, <2>3
  <2> QED BY <2>4 DEF S, T
<1>3. Cardinality(WalkersAt(BusyPlaces)') = Cardinality(WalkersAt(BusyPlaces))
        + (IF s.pc \in BusyPlaces THEN 1 ELSE 0) - (IF walkers[w].pc \in BusyPlaces THEN 1 ELSE 0)
  BY <1>2
<1>4. Cardinality(WalkersAt({"reads"})') = Cardinality(WalkersAt({"reads"}))
        + (IF s.pc \in {"reads"} THEN 1 ELSE 0) - (IF walkers[w].pc \in {"reads"} THEN 1 ELSE 0)
  BY <1>2
<1>5. s.pc \in {"reads"} <=> s.pc = "reads" OBVIOUS
<1> QED BY <1>3, <1>4, <1>5 DEF BusyNow, ReadNow

(* The three counters, by those names.                                     *)
LEMMA CountsAreThese ==
  /\ CountsAreExact <=> /\ counts.pending = Len(dirCh) + BusyNow + SendNow
                        /\ counts.processing = ReadNow /\ counts.feeding = FeedNow
  /\ CountsAreExact' <=> /\ counts'.pending = Len(dirCh') + BusyNow' + SendNow'
                         /\ counts'.processing = ReadNow' /\ counts'.feeding = FeedNow'
BY DEF CountsAreExact, BusyNow, ReadNow, SendNow, FeedNow

(* The same, of a worker that goes from the place f to the place t.        *)
WalkerGo(w, f, t) == /\ walkers[w].pc = f
                 /\ \E s : s.pc = t /\ walkers' = [walkers EXCEPT ![w] = s]

(* What each of a worker's five moves does to the two numbers.             *)
LEMMA WalkerBetween ==
  ASSUME WalkTypes, NEW w \in Walker
  PROVE  /\ WalkerGo(w, "idle", "got") => BusyNow' = BusyNow + 1 /\ ReadNow' = ReadNow
         /\ WalkerGo(w, "got", "reads") => BusyNow' = BusyNow /\ ReadNow' = ReadNow + 1
         /\ WalkerGo(w, "reads", "reads") => BusyNow' = BusyNow /\ ReadNow' = ReadNow
         /\ WalkerGo(w, "reads", "counted") => BusyNow' = BusyNow /\ ReadNow' = ReadNow - 1
         /\ WalkerGo(w, "counted", "idle") => BusyNow' = BusyNow - 1 /\ ReadNow' = ReadNow
<1>1. ASSUME NEW f, NEW t, WalkerGo(w, f, t)
      PROVE  /\ BusyNow' = BusyNow + (IF t \in BusyPlaces THEN 1 ELSE 0) - (IF f \in BusyPlaces THEN 1 ELSE 0)
             /\ ReadNow' = ReadNow + (IF t = "reads" THEN 1 ELSE 0) - (IF f = "reads" THEN 1 ELSE 0)
  <2>1. PICK s : s.pc = t /\ walkers' = [walkers EXCEPT ![w] = s] BY <1>1 DEF WalkerGo
  <2>2. walkers[w].pc = f BY <1>1 DEF WalkerGo
  <2>3. /\ BusyNow' = BusyNow + (IF s.pc \in BusyPlaces THEN 1 ELSE 0)
                     - (IF walkers[w].pc \in BusyPlaces THEN 1 ELSE 0)
        /\ ReadNow' = ReadNow + (IF s.pc = "reads" THEN 1 ELSE 0)
                        - (IF walkers[w].pc = "reads" THEN 1 ELSE 0)
    BY <2>1, WalkerGoes
  <2> QED BY <2>1, <2>2, <2>3
<1> HIDE DEF WalkerGo
<1>2. BusyNow \in Nat /\ ReadNow \in Nat BY BusyAreNumbers
<1> DEFINE b == BusyNow'
           r == ReadNow'
<1>3. ASSUME NEW f, NEW t, WalkerGo(w, f, t)
      PROVE  /\ b = BusyNow + (IF t \in BusyPlaces THEN 1 ELSE 0) - (IF f \in BusyPlaces THEN 1 ELSE 0)
             /\ r = ReadNow + (IF t = "reads" THEN 1 ELSE 0) - (IF f = "reads" THEN 1 ELSE 0)
  BY <1>1, <1>3
<1> HIDE DEF b, r
<1>4. /\ WalkerGo(w, "idle", "got") => b = BusyNow + 1 /\ r = ReadNow
      /\ WalkerGo(w, "got", "reads") => b = BusyNow /\ r = ReadNow + 1
      /\ WalkerGo(w, "reads", "reads") => b = BusyNow /\ r = ReadNow
      /\ WalkerGo(w, "reads", "counted") => b = BusyNow /\ r = ReadNow - 1
      /\ WalkerGo(w, "counted", "idle") => b = BusyNow - 1 /\ r = ReadNow
  BY <1>2, <1>3 DEF BusyPlaces
<1> QED BY <1>4 DEF b, r

(* The counters follow the steps.                                          *)
LEMMA WalkCountsStep ==
  ASSUME WalkTypes, CountsAreExact, [WalkNext]_walkVars
  PROVE  CountsAreExact'
<1>0. /\ BusyNow \in Nat /\ ReadNow \in Nat /\ Len(dirCh) \in Nat /\ dirCh \in Seq(Path)
      /\ counts \in [pending : Int, processing : Int, feeding : Int]
      /\ SendNow \in 0..1 /\ FeedNow \in 0..1
      /\ counts.pending = Len(dirCh) + BusyNow + SendNow
      /\ counts.processing = ReadNow /\ counts.feeding = FeedNow
  BY BusyAreNumbers, CountsAreThese DEF WalkTypes, SendNow, FeedNow
<1>1. ASSUME walkers' = walkers PROVE BusyNow' = BusyNow /\ ReadNow' = ReadNow
  BY <1>1 DEF BusyNow, ReadNow, WalkersAt
<1>2. ASSUME UNCHANGED <<walkers, dirCh, counts>>,
             \/ feeder'.pc = feeder.pc
             \/ feeder.pc \notin {"counted", "sends"} /\ feeder'.pc \notin {"counted", "sends"}
      PROVE  CountsAreExact'
  BY <1>0, <1>1, <1>2, CountsAreThese DEF SendNow, FeedNow
<1>3. CASE FeederLoops \/ FeederSleeps \/ FeederTakes \/ FeederCancelled
  BY <1>2, <1>3 DEF FeederLoops, FeederSleeps, FeederTakes, FeederCancelled, FeederAt, results
<1>4. CASE FeederCounts
  <2>1. CASE stopFeeder BY <1>2, <1>4, <2>1 DEF FeederCounts, FeederAt
  <2>2. CASE ~stopFeeder
    <3>1. /\ UNCHANGED <<walkers, dirCh>> /\ SendNow = 0 /\ SendNow' = 0 /\ FeedNow = 0 /\ FeedNow' = 1
          /\ counts' = [counts EXCEPT !["feeding"] = @ + 1]
      BY <1>4, <2>2 DEF FeederCounts, FeederAt, SendNow, FeedNow, Bump
    <3>2. counts'.pending = counts.pending /\ counts'.processing = counts.processing
          /\ counts'.feeding = counts.feeding + 1
      BY <1>0, <3>1
    <3> QED BY <1>0, <1>1, <3>1, <3>2, CountsAreThese
  <2> QED BY <2>1, <2>2
<1>5. CASE FeederAdds
  <2>1. /\ UNCHANGED <<walkers, dirCh>> /\ SendNow = 0 /\ SendNow' = 1 /\ FeedNow = 1 /\ FeedNow' = 1
        /\ counts' = [counts EXCEPT !["pending"] = @ + 1]
    BY <1>5 DEF FeederAdds, FeederAt, SendNow, FeedNow, Bump, results
  <2>2. counts'.pending = counts.pending + 1 /\ counts'.processing = counts.processing
        /\ counts'.feeding = counts.feeding
    BY <1>0, <2>1
  <2> QED BY <1>0, <1>1, <2>1, <2>2, CountsAreThese
<1>6. CASE FeederSends
  <2>1. /\ UNCHANGED walkers /\ SendNow = 1 /\ SendNow' = 0 /\ FeedNow = 1 /\ FeedNow' = 0
        /\ counts' = [counts EXCEPT !["feeding"] = @ + (-1)]
    BY <1>6 DEF FeederSends, FeederAt, SendNow, FeedNow, Bump
  <2>2. counts'.pending = counts.pending /\ counts'.processing = counts.processing
        /\ counts'.feeding = counts.feeding - 1
    BY <1>0, <2>1
  <2>3. Len(dirCh') = Len(dirCh) + 1
    BY <1>0, <1>6, QueueOfPaths DEF FeederSends, WalkTypes
  <2> QED BY <1>0, <1>1, <2>1, <2>2, <2>3, CountsAreThese
<1>7. CASE FeederGivesUp
  <2>1. /\ UNCHANGED <<walkers, dirCh>> /\ SendNow = 1 /\ SendNow' = 0 /\ FeedNow = 1 /\ FeedNow' = 0
        /\ counts' = [counts EXCEPT !.feeding = @ - 1, !.pending = @ - 1]
    BY <1>7 DEF FeederGivesUp, FeederAt, SendNow, FeedNow
  <2>2. counts'.pending = counts.pending - 1 /\ counts'.processing = counts.processing
        /\ counts'.feeding = counts.feeding - 1
    BY <1>0, <2>1
  <2> QED BY <1>0, <1>1, <2>1, <2>2, CountsAreThese
<1>8. ASSUME NEW w \in Walker, WalkerNext(w) PROVE CountsAreExact'
  <2>0. SendNow' = SendNow /\ FeedNow' = FeedNow
    BY <1>8
    DEF WalkerNext, WalkerTakes, WalkerOpens, WalkerEntry, WalkerEnds, WalkerDone, SendNow, FeedNow
  <2>1. CASE WalkerTakes(w)
    <3>1. walkers' = [walkers EXCEPT ![w] = [pc |-> "got", work |-> Head(dirCh), todo |-> {}]]
          /\ walkers[w].pc = "idle" /\ UNCHANGED counts /\ Len(dirCh') = Len(dirCh) - 1
      BY <1>0, <2>1, QueueOfPaths DEF WalkerTakes
    <3>2. BusyNow' = BusyNow + 1 /\ ReadNow' = ReadNow
      <4>1. WalkerGo(w, "idle", "got") BY <3>1 DEF WalkerGo
      <4> QED BY <1>8, <4>1, WalkerBetween
    <3> QED BY <1>0, <2>0, <3>1, <3>2, CountsAreThese
  <2>2. CASE WalkerOpens(w)
    <3>1. PICK names : walkers' = [walkers EXCEPT ![w].pc = "reads", ![w].todo = names]
      BY <2>2 DEF WalkerOpens
    <3>2. walkers' = [walkers EXCEPT ![w] = [walkers[w] EXCEPT !.pc = "reads", !.todo = names]]
          /\ [walkers[w] EXCEPT !.pc = "reads", !.todo = names].pc = "reads"
          /\ walkers[w].pc = "got" /\ UNCHANGED dirCh /\ counts' = [counts EXCEPT !["processing"] = @ + 1]
      BY <2>2, <3>1 DEF WalkerOpens, WalkTypes, Bump
    <3>3. BusyNow' = BusyNow /\ ReadNow' = ReadNow + 1
      <4>1. WalkerGo(w, "got", "reads") BY <3>2 DEF WalkerGo
      <4> QED BY <1>8, <4>1, WalkerBetween
    <3>4. counts'.pending = counts.pending /\ counts'.processing = counts.processing + 1
          /\ counts'.feeding = counts.feeding
      BY <1>0, <3>2
    <3> QED BY <1>0, <2>0, <3>2, <3>3, <3>4, CountsAreThese
  <2>3. CASE WalkerEntry(w)
    <3>1. PICK n \in walkers[w].todo : walkers' = [walkers EXCEPT ![w].todo = @ \ {n}]
      BY <2>3 DEF WalkerEntry
    <3>2. walkers' = [walkers EXCEPT ![w] = [walkers[w] EXCEPT !.todo = @ \ {n}]]
          /\ [walkers[w] EXCEPT !.todo = @ \ {n}].pc = "reads"
          /\ walkers[w].pc = "reads" /\ UNCHANGED <<dirCh, counts>>
      BY <2>3, <3>1 DEF WalkerEntry, WalkTypes
    <3>3. BusyNow' = BusyNow /\ ReadNow' = ReadNow
      <4>1. WalkerGo(w, "reads", "reads") BY <3>2 DEF WalkerGo
      <4> QED BY <1>8, <4>1, WalkerBetween
    <3> QED BY <1>0, <2>0, <3>2, <3>3, CountsAreThese
  <2>4. CASE WalkerEnds(w)
    <3>1. walkers' = [walkers EXCEPT ![w] = [walkers[w] EXCEPT !.pc = "counted", !.todo = {}]]
          /\ [walkers[w] EXCEPT !.pc = "counted", !.todo = {}].pc = "counted"
          /\ walkers[w].pc = "reads" /\ UNCHANGED dirCh
          /\ counts' = [counts EXCEPT !["processing"] = @ + (-1)]
      BY <2>4 DEF WalkerEnds, WalkTypes, Bump
    <3>2. BusyNow' = BusyNow /\ ReadNow' = ReadNow - 1
      <4>1. WalkerGo(w, "reads", "counted") BY <3>1 DEF WalkerGo
      <4> QED BY <1>8, <4>1, WalkerBetween
    <3>3. counts'.pending = counts.pending /\ counts'.processing = counts.processing - 1
          /\ counts'.feeding = counts.feeding
      BY <1>0, <3>1
    <3> QED BY <1>0, <2>0, <3>1, <3>2, <3>3, CountsAreThese
  <2>5. CASE WalkerDone(w)
    <3>1. walkers' = [walkers EXCEPT ![w] = [pc |-> "idle", work |-> None, todo |-> {}]]
          /\ walkers[w].pc = "counted" /\ UNCHANGED dirCh
          /\ counts' = [counts EXCEPT !["pending"] = @ + (-1)]
      BY <2>5 DEF WalkerDone, Bump
    <3>2. BusyNow' = BusyNow - 1 /\ ReadNow' = ReadNow
      <4>1. WalkerGo(w, "counted", "idle") BY <3>1 DEF WalkerGo
      <4> QED BY <1>8, <4>1, WalkerBetween
    <3>3. counts'.pending = counts.pending - 1 /\ counts'.processing = counts.processing
          /\ counts'.feeding = counts.feeding
      BY <1>0, <3>1
    <3> QED BY <1>0, <2>0, <3>1, <3>2, <3>3, CountsAreThese
  <2> QED BY <1>8, <2>1, <2>2, <2>3, <2>4, <2>5 DEF WalkerNext
<1>9. CASE CoordNext \/ WalkCancelled \/ UNCHANGED walkVars
  <2>1. UNCHANGED <<walkers, dirCh, counts>>
    BY <1>9, CoordLooks
    DEF CoordNext, CoordLocks, CoordPending, CoordDrops, CoordStops, CoordCloses, coordFrame,
        WalkCancelled, walkVars
  <2>2. \/ feeder'.pc = feeder.pc
        \/ feeder.pc \notin {"counted", "sends"} /\ feeder'.pc \notin {"counted", "sends"}
    BY <1>9, CoordLooks
    DEF CoordNext, CoordLocks, CoordPending, CoordDrops, CoordStops, CoordCloses,
        WalkCancelled, walkVars
  <2> QED BY <1>2, <2>1, <2>2
<1> QED BY <1>3, <1>4, <1>5, <1>6, <1>7, <1>8, <1>9 DEF WalkNext, FeederNext, WalkRests
-----------------------------------------------------------------------------
(* The end of the walk.                                                    *)

(* With pending at zero and the feeder gone, no directory is on its way.   *)
LEMMA NothingPending ==
  ASSUME WalkTypes, CountsAreExact, counts.pending = 0, feeder.pc = "exit"
  PROVE  dirCh = <<>> /\ \A w \in Walker : walkers[w].pc = "idle"
<1>1. /\ BusyNow \in Nat /\ Len(dirCh) \in Nat /\ dirCh \in Seq(Path) /\ SendNow = 0
      /\ 0 = Len(dirCh) + BusyNow + SendNow
  BY BusyAreNumbers, CountsAreThese DEF WalkTypes, SendNow
<1>2. BusyNow = 0 /\ Len(dirCh) = 0 BY <1>1
<1>3. WalkersAt(BusyPlaces) = {}
  BY <1>2, WalkersAreCounted DEF BusyNow
<1>4. \A w \in Walker : walkers[w].pc \in {"idle"} \cup BusyPlaces /\ walkers[w].pc \notin BusyPlaces
  BY <1>3 DEF WalkersAt, WalkTypes
<1> QED BY <1>1, <1>2, <1>4

(* The four facts hold from the close of the channels on.                  *)
LEMMA ClosedStep ==
  ASSUME WalkTypes, CountsAreExact, ClosedIsOver, [WalkNext]_walkVars
  PROVE  ClosedIsOver'
<1>1. CASE coord = "closed"
  <2>1. /\ feeder.pc = "exit" /\ counts.pending = 0 /\ dirCh = <<>>
        /\ \A w \in Walker : walkers[w].pc = "idle"
    BY <1>1, NothingPending DEF ClosedIsOver
  <2>2. ~FeederNext
    BY <2>1
    DEF FeederNext, FeederLoops, FeederSleeps, FeederTakes, FeederCancelled, FeederCounts, FeederAdds,
        FeederSends, FeederGivesUp
  <2>3. \A w \in Walker : ~WalkerNext(w)
    BY <2>1 DEF WalkerNext, WalkerTakes, WalkerOpens, WalkerEntry, WalkerEnds, WalkerDone
  <2>4. ~CoordNext /\ ~WalkCancelled
    BY <1>1, CoordLooks
    DEF CoordNext, CoordLocks, CoordPending, CoordDrops, CoordStops, CoordCloses, WalkCancelled
  <2>5. UNCHANGED walkVars BY <2>2, <2>3, <2>4 DEF WalkNext, WalkRests
  <2> QED BY <2>1, <2>5 DEF ClosedIsOver, walkVars
<1>2. CASE coord # "closed"
  <2>1. coord' = "closed" => CoordCloses
    <3>1. FeederNext => coord' # "closed"
      BY <1>2
      DEF FeederNext, FeederLoops, FeederSleeps, FeederTakes, FeederCancelled, FeederCounts, FeederAdds,
          FeederSends, FeederGivesUp, Broadcast
    <3>2. \A w \in Walker : WalkerNext(w) => coord' # "closed"
      BY <1>2
      DEF WalkerNext, WalkerTakes, WalkerOpens, WalkerEntry, WalkerEnds, WalkerDone, Push, Broadcast
    <3>3. CoordNext /\ ~CoordCloses => coord' # "closed"
      BY CoordLooks DEF CoordNext, CoordLocks, CoordPending, CoordDrops, CoordStops
    <3>4. WalkCancelled \/ WalkRests \/ UNCHANGED walkVars => coord' # "closed"
      BY <1>2 DEF WalkCancelled, WalkRests, walkVars
    <3> QED BY <3>1, <3>2, <3>3, <3>4 DEF WalkNext
  <2>2. CoordCloses => feeder'.pc = "exit" /\ counts'.pending = 0 BY DEF CoordCloses, coordFrame
  <2> QED BY <2>1, <2>2 DEF ClosedIsOver
<1> QED BY <1>1, <1>2

(* What was visited, and the length of the report, under a step.           *)
LEMMA LinksStep ==
  ASSUME WalkTypes, LinksAreVisited, [WalkNext]_walkVars
  PROVE  LinksAreVisited'
<1>0. reported \in Seq(Seq(Name)) /\ limit \in Nat /\ (limit > 0 => Len(reported) <= limit)
  BY DEF WalkTypes, LinksAreVisited, LinksListedOnce
<1>1. ASSUME UNCHANGED <<visited, linked, limit>>, limit > 0 => Len(reported') <= limit
      PROVE  LinksAreVisited'
  BY <1>1 DEF LinksAreVisited, LinksListedOnce
<1>2. ASSUME UNCHANGED results PROVE LinksAreVisited'
  BY <1>0, <1>1, <1>2 DEF results
<1>3. CASE FeederNext
  BY <1>2, <1>3
  DEF FeederNext, FeederLoops, FeederSleeps, FeederTakes, FeederCancelled, FeederCounts, FeederAdds,
      FeederSends, FeederGivesUp
<1>4. CASE CoordNext
  BY <1>2, <1>4, CoordLooks
  DEF CoordNext, CoordLocks, CoordPending, CoordDrops, CoordStops, CoordCloses, coordFrame
<1>5. CASE WalkCancelled \/ UNCHANGED walkVars
  BY <1>0, <1>1, <1>5 DEF WalkCancelled, walkVars
<1>6. ASSUME NEW w \in Walker, WalkerNext(w) PROVE LinksAreVisited'
  <2>1. CASE WalkerTakes(w) \/ WalkerEnds(w) \/ WalkerDone(w)
    BY <1>2, <2>1 DEF WalkerTakes, WalkerEnds, WalkerDone
  <2>2. CASE WalkerEntry(w)
    <3>1. UNCHANGED <<visited, linked, limit>> BY <2>2 DEF WalkerEntry
    <3>2. \/ UNCHANGED reported
          \/ \E p \in Seq(Name) : reported' = Append(reported, p) /\ ~(limit > 0 /\ Len(reported) >= limit)
      <4>1. /\ walkers[w].work \in Path /\ walkers[w].todo \subseteq Name
            /\ \A n \in Name : Append(walkers[w].work, n) \in Seq(Name)
        BY <2>2, PathGrows DEF WalkTypes, WalkerEntry, BusyPlaces
      <4>2. PICK n \in walkers[w].todo :
              UNCHANGED reported \/ Report(Append(walkers[w].work, n))
        BY <2>2 DEF WalkerEntry
      <4> QED BY <4>1, <4>2 DEF Report
    <3>3. limit > 0 => Len(reported') <= limit
      BY <1>0, <3>2
    <3> QED BY <1>1, <3>1, <3>3
  <2>3. CASE WalkerOpens(w)
    <3>1. UNCHANGED <<reported, limit>> BY <2>3 DEF WalkerOpens
    <3>2. CASE UNCHANGED <<visited, linked>> BY <1>0, <1>1, <3>1, <3>2
    <3>3. CASE ~UNCHANGED <<visited, linked>>
      <4> DEFINE path == walkers[w].work
      <4>1. /\ ~Looping(path) /\ visited' = visited \cup {VisitKey(path)}
            /\ linked' = IF IsLink(path) THEN linked \cup {path} ELSE linked
        BY <2>3, <3>3 DEF WalkerOpens
      <4> HIDE DEF path
      <4>2. /\ \A p \in linked : IsLink(p) /\ VisitKey(p) \in visited
            /\ \A p, q \in linked : DirOf(p) = DirOf(q) => p = q
        BY DEF LinksAreVisited, LinksListedOnce
      <4>3. \A p \in linked' : IsLink(p) /\ VisitKey(p) \in visited' BY <4>1, <4>2
      <4>4. \A p, q \in linked' : DirOf(p) = DirOf(q) => p = q
        <5>1. IsLink(path) => \A p \in linked : DirOf(p) # DirOf(path)
          BY <4>1, <4>2 DEF Looping, VisitKey
        <5> QED BY <4>1, <4>2, <5>1
      <4> QED BY <1>0, <3>1, <4>3, <4>4 DEF LinksAreVisited, LinksListedOnce
    <3> QED BY <3>2, <3>3
  <2> QED BY <1>6, <2>1, <2>2, <2>3 DEF WalkerNext
<1> QED BY <1>3, <1>4, <1>5, <1>6 DEF WalkNext, WalkRests

-----------------------------------------------------------------------------
(* A walk that starts: nothing is counted.                                 *)
LEMMA WalkBegins == WalkInit => WalkInv
<1> SUFFICES ASSUME WalkInit PROVE WalkInv OBVIOUS
<1>1. <<>> \in Path
  <2>1. <<>> \in Seq(Name) OBVIOUS
  <2> QED BY <2>1, ParallelWalkAssumption DEF Path, DirOf
<1>2. WalkTypes
  <2>1. limit \in Nat BY ParallelWalkAssumption DEF WalkInit
  <2> QED BY <1>1, <2>1 DEF WalkInit, WalkTypes, BusyPlaces, CoordPlaces
<1>3. CountsAreExact
  <2>1. WalkersAt(BusyPlaces) = {} /\ WalkersAt({"reads"}) = {}
    BY DEF WalkInit, WalkersAt, BusyPlaces
  <2>2. Cardinality(WalkersAt(BusyPlaces)) = 0 /\ Cardinality(WalkersAt({"reads"})) = 0
    BY <2>1, FS_EmptySet
  <2> QED BY <2>2 DEF WalkInit, CountsAreExact
<1>4. ClosedIsOver /\ LinksAreVisited
  <2>1. limit \in Nat BY ParallelWalkAssumption DEF WalkInit
  <2> QED BY <2>1 DEF WalkInit, ClosedIsOver, LinksAreVisited, LinksListedOnce
<1> QED BY <1>2, <1>3, <1>4 DEF WalkInv

(* Every step of the walk keeps the invariant.                             *)
LEMMA WalkKeeps == WalkInv /\ [WalkNext]_walkVars => WalkInv'
<1> SUFFICES ASSUME WalkInv, [WalkNext]_walkVars PROVE WalkInv' OBVIOUS
<1>0. WalkTypes /\ CountsAreExact /\ ClosedIsOver /\ LinksAreVisited BY DEF WalkInv
<1>1. WalkTypes'
  BY <1>0, TypesOfFeeder, TypesOfWalker, TypesOfCoord DEF WalkNext, WalkRests
<1> QED BY <1>0, <1>1, WalkCountsStep, ClosedStep, LinksStep DEF WalkInv

(* The inductive invariant of the walk: the three counters count what they *)
(* are named for, at every step of every goroutine (pending, processing    *)
(* and feeding of scheduleQuiescent), the channels close on a walk that is *)
(* over, and a link listed is a link visited.                              *)
THEOREM WalkHasInv == WalkSpec => []WalkInv
BY WalkBegins, WalkKeeps, PTL DEF WalkSpec

(* What the counters count is never less than nothing.                     *)
LEMMA WalkInvGivesTypes == WalkInv => WalkTypeOK
<1> SUFFICES ASSUME WalkInv PROVE WalkTypeOK OBVIOUS
<1>0. WalkTypes /\ CountsAreExact BY DEF WalkInv
<1>1. /\ BusyNow \in Nat /\ ReadNow \in Nat /\ Len(dirCh) \in Nat
      /\ SendNow \in 0..1 /\ FeedNow \in 0..1
      /\ counts.pending = Len(dirCh) + BusyNow + SendNow
      /\ counts.processing = ReadNow /\ counts.feeding = FeedNow
  BY <1>0, BusyAreNumbers, CountsAreThese DEF SendNow, FeedNow
<1>2. counts.pending \in Nat /\ counts.processing \in Nat /\ counts.feeding \in 0..1
  BY <1>1
<1>3. \A path \in Range(dirQueue) \cup Range(dirCh) : DirOf(path) \in Dirs
  <2>1. Range(dirQueue) \subseteq Path /\ Range(dirCh) \subseteq Path
    BY <1>0 DEF WalkTypes, Range
  <2> QED BY <2>1 DEF Path
<1>4. /\ feeder.pc \in {"loop", "calls", "asleep", "took", "counted", "sends", "exit"}
      /\ coord \in {"test", "test processing", "test feeding", "asleep", "lock", "pending",
                    "ask", "ask processing", "ask feeding", "drop", "stop", "join", "closed"}
      /\ \A w \in Walker : walkers[w].pc \in {"idle", "got", "reads", "counted"}
  BY <1>0 DEF WalkTypes, BusyPlaces, CoordPlaces
<1> QED BY <1>2, <1>3, <1>4 DEF WalkTypeOK

(* The types the runs check: pending, processing and feeding, which the    *)
(* code counts up and down in different goroutines, never go below zero    *)
(* (a WaitGroup that does panics), and what is queued is a directory.      *)
THEOREM WalkHasTypes == WalkSpec => []WalkTypeOK
BY WalkInvGivesTypes, WalkHasInv, PTL

(* Where the channels are closed nothing is pending.                       *)
LEMMA WalkInvGivesSafety == WalkInv => WalkSafety
BY NothingPending
DEF WalkInv, ClosedIsOver, LinksAreVisited, WalkSafety, ClosedMeansQuiet

(* No goroutine of a walk can send on a closed channel, whatever the       *)
(* number of its workers, and no directory is listed through two links.    *)
THEOREM WalkIsSafe == WalkSpec => []WalkSafety
BY WalkInvGivesSafety, WalkHasInv, PTL

-----------------------------------------------------------------------------
(* The pool of workers and the drain: the inductive invariant.             *)

(* What the catalogue says of a file, and the places of a worker that      *)
(* holds a file.                                                           *)
Status == {"new", "valid", "invalid"}
Holds == {"took", "works", "submits", "counted", "records"}
Waits == {"due", "off", "top", "left"}
Unstarted == {"due", "off"}
(* The places of waitForFileProcessingDrain.                               *)
Draining == {"senders", "queue", "inFlight", "writes", "pause"}

StatsState == [found : Nat, existing : Nat, inserted : Nat, skipped : Nat, inFlight : Int]

(* The types of the state; senders is the walk's one goroutine.            *)
DiscoveryTypes ==
  /\ trigger \in Walking \cup {"idle", "rebuild", "ending"} \cup Draining
  /\ triggers \in Nat /\ senders = (IF trigger \in Walking THEN 1 ELSE 0)
  /\ todo \subseteq Image /\ (trigger \notin Walking => todo = {})
  /\ backlog \in Seq(Image) /\ pending \in Seq(Image)
  /\ seen \in [Image -> Status] /\ catalogue \in [Image -> Status]
  /\ stats \in StatsState
  /\ worker \in [Worker -> [pc : Waits \cup Holds, file : Image \cup {NoFile}]]
  /\ \A w \in Worker : worker[w].pc \in Holds => worker[w].file \in Image

(* RunningWorkers is the number of goroutines that have started and not    *)
(* left.                                                                   *)
WorkersAt(places) == {w \in Worker : worker[w].pc \in places}
RunningIsExact == running = Cardinality(Worker) - Cardinality(WorkersAt(Unstarted))

(* What the drain has read is still true: nothing can come back into a     *)
(* queue that was seen empty behind the places that feed it.               *)
Quiet == backlog = <<>> /\ WorkersAt(Holds) = {}
DrainedInOrder ==
  /\ trigger = "inFlight" => backlog = <<>>
  /\ trigger \in {"writes", "rebuild", "ending", "idle"} => Quiet
  /\ trigger = "rebuild" => pending = <<>>
(* InFlight is what the workers process, and a file is counted as what it  *)
(* is only once: those not yet counted are in the queue or with a worker.  *)
InFlightIsExact == stats.inFlight = Cardinality(WorkersAt({"works", "submits", "counted"}))
NoneTwice ==
  stats.existing + stats.inserted + stats.skipped + Len(backlog)
    + Cardinality(WorkersAt({"took", "works", "records"})) <= stats.found

(* A worker that takes a file before the drain reads InFlight and counts   *)
(* it after (uncounted), or an application that ends, breaks all three;    *)
(* the other invariants stand.                                             *)
Undisturbed == uncounted = {} /\ ~appDone
DiscoveryInv ==
  /\ DiscoveryTypes /\ RunningIsExact
  /\ Undisturbed => DrainedInOrder /\ InFlightIsExact /\ NoneTwice

(* The workers of the pool are finitely many.                              *)
LEMMA WorkersAreCounted ==
  ASSUME NEW P
  PROVE  /\ IsFiniteSet(WorkersAt(P)) /\ Cardinality(WorkersAt(P)) \in Nat
         /\ Cardinality(WorkersAt(P)) <= Cardinality(Worker) /\ Cardinality(Worker) \in Nat
         /\ Cardinality(WorkersAt(P)) = 0 <=> WorkersAt(P) = {}
<1>1. WorkersAt(P) \subseteq Worker /\ IsFiniteSet(Worker) BY DiscoveryAssumption DEF WorkersAt
<1> QED BY <1>1, FS_Subset, FS_CardinalityType, FS_EmptySet

(* A worker that moves changes the number at a set of places by itself.    *)
LEMMA WorkerMoves ==
  ASSUME DiscoveryTypes, NEW w \in Worker, NEW place, NEW P,
         worker'[w].pc = place, \A v \in Worker \ {w} : worker'[v] = worker[v]
  PROVE  /\ place \in P => WorkersAt(P)' = WorkersAt(P) \cup {w}
         /\ place \notin P => WorkersAt(P)' = WorkersAt(P) \ {w}
         /\ w \in WorkersAt(P) <=> worker[w].pc \in P
         /\ Cardinality(WorkersAt(P)') =
              Cardinality(WorkersAt(P)) + (IF place \in P THEN 1 ELSE 0)
                - (IF worker[w].pc \in P THEN 1 ELSE 0)
<1>1. place \in P => WorkersAt(P)' = WorkersAt(P) \cup {w} BY DEF WorkersAt
<1>2. place \notin P => WorkersAt(P)' = WorkersAt(P) \ {w} BY DEF WorkersAt
<1>3. w \in WorkersAt(P) <=> worker[w].pc \in P BY DEF WorkersAt
<1>4. Cardinality(WorkersAt(P)') =
        Cardinality(WorkersAt(P)) + (IF place \in P THEN 1 ELSE 0)
          - (IF worker[w].pc \in P THEN 1 ELSE 0)
  <2> DEFINE S == WorkersAt(P)
             T == WorkersAt(P)'
  <2>1. T \ {w} = S \ {w} /\ (w \in T <=> place \in P) /\ (w \in S <=> worker[w].pc \in P)
    BY DEF WorkersAt
  <2>2. IsFiniteSet(S) BY WorkersAreCounted
  <2> HIDE DEF S, T
  <2>3. Cardinality(T) = Cardinality(S) + (IF w \in T THEN 1 ELSE 0) - (IF w \in S THEN 1 ELSE 0)
    BY <2>1, <2>2, OneMoves
  <2>4. Cardinality(T) = Cardinality(S) + (IF place \in P THEN 1 ELSE 0)
                           - (IF worker[w].pc \in P THEN 1 ELSE 0)
    BY <2>1, <2>3
  <2> QED BY <2>4 DEF S, T
<1> QED BY <1>1, <1>2, <1>3, <1>4

(* A file that is not processed counts twice: as found and as what it is.  *)
LEMMA TwoCountsUp ==
  ASSUME NEW s \in StatsState, NEW t, NEW d \in {"existing", "skipped"},
         t = [s EXCEPT !.found = @ + 1, ![d] = @ + 1]
  PROVE  /\ t \in StatsState
         /\ t.found = s.found + 1 /\ t.inserted = s.inserted /\ t.inFlight = s.inFlight
         /\ t.existing + t.skipped = s.existing + s.skipped + 1
<1>1. PICK a \in Nat : a = s.found + 1 BY DEF StatsState
<1>2. CASE d = "existing"
  <2>1. PICK b \in Nat : b = s.existing + 1 BY DEF StatsState
  <2>2. t = [s EXCEPT !.found = a, !.existing = b] BY <1>1, <1>2, <2>1 DEF StatsState
  <2>3. t \in StatsState /\ t.existing = b /\ t.skipped = s.skipped
        /\ t.found = a /\ t.inserted = s.inserted /\ t.inFlight = s.inFlight
    BY <2>2 DEF StatsState
  <2> QED BY <1>1, <2>1, <2>3 DEF StatsState
<1>3. CASE d = "skipped"
  <2>1. PICK b \in Nat : b = s.skipped + 1 BY DEF StatsState
  <2>2. t = [s EXCEPT !.found = a, !.skipped = b] BY <1>1, <1>3, <2>1 DEF StatsState
  <2>3. t \in StatsState /\ t.skipped = b /\ t.existing = s.existing
        /\ t.found = a /\ t.inserted = s.inserted /\ t.inFlight = s.inFlight
    BY <2>2 DEF StatsState
  <2> QED BY <1>1, <2>1, <2>3 DEF StatsState
<1> QED BY <1>2, <1>3

(* The drain reads its counters in the order of the code.                  *)
LEMMA FollowingIs ==
  /\ Following("senders") = "queue" /\ Following("queue") = "inFlight"
  /\ Following("inFlight") = "writes" /\ Following("writes") = "rebuild"
<1>1. /\ DrainOrder[1] = "senders" /\ DrainOrder[2] = "queue" /\ DrainOrder[3] = "inFlight"
      /\ DrainOrder[4] = "writes" /\ DrainOrder[5] = "rebuild"
  BY DEF DrainOrder
<1>2. 1..4 = {1, 2, 3, 4} OBVIOUS
<1>3. (CHOOSE i \in 1..4 : DrainOrder[i] = "senders") = 1 BY <1>1, <1>2
<1>4. (CHOOSE i \in 1..4 : DrainOrder[i] = "queue") = 2 BY <1>1, <1>2
<1>5. (CHOOSE i \in 1..4 : DrainOrder[i] = "inFlight") = 3 BY <1>1, <1>2
<1>6. (CHOOSE i \in 1..4 : DrainOrder[i] = "writes") = 4 BY <1>1, <1>2
<1> QED BY <1>1, <1>3, <1>4, <1>5, <1>6 DEF Following

-----------------------------------------------------------------------------
(* Types: the steps of the trigger, of a worker and of the batcher.        *)
LEMMA TypesOfTrigger ==
  ASSUME DiscoveryTypes, TriggerNext
  PROVE  DiscoveryTypes'
<1>1. CASE TriggerStarts
  <2>1. stats' \in StatsState
    BY <1>1 DEF TriggerStarts, NoStats, StatsState
  <2>2. triggers' \in Nat BY <1>1 DEF TriggerStarts, DiscoveryTypes
  <2>3. trigger = "idle" /\ trigger \notin Walking BY <1>1 DEF TriggerStarts, Walking
  <2>4. \/ trigger' = "ending" /\ todo' = todo /\ senders' = senders /\ seen' = seen
        \/ trigger' = "walk" /\ todo' = Image /\ senders' = senders + 1 /\ seen' = catalogue
    BY <1>1 DEF TriggerStarts
  <2>5. senders = 0 /\ todo = {} BY <2>3 DEF DiscoveryTypes
  <2>6. UNCHANGED <<backlog, pending, catalogue, worker>> BY <1>1 DEF TriggerStarts, poolFrame
  <2>7. "walk" \in Walking /\ "ending" \notin Walking BY DEF Walking
  <2> QED BY <2>1, <2>2, <2>4, <2>5, <2>6, <2>7 DEF DiscoveryTypes
<1>2. CASE WalkReturns
  <2>1. trigger \in Walking /\ trigger' = "senders" /\ todo' = {} /\ senders' = senders - 1
        /\ UNCHANGED <<triggers, seen, stats, backlog, pending, catalogue, worker>>
    BY <1>2 DEF WalkReturns, poolFrame
  <2>2. senders = 1 BY <2>1 DEF DiscoveryTypes
  <2>3. senders' = 0 BY <2>1, <2>2
  <2>4. "senders" \in Draining /\ "senders" \notin Walking BY DEF Draining, Walking
  <2> QED BY <2>1, <2>3, <2>4 DEF DiscoveryTypes
<1>3. CASE DrainReads
  <2>1. trigger' \in {"rebuild"} \cup Draining BY <1>3, FollowingIs DEF DrainReads, Draining
  <2>2. trigger \notin Walking /\ trigger' \notin Walking BY <1>3, <2>1 DEF DrainReads, Draining, Walking
  <2> QED BY <1>3, <2>1, <2>2 DEF DrainReads, DiscoveryTypes, poolFrame
<1>4. CASE DrainTicks \/ DrainCancelled \/ Rebuilds \/ TriggerEnds
  BY <1>4 DEF DrainTicks, DrainCancelled, Rebuilds, TriggerEnds, DiscoveryTypes, poolFrame, Draining, Walking
<1>5. ASSUME NEW f \in Image, WalkMeets(f) PROVE DiscoveryTypes'
  <2>1. Decision(f) \in {"existing", "skipped", "process"} BY DEF Decision
  <2>2. stats' \in StatsState
    <3>1. stats \in StatsState BY DEF DiscoveryTypes
    <3>2. CASE stats' = [stats EXCEPT !.found = @ + 1] BY <3>1, <3>2 DEF StatsState
    <3>3. CASE Decision(f) # "process" BY <1>5, <2>1, <3>1, <3>3, TwoCountsUp DEF WalkMeets
    <3> QED BY <1>5, <3>2, <3>3 DEF WalkMeets
  <2>3. backlog' \in Seq(Image)
    <3>1. Append(backlog, f) \in Seq(Image) BY DEF DiscoveryTypes
    <3> QED BY <1>5, <3>1 DEF WalkMeets, DiscoveryTypes
  <2>4. trigger \in Walking /\ trigger' \in Walking BY <1>5 DEF WalkMeets, Walking
  <2> QED BY <1>5, <2>2, <2>3, <2>4 DEF WalkMeets, DiscoveryTypes
<1> QED BY <1>1, <1>2, <1>3, <1>4, <1>5 DEF TriggerNext

(* The same, of a worker of the pool.                                      *)
LEMMA TypesOfWorker ==
  ASSUME DiscoveryTypes, NEW w \in Worker, WorkerNext(w)
  PROVE  DiscoveryTypes'
<1>1. UNCHANGED triggerFrame
  BY DEF WorkerNext, WorkerStarts, MonitorStarts, WorkerStops, WorkerLeaves,
         WorkerDequeues, WorkerDequeueFails, WorkerCounts,
         WorkerProcesses, WorkerSubmits, WorkerUncounts, WorkerFails, WorkerRecords
<1>2. \E place \in Waits \cup Holds, file \in Image \cup {NoFile} :
         Is(w, place, file) /\ (place \in Holds => file \in Image)
  BY DEF WorkerNext, WorkerStarts, MonitorStarts, WorkerStops, WorkerLeaves,
         WorkerDequeues, WorkerDequeueFails, WorkerCounts,
         WorkerProcesses, WorkerSubmits, WorkerUncounts, WorkerFails, WorkerRecords, Holds, Waits,
         DiscoveryTypes
<1>3. /\ worker' \in [Worker -> [pc : Waits \cup Holds, file : Image \cup {NoFile}]]
      /\ \A v \in Worker : worker'[v].pc \in Holds => worker'[v].file \in Image
  BY <1>2 DEF Is, DiscoveryTypes
<1>4. backlog' \in Seq(Image)
  <2>1. backlog \in Seq(Image) BY DEF DiscoveryTypes
  <2>2. backlog # <<>> => Tail(backlog) \in Seq(Image) BY <2>1
  <2> QED
    BY <2>1, <2>2
    DEF WorkerNext, WorkerStarts, MonitorStarts, WorkerStops, WorkerLeaves,
         WorkerDequeues, WorkerDequeueFails, WorkerCounts,
        WorkerProcesses, WorkerSubmits, WorkerUncounts, WorkerFails, WorkerRecords
<1>5. pending' \in Seq(Image)
  <2>1. pending \in Seq(Image) BY DEF DiscoveryTypes
  <2>2. worker[w].pc = "submits" => Append(pending, worker[w].file) \in Seq(Image)
    BY DEF DiscoveryTypes, Holds
  <2> QED
    BY <2>1, <2>2
    DEF WorkerNext, WorkerStarts, MonitorStarts, WorkerStops, WorkerLeaves,
         WorkerDequeues, WorkerDequeueFails, WorkerCounts,
        WorkerProcesses, WorkerSubmits, WorkerUncounts, WorkerFails, WorkerRecords
<1>6. stats' \in StatsState
  <2>0. stats \in StatsState BY DEF DiscoveryTypes
  <2>1. \/ UNCHANGED stats
        \/ stats' \in {[stats EXCEPT !.inFlight = @ + 1], [stats EXCEPT !.inFlight = @ - 1]}
        \/ stats' \in {[stats EXCEPT !.inserted = @ + 1], [stats EXCEPT !.skipped = @ + 1]}
    BY DEF WorkerNext, WorkerStarts, MonitorStarts, WorkerStops, WorkerLeaves,
           WorkerDequeues, WorkerDequeueFails, WorkerCounts,
           WorkerProcesses, WorkerSubmits, WorkerUncounts, WorkerFails, WorkerRecords
  <2> QED BY <2>0, <2>1 DEF StatsState
<1>7. catalogue' \in [Image -> Status]
  BY DEF WorkerNext, WorkerStarts, MonitorStarts, WorkerStops, WorkerLeaves,
         WorkerDequeues, WorkerDequeueFails, WorkerCounts,
         WorkerProcesses, WorkerSubmits, WorkerUncounts, WorkerFails, WorkerRecords, DiscoveryTypes,
         Status, Holds
<1> QED BY <1>1, <1>3, <1>4, <1>5, <1>6, <1>7 DEF DiscoveryTypes, triggerFrame

(* The batcher, the end of the application and a step that changes nothing. *)
LEMMA TypesOfOthers ==
  ASSUME DiscoveryTypes, BatcherCommits \/ AppCancelled \/ UNCHANGED discoveryVars
  PROVE  DiscoveryTypes'
<1>1. CASE BatcherCommits
  <2>1. Tail(pending) \in Seq(Image) BY <1>1 DEF BatcherCommits, DiscoveryTypes
  <2> QED BY <1>1, <2>1 DEF BatcherCommits, DiscoveryTypes, triggerFrame, Status
<1>2. CASE AppCancelled \/ UNCHANGED discoveryVars
  BY <1>2 DEF AppCancelled, discoveryVars, DiscoveryTypes
<1> QED BY <1>1, <1>2

-----------------------------------------------------------------------------
(* What a worker's step does to the places, the counters and the queues.   *)
Goes(w, from, to) ==
  /\ worker[w].pc = from /\ worker'[w].pc = to
  /\ \A v \in Worker \ {w} : worker'[v] = worker[v]

(* Each step of a worker goes between two places, and does the rest that   *)
(* is said here.                                                           *)
LEMMA WorkerGoes ==
  ASSUME DiscoveryTypes, NEW w \in Worker
  PROVE  /\ WorkerStarts(w) => Goes(w, "due", "top") /\ running' = running + 1 /\ UNCHANGED <<stats, backlog>>
         /\ MonitorStarts(w) => Goes(w, "off", "top") /\ running' = running + 1 /\ UNCHANGED <<stats, backlog>>
         /\ WorkerStops(w) => Goes(w, "top", "left") /\ UNCHANGED <<stats, backlog, running>>
         /\ WorkerLeaves(w) => Goes(w, "left", "off") /\ running' = running - 1 /\ UNCHANGED <<stats, backlog>>
         /\ WorkerDequeues(w) => /\ Goes(w, "top", "took") /\ UNCHANGED <<stats, running>>
                                 /\ backlog # <<>> /\ backlog' = Tail(backlog)
         /\ WorkerDequeueFails(w) => Goes(w, "top", "left") /\ UNCHANGED <<stats, backlog, running>>
         /\ WorkerCounts(w) => /\ Goes(w, "took", "works") /\ UNCHANGED <<running, backlog>>
                               /\ stats' = [stats EXCEPT !.inFlight = @ + 1]
         /\ WorkerProcesses(w) => /\ Goes(w, "works", "submits") /\ UNCHANGED <<running, backlog>>
                                  /\ stats' = [stats EXCEPT !.inserted = @ + 1]
         /\ WorkerSubmits(w) => Goes(w, "submits", "counted") /\ UNCHANGED <<stats, running, backlog>>
         /\ WorkerUncounts(w) => /\ Goes(w, "counted", "top") /\ UNCHANGED <<running, backlog>>
                                 /\ stats' = [stats EXCEPT !.inFlight = @ - 1]
         /\ WorkerFails(w) => /\ Goes(w, "works", "records") /\ UNCHANGED <<running, backlog>>
                              /\ stats' = [stats EXCEPT !.inFlight = @ - 1]
         /\ WorkerRecords(w) => /\ Goes(w, "records", "top") /\ UNCHANGED <<running, backlog>>
                                /\ stats' \in {stats, [stats EXCEPT !.skipped = @ + 1]}
<1>1. ASSUME NEW place, NEW file, Is(w, place, file), NEW from, worker[w].pc = from
      PROVE  Goes(w, from, place)
  BY <1>1 DEF Is, Goes, DiscoveryTypes
<1>2. Is(w, "top", NoFile) /\ worker[w].pc = "off" => Goes(w, "off", "top") BY <1>1
<1>12. Is(w, "top", NoFile) /\ worker[w].pc = "due" => Goes(w, "due", "top") BY <1>1
<1>3. Is(w, "left", NoFile) /\ worker[w].pc = "top" => Goes(w, "top", "left") BY <1>1
<1>4. Is(w, "off", NoFile) /\ worker[w].pc = "left" => Goes(w, "left", "off") BY <1>1
<1>5. Is(w, "took", Head(backlog)) /\ worker[w].pc = "top" => Goes(w, "top", "took") BY <1>1
<1>6. Is(w, "works", worker[w].file) /\ worker[w].pc = "took" => Goes(w, "took", "works") BY <1>1
<1>7. Is(w, "submits", worker[w].file) /\ worker[w].pc = "works" => Goes(w, "works", "submits") BY <1>1
<1>8. Is(w, "counted", worker[w].file) /\ worker[w].pc = "submits" => Goes(w, "submits", "counted") BY <1>1
<1>9. Is(w, "top", NoFile) /\ worker[w].pc = "counted" => Goes(w, "counted", "top") BY <1>1
<1>10. Is(w, "records", worker[w].file) /\ worker[w].pc = "works" => Goes(w, "works", "records") BY <1>1
<1>11. Is(w, "top", NoFile) /\ worker[w].pc = "records" => Goes(w, "records", "top") BY <1>1
<1> QED
  BY <1>2, <1>3, <1>4, <1>5, <1>6, <1>7, <1>8, <1>9, <1>10, <1>11, <1>12
  DEF WorkerStarts, MonitorStarts, WorkerStops, WorkerLeaves,
         WorkerDequeues, WorkerDequeueFails, WorkerCounts, WorkerProcesses,
      WorkerSubmits, WorkerUncounts, WorkerFails, WorkerRecords

(* RunningWorkers is the number of goroutines that have started and not    *)
(* left.                                                                   *)
LEMMA RunningStep ==
  ASSUME DiscoveryTypes, RunningIsExact, [DiscoveryNext]_discoveryVars
  PROVE  RunningIsExact'
<1>1. ASSUME NEW w \in Worker, WorkerNext(w) PROVE RunningIsExact'
  <2> DEFINE n == Cardinality(WorkersAt(Unstarted))
             after == Cardinality(WorkersAt(Unstarted)')
             all == Cardinality(Worker)
  <2>0. n \in Nat /\ all \in Nat BY WorkersAreCounted
  <2>1. running = all - n BY DEF RunningIsExact
  <2>2. ASSUME NEW from, NEW to, Goes(w, from, to)
        PROVE  after = n + (IF to \in Unstarted THEN 1 ELSE 0) - (IF from \in Unstarted THEN 1 ELSE 0)
    <3>1. /\ worker'[w].pc = to /\ worker[w].pc = from
          /\ \A v \in Worker \ {w} : worker'[v] = worker[v]
      BY <2>2 DEF Goes
    <3>2. after = n + (IF to \in Unstarted THEN 1 ELSE 0) - (IF worker[w].pc \in Unstarted THEN 1 ELSE 0)
      BY <3>1, WorkerMoves
    <3> HIDE DEF n, after
    <3> QED BY <3>1, <3>2
  <2>3. RunningIsExact' <=> running' = all - after BY DEF RunningIsExact
  <2> HIDE DEF n, after, all
  <2>4. CASE WorkerStarts(w) \/ MonitorStarts(w)
    <3>1. (Goes(w, "due", "top") \/ Goes(w, "off", "top")) /\ running' = running + 1 BY <2>4, WorkerGoes
    <3>2. after = n - 1 BY <2>0, <2>2, <3>1 DEF Unstarted
    <3> QED BY <2>0, <2>1, <2>3, <3>1, <3>2
  <2>5. CASE WorkerLeaves(w)
    <3>1. Goes(w, "left", "off") /\ running' = running - 1 BY <2>5, WorkerGoes
    <3>2. after = n + 1 BY <2>0, <2>2, <3>1 DEF Unstarted
    <3> QED BY <2>0, <2>1, <2>3, <3>1, <3>2
  <2>6. CASE ~WorkerStarts(w) /\ ~MonitorStarts(w) /\ ~WorkerLeaves(w)
    <3>1. /\ running' = running
          /\ \/ Goes(w, "top", "left") \/ Goes(w, "top", "took") \/ Goes(w, "took", "works")
             \/ Goes(w, "works", "submits") \/ Goes(w, "submits", "counted")
             \/ Goes(w, "counted", "top") \/ Goes(w, "works", "records") \/ Goes(w, "records", "top")
      BY <1>1, <2>6, WorkerGoes DEF WorkerNext
    <3>2. after = n BY <2>0, <2>2, <3>1 DEF Unstarted
    <3> QED BY <2>1, <2>3, <3>1, <3>2
  <2> QED BY <2>4, <2>5, <2>6
<1>2. ASSUME UNCHANGED <<worker, running>> PROVE RunningIsExact'
  BY <1>2 DEF RunningIsExact, WorkersAt
<1>3. CASE TriggerNext
  <2>1. UNCHANGED <<worker, running>>
    BY <1>3
    DEF TriggerNext, TriggerStarts, WalkReturns, DrainReads, DrainTicks, DrainCancelled, Rebuilds,
        TriggerEnds, WalkMeets, poolFrame
  <2> QED BY <1>2, <2>1
<1>4. CASE BatcherCommits \/ AppCancelled \/ UNCHANGED discoveryVars
  BY <1>2, <1>4 DEF BatcherCommits, AppCancelled, discoveryVars, triggerFrame
<1> QED BY <1>1, <1>3, <1>4 DEF DiscoveryNext, DiscoveryRests

-----------------------------------------------------------------------------
(* The counters and the order of the drain, while no file has escaped it.  *)
AtWork == {"works", "submits", "counted"}
NotYetCounted == {"took", "works", "records"}

(* By what a worker's step changes the two counts of places.               *)
LEMMA PlacesCount ==
  ASSUME DiscoveryTypes, NEW w \in Worker, NEW from, NEW to, Goes(w, from, to)
  PROVE  /\ Cardinality(WorkersAt(AtWork)') =
              Cardinality(WorkersAt(AtWork)) + (IF to \in AtWork THEN 1 ELSE 0)
                - (IF from \in AtWork THEN 1 ELSE 0)
         /\ Cardinality(WorkersAt(NotYetCounted)') =
              Cardinality(WorkersAt(NotYetCounted)) + (IF to \in NotYetCounted THEN 1 ELSE 0)
                - (IF from \in NotYetCounted THEN 1 ELSE 0)
         /\ to \notin Holds => WorkersAt(Holds)' = WorkersAt(Holds) \ {w}
<1>1. /\ worker'[w].pc = to /\ worker[w].pc = from
      /\ \A v \in Worker \ {w} : worker'[v] = worker[v]
  BY DEF Goes
<1> QED BY <1>1, WorkerMoves

CountsInv == DrainedInOrder /\ InFlightIsExact /\ NoneTwice

(* A worker's step with its numbers: a change of the places is a change of *)
(* the counters.                                                           *)
LEMMA WorkerBalances ==
  ASSUME DiscoveryTypes, InFlightIsExact, NoneTwice, NEW w \in Worker, WorkerNext(w)
  PROVE  InFlightIsExact' /\ NoneTwice'
<1> DEFINE busy == Cardinality(WorkersAt(AtWork))
           busyAfter == Cardinality(WorkersAt(AtWork)')
           fresh == Cardinality(WorkersAt(NotYetCounted))
           freshAfter == Cardinality(WorkersAt(NotYetCounted)')
<1>0. busy \in Nat /\ fresh \in Nat BY WorkersAreCounted
<1>1. stats \in StatsState /\ Len(backlog) \in Nat /\ backlog \in Seq(Image) BY DEF DiscoveryTypes
<1>2. /\ stats.inFlight = busy
      /\ stats.existing + stats.inserted + stats.skipped + Len(backlog) + fresh <= stats.found
  BY DEF InFlightIsExact, NoneTwice, AtWork, NotYetCounted
<1>3. /\ InFlightIsExact' <=> stats'.inFlight = busyAfter
      /\ NoneTwice' <=> stats'.existing + stats'.inserted + stats'.skipped + Len(backlog')
                          + freshAfter <= stats'.found
  BY DEF InFlightIsExact, NoneTwice, AtWork, NotYetCounted, WorkersAt
<1>4. ASSUME NEW from, NEW to, Goes(w, from, to)
      PROVE  /\ busyAfter = busy + (IF to \in AtWork THEN 1 ELSE 0) - (IF from \in AtWork THEN 1 ELSE 0)
             /\ freshAfter = fresh + (IF to \in NotYetCounted THEN 1 ELSE 0)
                               - (IF from \in NotYetCounted THEN 1 ELSE 0)
  BY <1>4, PlacesCount
<1> HIDE DEF busy, busyAfter, fresh, freshAfter
<1>5. CASE WorkerStarts(w) \/ MonitorStarts(w) \/ WorkerStops(w) \/ WorkerLeaves(w)
             \/ WorkerDequeueFails(w) \/ WorkerSubmits(w)
  <2>1. /\ UNCHANGED <<stats, backlog>>
        /\ \/ Goes(w, "due", "top") \/ Goes(w, "off", "top") \/ Goes(w, "top", "left") \/ Goes(w, "left", "off")
           \/ Goes(w, "submits", "counted")
    BY <1>5, WorkerGoes
  <2>2. busyAfter = busy /\ freshAfter = fresh BY <1>0, <1>4, <2>1 DEF AtWork, NotYetCounted
  <2> QED BY <1>2, <1>3, <2>1, <2>2
<1>6. CASE WorkerDequeues(w)
  <2>1. /\ Goes(w, "top", "took") /\ UNCHANGED stats /\ backlog # <<>> /\ backlog' = Tail(backlog)
    BY <1>6, WorkerGoes
  <2>2. busyAfter = busy /\ freshAfter = fresh + 1 BY <1>0, <1>4, <2>1 DEF AtWork, NotYetCounted
  <2>3. Len(backlog') = Len(backlog) - 1 BY <1>1, <2>1
  <2> QED BY <1>0, <1>1, <1>2, <1>3, <2>1, <2>2, <2>3 DEF StatsState
<1>7. CASE WorkerCounts(w)
  <2>1. /\ Goes(w, "took", "works") /\ backlog' = backlog
        /\ stats' = [stats EXCEPT !.inFlight = @ + 1]
    BY <1>7, WorkerGoes
  <2>2. busyAfter = busy + 1 /\ freshAfter = fresh BY <1>0, <1>4, <2>1 DEF AtWork, NotYetCounted
  <2>3. /\ stats'.inFlight = stats.inFlight + 1 /\ stats'.found = stats.found
        /\ stats'.existing = stats.existing /\ stats'.inserted = stats.inserted
        /\ stats'.skipped = stats.skipped
    BY <1>1, <2>1 DEF StatsState
  <2> QED BY <1>2, <1>3, <2>1, <2>2, <2>3
<1>8. CASE WorkerProcesses(w)
  <2>1. /\ Goes(w, "works", "submits") /\ backlog' = backlog
        /\ stats' = [stats EXCEPT !.inserted = @ + 1]
    BY <1>8, WorkerGoes
  <2>2. busyAfter = busy /\ freshAfter = fresh - 1 BY <1>0, <1>4, <2>1 DEF AtWork, NotYetCounted
  <2>3. /\ stats'.inFlight = stats.inFlight /\ stats'.found = stats.found
        /\ stats'.existing = stats.existing /\ stats'.inserted = stats.inserted + 1
        /\ stats'.skipped = stats.skipped
    BY <1>1, <2>1 DEF StatsState
  <2> QED BY <1>0, <1>1, <1>2, <1>3, <2>1, <2>2, <2>3 DEF StatsState
<1>9. CASE WorkerUncounts(w) \/ WorkerFails(w)
  <2>1. /\ Goes(w, "counted", "top") \/ Goes(w, "works", "records")
        /\ backlog' = backlog /\ stats' = [stats EXCEPT !.inFlight = @ - 1]
    BY <1>9, WorkerGoes
  <2>2. busyAfter = busy - 1 /\ freshAfter = fresh BY <1>0, <1>4, <2>1 DEF AtWork, NotYetCounted
  <2>3. /\ stats'.inFlight = stats.inFlight - 1 /\ stats'.found = stats.found
        /\ stats'.existing = stats.existing /\ stats'.inserted = stats.inserted
        /\ stats'.skipped = stats.skipped
    BY <1>1, <2>1 DEF StatsState
  <2> QED BY <1>2, <1>3, <2>1, <2>2, <2>3
<1>10. CASE WorkerRecords(w)
  <2>1. /\ Goes(w, "records", "top") /\ backlog' = backlog
        /\ stats' \in {stats, [stats EXCEPT !.skipped = @ + 1]}
    BY <1>10, WorkerGoes
  <2>2. busyAfter = busy /\ freshAfter = fresh - 1 BY <1>0, <1>4, <2>1 DEF AtWork, NotYetCounted
  <2>3. /\ stats'.inFlight = stats.inFlight /\ stats'.found = stats.found
        /\ stats'.existing = stats.existing /\ stats'.inserted = stats.inserted
        /\ stats'.skipped = stats.skipped \/ stats'.skipped = stats.skipped + 1
    BY <1>1, <2>1 DEF StatsState
  <2> QED BY <1>0, <1>1, <1>2, <1>3, <2>1, <2>2, <2>3 DEF StatsState
<1> QED BY <1>5, <1>6, <1>7, <1>8, <1>9, <1>10 DEF WorkerNext

(* While all is quiet, a worker can only start, stop or leave.             *)
LEMMA QuietStays ==
  ASSUME DiscoveryTypes, Quiet, NEW w \in Worker, WorkerNext(w)
  PROVE  Quiet' /\ pending' = pending
<1>1. worker[w].pc \notin Holds BY DEF Quiet, WorkersAt
<1>2. WorkerStarts(w) \/ MonitorStarts(w) \/ WorkerStops(w) \/ WorkerLeaves(w)
  BY <1>1
  DEF WorkerNext, WorkerDequeues, WorkerDequeueFails, WorkerCounts, WorkerProcesses, WorkerSubmits, WorkerUncounts,
      WorkerFails, WorkerRecords, Quiet, Holds
<1>3. /\ UNCHANGED backlog
      /\ \/ Goes(w, "due", "top") \/ Goes(w, "off", "top")
         \/ Goes(w, "top", "left") \/ Goes(w, "left", "off")
  BY <1>2, WorkerGoes
<1>4. WorkersAt(Holds)' = WorkersAt(Holds) \ {w} BY <1>3, PlacesCount DEF Holds
<1>5. pending' = pending BY <1>2 DEF WorkerStarts, MonitorStarts, WorkerStops, WorkerLeaves
<1> QED BY <1>3, <1>4, <1>5 DEF Quiet

(* A worker keeps the order of the drain.                                  *)
LEMMA OrderOfWorker ==
  ASSUME DiscoveryTypes, DrainedInOrder, NEW w \in Worker, WorkerNext(w)
  PROVE  DrainedInOrder'
<1>1. trigger' = trigger
  BY DEF WorkerNext, WorkerStarts, MonitorStarts, WorkerStops, WorkerLeaves,
         WorkerDequeues, WorkerDequeueFails, WorkerCounts,
         WorkerProcesses, WorkerSubmits, WorkerUncounts, WorkerFails, WorkerRecords, triggerFrame
<1>2. backlog = <<>> => backlog' = <<>>
  BY WorkerGoes DEF WorkerNext
<1> QED BY <1>1, <1>2, QuietStays DEF DrainedInOrder

(* When InFlight and Held are both empty, no worker holds a file.          *)
LEMMA NobodyHolds ==
  ASSUME DiscoveryTypes, InFlightIsExact, stats.inFlight = 0, Held = {}
  PROVE  WorkersAt(Holds) = {}
<1>1. WorkersAt({"works", "submits", "counted"}) = {}
  BY WorkersAreCounted DEF InFlightIsExact
<1>2. \A w \in Worker : worker[w].pc \notin {"took", "records"} BY DEF Held
<1> QED BY <1>1, <1>2 DEF WorkersAt, Holds

(* The trigger's steps, one by one.                                        *)
LEMMA CountsOfTrigger ==
  ASSUME DiscoveryTypes, CountsInv, Undisturbed, Undisturbed', TriggerNext
  PROVE  CountsInv'
<1>1. ASSUME UNCHANGED <<stats, backlog, worker>> PROVE InFlightIsExact' /\ NoneTwice'
  BY <1>1 DEF InFlightIsExact, NoneTwice, WorkersAt, CountsInv
<1>2. ASSUME UNCHANGED <<backlog, worker>> PROVE Quiet' <=> Quiet
  BY <1>2 DEF Quiet, WorkersAt
<1>3. CASE TriggerStarts
  <2>1. Quiet BY <1>3 DEF TriggerStarts, CountsInv, DrainedInOrder
  <2>0. senders = 0 BY <1>3 DEF TriggerStarts, DiscoveryTypes, Walking
  <2>2. trigger' = "walk" /\ stats' = NoStats /\ UNCHANGED <<backlog, worker>>
    BY <1>3, <2>0, <2>1 DEF TriggerStarts, Quiet, poolFrame
  <2>3. WorkersAt({"works", "submits", "counted"})' = {} /\ WorkersAt({"took", "works", "records"})' = {}
    BY <2>1, <2>2 DEF Quiet, WorkersAt, Holds
  <2>4. InFlightIsExact' BY <2>2, <2>3, FS_EmptySet DEF InFlightIsExact, NoStats
  <2>5. Len(backlog') = 0 BY <2>1, <2>2 DEF Quiet
  <2>6. NoneTwice' BY <2>2, <2>3, <2>5, FS_EmptySet DEF NoneTwice, NoStats
  <2> QED BY <2>2, <2>4, <2>6 DEF CountsInv, DrainedInOrder
<1>4. CASE WalkReturns \/ DrainTicks
  <2>1. trigger' = "senders" /\ UNCHANGED <<stats, backlog, worker>>
    BY <1>4 DEF WalkReturns, DrainTicks, poolFrame
  <2> QED BY <1>1, <2>1 DEF CountsInv, DrainedInOrder
<1>5. CASE DrainCancelled
  BY <1>5 DEF DrainCancelled, Undisturbed
<1>6. CASE Rebuilds \/ TriggerEnds
  <2>1. /\ trigger \in {"rebuild", "ending"} /\ trigger' \in {"ending", "idle"}
        /\ UNCHANGED <<stats, backlog, worker>>
    BY <1>6 DEF Rebuilds, TriggerEnds, poolFrame
  <2> QED BY <1>1, <1>2, <2>1 DEF CountsInv, DrainedInOrder
<1>7. CASE DrainReads
  <2>1. UNCHANGED <<stats, backlog, worker, pending>> BY <1>7 DEF DrainReads, poolFrame
  <2>2. CASE ~IsZero(trigger)
    <3>1. trigger' = "pause" BY <1>7, <2>2 DEF DrainReads
    <3> QED BY <1>1, <2>1, <3>1 DEF CountsInv, DrainedInOrder
  <2>3. CASE trigger = "senders" /\ IsZero(trigger)
    <3>1. trigger' = "queue" BY <1>7, <2>3, FollowingIs DEF DrainReads
    <3> QED BY <1>1, <2>1, <3>1 DEF CountsInv, DrainedInOrder
  <2>4. CASE trigger = "queue" /\ IsZero(trigger)
    <3>1. trigger' = "inFlight" /\ backlog = <<>> BY <1>7, <2>4, FollowingIs DEF DrainReads, IsZero
    <3> QED BY <1>1, <2>1, <3>1 DEF CountsInv, DrainedInOrder
  <2>5. CASE trigger = "inFlight" /\ IsZero(trigger)
    <3>1. trigger' = "writes" /\ stats.inFlight = 0 /\ Held = {}
      BY <1>7, <2>5, FollowingIs DEF DrainReads, IsZero, Undisturbed
    <3>2. backlog = <<>> BY <2>5 DEF CountsInv, DrainedInOrder
    <3>3. Quiet BY <3>1, <3>2, NobodyHolds DEF Quiet, CountsInv
    <3> QED BY <1>1, <1>2, <2>1, <3>1, <3>3 DEF CountsInv, DrainedInOrder
  <2>6. CASE trigger = "writes" /\ IsZero(trigger)
    <3>1. trigger' = "rebuild" /\ pending = <<>> BY <1>7, <2>6, FollowingIs DEF DrainReads, IsZero
    <3> QED BY <1>1, <1>2, <2>1, <2>6, <3>1 DEF CountsInv, DrainedInOrder
  <2> QED BY <1>7, <2>2, <2>3, <2>4, <2>5, <2>6 DEF DrainReads
<1>8. ASSUME NEW f \in Image, WalkMeets(f) PROVE CountsInv'
  <2> DEFINE fresh == Cardinality(WorkersAt({"took", "works", "records"}))
  <2>0. /\ stats \in StatsState /\ backlog \in Seq(Image) /\ fresh \in Nat /\ Len(backlog) \in Nat
    BY WorkersAreCounted DEF DiscoveryTypes
  <2>1. trigger' \in Walking /\ UNCHANGED worker BY <1>8 DEF WalkMeets, Walking
  <2>2. WorkersAt({"works", "submits", "counted"})' = WorkersAt({"works", "submits", "counted"})
        /\ WorkersAt({"took", "works", "records"})' = WorkersAt({"took", "works", "records"})
    BY <2>1 DEF WorkersAt
  <2>3. stats.existing + stats.inserted + stats.skipped + Len(backlog) + fresh <= stats.found
    BY DEF CountsInv, NoneTwice
  <2>4. ASSUME stats'.existing + stats'.inserted + stats'.skipped + Len(backlog') + fresh <= stats'.found,
               stats'.inFlight = stats.inFlight
        PROVE  CountsInv'
    BY <2>1, <2>2, <2>4 DEF CountsInv, DrainedInOrder, InFlightIsExact, NoneTwice, Walking
  <2> HIDE DEF fresh
  <2>5. CASE Decision(f) = "process"
    <3>1. backlog' \in {backlog, Append(backlog, f)} /\ stats' = [stats EXCEPT !.found = @ + 1]
      BY <1>8, <2>5 DEF WalkMeets
    <3>2. Len(backlog') \in {Len(backlog), Len(backlog) + 1} BY <2>0, <3>1
    <3>3. /\ stats'.inFlight = stats.inFlight /\ stats'.found = stats.found + 1
          /\ stats'.existing = stats.existing /\ stats'.inserted = stats.inserted
          /\ stats'.skipped = stats.skipped
      BY <2>0, <3>1 DEF StatsState
    <3> QED BY <2>0, <2>3, <2>4, <3>2, <3>3 DEF StatsState
  <2>6. CASE Decision(f) # "process"
    <3>1. Decision(f) \in {"existing", "skipped"} BY <2>6 DEF Decision
    <3>2. backlog' = backlog /\ stats' = [stats EXCEPT !.found = @ + 1, ![Decision(f)] = @ + 1]
      BY <1>8, <2>6 DEF WalkMeets
    <3>3. /\ stats' \in StatsState
          /\ stats'.found = stats.found + 1 /\ stats'.inserted = stats.inserted
          /\ stats'.inFlight = stats.inFlight
          /\ stats'.existing + stats'.skipped = stats.existing + stats.skipped + 1
      BY <2>0, <3>1, <3>2, TwoCountsUp
    <3>4. /\ stats.found \in Nat /\ stats.existing \in Nat /\ stats.inserted \in Nat /\ stats.skipped \in Nat
          /\ stats'.existing \in Nat /\ stats'.skipped \in Nat
      BY <2>0, <3>3 DEF StatsState
    <3>5. stats'.existing + stats'.inserted + stats'.skipped
            = stats.existing + stats.inserted + stats.skipped + 1
      BY <3>3, <3>4
    <3>6. Len(backlog') = Len(backlog) BY <3>2
    <3>7. stats'.existing + stats'.inserted + stats'.skipped + Len(backlog') + fresh <= stats'.found
      <4> DEFINE sum == stats.existing + stats.inserted + stats.skipped
      <4>1. sum \in Nat BY <3>4
      <4>2. sum + Len(backlog) + fresh <= stats.found BY <2>3
      <4> HIDE DEF sum
      <4>3. sum + 1 + Len(backlog) + fresh <= stats.found + 1 BY <2>0, <3>4, <4>1, <4>2
      <4> QED BY <3>3, <3>5, <3>6, <4>3 DEF sum
    <3> QED BY <2>4, <3>3, <3>7
  <2> QED BY <2>5, <2>6
<1> QED BY <1>3, <1>4, <1>5, <1>6, <1>7, <1>8 DEF TriggerNext

(* The counts and the order are kept as long as nothing disturbs them.     *)
LEMMA CountsStep ==
  ASSUME DiscoveryTypes, Undisturbed => CountsInv, [DiscoveryNext]_discoveryVars
  PROVE  Undisturbed' => CountsInv'
<1> SUFFICES ASSUME Undisturbed' PROVE CountsInv' OBVIOUS
<1>1. Undisturbed
  <2>1. CASE TriggerNext
    <3>1. appDone' = appDone /\ uncounted \subseteq uncounted'
      BY <2>1
      DEF TriggerNext, TriggerStarts, WalkReturns, DrainReads, DrainTicks, DrainCancelled, Rebuilds,
          TriggerEnds, WalkMeets, poolFrame
    <3> QED BY <3>1 DEF Undisturbed
  <2>2. ASSUME NEW w \in Worker, WorkerNext(w) PROVE UNCHANGED triggerFrame
    BY <2>2
    DEF WorkerNext, WorkerStarts, MonitorStarts, WorkerStops, WorkerLeaves,
         WorkerDequeues, WorkerDequeueFails, WorkerCounts,
        WorkerProcesses, WorkerSubmits, WorkerUncounts, WorkerFails, WorkerRecords
  <2>3. CASE BatcherCommits \/ AppCancelled \/ UNCHANGED discoveryVars
    BY <2>3 DEF Undisturbed, BatcherCommits, AppCancelled, triggerFrame, discoveryVars
  <2> QED BY <2>1, <2>2, <2>3 DEF DiscoveryNext, DiscoveryRests, triggerFrame, Undisturbed
<1>2. CountsInv BY <1>1
<1>3. CASE TriggerNext BY <1>1, <1>2, <1>3, CountsOfTrigger
<1>4. ASSUME NEW w \in Worker, WorkerNext(w) PROVE CountsInv'
  BY <1>2, <1>4, WorkerBalances, OrderOfWorker DEF CountsInv
<1>5. CASE BatcherCommits
  <2>1. UNCHANGED <<trigger, worker, backlog, stats>> /\ pending # <<>>
    BY <1>5 DEF BatcherCommits, triggerFrame
  <2>2. trigger # "rebuild" BY <1>2, <2>1 DEF CountsInv, DrainedInOrder
  <2> QED BY <1>2, <2>1, <2>2
      DEF CountsInv, DrainedInOrder, InFlightIsExact, NoneTwice, Quiet, WorkersAt
<1>6. CASE AppCancelled BY <1>6 DEF AppCancelled, Undisturbed
<1>7. CASE UNCHANGED discoveryVars
  BY <1>2, <1>7 DEF discoveryVars, CountsInv, DrainedInOrder, InFlightIsExact, NoneTwice, Quiet, WorkersAt
<1> QED BY <1>3, <1>4, <1>5, <1>6, <1>7 DEF DiscoveryNext, DiscoveryRests

-----------------------------------------------------------------------------
(* A process that starts has no worker and has counted nothing.            *)
LEMMA DiscoveryBegins == DiscoveryInit => DiscoveryInv
<1> SUFFICES ASSUME DiscoveryInit PROVE DiscoveryInv OBVIOUS
<1>1. catalogue \in [Image -> Status] /\ triggers \in Nat
  BY DiscoveryAssumption DEF DiscoveryInit, Status
<1>2. DiscoveryTypes
  BY <1>1 DEF DiscoveryInit, DiscoveryTypes, NoStats, StatsState, Holds, Waits, Walking
<1>3. /\ WorkersAt(Unstarted) = Worker /\ WorkersAt(Holds) = {}
      /\ WorkersAt({"works", "submits", "counted"}) = {}
      /\ WorkersAt({"took", "works", "records"}) = {}
  BY DEF DiscoveryInit, WorkersAt, Holds, Unstarted
<1>4. RunningIsExact BY <1>3, WorkersAreCounted DEF DiscoveryInit, RunningIsExact
<1>5. InFlightIsExact BY <1>3, FS_EmptySet DEF DiscoveryInit, InFlightIsExact, NoStats
<1>6. Len(backlog) = 0 BY DEF DiscoveryInit
<1>7. NoneTwice
  <2>1. Cardinality(WorkersAt({"took", "works", "records"})) = 0 BY <1>3, FS_EmptySet
  <2>2. stats.existing = 0 /\ stats.inserted = 0 /\ stats.skipped = 0 /\ stats.found = 0
    BY DEF DiscoveryInit, NoStats
  <2> QED BY <1>6, <2>1, <2>2 DEF NoneTwice
<1>8. DrainedInOrder BY <1>3 DEF DiscoveryInit, DrainedInOrder, Quiet
<1> QED BY <1>2, <1>4, <1>5, <1>7, <1>8 DEF DiscoveryInv

(* Every step of trigger, workers and batcher keeps the invariant.         *)
LEMMA DiscoveryKeeps == DiscoveryInv /\ [DiscoveryNext]_discoveryVars => DiscoveryInv'
<1> SUFFICES ASSUME DiscoveryInv, [DiscoveryNext]_discoveryVars PROVE DiscoveryInv' OBVIOUS
<1>1. DiscoveryTypes /\ RunningIsExact /\ (Undisturbed => CountsInv) BY DEF DiscoveryInv, CountsInv
<1>2. DiscoveryTypes'
  BY <1>1, TypesOfTrigger, TypesOfWorker, TypesOfOthers DEF DiscoveryNext, DiscoveryRests
<1>3. RunningIsExact' BY <1>1, RunningStep
<1>4. Undisturbed' => CountsInv' BY <1>1, CountsStep
<1> QED BY <1>2, <1>3, <1>4 DEF DiscoveryInv, CountsInv

(* The invariant holds in every reachable state.                           *)
THEOREM DiscoveryHasInv == DiscoverySpec => []DiscoveryInv
BY DiscoveryBegins, DiscoveryKeeps, PTL DEF DiscoverySpec

(* The workers that run are workers there are.                             *)
LEMMA DiscoveryInvGivesTypes == DiscoveryInv => DiscoveryTypeOK
<1> SUFFICES ASSUME DiscoveryInv PROVE DiscoveryTypeOK OBVIOUS
<1>1. running \in 0..Cardinality(Worker)
  BY WorkersAreCounted DEF DiscoveryInv, RunningIsExact
<1>2. stats.inFlight \in Int /\ stats.found \in Nat
  BY DEF DiscoveryInv, DiscoveryTypes, StatsState
<1> QED BY <1>1, <1>2 DEF DiscoveryInv, DiscoveryTypes, DiscoveryTypeOK, Draining

(* The types of the discovery's state.                                     *)
THEOREM DiscoveryHasTypes == DiscoverySpec => []DiscoveryTypeOK
BY DiscoveryInvGivesTypes, DiscoveryHasInv, PTL

(* A drain that is over leaves nothing in the queue or with a worker.      *)
LEMMA DiscoveryInvGivesSafety == DiscoveryInv => DiscoverySafety
<1> SUFFICES ASSUME DiscoveryInv PROVE DiscoverySafety OBVIOUS
<1>1. RebuildMissesOnlyUncounted
  BY DEF RebuildMissesOnlyUncounted, DiscoveryInv, Undisturbed, DrainedInOrder, Quiet, DiscoveryTypes,
         WorkersAt, Holds, Walking
<1>2. StatsAddUp
  <2> SUFFICES ASSUME Undisturbed
               PROVE  /\ stats.existing + stats.inserted + stats.skipped <= stats.found
                      /\ stats.inFlight >= 0
    BY DEF StatsAddUp, Undisturbed
  <2> DEFINE fresh == Cardinality(WorkersAt({"took", "works", "records"}))
             busy == Cardinality(WorkersAt({"works", "submits", "counted"}))
  <2>1. fresh \in Nat /\ busy \in Nat BY WorkersAreCounted
  <2>2. /\ stats.existing + stats.inserted + stats.skipped + Len(backlog) + fresh <= stats.found
        /\ stats.inFlight = busy
    BY DEF DiscoveryInv, NoneTwice, InFlightIsExact
  <2>3. stats \in StatsState /\ Len(backlog) \in Nat BY DEF DiscoveryInv, DiscoveryTypes
  <2> HIDE DEF fresh, busy
  <2> QED BY <2>1, <2>2, <2>3 DEF StatsState
<1> QED BY <1>1, <1>2 DEF DiscoverySafety

(* The index is rebuilt over a complete catalogue, but for files InFlight  *)
(* did not show, and the numbers of the run add up                         *)
(* (waitForFileProcessingDrain, processingStats), whatever the number of   *)
(* files and of workers.                                                   *)
THEOREM DiscoveryIsSafe == DiscoverySpec => []DiscoverySafety
BY DiscoveryInvGivesSafety, DiscoveryHasInv, PTL

-----------------------------------------------------------------------------
(***************************************************************************)
(* The folder index: only the complete index of one scan goes live, and a  *)
(* rebuild that has returned holds no connection and no flag.              *)
(*                                                                         *)
(* SwapIsComplete speaks of the moment of the swap; what makes it true is  *)
(* an inequality kept all along between the files whose rows are not yet   *)
(* in the new table and the counter inflight, which saturates at zero.     *)
(***************************************************************************)

(* Rows, tables, what the batcher queues, and what it holds in its queue   *)
(* and in the batch being flushed.                                         *)
FolderRow == [kind : {"row"}, file : IndexFile, generation : Nat]
TableState == (SUBSET FolderRow) \cup {NoTable}
FolderItem == FolderRow \cup {Page}
Queued == Range(batcherQueue) \cup Range(flushing.items)

(* The types of the state; a rebuild that has begun runs ahead of the      *)
(* generation until BumpsGeneration.                                       *)
FolderTypes ==
  /\ rebuild \in {"idle", "cloned", "bump", "count", "scan", "write", "counted",
                  "fails", "index", "swap", "drop"}
  /\ flags \in [active : BOOLEAN, scanHeld : BOOLEAN, generation : Nat, inflight : Nat]
  /\ leases \in [rw : Int, ro : Int]
  /\ indexTables \in [live : TableState, dest : TableState, stale : TableState]
  /\ scanned \subseteq IndexFile /\ unsent \subseteq scanned
  /\ batcherQueue \in Seq(FolderItem)
  /\ flushing \in [pc : {"idle", "taken", "committed"}, items : Seq(FolderItem)]
  /\ flushing.pc = "idle" => flushing.items = <<>>
  /\ rebuilds \in Nat /\ rebuilds <= MaxRebuilds /\ flags.generation <= rebuilds
  /\ rebuild \in {"cloned", "bump"} => flags.generation < rebuilds
  /\ rebuild = "counted" => rowInHand \in scanned \ unsent

(* The connections and flags that a rebuild holds at each of its places.   *)
Has(rw, ro, rebuilding, scanHeld) ==
  leases = [rw |-> rw, ro |-> ro] /\ flags.active = rebuilding /\ flags.scanHeld = scanHeld

HoldsByPlace ==
  /\ rebuild = "idle" => Has(0, 0, FALSE, FALSE)
  /\ rebuild = "cloned" => Has(1, 0, FALSE, FALSE)
  /\ rebuild = "bump" => Has(1, 0, TRUE, FALSE)
  /\ rebuild \in {"count", "write", "counted", "fails", "index"} => Has(0, 0, TRUE, FALSE)
  /\ rebuild = "scan" => Has(0, 1, TRUE, TRUE)
  /\ rebuild \in {"swap", "drop"} => Has(1, 0, TRUE, FALSE)

(* Before the scan, and from the scan to the swap.                         *)
Opening == {"cloned", "bump", "count", "scan"}
Filling == {"write", "counted", "index", "swap"}
(* The rows of the scan; those handed to the batcher; and the files        *)
(* counted in flight for which the commit or the count back is still to    *)
(* come.                                                                   *)
RowsOfScan == {Row(f) : f \in scanned}
Submitted == (scanned \ unsent) \ (IF rebuild = "counted" THEN {rowInHand} ELSE {})
SubmittedRows == {Row(f) : f \in Submitted}
Owed == {f \in scanned \ unsent :
           Row(f) \notin indexTables.dest \/ (flushing.pc = "committed" /\ Row(f) \in Range(flushing.items))}

(* The new table holds rows of this rebuild's generation and scan only,    *)
(* and inflight never falls below the files owed, so that a wait that ends *)
(* at zero has them all.                                                   *)
RowsAreOwn ==
  /\ rebuild \in Opening => Queued \subseteq {Page} /\ indexTables.dest = {}
  /\ rebuild \in Filling =>
        /\ Queued \subseteq SubmittedRows \cup {Page}
        /\ indexTables.dest \subseteq SubmittedRows
        /\ flushing.pc = "committed" => Range(flushing.items) \ {Page} \subseteq indexTables.dest
        /\ Cardinality(Owed) <= flags.inflight
  /\ rebuild \in {"index", "swap"} => unsent = {} /\ flags.inflight = 0

FolderIndexInv == FolderTypes /\ HoldsByPlace /\ RowsAreOwn

-----------------------------------------------------------------------------
(* What the ends of a sequence hold together with the parts added to or    *)
(* taken from it.                                                          *)
LEMMA RangeOfAppend ==
  ASSUME NEW T, NEW s \in Seq(T), NEW e \in T
  PROVE  Append(s, e) \in Seq(T) /\ Range(Append(s, e)) = Range(s) \cup {e}
<1>1. /\ Append(s, e) \in Seq(T) /\ DOMAIN Append(s, e) = 1..Len(s) + 1
      /\ \A i \in 1..Len(s) : Append(s, e)[i] = s[i]
      /\ Append(s, e)[Len(s) + 1] = e
  OBVIOUS
<1>2. DOMAIN s = 1..Len(s) /\ Len(s) \in Nat OBVIOUS
<1>3. 1..Len(s) + 1 = 1..Len(s) \cup {Len(s) + 1} BY <1>2
<1> QED BY <1>1, <1>2, <1>3 DEF Range

(* The same, of a sequence put behind another.                             *)
LEMMA RangeOfConcat ==
  ASSUME NEW T, NEW s \in Seq(T), NEW t \in Seq(T)
  PROVE  s \o t \in Seq(T) /\ Range(s \o t) = Range(s) \cup Range(t)
<1>1. /\ s \o t \in Seq(T) /\ DOMAIN (s \o t) = 1..Len(s) + Len(t)
      /\ DOMAIN s = 1..Len(s) /\ DOMAIN t = 1..Len(t) /\ Len(s) \in Nat /\ Len(t) \in Nat
  OBVIOUS
<1>2. \A i \in 1..Len(s) : (s \o t)[i] = s[i]
  OBVIOUS
<1>3. \A i \in 1..Len(t) : (s \o t)[i + Len(s)] = t[i]
  OBVIOUS
<1>4. \A i \in 1..Len(s) + Len(t) : i \in 1..Len(s) \/ \E j \in 1..Len(t) : i = j + Len(s)
  <2> SUFFICES ASSUME NEW i \in 1..Len(s) + Len(t), i \notin 1..Len(s)
               PROVE  \E j \in 1..Len(t) : i = j + Len(s)
    OBVIOUS
  <2>1. i - Len(s) \in 1..Len(t) /\ i = (i - Len(s)) + Len(s)
    BY <1>1
  <2> QED BY <2>1
<1>5. \A i \in 1..Len(s) : i \in 1..Len(s) + Len(t)
  BY <1>1
<1>6. \A i \in 1..Len(t) : i + Len(s) \in 1..Len(s) + Len(t)
  BY <1>1
<1>7. Range(s) = {s[i] : i \in 1..Len(s)} /\ Range(t) = {t[i] : i \in 1..Len(t)}
      /\ Range(s \o t) = {(s \o t)[i] : i \in 1..Len(s) + Len(t)}
  BY <1>1 DEF Range
<1> DEFINE u == s \o t
           n == Len(s) + Len(t)
<1>8. /\ \A i \in 1..Len(s) : u[i] = s[i] /\ i \in 1..n
      /\ \A i \in 1..Len(t) : u[i + Len(s)] = t[i] /\ i + Len(s) \in 1..n
  BY <1>2, <1>3, <1>5, <1>6
<1>9. \A i \in 1..n : i \in 1..Len(s) \/ \E j \in 1..Len(t) : i = j + Len(s)
  BY <1>4
<1> HIDE DEF u, n
<1>10. {u[i] : i \in 1..n} = {s[i] : i \in 1..Len(s)} \cup {t[i] : i \in 1..Len(t)}
  <2>1. ASSUME NEW i \in 1..n
        PROVE  u[i] \in {s[j] : j \in 1..Len(s)} \cup {t[j] : j \in 1..Len(t)}
    BY <1>8, <1>9
  <2>2. ASSUME NEW j \in 1..Len(s) PROVE s[j] \in {u[i] : i \in 1..n}
    BY <1>8
  <2>3. ASSUME NEW j \in 1..Len(t) PROVE t[j] \in {u[i] : i \in 1..n}
    BY <1>8
  <2> QED BY <2>1, <2>2, <2>3
<1> QED BY <1>1, <1>7, <1>10 DEF u, n

(* The same, of a part of a sequence.                                      *)
LEMMA RangeOfPart ==
  ASSUME NEW T, NEW s \in Seq(T), NEW m \in Nat, NEW n \in Nat, m >= 1, n <= Len(s)
  PROVE  SubSeq(s, m, n) \in Seq(T) /\ Range(SubSeq(s, m, n)) \subseteq Range(s)
<1>1. /\ SubSeq(s, m, n) \in Seq(T)
      /\ Len(SubSeq(s, m, n)) = IF m <= n THEN n - m + 1 ELSE 0
      /\ \A i \in 1..Len(SubSeq(s, m, n)) : SubSeq(s, m, n)[i] = s[m + i - 1]
  OBVIOUS
<1>2. ASSUME NEW i \in 1..Len(SubSeq(s, m, n)) PROVE m + i - 1 \in 1..Len(s)
  BY <1>1
<1> QED BY <1>1, <1>2 DEF Range

(* A sequence holds what its type says, and the empty one nothing.         *)
LEMMA RangeType == ASSUME NEW T, NEW s \in Seq(T) PROVE Range(s) \subseteq T
BY DEF Range

(* See RangeType.                                                          *)
LEMMA RangeOfNone == Range(<<>>) = {}
BY DEF Range

-----------------------------------------------------------------------------
(* A batch has a positive length and no more than the queue.               *)
TakesBatch(n) ==
  LET batch == SubSeq(batcherQueue, 1, n) IN
  /\ batcherQueue' = SubSeq(batcherQueue, n + 1, Len(batcherQueue))
  /\ flushing' = [pc |-> IF IndexOnlyAndRebuildInactive(batch) THEN "committed" ELSE "taken",
                  items |-> batch]

(* The length of a batch lies within the queue.                            *)
LEMMA TakenIsThere ==
  ASSUME NEW s, NEW T, s \in Seq(T), NEW n \in 1..Min({BatchSize, Len(s)})
  PROVE  n \in Nat /\ n >= 1 /\ n <= Len(s)
<1>1. Min({BatchSize, Len(s)}) \in Int /\ Min({BatchSize, Len(s)}) <= Len(s)
  BY FolderIndexAssumption DEF Min
<1> QED BY <1>1

(* A sequence has finitely many items.                                     *)
LEMMA ItemsAreFinite == ASSUME NEW T, NEW s \in Seq(T) PROVE IsFiniteSet(Range(s))
<1>1. IsFiniteSet(1..Len(s)) BY FS_Interval
<1>2. Range(s) = {s[i] : i \in 1..Len(s)} BY DEF Range
<1>3. s \in Surjection(1..Len(s), Range(s)) BY <1>2 DEF Surjection
<1> QED BY <1>1, <1>3, FS_Surjection

(* Every step keeps the types, the order of the generations and the row in *)
(* hand.                                                                   *)
LEMMA FolderTypesStep ==
  ASSUME FolderTypes, [FolderIndexNext]_folderIndexVars
  PROVE  FolderTypes'
<1>a. MaxRebuilds \in Nat BY FolderIndexAssumption
<1>1. CASE RebuildStarts
  <2>1. rebuilds' \in Nat /\ rebuilds' <= MaxRebuilds /\ rebuilds' = rebuilds + 1
    BY <1>1, <1>a DEF RebuildStarts, FolderTypes
  <2>2. leases' \in [rw : Int, ro : Int] BY <1>1 DEF RebuildStarts, FolderTypes, Lease
  <2>3. indexTables' \in [live : TableState, dest : TableState, stale : TableState]
    <3>1. {} \in TableState BY DEF TableState
    <3> QED BY <1>1, <3>1 DEF RebuildStarts, FolderTypes
  <2>4. UNCHANGED <<flags, rowState, batcherState>> /\ rebuild' # "counted" BY <1>1 DEF RebuildStarts
  <2>5. flags'.generation < rebuilds' BY <2>1, <2>4 DEF FolderTypes
  <2>6. rebuild' \in {"cloned", "idle"} BY <1>1 DEF RebuildStarts
  <2> QED BY <1>a, <2>1, <2>2, <2>3, <2>4, <2>5, <2>6 DEF FolderTypes, rowState, batcherState
<1>2. CASE SetsActive
  BY <1>2 DEF SetsActive, FolderTypes, rowState, batcherState
<1>3. CASE BumpsGeneration
  <2>1. flags' \in [active : BOOLEAN, scanHeld : BOOLEAN, generation : Nat, inflight : Nat]
        /\ flags'.generation = flags.generation + 1
    <3>1. flags.generation + 1 \in Nat BY DEF FolderTypes
    <3> QED BY <1>3, <3>1 DEF BumpsGeneration, FolderTypes
  <2>2. leases' \in [rw : Int, ro : Int] BY SMTT(30), <1>3 DEF BumpsGeneration, FolderTypes, Lease
  <2> QED BY <1>3, <2>1, <2>2 DEF BumpsGeneration, FolderTypes, rowState, batcherState
<1>4. CASE OpensScan
  <2>1. leases' \in [rw : Int, ro : Int] BY <1>4 DEF OpensScan, FolderTypes, Lease
  <2>2. scanned' \subseteq IndexFile /\ unsent' \subseteq scanned' BY <1>4 DEF OpensScan, FolderTypes
  <2>3. /\ \/ flags' = [flags EXCEPT !.scanHeld = TRUE]
           \/ flags' = flags
           \/ flags' = [flags EXCEPT !.active = FALSE]
        /\ rebuild' \in {"scan", "write", "idle"}
        /\ UNCHANGED <<rebuilds, indexTables, rowInHand, batcherState>>
    BY <1>4 DEF OpensScan, RebuildReturns
  <2>4. /\ flags' \in [active : BOOLEAN, scanHeld : BOOLEAN, generation : Nat, inflight : Nat]
        /\ flags'.generation = flags.generation
    BY <2>3 DEF FolderTypes
  <2> QED BY <2>1, <2>2, <2>3, <2>4 DEF FolderTypes, batcherState
<1>5. CASE Scans
  <2>1. leases' \in [rw : Int, ro : Int] BY <1>5 DEF Scans, FolderTypes, Lease
  <2>2. scanned' \subseteq IndexFile /\ unsent' \subseteq scanned' BY <1>5 DEF Scans, FolderTypes
  <2> QED BY <1>5, <2>1, <2>2 DEF Scans, FolderTypes, batcherState
<1>6. ASSUME NEW f \in IndexFile, CountsRow(f) PROVE FolderTypes'
  BY <1>6 DEF CountsRow, FolderTypes, batcherState
<1>7. CASE SubmitsRow
  <2>1. flags' \in [active : BOOLEAN, scanHeld : BOOLEAN, generation : Nat, inflight : Nat]
        /\ flags'.generation = flags.generation
    BY <1>7 DEF SubmitsRow, FolderTypes, SaturatingMinus
  <2>2. rowInHand \in IndexFile /\ Row(rowInHand) \in FolderRow
    BY <1>7 DEF SubmitsRow, FolderTypes, Row, FolderRow
  <2>3. batcherQueue' \in Seq(FolderItem)
    <3>1. Append(batcherQueue, Row(rowInHand)) \in Seq(FolderItem)
      BY <2>2, RangeOfAppend DEF FolderTypes, FolderItem
    <3> QED BY <1>7, <3>1 DEF SubmitsRow, FolderTypes
  <2>4. unsent' \subseteq scanned BY <1>7 DEF SubmitsRow, FolderTypes
  <2> QED BY <1>7, <2>1, <2>3, <2>4 DEF SubmitsRow, FolderTypes
<1>8. CASE WaitEnds \/ RebuildCancelled
  BY <1>8 DEF WaitEnds, RebuildCancelled, FolderTypes, rowState, batcherState
<1>9. CASE RebuildFails
  BY <1>9 DEF RebuildFails, RebuildReturns, FolderTypes, rowState, batcherState
<1>10. CASE CreatesIndexes
  BY <1>10 DEF CreatesIndexes, FolderTypes, rowState, batcherState, Lease
<1>11. CASE Swaps
  <2>1. NoTable \in TableState BY DEF TableState
  <2>2. indexTables' \in [live : TableState, dest : TableState, stale : TableState]
    BY <1>11, <2>1 DEF Swaps, FolderTypes
  <2>3. leases' \in [rw : Int, ro : Int] BY <1>11 DEF Swaps, FolderTypes, Lease
  <2> QED BY <1>11, <2>2, <2>3 DEF Swaps, FolderTypes, rowState, batcherState
<1>12. CASE DropsStale
  <2>1. NoTable \in TableState BY DEF TableState
  <2>2. indexTables' \in [live : TableState, dest : TableState, stale : TableState]
    BY <1>12, <2>1 DEF DropsStale, FolderTypes
  <2>3. leases' \in [rw : Int, ro : Int] BY <1>12 DEF DropsStale, FolderTypes, Lease
  <2> QED BY <1>12, <2>2, <2>3 DEF DropsStale, RebuildReturns, FolderTypes, rowState, batcherState
<1>13. CASE BatchTaken
  <2>1. PICK n \in 1..Min({BatchSize, Len(batcherQueue)}) : TakesBatch(n)
    BY <1>13 DEF BatchTaken, TakesBatch
  <2>2. n \in Nat /\ n >= 1 /\ n <= Len(batcherQueue) BY <2>1, TakenIsThere DEF FolderTypes
  <2>3. SubSeq(batcherQueue, 1, n) \in Seq(FolderItem) /\ SubSeq(batcherQueue, n + 1, Len(batcherQueue)) \in Seq(FolderItem)
    BY <2>2, RangeOfPart DEF FolderTypes
  <2>4. flushing' \in [pc : {"idle", "taken", "committed"}, items : Seq(FolderItem)]
        /\ (flushing'.pc = "idle" => flushing'.items = <<>>)
    BY <2>1, <2>3 DEF TakesBatch
  <2> QED BY <1>13, <2>1, <2>3, <2>4 DEF TakesBatch, BatchTaken, FolderTypes, rebuildState, rowState
<1>14. CASE BatchCommits
  <2>1. RowsToInsert(flushing.items) \subseteq FolderRow
    BY RangeType DEF RowsToInsert, FolderTypes, FolderItem, FolderRow, Page
  <2>2. indexTables' \in [live : TableState, dest : TableState, stale : TableState]
    <3>1. CASE RowsToInsert(flushing.items) = {} BY <3>1, <1>14 DEF BatchCommits, FolderTypes
    <3>2. CASE RowsToInsert(flushing.items) # {}
      <4>1. indexTables.dest # NoTable BY <3>2 DEF RowsToInsert
      <4>2. indexTables.dest \cup RowsToInsert(flushing.items) \in TableState
        BY <2>1, <4>1 DEF FolderTypes, TableState
      <4> QED BY <3>2, <4>2, <1>14 DEF BatchCommits, FolderTypes
    <3> QED BY <3>1, <3>2
  <2>3. flushing' \in [pc : {"idle", "taken", "committed"}, items : Seq(FolderItem)] /\ flushing'.pc # "idle"
    BY <1>14 DEF BatchCommits, FolderTypes
  <2> QED BY <1>14, <2>2, <2>3 DEF BatchCommits, FolderTypes, rebuildState, rowState
<1>15. CASE BatchFails
  <2>1. PICK n \in 0..Len(flushing.items) :
          batcherQueue' = batcherQueue \o SubSeq(flushing.items, 1, n)
    BY <1>15 DEF BatchFails
  <2>2. SubSeq(flushing.items, 1, n) \in Seq(FolderItem) BY <2>1, RangeOfPart DEF FolderTypes
  <2>3. batcherQueue' \in Seq(FolderItem) BY <2>1, <2>2, RangeOfConcat DEF FolderTypes
  <2>4. flushing' \in [pc : {"idle", "taken", "committed"}, items : Seq(FolderItem)]
        /\ flushing'.items = <<>>
    BY <1>15 DEF BatchFails, NoBatch
  <2> QED BY <1>15, <2>3, <2>4 DEF BatchFails, FolderTypes, rebuildState, rowState
<1>16. CASE BatchSucceeds
  <2>1. Cardinality({item \in Range(flushing.items) :
                       item.kind = "row" /\ item.generation = flags.generation}) \in Nat
    BY ItemsAreFinite, FS_Subset, FS_CardinalityType DEF FolderTypes
  <2>2. flags' \in [active : BOOLEAN, scanHeld : BOOLEAN, generation : Nat, inflight : Nat]
        /\ flags'.generation = flags.generation
    <3> DEFINE n == Cardinality({item \in Range(flushing.items) :
                       item.kind = "row" /\ item.generation = flags.generation})
    <3>1. n \in Nat /\ SaturatingMinus(n) BY <1>16, <2>1 DEF BatchSucceeds
    <3> HIDE DEF n
    <3>2. flags.inflight \in Nat BY DEF FolderTypes
    <3>3. (IF flags.inflight > n THEN flags.inflight - n ELSE 0) \in Nat BY <3>1, <3>2
    <3> QED BY <3>1, <3>3 DEF FolderTypes, SaturatingMinus
  <2>4. flushing' \in [pc : {"idle", "taken", "committed"}, items : Seq(FolderItem)]
        /\ flushing'.items = <<>>
    BY <1>16 DEF BatchSucceeds, NoBatch
  <2> QED BY <1>16, <2>2, <2>4 DEF BatchSucceeds, FolderTypes, rebuildState, rowState
<1>17. CASE PageSubmitted
  <2>1. batcherQueue' \in Seq(FolderItem)
    BY <1>17, RangeOfAppend DEF PageSubmitted, FolderTypes, FolderItem
  <2> QED BY <1>17, <2>1 DEF PageSubmitted, FolderTypes, rebuildState, rowState
<1>18. CASE UNCHANGED folderIndexVars
  BY <1>18 DEF folderIndexVars, FolderTypes
<1> QED
  BY <1>1, <1>2, <1>3, <1>4, <1>5, <1>6, <1>7, <1>8, <1>9, <1>10, <1>11, <1>12, <1>13, <1>14,
     <1>15, <1>16, <1>17, <1>18
  DEF FolderIndexNext, RebuildNext, FlushNext, FolderIndexRests

-----------------------------------------------------------------------------
(* A Put gives back the one connection that is held.                       *)
LEMMA PutOfRw ==
  ASSUME leases = [rw |-> 1, ro |-> 0], Lease("rw", -1)
  PROVE  leases' = [rw |-> 0, ro |-> 0]
<1>1. leases' = [leases EXCEPT !["rw"] = 1 + (-1)] BY DEF Lease
<1>2. 1 + (-1) = 0 OBVIOUS
<1> QED BY <1>1, <1>2

(* As above, of the other pool.                                            *)
LEMMA PutOfRo ==
  ASSUME leases = [rw |-> 0, ro |-> 1], Lease("ro", -1)
  PROVE  leases' = [rw |-> 0, ro |-> 0]
<1>1. leases' = [leases EXCEPT !["ro"] = 1 + (-1)] BY DEF Lease
<1>2. 1 + (-1) = 0 OBVIOUS
<1> QED BY <1>1, <1>2

(* What the rebuild holds changes with its place only.                     *)
LEMMA HoldsStep ==
  ASSUME FolderTypes, HoldsByPlace, [FolderIndexNext]_folderIndexVars
  PROVE  HoldsByPlace'
<1>a. /\ flags \in [active : BOOLEAN, scanHeld : BOOLEAN, generation : Nat, inflight : Nat]
      /\ leases \in [rw : Int, ro : Int]
  BY DEF FolderTypes
<1>1. CASE RebuildStarts
  BY <1>1, <1>a DEF RebuildStarts, HoldsByPlace, Has, Lease
<1>2. CASE SetsActive
  BY <1>2, <1>a DEF SetsActive, HoldsByPlace, Has
<1>3. CASE BumpsGeneration
  <2>1. Has(1, 0, TRUE, FALSE) BY <1>3 DEF BumpsGeneration, HoldsByPlace
  <2>2. Has(0, 0, TRUE, FALSE)' BY <1>3, <1>a, <2>1, PutOfRw DEF BumpsGeneration, Has
  <2> QED BY <1>3, <2>2 DEF BumpsGeneration, HoldsByPlace
<1>4. CASE OpensScan
  BY <1>4, <1>a DEF OpensScan, HoldsByPlace, Has, Lease, RebuildReturns
<1>5. CASE Scans
  <2>1. Has(0, 1, TRUE, TRUE) BY <1>5 DEF Scans, HoldsByPlace
  <2>2. CASE rebuild' = "write" /\ flags' = [flags EXCEPT !.scanHeld = FALSE]
    <3>1. Has(0, 0, TRUE, FALSE)' BY PutOfRo, <1>5, <1>a, <2>1, <2>2 DEF Scans, Has
    <3> QED BY <2>2, <3>1 DEF HoldsByPlace
  <2>3. CASE rebuild' = "idle" /\ flags' = [flags EXCEPT !.scanHeld = FALSE, !.active = FALSE]
    <3>1. Has(0, 0, FALSE, FALSE)' BY PutOfRo, <1>5, <1>a, <2>1, <2>3 DEF Scans, Has
    <3> QED BY <2>3, <3>1 DEF HoldsByPlace
  <2> QED BY <1>5, <2>2, <2>3 DEF Scans
<1>6. ASSUME NEW f \in IndexFile, CountsRow(f) PROVE HoldsByPlace'
  BY <1>6, <1>a DEF CountsRow, HoldsByPlace, Has
<1>7. CASE SubmitsRow
  BY <1>7, <1>a DEF SubmitsRow, HoldsByPlace, Has, SaturatingMinus
<1>8. CASE WaitEnds \/ RebuildCancelled
  BY <1>8 DEF WaitEnds, RebuildCancelled, HoldsByPlace, Has
<1>9. CASE RebuildFails
  BY <1>9, <1>a DEF RebuildFails, RebuildReturns, HoldsByPlace, Has
<1>10. CASE CreatesIndexes
  BY <1>10, <1>a DEF CreatesIndexes, HoldsByPlace, Has, Lease
<1>11. CASE Swaps
  BY <1>11, <1>a DEF Swaps, HoldsByPlace, Has, Lease
<1>12. CASE DropsStale
  <2>1. Has(1, 0, TRUE, FALSE) BY <1>12 DEF DropsStale, HoldsByPlace
  <2>2. Has(0, 0, FALSE, FALSE)'
    BY <1>12, <1>a, <2>1, PutOfRw DEF DropsStale, RebuildReturns, Has
  <2> QED BY <1>12, <2>2 DEF DropsStale, RebuildReturns, HoldsByPlace
<1>13. CASE BatchTaken \/ BatchCommits \/ BatchFails \/ PageSubmitted
  BY <1>13 DEF BatchTaken, BatchCommits, BatchFails, PageSubmitted, rebuildState, HoldsByPlace, Has
<1>14. CASE BatchSucceeds
  BY <1>14, <1>a DEF BatchSucceeds, SaturatingMinus, rebuildState, HoldsByPlace, Has
<1>15. CASE UNCHANGED folderIndexVars
  BY <1>15 DEF folderIndexVars, HoldsByPlace, Has
<1> QED
  BY <1>1, <1>2, <1>3, <1>4, <1>5, <1>6, <1>7, <1>8, <1>9, <1>10, <1>11, <1>12, <1>13, <1>14, <1>15
  DEF FolderIndexNext, RebuildNext, FlushNext, FolderIndexRests

-----------------------------------------------------------------------------
(* The rows in the batcher while the worker moves.                         *)

(* The worker never makes a row: what it takes, re-enqueues or ends was    *)
(* there before.                                                           *)
LEMMA WorkerMakesNoRow ==
  ASSUME FolderTypes, BatchTaken \/ BatchCommits \/ BatchFails \/ BatchSucceeds \/ PageSubmitted
  PROVE  Queued' \subseteq Queued \cup {Page}
<1>0. batcherQueue \in Seq(FolderItem) /\ flushing.items \in Seq(FolderItem) BY DEF FolderTypes
<1>1. CASE BatchTaken
  <2>1. PICK n \in 1..Min({BatchSize, Len(batcherQueue)}) : TakesBatch(n)
    BY <1>1 DEF BatchTaken, TakesBatch
  <2>2. n \in Nat /\ n >= 1 /\ n <= Len(batcherQueue) BY <1>0, <2>1, TakenIsThere
  <2>3. /\ Range(SubSeq(batcherQueue, 1, n)) \subseteq Range(batcherQueue)
        /\ Range(SubSeq(batcherQueue, n + 1, Len(batcherQueue))) \subseteq Range(batcherQueue)
    BY <1>0, <2>2, RangeOfPart
  <2>4. flushing'.items = SubSeq(batcherQueue, 1, n)
    BY <2>1 DEF TakesBatch
  <2> QED BY <2>1, <2>3, <2>4 DEF TakesBatch, Queued
<1>2. CASE BatchCommits
  <2>1. flushing'.items = flushing.items BY <1>2 DEF BatchCommits, FolderTypes
  <2> QED BY <1>2, <2>1 DEF BatchCommits, Queued
<1>3. CASE BatchFails
  <2>1. PICK n \in 0..Len(flushing.items) :
          batcherQueue' = batcherQueue \o SubSeq(flushing.items, 1, n)
    BY <1>3 DEF BatchFails
  <2>2. SubSeq(flushing.items, 1, n) \in Seq(FolderItem)
        /\ Range(SubSeq(flushing.items, 1, n)) \subseteq Range(flushing.items)
    BY <1>0, <2>1, RangeOfPart
  <2>3. Range(batcherQueue') = Range(batcherQueue) \cup Range(SubSeq(flushing.items, 1, n))
    BY ZenonT(30), <1>0, <2>1, <2>2, RangeOfConcat
  <2>4. flushing'.items = <<>> BY <1>3 DEF BatchFails, NoBatch
  <2> QED BY <2>2, <2>3, <2>4, RangeOfNone DEF Queued
<1>4. CASE BatchSucceeds
  <2>1. flushing'.items = <<>> BY <1>4 DEF BatchSucceeds, NoBatch
  <2> QED BY <1>4, <2>1, RangeOfNone DEF BatchSucceeds, Queued
<1>5. CASE PageSubmitted
  <2>1. Range(batcherQueue') = Range(batcherQueue) \cup {Page}
    BY <1>0, <1>5, RangeOfAppend DEF PageSubmitted, FolderItem
  <2> QED BY <1>5, <2>1 DEF PageSubmitted, Queued
<1> QED BY <1>1, <1>2, <1>3, <1>4, <1>5

(* The rebuild and what its rows are called stay while the worker moves.   *)
LEMMA WorkerLeavesRebuild ==
  ASSUME FolderTypes, BatchTaken \/ BatchCommits \/ BatchFails \/ BatchSucceeds \/ PageSubmitted
  PROVE  /\ UNCHANGED rebuildState
         /\ flags'.generation = flags.generation /\ flags'.active = flags.active
         /\ \A f \in IndexFile : Row(f)' = Row(f)
         /\ SubmittedRows' = SubmittedRows
<1>1. UNCHANGED rebuildState
  BY DEF BatchTaken, BatchCommits, BatchFails, BatchSucceeds, PageSubmitted
<1>2. flags'.generation = flags.generation
  BY DEF BatchTaken, BatchCommits, BatchFails, BatchSucceeds, PageSubmitted, SaturatingMinus, FolderTypes
<1>3. flags'.active = flags.active
  BY DEF BatchTaken, BatchCommits, BatchFails, BatchSucceeds, PageSubmitted, SaturatingMinus, FolderTypes
<1>4. \A f \in IndexFile : Row(f)' = Row(f) BY <1>2 DEF Row
<1>5. SubmittedRows' = SubmittedRows
  BY <1>1, <1>2 DEF SubmittedRows, Submitted, Row, rebuildState, rowState
<1> QED BY <1>1, <1>2, <1>3, <1>4, <1>5

(* Owed is finite; a smaller one is no greater in number.                  *)
LEMMA OwedIsFinite ==
  ASSUME FolderTypes
  PROVE  IsFiniteSet(Owed) /\ Cardinality(Owed) \in Nat
<1>1. Owed \subseteq IndexFile BY DEF Owed, FolderTypes
<1> QED BY <1>1, FolderIndexAssumption, FS_Subset, FS_CardinalityType

(* A new set of owed files, part of the old one, is no greater in number.  *)
LEMMA OwedShrinks ==
  ASSUME FolderTypes, NEW S, S \subseteq Owed
  PROVE  Cardinality(S) \in Nat /\ Cardinality(S) <= Cardinality(Owed)
BY OwedIsFinite, FS_Subset, FS_CardinalityType

(* No batch is dropped while rows are asked for.                           *)
LEMMA BatchIsWritten ==
  ASSUME HoldsByPlace, rebuild \in Filling, BatchTaken
  PROVE  flushing.pc # "committed" /\ flushing'.pc = "taken"
<1>1. flags.active = TRUE BY DEF HoldsByPlace, Has, Filling
<1> QED BY <1>1 DEF BatchTaken, IndexOnlyAndRebuildInactive, NoBatch

(* The dest table is there while its rows are written.                     *)
LEMMA DestIsATable ==
  ASSUME RowsAreOwn, rebuild \in Filling
  PROVE  indexTables.dest # NoTable
<1>1. indexTables.dest \subseteq SubmittedRows BY DEF RowsAreOwn
<1>2. \A row \in SubmittedRows : row # [kind |-> "none"] BY DEF SubmittedRows, Row
<1> QED BY <1>1, <1>2 DEF NoTable

(* A row that is in its batch is one of this rebuild's.                    *)
LEMMA RowsOfBatch ==
  ASSUME FolderTypes, HoldsByPlace, RowsAreOwn, rebuild \in Filling
  PROVE  /\ RowsToInsert(flushing.items) = Range(flushing.items) \ {Page}
         /\ {item \in Range(flushing.items) :
                item.kind = "row" /\ item.generation = flags.generation}
              = Range(flushing.items) \ {Page}
<1>1. Range(flushing.items) \subseteq SubmittedRows \cup {Page} BY DEF RowsAreOwn, Queued
<1>2. \A row \in SubmittedRows : row.kind = "row" /\ row.generation = flags.generation
  BY DEF SubmittedRows, Row
<1>3. Page.kind # "row" BY DEF Page
<1>4. {item \in Range(flushing.items) :
         item.kind = "row" /\ item.generation = flags.generation}
        = Range(flushing.items) \ {Page}
  BY <1>1, <1>2, <1>3
<1>5. flags.active = TRUE BY DEF HoldsByPlace, Has, Filling
<1> QED BY <1>4, <1>5, DestIsATable DEF RowsToInsert

(* What is owed falls by as many as are counted off, or not at all.        *)
LEMMA OwedOfWorker ==
  ASSUME FolderTypes, HoldsByPlace, RowsAreOwn, rebuild \in Filling,
         BatchTaken \/ BatchCommits \/ BatchFails \/ BatchSucceeds \/ PageSubmitted
  PROVE  Cardinality(Owed') <= flags'.inflight
<1>0. /\ UNCHANGED rebuildState /\ \A f \in IndexFile : Row(f)' = Row(f)
      /\ scanned \subseteq IndexFile /\ Cardinality(Owed) <= flags.inflight
      /\ flags.inflight \in Nat /\ Cardinality(Owed) \in Nat
      /\ flushing.items \in Seq(FolderItem)
  BY WorkerLeavesRebuild, OwedIsFinite DEF FolderTypes, RowsAreOwn
<1>1. ASSUME flags' = flags, indexTables' = indexTables, flushing.pc = "committed" \/ flushing'.pc # "committed",
             flushing.pc = "committed" => flushing'.items = flushing.items
      PROVE  Cardinality(Owed') <= flags'.inflight
  <2>1. Owed' \subseteq Owed BY <1>0, <1>1 DEF Owed, rebuildState, rowState
  <2> QED BY <1>0, <1>1, <2>1, OwedShrinks
<1>2. CASE BatchTaken BY <1>1, <1>2, BatchIsWritten DEF BatchTaken
<1>3. CASE BatchFails BY <1>1, <1>3 DEF BatchFails, NoBatch
<1>4. CASE PageSubmitted BY <1>1, <1>4 DEF PageSubmitted
<1>5. CASE BatchCommits
  <2> DEFINE rows == RowsToInsert(flushing.items)
  <2>1. rows = Range(flushing.items) \ {Page} BY RowsOfBatch
  <2>2. indexTables'.dest = indexTables.dest \cup rows
    BY <1>5 DEF BatchCommits, FolderTypes
  <2>3. flushing'.items = flushing.items BY <1>5 DEF BatchCommits, FolderTypes
  <2>4. \A row \in rows : row \notin indexTables.dest BY <1>5 DEF BatchCommits
  <2>5. \A f \in IndexFile : Row(f) # Page BY DEF Row, Page
  <2> HIDE DEF rows
  <2>6. Owed' \subseteq Owed
    BY <1>0, <2>1, <2>2, <2>3, <2>4, <2>5 DEF Owed, rebuildState, rowState
  <2> QED BY <1>0, <1>5, <2>6, OwedShrinks DEF BatchCommits
<1>6. CASE BatchSucceeds
  <2> DEFINE own == {item \in Range(flushing.items) :
                       item.kind = "row" /\ item.generation = flags.generation}
             done == {f \in Owed : Row(f) \in own}
  <2>1. own = Range(flushing.items) \ {Page} BY RowsOfBatch
  <2>2. own \subseteq indexTables.dest BY <1>6, <2>1 DEF BatchSucceeds, RowsAreOwn
  <2>3. own \subseteq SubmittedRows BY <2>1 DEF RowsAreOwn, Queued
  <2>4. \A item \in own : \E f \in done : item = Row(f)
    BY <1>6, <2>1, <2>3 DEF SubmittedRows, Submitted, Owed, BatchSucceeds
  <2>5. SaturatingMinus(Cardinality(own)) BY <1>6 DEF BatchSucceeds
  <2>6. flushing'.pc # "committed" /\ indexTables' = indexTables
    BY <1>6 DEF BatchSucceeds, NoBatch
  <2>7. done \subseteq Owed /\ IsFiniteSet(done) /\ Cardinality(done) \in Nat
    BY OwedIsFinite, FS_Subset, FS_CardinalityType
  <2> HIDE DEF own
  <2>8. Cardinality(own) <= Cardinality(done) /\ Cardinality(own) \in Nat
    <3>1. [f \in done |-> Row(f)] \in Surjection(done, own) BY <2>4 DEF Surjection
    <3> QED BY <2>7, <3>1, FS_Surjection, FS_CardinalityType
  <2>9. Owed' \subseteq Owed \ done
    BY <1>0, <2>2, <2>6 DEF Owed, rebuildState, rowState
  <2> HIDE DEF done
  <2>10. Cardinality(Owed \ done) = Cardinality(Owed) - Cardinality(done)
    <3>1. Owed \cap done = done BY <2>7
    <3> QED BY <3>1, OwedIsFinite, FS_Difference
  <2>11. Cardinality(Owed') <= Cardinality(Owed \ done) /\ Cardinality(Owed') \in Nat
    <3>1. IsFiniteSet(Owed \ done) BY OwedIsFinite, FS_Subset
    <3> QED BY <2>9, <3>1, FS_Subset, FS_CardinalityType
  <2>12. flags'.inflight = IF flags.inflight > Cardinality(own)
                           THEN flags.inflight - Cardinality(own) ELSE 0
    BY <2>5 DEF SaturatingMinus, FolderTypes
  <2> QED BY <1>0, <2>7, <2>8, <2>10, <2>11, <2>12
<1> QED BY <1>2, <1>3, <1>4, <1>5, <1>6

-----------------------------------------------------------------------------
(* The steps of the worker and of the pages keep the rows of the rebuild.  *)
LEMMA RowsOfWorker ==
  ASSUME FolderTypes, HoldsByPlace, RowsAreOwn,
         BatchTaken \/ BatchCommits \/ BatchFails \/ BatchSucceeds \/ PageSubmitted
  PROVE  RowsAreOwn'
<1>1. /\ Queued' \subseteq Queued \cup {Page}
      /\ rebuild' = rebuild /\ unsent' = unsent /\ SubmittedRows' = SubmittedRows
  BY WorkerMakesNoRow, WorkerLeavesRebuild DEF rebuildState, rowState
<1>2. ASSUME rebuild \in Opening PROVE Queued' \subseteq {Page} /\ indexTables'.dest = {}
  <2>1. Queued \subseteq {Page} /\ indexTables.dest = {} BY <1>2 DEF RowsAreOwn
  <2>2. RowsToInsert(flushing.items) = {} BY <2>1 DEF RowsToInsert, Queued, Page
  <2>3. indexTables' = indexTables
    BY <2>2 DEF BatchTaken, BatchCommits, BatchFails, BatchSucceeds, PageSubmitted
  <2> QED BY <1>1, <2>1, <2>3
<1>3. ASSUME rebuild \in Filling
      PROVE  /\ Queued' \subseteq SubmittedRows \cup {Page}
             /\ indexTables'.dest \subseteq SubmittedRows
             /\ flushing'.pc = "committed" => Range(flushing'.items) \ {Page} \subseteq indexTables'.dest
             /\ Cardinality(Owed') <= flags'.inflight
  <2>0. /\ Queued \subseteq SubmittedRows \cup {Page} /\ indexTables.dest \subseteq SubmittedRows
        /\ flushing.pc = "committed" => Range(flushing.items) \ {Page} \subseteq indexTables.dest
    BY <1>3 DEF RowsAreOwn
  <2>1. CASE BatchCommits
    <3> DEFINE rows == RowsToInsert(flushing.items)
    <3>1. rows = Range(flushing.items) \ {Page} BY <1>3, RowsOfBatch
    <3>2. indexTables'.dest = indexTables.dest \cup rows
      BY <2>1 DEF BatchCommits, FolderTypes
    <3>3. flushing'.items = flushing.items BY <2>1 DEF BatchCommits, FolderTypes
    <3> HIDE DEF rows
    <3>4. rows \subseteq SubmittedRows BY <2>0, <3>1 DEF Queued
    <3> QED BY <1>1, <1>3, <2>0, <3>1, <3>2, <3>3, <3>4, OwedOfWorker
  <2>2. CASE ~BatchCommits
    <3>1. indexTables' = indexTables
      BY <2>2 DEF BatchTaken, BatchFails, BatchSucceeds, PageSubmitted
    <3>2. flushing'.pc = "committed" => flushing' = flushing
      BY <1>3, <2>2, BatchIsWritten DEF BatchFails, BatchSucceeds, PageSubmitted, NoBatch
    <3> QED BY <1>1, <1>3, <2>0, <3>1, <3>2, OwedOfWorker
  <2> QED BY <2>1, <2>2
<1>4. ASSUME rebuild \in {"index", "swap"} PROVE unsent' = {} /\ flags'.inflight = 0
  <2>1. unsent = {} /\ flags.inflight = 0 BY <1>4 DEF RowsAreOwn
  <2>2. flags' = flags \/ BatchSucceeds
    BY DEF BatchTaken, BatchCommits, BatchFails, PageSubmitted
  <2>3. ASSUME BatchSucceeds PROVE flags'.inflight = 0
    <3> DEFINE n == Cardinality({item \in Range(flushing.items) :
                       item.kind = "row" /\ item.generation = flags.generation})
    <3>1. n \in Nat
      BY ItemsAreFinite, FS_Subset, FS_CardinalityType DEF FolderTypes
    <3>2. SaturatingMinus(n) BY <2>3 DEF BatchSucceeds
    <3> HIDE DEF n
    <3>3. flags'.inflight = IF 0 > n THEN 0 - n ELSE 0
      BY <2>1, <3>2 DEF SaturatingMinus, FolderTypes
    <3> QED BY <3>1, <3>3
  <2> QED BY <1>1, <2>1, <2>2, <2>3
<1> QED BY <1>1, <1>2, <1>3, <1>4 DEF RowsAreOwn

(* A step of the rebuild within its opening, or one that leaves the filling *)
(* for good, asks for little.                                              *)
LEMMA RowsOfOpening ==
  ASSUME FolderTypes, RowsAreOwn,
         RebuildStarts \/ SetsActive \/ BumpsGeneration \/ RebuildFails \/ DropsStale
  PROVE  RowsAreOwn'
<1>1. CASE RebuildStarts
  <2>1. /\ batcherQueue' = <<>> /\ flushing'.items = <<>>
        /\ \/ rebuild' = "cloned" /\ indexTables'.dest = {}
           \/ rebuild' = "idle"
    BY <1>1 DEF RebuildStarts, batcherState, NoBatch, FolderTypes
  <2>2. Queued' = {} BY <2>1, RangeOfNone DEF Queued
  <2> QED BY <2>1, <2>2 DEF RowsAreOwn, Opening, Filling
<1>2. CASE SetsActive \/ BumpsGeneration
  <2>1. Queued' = Queued /\ indexTables' = indexTables /\ rebuild \in Opening /\ rebuild' \in Opening
    BY <1>2 DEF SetsActive, BumpsGeneration, batcherState, Queued, Opening
  <2> QED BY <2>1 DEF RowsAreOwn, Opening, Filling
<1>3. CASE RebuildFails \/ DropsStale
  <2>1. rebuild' = "idle" BY <1>3 DEF RebuildFails, DropsStale, RebuildReturns
  <2> QED BY <2>1 DEF RowsAreOwn, Opening, Filling
<1> QED BY <1>1, <1>2, <1>3

(* The scan, if there is one: nothing is submitted, so that nothing is     *)
(* owed yet.                                                               *)
LEMMA RowsAfterScan ==
  ASSUME FolderTypes, RowsAreOwn, OpensScan \/ Scans
  PROVE  RowsAreOwn'
<1>0. Queued' = Queued /\ indexTables' = indexTables /\ rebuild \in Opening
  BY DEF OpensScan, Scans, batcherState, Queued, Opening
<1>1. CASE rebuild' \in {"idle", "scan"}
  BY <1>0, <1>1 DEF RowsAreOwn, Opening, Filling
<1>2. CASE rebuild' = "write"
  <2>1. /\ scanned' = unsent' /\ Queued' = Queued /\ indexTables' = indexTables
        /\ flushing' = flushing /\ flags'.inflight = flags.inflight
    BY <1>2 DEF OpensScan, Scans, RebuildReturns, batcherState, Queued, FolderTypes
  <2>2. Queued \subseteq {Page} /\ indexTables.dest = {}
    BY <1>0 DEF RowsAreOwn
  <2>3. Owed' = {} BY <2>1 DEF Owed
  <2>4. Cardinality(Owed') <= flags'.inflight
    BY <2>1, <2>3, FS_EmptySet DEF FolderTypes
  <2> QED BY <1>2, <2>1, <2>2, <2>4 DEF RowsAreOwn, Opening, Filling, Queued
<1>3. rebuild' \in {"idle", "scan", "write"} BY DEF OpensScan, Scans, RebuildReturns
<1> QED BY <1>1, <1>2, <1>3

(* Counting a row makes its file owed.                                     *)
LEMMA RowsOfCount ==
  ASSUME FolderTypes, RowsAreOwn, NEW f \in IndexFile, CountsRow(f)
  PROVE  RowsAreOwn'
<1>1. /\ rebuild = "write" /\ rebuild' = "counted" /\ f \in unsent /\ rowInHand' = f
      /\ unsent' = unsent \ {f} /\ scanned' = scanned /\ indexTables' = indexTables
      /\ Queued' = Queued /\ flushing' = flushing
  BY DEF CountsRow, batcherState, Queued
<1>2. flags'.inflight = flags.inflight + 1 /\ flags'.generation = flags.generation
  BY DEF CountsRow, FolderTypes
<1>3. \A g \in IndexFile : Row(g)' = Row(g) BY <1>2 DEF Row
<1>4. Submitted' = Submitted BY <1>1 DEF Submitted, FolderTypes
<1>5. SubmittedRows' = SubmittedRows BY <1>2, <1>4 DEF SubmittedRows, Row
<1>6. Owed' \subseteq Owed \cup {f} BY <1>1, <1>3 DEF Owed, FolderTypes
<1>7. Cardinality(Owed') <= flags'.inflight
  <2>1. f \notin Owed BY <1>1 DEF Owed
  <2>2. IsFiniteSet(Owed \cup {f}) /\ Cardinality(Owed \cup {f}) = Cardinality(Owed) + 1
    BY <2>1, OwedIsFinite, FS_AddElement
  <2>3. Cardinality(Owed') <= Cardinality(Owed) + 1 /\ Cardinality(Owed') \in Nat
    BY <1>6, <2>2, FS_Subset, FS_CardinalityType
  <2>4. Cardinality(Owed) <= flags.inflight BY <1>1 DEF RowsAreOwn, Filling
  <2> QED BY <1>2, <2>3, <2>4, OwedIsFinite DEF FolderTypes
<1> QED BY <1>1, <1>5, <1>7 DEF RowsAreOwn, Opening, Filling

(* The row in hand is owed, and is submitted, or taken back and counted    *)
(* off.                                                                    *)
LEMMA RowsOfSubmit ==
  ASSUME FolderTypes, RowsAreOwn, SubmitsRow
  PROVE  RowsAreOwn'
<1>0. /\ rebuild = "counted" /\ scanned' = scanned /\ indexTables' = indexTables
      /\ flushing' = flushing /\ flags'.generation = flags.generation
      /\ rowInHand \in scanned \ unsent /\ rowInHand \in IndexFile
      /\ batcherQueue \in Seq(FolderItem)
  BY DEF SubmitsRow, SaturatingMinus, FolderTypes
<1>1. \A g \in IndexFile : Row(g)' = Row(g) BY <1>0 DEF Row
<1>2. /\ Queued \subseteq SubmittedRows \cup {Page} /\ indexTables.dest \subseteq SubmittedRows
      /\ Cardinality(Owed) <= flags.inflight
      /\ flushing.pc = "committed" => Range(flushing.items) \ {Page} \subseteq indexTables.dest
  BY <1>0 DEF RowsAreOwn, Filling
<1>3. CASE rebuild' = "fails" BY <1>3 DEF RowsAreOwn, Opening, Filling
<1>4. CASE /\ Sound /\ rebuild' = "write" /\ UNCHANGED <<flags, unsent>>
           /\ batcherQueue' = Append(batcherQueue, Row(rowInHand))
  <2>1. Row(rowInHand) \in FolderItem BY <1>0 DEF Row, FolderItem, FolderRow, FolderTypes
  <2>2. Queued' = Queued \cup {Row(rowInHand)}
    BY <1>0, <1>4, <2>1, RangeOfAppend DEF Queued
  <2>3. Submitted' = Submitted \cup {rowInHand} BY <1>0, <1>4 DEF Submitted
  <2>4. SubmittedRows' = SubmittedRows \cup {Row(rowInHand)}
    BY <1>0, <2>3 DEF SubmittedRows, Row
  <2>5. Owed' = Owed BY <1>0, <1>4, <1>1 DEF Owed, Row
  <2> QED BY <1>0, <1>2, <1>4, <2>2, <2>4, <2>5 DEF RowsAreOwn, Opening, Filling
<1>5. CASE /\ rebuild' = "write" /\ SaturatingMinus(1)
           /\ unsent' = unsent \cup {rowInHand} /\ UNCHANGED batcherQueue
  <2>1. Queued' = Queued BY <1>0, <1>5 DEF Queued
  <2>2. Submitted' = Submitted BY <1>0, <1>5 DEF Submitted
  <2>3. SubmittedRows' = SubmittedRows BY <1>0, <2>2 DEF SubmittedRows, Row
  <2>4. Row(rowInHand) \notin SubmittedRows BY <1>0 DEF SubmittedRows, Submitted, Row
  <2>5. rowInHand \in Owed BY <1>0, <1>2, <2>4 DEF Owed
  <2>6. rowInHand \notin Owed' /\ Owed' \subseteq Owed BY <1>0, <1>1, <1>5 DEF Owed, Row
  <2>7. Cardinality(Owed') <= Cardinality(Owed) - 1 /\ Cardinality(Owed') \in Nat
    <3>1. /\ IsFiniteSet(Owed \ {rowInHand})
          /\ Cardinality(Owed \ {rowInHand}) = Cardinality(Owed) - 1
      BY <2>5, OwedIsFinite, FS_RemoveElement
    <3> QED BY <2>6, <3>1, FS_Subset, FS_CardinalityType
  <2>8. flags'.inflight = IF flags.inflight > 1 THEN flags.inflight - 1 ELSE 0
    BY <1>5 DEF SaturatingMinus, FolderTypes
  <2>9. Cardinality(Owed') <= flags'.inflight
    BY <1>2, <2>7, <2>8, OwedIsFinite DEF FolderTypes
  <2> QED BY <1>0, <1>2, <1>5, <2>1, <2>3, <2>9 DEF RowsAreOwn, Opening, Filling
<1> QED BY <1>3, <1>4, <1>5 DEF SubmitsRow

(* The wait ends well with no row in flight; what follows writes nothing.  *)
LEMMA RowsOfEnd ==
  ASSUME FolderTypes, RowsAreOwn, WaitEnds \/ RebuildCancelled \/ CreatesIndexes \/ Swaps
  PROVE  RowsAreOwn'
<1>1. CASE rebuild' \in {"fails", "drop"} BY <1>1 DEF RowsAreOwn, Opening, Filling
<1>2. CASE rebuild' \in {"index", "swap"}
  <2>1. /\ rebuild \in {"write", "index"}
        /\ UNCHANGED <<flags, indexTables, scanned, unsent, batcherQueue, flushing>>
        /\ unsent = {} /\ flags.inflight = 0
    BY <1>2 DEF WaitEnds, RebuildCancelled, CreatesIndexes, Swaps, rowState, batcherState, RowsAreOwn
  <2>2. SubmittedRows' = SubmittedRows /\ Owed' = Owed /\ Queued' = Queued
    BY <1>2, <2>1 DEF SubmittedRows, Submitted, Owed, Queued, Row
  <2> QED BY <1>2, <2>1, <2>2 DEF RowsAreOwn, Opening, Filling
<1> QED BY <1>1, <1>2 DEF WaitEnds, RebuildCancelled, CreatesIndexes, Swaps

(* RowsAreOwn is inductive.                                                *)
LEMMA RowsStep ==
  ASSUME FolderTypes, HoldsByPlace, RowsAreOwn, [FolderIndexNext]_folderIndexVars
  PROVE  RowsAreOwn'
<1>1. CASE UNCHANGED folderIndexVars
  BY <1>1 DEF folderIndexVars, RowsAreOwn, Queued, SubmittedRows, Submitted, Owed, Row
<1>2. ASSUME NEW f \in IndexFile, CountsRow(f) PROVE RowsAreOwn' BY <1>2, RowsOfCount
<1>3. CASE BatchTaken \/ BatchCommits \/ BatchFails \/ BatchSucceeds \/ PageSubmitted
  BY <1>3, RowsOfWorker
<1>4. CASE RebuildStarts \/ SetsActive \/ BumpsGeneration \/ RebuildFails \/ DropsStale
  BY <1>4, RowsOfOpening
<1>5. CASE OpensScan \/ Scans BY <1>5, RowsAfterScan
<1>6. CASE SubmitsRow BY <1>6, RowsOfSubmit
<1>7. CASE WaitEnds \/ RebuildCancelled \/ CreatesIndexes \/ Swaps BY <1>7, RowsOfEnd
<1> QED
  BY <1>1, <1>2, <1>3, <1>4, <1>5, <1>6, <1>7
  DEF FolderIndexNext, RebuildNext, FlushNext, FolderIndexRests

-----------------------------------------------------------------------------
(* Before the first rebuild nothing is held and no row is anywhere.        *)
LEMMA FolderIndexBegins == FolderIndexInit => FolderIndexInv
<1> SUFFICES ASSUME FolderIndexInit PROVE FolderIndexInv OBVIOUS
<1>1. FolderTypes
  <2>1. {} \in TableState /\ NoTable \in TableState BY DEF TableState
  <2> QED BY <2>1, FolderIndexAssumption DEF FolderIndexInit, FolderTypes, NoBatch
<1>2. HoldsByPlace BY DEF FolderIndexInit, HoldsByPlace, Has
<1>3. RowsAreOwn BY DEF FolderIndexInit, RowsAreOwn, Opening, Filling
<1> QED BY <1>1, <1>2, <1>3 DEF FolderIndexInv

(* Every step of rebuild and batcher keeps the invariant.                  *)
LEMMA FolderIndexKeeps == FolderIndexInv /\ [FolderIndexNext]_folderIndexVars => FolderIndexInv'
BY FolderTypesStep, HoldsStep, RowsStep DEF FolderIndexInv

(* The invariant holds in every reachable state.                           *)
THEOREM FolderIndexHasInv == FolderIndexSpec => []FolderIndexInv
BY FolderIndexBegins, FolderIndexKeeps, PTL DEF FolderIndexSpec

(* A connection is out once at most.                                       *)
LEMMA FolderIndexInvGivesTypes == FolderIndexInv => FolderIndexTypeOK
<1> SUFFICES ASSUME FolderIndexInv PROVE FolderIndexTypeOK OBVIOUS
<1>1. leases.rw \in 0..1 /\ leases.ro \in 0..1
  BY DEF FolderIndexInv, FolderTypes, HoldsByPlace, Has
<1>2. flags.inflight \in Nat /\ flags.generation \in 0..MaxRebuilds
  BY FolderIndexAssumption DEF FolderIndexInv, FolderTypes
<1> QED BY <1>1, <1>2 DEF FolderIndexInv, FolderTypes, FolderIndexTypeOK

(* The types of the rebuild.                                               *)
THEOREM FolderIndexHasTypes == FolderIndexSpec => []FolderIndexTypeOK
BY FolderIndexInvGivesTypes, FolderIndexHasInv, PTL

(* At the swap every row of the scan is in the new table.                  *)
LEMMA SwapTakesAll ==
  ASSUME FolderIndexInv, Swaps
  PROVE  indexTables.dest = RowsOfScan
<1>1. /\ rebuild = "swap" /\ unsent = {} /\ flags.inflight = 0
      /\ indexTables.dest \subseteq SubmittedRows /\ Cardinality(Owed) <= 0
  BY DEF Swaps, FolderIndexInv, RowsAreOwn, Filling
<1>2. Owed = {}
  <2>1. Cardinality(Owed) = 0 BY <1>1, OwedIsFinite DEF FolderIndexInv
  <2> QED BY <2>1, OwedIsFinite, FS_EmptySet DEF FolderIndexInv
<1>3. \A f \in scanned : Row(f) \in indexTables.dest BY <1>1, <1>2 DEF Owed
<1>4. SubmittedRows \subseteq RowsOfScan BY DEF SubmittedRows, RowsOfScan, Submitted
<1> QED BY <1>1, <1>3, <1>4 DEF RowsOfScan

(* The live table changes only when a rebuild swaps its own, complete one. *)
LEMMA OnlySwapChangesLive ==
  FolderIndexInv /\ [FolderIndexNext]_folderIndexVars =>
    [indexTables'.live # indexTables.live => indexTables'.live = {Row(f) : f \in scanned}]_folderIndexVars
<1> SUFFICES ASSUME FolderIndexInv, [FolderIndexNext]_folderIndexVars,
                    indexTables'.live # indexTables.live
             PROVE  indexTables'.live = {Row(f) : f \in scanned}
  OBVIOUS
<1>0. indexTables \in [live : TableState, dest : TableState, stale : TableState]
  BY DEF FolderIndexInv, FolderTypes
<1>1. CASE Swaps
  <2>1. indexTables'.live = indexTables.dest BY <1>1, <1>0 DEF Swaps
  <2> QED BY <1>1, <2>1, SwapTakesAll DEF RowsOfScan
<1>2. ~(RebuildStarts \/ DropsStale \/ BatchCommits)
  BY <1>0 DEF RebuildStarts, DropsStale, BatchCommits
<1> QED
  BY <1>1, <1>2
  DEF FolderIndexNext, RebuildNext, FlushNext, FolderIndexRests, folderIndexVars, SetsActive,
      BumpsGeneration, OpensScan, Scans, CountsRow, SubmitsRow, WaitEnds, RebuildCancelled,
      RebuildFails, CreatesIndexes, BatchTaken, BatchFails, BatchSucceeds, PageSubmitted

(* What a rebuild holds, it holds only between its start and its return.   *)
LEMMA FolderIndexInvGivesRelease == FolderIndexInv => NothingLeftHeld
BY DEF FolderIndexInv, HoldsByPlace, Has, NothingLeftHeld

(* Only the complete index of one scan goes live, and a rebuild that has   *)
(* returned holds no connection and no flag (RebuildFileFolderIndex), for  *)
(* every number of files, batches and failures.                            *)
THEOREM FolderIndexIsSafe == FolderIndexSpec => FolderIndexSafety
BY OnlySwapChangesLive, FolderIndexInvGivesRelease, FolderIndexHasInv, PTL
DEF FolderIndexSpec, FolderIndexSafety, SwapIsComplete
=============================================================================
