------------------------- MODULE WriteBatcherProofs -------------------------
(***************************************************************************)
(* Proofs about WriteBatcher, for every set of writes, every size of the   *)
(* channel and of the batch, and any number of failures and restarts.      *)
(* The inductive invariant IInv adds to the properties what they rest on:  *)
(* which variables are empty where the worker stands.  The second part     *)
(* shows that the batcher implements WriteSink.                            *)
(***************************************************************************)
EXTENDS WriteBatcher, FiniteSetTheorems, TLAPS

\* Where the worker may take items into its batch.
Gathering == {"top", "drain", "dequeue", "select", "exit"}
Flushing  == {"flush", "reenq", "flushed"}

\* wb.mu is held exactly while a Submit is past its select, and never once
\* Close has set wb.closed.
LockInv ==
    /\ mu = "free" <=> sub = "none"
    /\ closed => mu = "free"
    /\ mu = "worker" => wpc = "reenq"
    /\ mu = "worker" /\ sub = "overflow" => redo # <<>>
    /\ sub = "overflow" => HasDQue
    /\ ~HasDQue => dq = <<>>

\* What the worker holds at each place.
BatchInv ==
    /\ wpc \in Gathering => Len(batch) < MaxBatchSize
    /\ wpc \in {"reenq", "flushed", "done"} => batch = <<>>
    /\ wpc \notin {"reenq", "flushed"} => n = 0
    /\ wpc # "reenq" => redo = <<>>
    /\ Len(redo) <= n
    /\ life \in {"closed", "dead"} => wpc = "done"

\* A batch that is not being flushed has a timer running or run out.
TimerInv ==
    wpc \in {"top", "drain", "dequeue", "select"} /\ batch # <<>> => timer # "off"

\* On its way to the select the worker has seen the dque empty, so what is
\* there now came with a token.
BacklogInv ==
    /\ dqStuck => dqFailures > 0
    /\ (wpc = "select" \/ (wpc \in Flushing /\ ret = "select"))
         /\ life = "running" /\ drainOn /\ ~starting /\ dq # <<>> /\ sub # "countOverflow"
         /\ dqFailures = 0 => token

\* Why the worker ends, and why a re-enqueue may fail.
CauseInv ==
    /\ life \in {"closing", "closed"} => "close" \in troubles
    /\ life = "dead" => "crash" \in troubles
    /\ cancelled /\ life \in {"running", "closing"} => "cancel" \in troubles
    /\ wpc = "reenq" => failures > 0
    /\ wpc \in {"exit", "done"} \/ (wpc \in Flushing /\ ret \in {"exit", "done"})
         => closed \/ cancelled
    /\ "cancel" \notin troubles /\ life \in {"closing", "closed"}
         /\ (wpc = "done" \/ (wpc \in Flushing /\ ret = "done")) => ch = <<>>

\* The inductive invariant.
IInv == /\ TypeOK /\ LockInv /\ BatchInv /\ PendingExact
        /\ TimerInv /\ BacklogInv /\ CauseInv /\ LossHasACause

-----------------------------------------------------------------------------
(* Facts about sequences of writes and the helpers of the worker. *)

\* The elements of a sequence of writes are writes.
LEMMA ElementsType == ASSUME NEW s \in Seq(Item) PROVE Elements(s) \subseteq Item
  BY DEF Elements

\* A sequence without elements is empty, as Held = {} needs.
LEMMA ElementsEmpty == ASSUME NEW s \in Seq(Item), Len(s) = 0 PROVE Elements(s) = {}
  BY DEF Elements

\* Taking the first write off a queue.
LEMMA HeadAndTail ==
  ASSUME NEW s \in Seq(Item), s # <<>>
  PROVE  Head(s) \in Item /\ Tail(s) \in Seq(Item) /\ Len(Tail(s)) = Len(s) - 1
  OBVIOUS

\* appendAndManageTimer: one write more; the batch is full and about to be
\* flushed, or it is not and a timer covers it if one did before.
LEMMA AppendGathers ==
  ASSUME TypeOK, Len(batch) < MaxBatchSize, NEW x \in Item, NEW next,
         AppendAndManageTimer(x, next)
  PROVE  /\ batch' \in Seq(Item) /\ Len(batch') = Len(batch) + 1 /\ batch' # <<>>
         /\ Len(batch') <= MaxBatchSize /\ batchBytes' \in Nat
         /\ \/ wpc' = "flush" /\ ret' = next /\ timer' = timer
            \/ /\ wpc' = next /\ ret' = ret /\ Len(batch') < MaxBatchSize
               /\ timer' \in {"armed", timer} /\ (batch = <<>> => timer' = "armed")
<1> ItemSize[x] \in Nat
  BY WriteBatcherAssumption
<1> QED
  BY WriteBatcherAssumption
     DEF AppendAndManageTimer, BatchIsFull, TypeOK, QueueTypes, CountTypes, PlaceTypes

-----------------------------------------------------------------------------
(* Every action preserves IInv. *)

\* Every step keeps the types, the channel within ChannelSize and the batch within
\* MaxBatchSize.
LEMMA TypeStep == ASSUME IInv, [Next]_vars PROVE TypeOK'
<1> USE WriteBatcherAssumption DEF IInv, submitVars, workerVars, fateVars,
     boundVars, submitFrame, runFrame, flushFrame, loopFrame, controlFrame,
     Enters, Accepted, Refused, GoTo, FlushThen, Exit
<1>1. ASSUME NEW p \in {"caller", "worker"}, NEW x \in Item, SubmitClosed(p, x)
     PROVE  TypeOK'
  BY <1>1, ElementsType DEF TypeOK, QueueTypes, CountTypes, FlagTypes,
       PlaceTypes, SetTypes, SubmitClosed
<1>2. ASSUME NEW p \in {"caller", "worker"}, NEW x \in Item, SubmitSend(p, x)
     PROVE  TypeOK'
  BY <1>2, ElementsType DEF TypeOK, QueueTypes, CountTypes, FlagTypes,
       PlaceTypes, SetTypes, SubmitSend
<1>3. ASSUME NEW p \in {"caller", "worker"}, NEW x \in Item, SubmitFull(p, x)
     PROVE  TypeOK'
  BY <1>3, ElementsType DEF TypeOK, QueueTypes, CountTypes, FlagTypes,
       PlaceTypes, SetTypes, SubmitFull
<1>4. ASSUME NEW p \in {"caller", "worker"}, NEW x \in Item, SubmitOverflow(p, x)
     PROVE  TypeOK'
  BY <1>4, ElementsType DEF TypeOK, QueueTypes, CountTypes, FlagTypes,
       PlaceTypes, SetTypes, SubmitOverflow
<1>5. CASE SubmitEnqueue
  BY <1>5 DEF TypeOK, QueueTypes, CountTypes, FlagTypes, PlaceTypes, SetTypes,
       LockInv, SubmitEnqueue
<1>6. CASE SubmitEnqueueFails
  BY <1>6, ElementsType DEF TypeOK, QueueTypes, CountTypes, FlagTypes,
       PlaceTypes, SetTypes, LockInv, SubmitEnqueueFails
<1>7. CASE SubmitCount
  BY <1>7 DEF TypeOK, QueueTypes, CountTypes, FlagTypes, PlaceTypes, SetTypes,
       LockInv, SubmitCount
<1>8. CASE WorkerTop
  <2>1. QueueTypes'
    BY <1>8 DEF TypeOK, QueueTypes, WorkerTop
  <2>2. CountTypes'
    BY <1>8 DEF TypeOK, CountTypes, WorkerTop
  <2>3. FlagTypes'
    BY <1>8 DEF TypeOK, FlagTypes, WorkerTop
  <2>4. PlaceTypes'
    BY <1>8 DEF TypeOK, PlaceTypes, WorkerTop
  <2>5. SetTypes'
    BY <1>8 DEF TypeOK, SetTypes, WorkerTop
  <2> QED
    BY <2>1, <2>2, <2>3, <2>4, <2>5 DEF TypeOK
<1>9. CASE DrainClosed
  BY <1>9 DEF TypeOK, QueueTypes, CountTypes, FlagTypes, PlaceTypes, SetTypes,
       DrainClosed
<1>10. CASE DrainCancelled
  BY <1>10 DEF TypeOK, QueueTypes, CountTypes, FlagTypes, PlaceTypes, SetTypes,
       DrainCancelled
<1>11. CASE DrainChannel
  <2>1. ch # <<>> /\ ch' = Tail(ch) /\ ch \in Seq(Item) /\ Len(batch) < MaxBatchSize
    BY <1>11 DEF DrainChannel, Receive, BatchInv, Gathering, TypeOK, QueueTypes
  <2>2. Head(ch) \in Item /\ ch' \in Seq(Item) /\ Len(ch') = Len(ch) - 1
    BY <2>1, HeadAndTail
  <2>3. AppendAndManageTimer(Head(ch), "drain")
    BY <1>11 DEF DrainChannel, Receive
  <2>4. /\ batch' \in Seq(Item) /\ Len(batch') = Len(batch) + 1 /\ batch' # <<>>
        /\ Len(batch') <= MaxBatchSize /\ batchBytes' \in Nat
        /\ \/ wpc' = "flush" /\ ret' = "drain" /\ timer' = timer
           \/ /\ wpc' = "drain" /\ ret' = ret /\ Len(batch') < MaxBatchSize
              /\ timer' \in {"armed", timer} /\ (batch = <<>> => timer' = "armed")
    BY <2>1, <2>2, <2>3, AppendGathers
  <2>5. QueueTypes'
    BY <1>11, <2>1, <2>2, <2>4 DEF TypeOK, QueueTypes, DrainChannel
  <2>6. CountTypes'
    BY <1>11, <2>1, <2>2, <2>4 DEF TypeOK, CountTypes, DrainChannel
  <2>7. FlagTypes'
    BY <1>11, <2>1, <2>2, <2>4 DEF TypeOK, FlagTypes, DrainChannel
  <2>8. PlaceTypes'
    BY <1>11, <2>1, <2>2, <2>4 DEF TypeOK, PlaceTypes, DrainChannel
  <2>9. SetTypes'
    BY <1>11 DEF TypeOK, SetTypes, DrainChannel
  <2> QED
    BY <2>5, <2>6, <2>7, <2>8, <2>9 DEF TypeOK
<1>12. CASE DrainChannelClosed
  BY <1>12 DEF TypeOK, QueueTypes, CountTypes, FlagTypes, PlaceTypes, SetTypes,
       DrainChannelClosed
<1>13. CASE DrainIdle
  BY <1>13 DEF TypeOK, QueueTypes, CountTypes, FlagTypes, PlaceTypes, SetTypes,
       DrainIdle
<1>14. CASE DrainDequeue
  <2>1. dq # <<>> /\ dq' = Tail(dq) /\ dq \in Seq(Item) /\ Len(batch) < MaxBatchSize
    BY <1>14 DEF DrainDequeue, BatchInv, Gathering, TypeOK, QueueTypes
  <2>2. Head(dq) \in Item /\ dq' \in Seq(Item) /\ Len(dq') = Len(dq) - 1
    BY <2>1, HeadAndTail
  <2>3. AppendAndManageTimer(Head(dq), "drain")
    BY <1>14 DEF DrainDequeue
  <2>4. /\ batch' \in Seq(Item) /\ Len(batch') = Len(batch) + 1 /\ batch' # <<>>
        /\ Len(batch') <= MaxBatchSize /\ batchBytes' \in Nat
        /\ \/ wpc' = "flush" /\ ret' = "drain" /\ timer' = timer
           \/ /\ wpc' = "drain" /\ ret' = ret /\ Len(batch') < MaxBatchSize
              /\ timer' \in {"armed", timer} /\ (batch = <<>> => timer' = "armed")
    BY <2>1, <2>2, <2>3, AppendGathers
  <2>5. QueueTypes'
    BY <1>14, <2>1, <2>2, <2>4 DEF TypeOK, QueueTypes, DrainDequeue
  <2>6. CountTypes'
    BY <1>14, <2>1, <2>2, <2>4 DEF TypeOK, CountTypes, DrainDequeue
  <2>7. FlagTypes'
    BY <1>14, <2>1, <2>2, <2>4 DEF TypeOK, FlagTypes, DrainDequeue
  <2>8. PlaceTypes'
    BY <1>14, <2>1, <2>2, <2>4 DEF TypeOK, PlaceTypes, DrainDequeue
  <2>9. SetTypes'
    BY <1>14 DEF TypeOK, SetTypes, DrainDequeue
  <2> QED
    BY <2>5, <2>6, <2>7, <2>8, <2>9 DEF TypeOK
<1>15. CASE DrainEmpty
  BY <1>15 DEF TypeOK, QueueTypes, CountTypes, FlagTypes, PlaceTypes, SetTypes,
       DrainEmpty
<1>16. CASE DrainFails
  BY <1>16 DEF TypeOK, QueueTypes, CountTypes, FlagTypes, PlaceTypes, SetTypes,
       DrainFails
<1>17. CASE DrainDrops
  BY <1>17, HeadAndTail DEF TypeOK, QueueTypes, CountTypes, FlagTypes,
       PlaceTypes, SetTypes, DrainDrops
<1>18. CASE DrainEnd
  BY <1>18 DEF TypeOK, QueueTypes, CountTypes, FlagTypes, PlaceTypes, SetTypes,
       DrainEnd
<1>19. CASE SelectItem
  <2>1. ch # <<>> /\ ch' = Tail(ch) /\ ch \in Seq(Item) /\ Len(batch) < MaxBatchSize
    BY <1>19 DEF SelectItem, Receive, BatchInv, Gathering, TypeOK, QueueTypes
  <2>2. Head(ch) \in Item /\ ch' \in Seq(Item) /\ Len(ch') = Len(ch) - 1
    BY <2>1, HeadAndTail
  <2>3. AppendAndManageTimer(Head(ch), "top")
    BY <1>19 DEF SelectItem, Receive
  <2>4. /\ batch' \in Seq(Item) /\ Len(batch') = Len(batch) + 1 /\ batch' # <<>>
        /\ Len(batch') <= MaxBatchSize /\ batchBytes' \in Nat
        /\ \/ wpc' = "flush" /\ ret' = "top" /\ timer' = timer
           \/ /\ wpc' = "top" /\ ret' = ret /\ Len(batch') < MaxBatchSize
              /\ timer' \in {"armed", timer} /\ (batch = <<>> => timer' = "armed")
    BY <2>1, <2>2, <2>3, AppendGathers
  <2>5. QueueTypes'
    BY <1>19, <2>1, <2>2, <2>4 DEF TypeOK, QueueTypes, SelectItem
  <2>6. CountTypes'
    BY <1>19, <2>1, <2>2, <2>4 DEF TypeOK, CountTypes, SelectItem
  <2>7. FlagTypes'
    BY <1>19, <2>1, <2>2, <2>4 DEF TypeOK, FlagTypes, SelectItem
  <2>8. PlaceTypes'
    BY <1>19, <2>1, <2>2, <2>4 DEF TypeOK, PlaceTypes, SelectItem
  <2>9. SetTypes'
    BY <1>19 DEF TypeOK, SetTypes, SelectItem
  <2> QED
    BY <2>5, <2>6, <2>7, <2>8, <2>9 DEF TypeOK
<1>20. CASE SelectChannelClosed
  BY <1>20 DEF TypeOK, QueueTypes, CountTypes, FlagTypes, PlaceTypes, SetTypes,
       SelectChannelClosed
<1>21. CASE SelectTimer
  BY <1>21 DEF TypeOK, QueueTypes, CountTypes, FlagTypes, PlaceTypes, SetTypes,
       SelectTimer
<1>22. CASE SelectMaintenance
  BY <1>22 DEF TypeOK, QueueTypes, CountTypes, FlagTypes, PlaceTypes, SetTypes,
       SelectMaintenance
<1>23. CASE SelectNotify
  <2>1. QueueTypes'
    BY <1>23 DEF TypeOK, QueueTypes, SelectNotify
  <2>2. CountTypes'
    BY <1>23 DEF TypeOK, CountTypes, SelectNotify
  <2>3. FlagTypes'
    BY <1>23 DEF TypeOK, FlagTypes, SelectNotify
  <2>4. PlaceTypes'
    BY <1>23 DEF TypeOK, PlaceTypes, SelectNotify
  <2>5. SetTypes'
    BY <1>23 DEF TypeOK, SetTypes, SelectNotify
  <2> QED
    BY <2>1, <2>2, <2>3, <2>4, <2>5 DEF TypeOK
<1>24. CASE SelectCancelled
  BY <1>24 DEF TypeOK, QueueTypes, CountTypes, FlagTypes, PlaceTypes, SetTypes,
       SelectCancelled
<1>25. CASE ExitItem
  BY SMTT(30), <1>25 DEF TypeOK, QueueTypes, CountTypes, FlagTypes, PlaceTypes, SetTypes,
       BatchInv, Gathering, ExitItem, BatchIsFull
<1>26. CASE ExitEnd
  BY <1>26 DEF TypeOK, QueueTypes, CountTypes, FlagTypes, PlaceTypes, SetTypes,
       ExitEnd
<1>27. CASE FlushDiscards
  BY <1>27, ElementsType DEF TypeOK, QueueTypes, CountTypes, FlagTypes,
       PlaceTypes, SetTypes, FlushDiscards, BatchIsSettled
<1>28. CASE FlushCommits
  BY <1>28, ElementsType DEF TypeOK, QueueTypes, CountTypes, FlagTypes,
       PlaceTypes, SetTypes, FlushCommits, BatchIsSettled
<1>29. CASE FlushFails
  BY <1>29, ElementsType DEF TypeOK, QueueTypes, CountTypes, FlagTypes,
       PlaceTypes, SetTypes, BatchInv, Gathering, FlushFails
<1>30. CASE ReEnqueueEnd
  BY <1>30 DEF TypeOK, QueueTypes, CountTypes, FlagTypes, PlaceTypes, SetTypes,
       ReEnqueueEnd
<1>31. CASE FlushReturns
  BY <1>31 DEF TypeOK, QueueTypes, CountTypes, FlagTypes, PlaceTypes, SetTypes,
       BatchInv, Gathering, FlushReturns
<1>32. CASE TimerFires
  BY <1>32 DEF TypeOK, QueueTypes, CountTypes, FlagTypes, PlaceTypes, SetTypes,
       TimerFires
<1>33. CASE StartDQueDrain
  BY <1>33 DEF TypeOK, QueueTypes, CountTypes, FlagTypes, PlaceTypes, SetTypes,
       StartDQueDrain
<1>41. CASE StartDQueDrainNotifies
  <2>1. FlagTypes'
    BY <1>41 DEF TypeOK, FlagTypes, StartDQueDrainNotifies
  <2>2. QueueTypes' /\ CountTypes' /\ SetTypes'
    BY <1>41 DEF TypeOK, QueueTypes, CountTypes, SetTypes, StartDQueDrainNotifies
  <2>3. PlaceTypes'
    BY <1>41 DEF TypeOK, PlaceTypes, StartDQueDrainNotifies
  <2> QED BY <2>1, <2>2, <2>3 DEF TypeOK
<1>34. CASE Cancel
  BY <1>34 DEF TypeOK, QueueTypes, CountTypes, FlagTypes, PlaceTypes, SetTypes,
       Cancel
<1>35. CASE CloseBegin
  BY <1>35 DEF TypeOK, QueueTypes, CountTypes, FlagTypes, PlaceTypes, SetTypes,
       CloseBegin
<1>36. CASE CloseEnd
  BY <1>36 DEF TypeOK, QueueTypes, CountTypes, FlagTypes, PlaceTypes, SetTypes,
       CloseEnd
<1>37. CASE Crash
  <2>1. QueueTypes'
    BY <1>37, ElementsType DEF TypeOK, QueueTypes, Crash
  <2>2. CountTypes'
    BY <1>37 DEF TypeOK, CountTypes, Crash
  <2>3. FlagTypes'
    BY <1>37 DEF TypeOK, FlagTypes, Crash
  <2>4. PlaceTypes'
    BY <1>37 DEF TypeOK, PlaceTypes, Crash
  <2>5. SetTypes'
    BY <1>37, ElementsType DEF TypeOK, SetTypes, QueueTypes, Crash
  <2> QED
    BY <2>1, <2>2, <2>3, <2>4, <2>5 DEF TypeOK
<1>38. CASE New
  <2>1. QueueTypes'
    BY <1>38, ElementsType DEF TypeOK, QueueTypes, New
  <2>2. CountTypes'
    BY <1>38 DEF TypeOK, CountTypes, New
  <2>3. FlagTypes'
    BY <1>38 DEF TypeOK, FlagTypes, New
  <2>4. PlaceTypes'
    BY <1>38 DEF TypeOK, PlaceTypes, New
  <2>5. SetTypes'
    BY <1>38, ElementsType DEF TypeOK, SetTypes, QueueTypes, New
  <2> QED
    BY <2>1, <2>2, <2>3, <2>4, <2>5 DEF TypeOK
<1>39. CASE UNCHANGED vars
  BY <1>39 DEF vars, TypeOK, QueueTypes, CountTypes, FlagTypes, PlaceTypes,
       SetTypes
<1> QED
  BY <1>1, <1>2, <1>3, <1>4, <1>5, <1>6, <1>7, <1>8, <1>9, <1>10, <1>11, <1>12,
       <1>13, <1>14, <1>15, <1>16, <1>17, <1>18, <1>19, <1>20, <1>21, <1>22,
       <1>23, <1>24, <1>25, <1>26, <1>27, <1>28, <1>29, <1>30, <1>31, <1>32,
       <1>33, <1>34, <1>35, <1>36, <1>37, <1>38, <1>39, <1>41 DEF Next, Submit,
       Worker, Finished

\* Only a Submit past its select holds wb.mu; Close and a crash find or leave it free.
LEMMA LockStep == ASSUME IInv, [Next]_vars PROVE LockInv'
<1> USE WriteBatcherAssumption DEF IInv, LockInv, TypeOK, PlaceTypes,
     QueueTypes, closed, submitVars, workerVars, fateVars, boundVars,
     submitFrame, runFrame, flushFrame, loopFrame, controlFrame, Enters,
     Accepted, Refused, GoTo, FlushThen, Exit
<1>1. ASSUME NEW p \in {"caller", "worker"}, NEW x \in Item,
            SubmitClosed(p, x) \/ SubmitSend(p, x) \/ SubmitFull(p, x) \/
                 SubmitOverflow(p, x)
     PROVE  LockInv'
  BY <1>1 DEF SubmitClosed, SubmitSend, SubmitFull, SubmitOverflow
<1>2. CASE SubmitEnqueue \/ SubmitEnqueueFails \/ SubmitCount
  BY <1>2 DEF SubmitEnqueue, SubmitEnqueueFails, SubmitCount
<1>3. CASE WorkerTop \/ DrainClosed \/ DrainCancelled \/ DrainChannelClosed \/
     DrainIdle \/ DrainEmpty \/ DrainFails \/ DrainEnd
  BY <1>3 DEF WorkerTop, DrainClosed, DrainCancelled, DrainChannelClosed,
       DrainIdle, DrainEmpty, DrainFails, DrainEnd
<1>4. CASE DrainDrops
  BY <1>4 DEF DrainDrops
<1>5. CASE DrainChannel
  BY <1>5 DEF DrainChannel, Receive, AppendAndManageTimer, BatchIsFull
<1>6. CASE DrainDequeue
  BY <1>6 DEF DrainDequeue, AppendAndManageTimer, BatchIsFull
<1>7. CASE SelectItem
  BY <1>7 DEF SelectItem, Receive, AppendAndManageTimer, BatchIsFull
<1>8. CASE ExitItem
  BY <1>8 DEF ExitItem, BatchIsFull
<1>9. CASE SelectChannelClosed \/ SelectTimer \/ SelectMaintenance \/
     SelectNotify \/ SelectCancelled \/ ExitEnd \/ TimerFires
  BY <1>9 DEF SelectChannelClosed, SelectTimer, SelectMaintenance,
       SelectNotify, SelectCancelled, ExitEnd, TimerFires
<1>10. CASE FlushDiscards \/ FlushCommits \/ FlushFails
  BY <1>10 DEF FlushDiscards, BatchIsSettled, FlushCommits, FlushFails
<1>11. CASE ReEnqueueEnd \/ FlushReturns
  BY <1>11 DEF ReEnqueueEnd, FlushReturns
<1>12. CASE StartDQueDrain \/ StartDQueDrainNotifies \/ Cancel \/ CloseBegin \/ CloseEnd
  BY <1>12 DEF StartDQueDrain, StartDQueDrainNotifies, Cancel, CloseBegin, CloseEnd
<1>13. CASE Crash
  BY <1>13 DEF Crash
<1>14. CASE New
  BY <1>14 DEF New
<1>15. CASE UNCHANGED vars
  BY <1>15 DEF vars
<1> QED
  BY <1>1, <1>2, <1>3, <1>4, <1>5, <1>6, <1>7, <1>8, <1>9, <1>10, <1>11, <1>12,
       <1>13, <1>14, <1>15 DEF Next, Submit, Worker, Finished

\* The worker gathers below MaxBatchSize, and flush leaves it an empty batch.
LEMMA BatchStep == ASSUME IInv, [Next]_vars PROVE BatchInv'
<1> USE WriteBatcherAssumption DEF IInv, BatchInv, TypeOK, PlaceTypes,
     QueueTypes, CountTypes, Gathering, Flushing, closed, submitVars,
     workerVars, fateVars, boundVars, submitFrame, runFrame, flushFrame,
     loopFrame, controlFrame, Enters, Accepted, Refused, GoTo, FlushThen, Exit
<1>1. ASSUME NEW p \in {"caller", "worker"}, NEW x \in Item,
            SubmitClosed(p, x)
     PROVE  BatchInv'
  BY <1>1 DEF SubmitClosed
<1>2. ASSUME NEW p \in {"caller", "worker"}, NEW x \in Item,
            SubmitSend(p, x)
     PROVE  BatchInv'
  BY <1>2 DEF SubmitSend
<1>3. ASSUME NEW p \in {"caller", "worker"}, NEW x \in Item,
            SubmitFull(p, x)
     PROVE  BatchInv'
  BY <1>3 DEF SubmitFull
<1>4. ASSUME NEW p \in {"caller", "worker"}, NEW x \in Item,
            SubmitOverflow(p, x)
     PROVE  BatchInv'
  BY <1>4 DEF SubmitOverflow
<1>5. CASE SubmitEnqueue
  BY <1>5 DEF SubmitEnqueue
<1>6. CASE SubmitEnqueueFails
  BY <1>6 DEF SubmitEnqueueFails
<1>7. CASE SubmitCount
  BY <1>7 DEF SubmitCount
<1>8. CASE WorkerTop \/ DrainClosed \/ DrainCancelled \/ DrainChannelClosed \/
     DrainIdle \/ DrainEmpty \/ DrainFails \/ DrainEnd
  BY <1>8 DEF WorkerTop, DrainClosed, DrainCancelled, DrainChannelClosed,
       DrainIdle, DrainEmpty, DrainFails, DrainEnd
<1>9. CASE DrainDrops
  BY <1>9 DEF DrainDrops
<1>10. CASE DrainChannel
  <2>1. ch # <<>> /\ ch' = Tail(ch) /\ ch \in Seq(Item) /\ Len(batch) < MaxBatchSize
    BY <1>10 DEF DrainChannel, Receive, BatchInv, Gathering, TypeOK, QueueTypes
  <2>2. Head(ch) \in Item /\ ch' \in Seq(Item) /\ Len(ch') = Len(ch) - 1
    BY <2>1, HeadAndTail
  <2>3. AppendAndManageTimer(Head(ch), "drain")
    BY <1>10 DEF DrainChannel, Receive
  <2>4. /\ batch' \in Seq(Item) /\ Len(batch') = Len(batch) + 1 /\ batch' # <<>>
        /\ Len(batch') <= MaxBatchSize /\ batchBytes' \in Nat
        /\ \/ wpc' = "flush" /\ ret' = "drain" /\ timer' = timer
           \/ /\ wpc' = "drain" /\ ret' = ret /\ Len(batch') < MaxBatchSize
              /\ timer' \in {"armed", timer} /\ (batch = <<>> => timer' = "armed")
    BY <2>1, <2>2, <2>3, AppendGathers
  <2> QED
    BY <1>10, <2>1, <2>2, <2>4 DEF DrainChannel
<1>11. CASE DrainDequeue
  <2>1. dq # <<>> /\ dq' = Tail(dq) /\ dq \in Seq(Item) /\ Len(batch) < MaxBatchSize
    BY <1>11 DEF DrainDequeue, BatchInv, Gathering, TypeOK, QueueTypes
  <2>2. Head(dq) \in Item /\ dq' \in Seq(Item) /\ Len(dq') = Len(dq) - 1
    BY <2>1, HeadAndTail
  <2>3. AppendAndManageTimer(Head(dq), "drain")
    BY <1>11 DEF DrainDequeue
  <2>4. /\ batch' \in Seq(Item) /\ Len(batch') = Len(batch) + 1 /\ batch' # <<>>
        /\ Len(batch') <= MaxBatchSize /\ batchBytes' \in Nat
        /\ \/ wpc' = "flush" /\ ret' = "drain" /\ timer' = timer
           \/ /\ wpc' = "drain" /\ ret' = ret /\ Len(batch') < MaxBatchSize
              /\ timer' \in {"armed", timer} /\ (batch = <<>> => timer' = "armed")
    BY <2>1, <2>2, <2>3, AppendGathers
  <2> QED
    BY <1>11, <2>1, <2>2, <2>4 DEF DrainDequeue
<1>12. CASE SelectItem
  <2>1. ch # <<>> /\ ch' = Tail(ch) /\ ch \in Seq(Item) /\ Len(batch) < MaxBatchSize
    BY <1>12 DEF SelectItem, Receive, BatchInv, Gathering, TypeOK, QueueTypes
  <2>2. Head(ch) \in Item /\ ch' \in Seq(Item) /\ Len(ch') = Len(ch) - 1
    BY <2>1, HeadAndTail
  <2>3. AppendAndManageTimer(Head(ch), "top")
    BY <1>12 DEF SelectItem, Receive
  <2>4. /\ batch' \in Seq(Item) /\ Len(batch') = Len(batch) + 1 /\ batch' # <<>>
        /\ Len(batch') <= MaxBatchSize /\ batchBytes' \in Nat
        /\ \/ wpc' = "flush" /\ ret' = "top" /\ timer' = timer
           \/ /\ wpc' = "top" /\ ret' = ret /\ Len(batch') < MaxBatchSize
              /\ timer' \in {"armed", timer} /\ (batch = <<>> => timer' = "armed")
    BY <2>1, <2>2, <2>3, AppendGathers
  <2> QED
    BY <1>12, <2>1, <2>2, <2>4 DEF SelectItem
<1>13. CASE ExitItem
  BY <1>13 DEF ExitItem, BatchIsFull
<1>14. CASE SelectChannelClosed \/ SelectTimer \/ SelectMaintenance \/
     SelectNotify \/ SelectCancelled \/ ExitEnd \/ TimerFires
  BY <1>14 DEF SelectChannelClosed, SelectTimer, SelectMaintenance,
       SelectNotify, SelectCancelled, ExitEnd, TimerFires
<1>15. CASE FlushDiscards \/ FlushCommits \/ FlushFails
  BY <1>15 DEF FlushDiscards, BatchIsSettled, FlushCommits, FlushFails
<1>16. CASE ReEnqueueEnd \/ FlushReturns
  BY <1>16 DEF ReEnqueueEnd, FlushReturns
<1>17. CASE StartDQueDrain \/ StartDQueDrainNotifies \/ Cancel \/ CloseBegin \/ CloseEnd
  BY <1>17 DEF StartDQueDrain, StartDQueDrainNotifies, Cancel, CloseBegin, CloseEnd
<1>18. CASE Crash
  BY <1>18 DEF Crash
<1>19. CASE New
  BY <1>19 DEF New
<1>20. CASE UNCHANGED vars
  BY <1>20 DEF vars
<1> QED
  BY <1>1, <1>2, <1>3, <1>4, <1>5, <1>6, <1>7, <1>8, <1>9, <1>10, <1>11, <1>12,
       <1>13, <1>14, <1>15, <1>16, <1>17, <1>18, <1>19, <1>20 DEF Next, Submit,
       Worker, Finished

\* Each step moves as much in pendingCount as in what it counts: SubmitCount makes
\* up for the send, FlushReturns for the batch, DrainDrops for nobody.
LEMMA PendingStep == ASSUME IInv, [Next]_vars PROVE PendingExact'
<1> USE DEF submitVars, workerVars, fateVars, boundVars,
     submitFrame, runFrame, flushFrame, loopFrame, controlFrame, Enters,
     Accepted, Refused, GoTo, FlushThen, Exit
<1>a. /\ PendingExact
      /\ ch \in Seq(Item) /\ dq \in Seq(Item) /\ batch \in Seq(Item)
      /\ Len(ch) \in Nat /\ Len(dq) \in Nat /\ Len(batch) \in Nat
      /\ pending \in Int /\ Uncounted \in Int /\ n \in Nat /\ leaked \in Nat
      /\ (wpc = "flush" => n = 0) /\ (sub = "none" <=> mu = "free")
      /\ (life \in {"closed", "dead"} => mu = "free") /\ (wpc \in {"reenq", "flushed"} => batch = <<>>)
  BY DEF IInv, TypeOK, QueueTypes, CountTypes, PlaceTypes, LockInv, BatchInv,
         closed, Uncounted
<1>1. ASSUME NEW p \in {"caller", "worker"}, NEW x \in Item,
            SubmitClosed(p, x)
     PROVE  PendingExact'
  BY <1>a, <1>1 DEF PendingExact, Uncounted, SubmitClosed
<1>2. ASSUME NEW p \in {"caller", "worker"}, NEW x \in Item,
            SubmitSend(p, x)
     PROVE  PendingExact'
  BY <1>a, <1>2 DEF PendingExact, Uncounted, SubmitSend
<1>3. ASSUME NEW p \in {"caller", "worker"}, NEW x \in Item,
            SubmitFull(p, x)
     PROVE  PendingExact'
  BY <1>a, <1>3 DEF PendingExact, Uncounted, SubmitFull
<1>4. ASSUME NEW p \in {"caller", "worker"}, NEW x \in Item,
            SubmitOverflow(p, x)
     PROVE  PendingExact'
  BY <1>a, <1>4 DEF PendingExact, Uncounted, SubmitOverflow
<1>5. CASE SubmitEnqueue
  BY <1>a, <1>5 DEF PendingExact, Uncounted, SubmitEnqueue
<1>6. CASE SubmitEnqueueFails
  BY <1>a, <1>6 DEF PendingExact, Uncounted, SubmitEnqueueFails
<1>7. CASE SubmitCount
  BY <1>a, <1>7 DEF PendingExact, Uncounted, SubmitCount
<1>8. CASE WorkerTop \/ DrainClosed \/ DrainCancelled \/ DrainChannelClosed \/
     DrainIdle \/ DrainEmpty \/ DrainFails \/ DrainEnd
  BY <1>a, <1>8 DEF PendingExact, Uncounted, WorkerTop, DrainClosed,
       DrainCancelled, DrainChannelClosed, DrainIdle, DrainEmpty, DrainFails,
       DrainEnd
<1>9. CASE DrainDrops
  <2>1. dq # <<>> /\ dq' = Tail(dq)
    BY <1>9 DEF DrainDrops
  <2>2. Head(dq) \in Item /\ Len(dq') = Len(dq) - 1
    BY <1>a, <2>1, HeadAndTail
  <2>3. UNCHANGED <<ch, batch, pending, n, sub>>
    BY <1>9 DEF DrainDrops
  <2>4. leaked' = leaked + 1
    BY <1>9 DEF DrainDrops
  <2>5. Uncounted' = Uncounted
    BY <2>3 DEF Uncounted
  <2> QED
    BY <1>a, <2>2, <2>3, <2>4, <2>5 DEF PendingExact
<1>10. CASE DrainChannel
  <2>1. ch # <<>> /\ ch' = Tail(ch)
    BY <1>10 DEF DrainChannel, Receive
  <2>2. Head(ch) \in Item /\ Len(ch') = Len(ch) - 1
    BY <1>a, <2>1, HeadAndTail
  <2>3. UNCHANGED <<dq, pending, n, sub, leaked>>
    BY <1>10 DEF DrainChannel
  <2>4. Len(batch') = Len(batch) + 1
    BY <1>a, <1>10, <2>2 DEF DrainChannel, Receive, AppendAndManageTimer
  <2>5. Uncounted' = Uncounted
    BY <2>3 DEF Uncounted
  <2> QED
    BY <1>a, <2>2, <2>3, <2>4, <2>5 DEF PendingExact
<1>11. CASE DrainDequeue
  <2>1. dq # <<>> /\ dq' = Tail(dq)
    BY <1>11 DEF DrainDequeue
  <2>2. Head(dq) \in Item /\ Len(dq') = Len(dq) - 1
    BY <1>a, <2>1, HeadAndTail
  <2>3. UNCHANGED <<ch, pending, n, sub, leaked>>
    BY <1>11 DEF DrainDequeue
  <2>4. Len(batch') = Len(batch) + 1
    BY <1>a, <1>11, <2>2 DEF DrainDequeue, AppendAndManageTimer
  <2>5. Uncounted' = Uncounted
    BY <2>3 DEF Uncounted
  <2> QED
    BY SMTT(30), <1>a, <2>2, <2>3, <2>4, <2>5 DEF PendingExact
<1>12. CASE SelectItem
  <2>1. ch # <<>> /\ ch' = Tail(ch)
    BY <1>12 DEF SelectItem, Receive
  <2>2. Head(ch) \in Item /\ Len(ch') = Len(ch) - 1
    BY <1>a, <2>1, HeadAndTail
  <2>3. UNCHANGED <<dq, pending, n, sub, leaked>>
    BY <1>12 DEF SelectItem
  <2>4. Len(batch') = Len(batch) + 1
    BY <1>a, <1>12, <2>2 DEF SelectItem, Receive, AppendAndManageTimer
  <2>5. Uncounted' = Uncounted
    BY <2>3 DEF Uncounted
  <2> QED
    BY <1>a, <2>2, <2>3, <2>4, <2>5 DEF PendingExact
<1>13. CASE ExitItem
  <2>1. ch # <<>> /\ ch' = Tail(ch)
    BY <1>13 DEF ExitItem
  <2>2. Head(ch) \in Item /\ Len(ch') = Len(ch) - 1
    BY <1>a, <2>1, HeadAndTail
  <2>3. UNCHANGED <<dq, pending, n, sub, leaked>>
    BY <1>13 DEF ExitItem
  <2>4. Len(batch') = Len(batch) + 1
    BY <1>a, <1>13, <2>2 DEF ExitItem
  <2>5. Uncounted' = Uncounted
    BY <2>3 DEF Uncounted
  <2> QED
    BY <1>a, <2>2, <2>3, <2>4, <2>5 DEF PendingExact
<1>14. CASE SelectChannelClosed \/ SelectTimer \/ SelectMaintenance \/
     SelectNotify \/ SelectCancelled \/ ExitEnd \/ TimerFires
  BY <1>a, <1>14 DEF PendingExact, Uncounted, SelectChannelClosed, SelectTimer,
       SelectMaintenance, SelectNotify, SelectCancelled, ExitEnd, TimerFires
<1>15. CASE FlushDiscards
  BY <1>a, <1>15 DEF PendingExact, Uncounted, FlushDiscards, BatchIsSettled
<1>16. CASE FlushCommits
  BY <1>a, <1>16 DEF PendingExact, Uncounted, FlushCommits, BatchIsSettled
<1>17. CASE FlushFails
  BY <1>a, <1>17 DEF PendingExact, Uncounted, FlushFails
<1>18. CASE ReEnqueueEnd
  BY <1>a, <1>18 DEF PendingExact, Uncounted, ReEnqueueEnd
<1>19. CASE FlushReturns
  BY <1>a, <1>19 DEF PendingExact, Uncounted, FlushReturns
<1>20. CASE StartDQueDrain \/ StartDQueDrainNotifies \/ Cancel \/ CloseBegin \/ CloseEnd
  BY <1>a, <1>20 DEF PendingExact, Uncounted, StartDQueDrain, StartDQueDrainNotifies, Cancel,
       CloseBegin, CloseEnd
<1>21. CASE Crash
  BY <1>a, <1>21 DEF PendingExact, Uncounted, Crash
<1>22. CASE New
  BY <1>a, <1>22 DEF PendingExact, Uncounted, New
<1>23. CASE UNCHANGED vars
  BY <1>a, <1>23 DEF PendingExact, Uncounted, vars
<1> QED
  BY <1>1, <1>2, <1>3, <1>4, <1>5, <1>6, <1>7, <1>8, <1>9, <1>10, <1>11, <1>12,
       <1>13, <1>14, <1>15, <1>16, <1>17, <1>18, <1>19, <1>20, <1>21, <1>22,
       <1>23 DEF Next, Submit, Worker, Finished

\* AppendAndManageTimer arms the timer for the first item; only a flush stops it.
LEMMA TimerStep == ASSUME IInv, [Next]_vars PROVE TimerInv'
<1> USE WriteBatcherAssumption DEF IInv, TimerInv, BatchInv, TypeOK,
     PlaceTypes, closed, submitVars, workerVars, fateVars, boundVars,
     submitFrame, runFrame, flushFrame, loopFrame, controlFrame, Enters,
     Accepted, Refused, GoTo, FlushThen, Exit
<1>1. ASSUME NEW p \in {"caller", "worker"}, NEW x \in Item,
            SubmitClosed(p, x) \/ SubmitSend(p, x) \/ SubmitFull(p, x) \/
                 SubmitOverflow(p, x)
     PROVE  TimerInv'
  BY <1>1 DEF SubmitClosed, SubmitSend, SubmitFull, SubmitOverflow
<1>2. CASE SubmitEnqueue \/ SubmitEnqueueFails \/ SubmitCount
  BY <1>2 DEF SubmitEnqueue, SubmitEnqueueFails, SubmitCount
<1>3. CASE WorkerTop \/ DrainClosed \/ DrainCancelled \/ DrainChannelClosed \/
     DrainIdle \/ DrainEmpty \/ DrainFails \/ DrainEnd
  BY <1>3 DEF WorkerTop, DrainClosed, DrainCancelled, DrainChannelClosed,
       DrainIdle, DrainEmpty, DrainFails, DrainEnd
<1>4. CASE DrainDrops
  BY <1>4 DEF DrainDrops
<1>5. CASE DrainChannel
  <2>1. ch # <<>> /\ ch' = Tail(ch) /\ ch \in Seq(Item) /\ Len(batch) < MaxBatchSize
    BY <1>5 DEF DrainChannel, Receive, BatchInv, Gathering, TypeOK, QueueTypes
  <2>2. Head(ch) \in Item /\ ch' \in Seq(Item) /\ Len(ch') = Len(ch) - 1
    BY <2>1, HeadAndTail
  <2>3. AppendAndManageTimer(Head(ch), "drain")
    BY <1>5 DEF DrainChannel, Receive
  <2>4. /\ batch' \in Seq(Item) /\ Len(batch') = Len(batch) + 1 /\ batch' # <<>>
        /\ Len(batch') <= MaxBatchSize /\ batchBytes' \in Nat
        /\ \/ wpc' = "flush" /\ ret' = "drain" /\ timer' = timer
           \/ /\ wpc' = "drain" /\ ret' = ret /\ Len(batch') < MaxBatchSize
              /\ timer' \in {"armed", timer} /\ (batch = <<>> => timer' = "armed")
    BY <2>1, <2>2, <2>3, AppendGathers
  <2> QED
    BY <1>5, <2>1, <2>2, <2>4 DEF DrainChannel
<1>6. CASE DrainDequeue
  <2>1. dq # <<>> /\ dq' = Tail(dq) /\ dq \in Seq(Item) /\ Len(batch) < MaxBatchSize
    BY <1>6 DEF DrainDequeue, BatchInv, Gathering, TypeOK, QueueTypes
  <2>2. Head(dq) \in Item /\ dq' \in Seq(Item) /\ Len(dq') = Len(dq) - 1
    BY <2>1, HeadAndTail
  <2>3. AppendAndManageTimer(Head(dq), "drain")
    BY <1>6 DEF DrainDequeue
  <2>4. /\ batch' \in Seq(Item) /\ Len(batch') = Len(batch) + 1 /\ batch' # <<>>
        /\ Len(batch') <= MaxBatchSize /\ batchBytes' \in Nat
        /\ \/ wpc' = "flush" /\ ret' = "drain" /\ timer' = timer
           \/ /\ wpc' = "drain" /\ ret' = ret /\ Len(batch') < MaxBatchSize
              /\ timer' \in {"armed", timer} /\ (batch = <<>> => timer' = "armed")
    BY <2>1, <2>2, <2>3, AppendGathers
  <2> QED
    BY <1>6, <2>1, <2>2, <2>4 DEF DrainDequeue
<1>7. CASE SelectItem
  <2>1. ch # <<>> /\ ch' = Tail(ch) /\ ch \in Seq(Item) /\ Len(batch) < MaxBatchSize
    BY <1>7 DEF SelectItem, Receive, BatchInv, Gathering, TypeOK, QueueTypes
  <2>2. Head(ch) \in Item /\ ch' \in Seq(Item) /\ Len(ch') = Len(ch) - 1
    BY <2>1, HeadAndTail
  <2>3. AppendAndManageTimer(Head(ch), "top")
    BY <1>7 DEF SelectItem, Receive
  <2>4. /\ batch' \in Seq(Item) /\ Len(batch') = Len(batch) + 1 /\ batch' # <<>>
        /\ Len(batch') <= MaxBatchSize /\ batchBytes' \in Nat
        /\ \/ wpc' = "flush" /\ ret' = "top" /\ timer' = timer
           \/ /\ wpc' = "top" /\ ret' = ret /\ Len(batch') < MaxBatchSize
              /\ timer' \in {"armed", timer} /\ (batch = <<>> => timer' = "armed")
    BY <2>1, <2>2, <2>3, AppendGathers
  <2> QED
    BY <1>7, <2>1, <2>2, <2>4 DEF SelectItem
<1>8. CASE ExitItem
  BY <1>8 DEF ExitItem, BatchIsFull
<1>9. CASE SelectChannelClosed \/ SelectTimer \/ SelectMaintenance \/
     SelectNotify \/ SelectCancelled \/ ExitEnd \/ TimerFires
  BY <1>9 DEF SelectChannelClosed, SelectTimer, SelectMaintenance,
       SelectNotify, SelectCancelled, ExitEnd, TimerFires
<1>10. CASE FlushDiscards \/ FlushCommits \/ FlushFails
  BY <1>10 DEF FlushDiscards, BatchIsSettled, FlushCommits, FlushFails
<1>11. CASE ReEnqueueEnd \/ FlushReturns
  BY <1>11 DEF ReEnqueueEnd, FlushReturns
<1>12. CASE StartDQueDrain \/ StartDQueDrainNotifies \/ Cancel \/ CloseBegin \/ CloseEnd
  BY <1>12 DEF StartDQueDrain, StartDQueDrainNotifies, Cancel, CloseBegin, CloseEnd
<1>13. CASE Crash
  BY <1>13 DEF Crash
<1>14. CASE New
  BY <1>14 DEF New
<1>15. CASE UNCHANGED vars
  BY <1>15 DEF vars
<1> QED
  BY <1>1, <1>2, <1>3, <1>4, <1>5, <1>6, <1>7, <1>8, <1>9, <1>10, <1>11, <1>12,
       <1>13, <1>14, <1>15 DEF Next, Submit, Worker, Finished

\* drainDQueAll gives up only when the dque is empty, failing, or the batcher is
\* ending; every later overflow brings a token.
LEMMA BacklogStep == ASSUME IInv, [Next]_vars PROVE BacklogInv'
<1> USE WriteBatcherAssumption DEF IInv, BacklogInv, LockInv, TypeOK,
     PlaceTypes, FlagTypes, CountTypes, Flushing, closed, submitVars,
     workerVars, fateVars, boundVars, submitFrame, runFrame, flushFrame,
     loopFrame, controlFrame, Enters, Accepted, Refused, GoTo, FlushThen, Exit
<1>1. ASSUME NEW p \in {"caller", "worker"}, NEW x \in Item,
            SubmitClosed(p, x) \/ SubmitSend(p, x) \/ SubmitFull(p, x) \/
                 SubmitOverflow(p, x)
     PROVE  BacklogInv'
  BY <1>1 DEF SubmitClosed, SubmitSend, SubmitFull, SubmitOverflow
<1>2. CASE SubmitEnqueue \/ SubmitEnqueueFails \/ SubmitCount
  BY <1>2 DEF SubmitEnqueue, SubmitEnqueueFails, SubmitCount
<1>3. CASE WorkerTop \/ DrainClosed \/ DrainCancelled \/ DrainChannelClosed \/
     DrainIdle \/ DrainEmpty \/ DrainFails \/ DrainEnd
  BY <1>3 DEF WorkerTop, DrainClosed, DrainCancelled, DrainChannelClosed,
       DrainIdle, DrainEmpty, DrainFails, DrainEnd
<1>4. CASE DrainDrops
  BY <1>4 DEF DrainDrops
<1>5. CASE DrainChannel
  BY <1>5 DEF DrainChannel, Receive, AppendAndManageTimer, BatchIsFull
<1>6. CASE DrainDequeue
  BY <1>6 DEF DrainDequeue, AppendAndManageTimer, BatchIsFull
<1>7. CASE SelectItem
  BY <1>7 DEF SelectItem, Receive, AppendAndManageTimer, BatchIsFull
<1>8. CASE ExitItem
  BY <1>8 DEF ExitItem, BatchIsFull
<1>9. CASE SelectChannelClosed \/ SelectTimer \/ SelectMaintenance \/
     SelectNotify \/ SelectCancelled \/ ExitEnd \/ TimerFires
  BY <1>9 DEF SelectChannelClosed, SelectTimer, SelectMaintenance,
       SelectNotify, SelectCancelled, ExitEnd, TimerFires
<1>10. CASE FlushDiscards \/ FlushCommits \/ FlushFails
  BY <1>10 DEF FlushDiscards, BatchIsSettled, FlushCommits, FlushFails
<1>11. CASE ReEnqueueEnd \/ FlushReturns
  BY <1>11 DEF ReEnqueueEnd, FlushReturns
<1>12. CASE StartDQueDrain \/ StartDQueDrainNotifies \/ Cancel \/ CloseBegin \/ CloseEnd
  BY <1>12 DEF StartDQueDrain, StartDQueDrainNotifies, Cancel, CloseBegin, CloseEnd
<1>13. CASE Crash
  BY <1>13 DEF Crash
<1>14. CASE New
  BY <1>14 DEF New
<1>15. CASE UNCHANGED vars
  BY <1>15 DEF vars
<1> QED
  BY <1>1, <1>2, <1>3, <1>4, <1>5, <1>6, <1>7, <1>8, <1>9, <1>10, <1>11, <1>12,
       <1>13, <1>14, <1>15 DEF Next, Submit, Worker, Finished

\* The worker leaves its loop only for Close or the context, and after Close the
\* channel only shrinks.
LEMMA CauseStep == ASSUME IInv, [Next]_vars PROVE CauseInv'
<1> USE WriteBatcherAssumption DEF IInv, CauseInv, LockInv, BatchInv, TypeOK,
     PlaceTypes, QueueTypes, CountTypes, Flushing, closed, submitVars,
     workerVars, fateVars, boundVars, submitFrame, runFrame, flushFrame,
     loopFrame, controlFrame, Enters, Accepted, Refused, GoTo, FlushThen, Exit
<1>1. ASSUME NEW p \in {"caller", "worker"}, NEW x \in Item,
            SubmitClosed(p, x)
     PROVE  CauseInv'
  BY <1>1 DEF SubmitClosed
<1>2. ASSUME NEW p \in {"caller", "worker"}, NEW x \in Item,
            SubmitSend(p, x)
     PROVE  CauseInv'
  BY <1>2 DEF SubmitSend
<1>3. ASSUME NEW p \in {"caller", "worker"}, NEW x \in Item,
            SubmitFull(p, x)
     PROVE  CauseInv'
  BY <1>3 DEF SubmitFull
<1>4. ASSUME NEW p \in {"caller", "worker"}, NEW x \in Item,
            SubmitOverflow(p, x)
     PROVE  CauseInv'
  BY <1>4 DEF SubmitOverflow
<1>5. CASE SubmitEnqueue
  BY <1>5 DEF SubmitEnqueue
<1>6. CASE SubmitEnqueueFails
  BY <1>6 DEF SubmitEnqueueFails
<1>7. CASE SubmitCount
  BY <1>7 DEF SubmitCount
<1>8. CASE WorkerTop
  BY <1>8 DEF WorkerTop
<1>9. CASE DrainClosed
  BY <1>9 DEF DrainClosed
<1>10. CASE DrainCancelled
  BY <1>10 DEF DrainCancelled
<1>11. CASE DrainChannelClosed
  BY <1>11 DEF DrainChannelClosed
<1>12. CASE DrainIdle
  BY <1>12 DEF DrainIdle
<1>13. CASE DrainEmpty
  BY <1>13 DEF DrainEmpty
<1>14. CASE DrainFails
  BY <1>14 DEF DrainFails
<1>15. CASE DrainEnd
  BY <1>15 DEF DrainEnd
<1>16. CASE DrainDrops
  BY <1>16 DEF DrainDrops
<1>17. CASE DrainChannel
  <2>1. ch # <<>> /\ ch' = Tail(ch) /\ ch \in Seq(Item) /\ Len(batch) < MaxBatchSize
    BY <1>17 DEF DrainChannel, Receive, BatchInv, Gathering, TypeOK, QueueTypes
  <2>2. Head(ch) \in Item /\ ch' \in Seq(Item) /\ Len(ch') = Len(ch) - 1
    BY <2>1, HeadAndTail
  <2>3. AppendAndManageTimer(Head(ch), "drain")
    BY <1>17 DEF DrainChannel, Receive
  <2>4. /\ batch' \in Seq(Item) /\ Len(batch') = Len(batch) + 1 /\ batch' # <<>>
        /\ Len(batch') <= MaxBatchSize /\ batchBytes' \in Nat
        /\ \/ wpc' = "flush" /\ ret' = "drain" /\ timer' = timer
           \/ /\ wpc' = "drain" /\ ret' = ret /\ Len(batch') < MaxBatchSize
              /\ timer' \in {"armed", timer} /\ (batch = <<>> => timer' = "armed")
    BY <2>1, <2>2, <2>3, AppendGathers
  <2> QED
    BY <1>17, <2>1, <2>2, <2>4 DEF DrainChannel
<1>18. CASE DrainDequeue
  <2>1. dq # <<>> /\ dq' = Tail(dq) /\ dq \in Seq(Item) /\ Len(batch) < MaxBatchSize
    BY <1>18 DEF DrainDequeue, BatchInv, Gathering, TypeOK, QueueTypes
  <2>2. Head(dq) \in Item /\ dq' \in Seq(Item) /\ Len(dq') = Len(dq) - 1
    BY <2>1, HeadAndTail
  <2>3. AppendAndManageTimer(Head(dq), "drain")
    BY <1>18 DEF DrainDequeue
  <2>4. /\ batch' \in Seq(Item) /\ Len(batch') = Len(batch) + 1 /\ batch' # <<>>
        /\ Len(batch') <= MaxBatchSize /\ batchBytes' \in Nat
        /\ \/ wpc' = "flush" /\ ret' = "drain" /\ timer' = timer
           \/ /\ wpc' = "drain" /\ ret' = ret /\ Len(batch') < MaxBatchSize
              /\ timer' \in {"armed", timer} /\ (batch = <<>> => timer' = "armed")
    BY <2>1, <2>2, <2>3, AppendGathers
  <2> QED
    BY <1>18, <2>1, <2>2, <2>4 DEF DrainDequeue
<1>19. CASE SelectItem
  <2>1. ch # <<>> /\ ch' = Tail(ch) /\ ch \in Seq(Item) /\ Len(batch) < MaxBatchSize
    BY <1>19 DEF SelectItem, Receive, BatchInv, Gathering, TypeOK, QueueTypes
  <2>2. Head(ch) \in Item /\ ch' \in Seq(Item) /\ Len(ch') = Len(ch) - 1
    BY <2>1, HeadAndTail
  <2>3. AppendAndManageTimer(Head(ch), "top")
    BY <1>19 DEF SelectItem, Receive
  <2>4. /\ batch' \in Seq(Item) /\ Len(batch') = Len(batch) + 1 /\ batch' # <<>>
        /\ Len(batch') <= MaxBatchSize /\ batchBytes' \in Nat
        /\ \/ wpc' = "flush" /\ ret' = "top" /\ timer' = timer
           \/ /\ wpc' = "top" /\ ret' = ret /\ Len(batch') < MaxBatchSize
              /\ timer' \in {"armed", timer} /\ (batch = <<>> => timer' = "armed")
    BY <2>1, <2>2, <2>3, AppendGathers
  <2> QED
    BY <1>19, <2>1, <2>2, <2>4 DEF SelectItem
<1>20. CASE ExitItem
  BY <1>20 DEF ExitItem, BatchIsFull
<1>21. CASE SelectChannelClosed
  BY <1>21 DEF SelectChannelClosed
<1>22. CASE SelectTimer
  BY <1>22 DEF SelectTimer
<1>23. CASE SelectMaintenance
  BY <1>23 DEF SelectMaintenance
<1>24. CASE SelectNotify
  BY <1>24 DEF SelectNotify
<1>25. CASE SelectCancelled
  BY <1>25 DEF SelectCancelled
<1>26. CASE ExitEnd
  BY <1>26 DEF ExitEnd
<1>27. CASE TimerFires
  BY <1>27 DEF TimerFires
<1>28. CASE FlushDiscards \/ FlushCommits \/ FlushFails
  BY SMTT(30), <1>28 DEF FlushDiscards, BatchIsSettled, FlushCommits, FlushFails
<1>29. CASE ReEnqueueEnd \/ FlushReturns
  BY SMTT(30), <1>29 DEF ReEnqueueEnd, FlushReturns
<1>30. CASE StartDQueDrain
  BY <1>30 DEF StartDQueDrain
<1>41. CASE StartDQueDrainNotifies
  BY <1>41 DEF StartDQueDrainNotifies
<1>31. CASE Cancel
  BY <1>31 DEF Cancel
<1>32. CASE CloseBegin
  BY <1>32 DEF CloseBegin
<1>33. CASE CloseEnd
  BY <1>33 DEF CloseEnd
<1>34. CASE Crash
  BY <1>34 DEF Crash
<1>35. CASE New
  BY <1>35 DEF New
<1>36. CASE UNCHANGED vars
  BY <1>36 DEF vars
<1> QED
  BY <1>1, <1>2, <1>3, <1>4, <1>5, <1>6, <1>7, <1>8, <1>9, <1>10, <1>11, <1>12,
       <1>13, <1>14, <1>15, <1>16, <1>17, <1>18, <1>19, <1>20, <1>21, <1>22,
       <1>23, <1>24, <1>25, <1>26, <1>27, <1>28, <1>29, <1>30, <1>41, <1>31, <1>32,
       <1>33, <1>34, <1>35, <1>36 DEF Next, Submit, Worker, Finished

\* Each place that loses a write: Refused, DrainDrops, Crash, and New over a channel
\* that was not drained.
LEMMA LossStep == ASSUME IInv, [Next]_vars PROVE LossHasACause'
<1> USE WriteBatcherAssumption DEF IInv, LossHasACause, LockInv, BatchInv,
     CauseInv, TypeOK, PlaceTypes, CountTypes, closed, submitVars, workerVars,
     fateVars, boundVars, submitFrame, runFrame, flushFrame, loopFrame,
     controlFrame, Enters, Accepted, Refused, GoTo, FlushThen, Exit
<1>1. ASSUME NEW p \in {"caller", "worker"}, NEW x \in Item,
            SubmitClosed(p, x) \/ SubmitSend(p, x) \/ SubmitFull(p, x) \/
                 SubmitOverflow(p, x)
     PROVE  LossHasACause'
  BY <1>1 DEF SubmitClosed, SubmitSend, SubmitFull, SubmitOverflow
<1>2. CASE SubmitEnqueue \/ SubmitEnqueueFails \/ SubmitCount
  BY <1>2 DEF SubmitEnqueue, SubmitEnqueueFails, SubmitCount
<1>3. CASE WorkerTop \/ DrainClosed \/ DrainCancelled \/ DrainChannelClosed \/
     DrainIdle \/ DrainEmpty \/ DrainFails \/ DrainEnd
  BY <1>3 DEF WorkerTop, DrainClosed, DrainCancelled, DrainChannelClosed,
       DrainIdle, DrainEmpty, DrainFails, DrainEnd
<1>4. CASE DrainDrops
  BY <1>4 DEF DrainDrops
<1>5. CASE DrainChannel
  BY <1>5 DEF DrainChannel, Receive, AppendAndManageTimer, BatchIsFull
<1>6. CASE DrainDequeue
  BY <1>6 DEF DrainDequeue, AppendAndManageTimer, BatchIsFull
<1>7. CASE SelectItem
  BY <1>7 DEF SelectItem, Receive, AppendAndManageTimer, BatchIsFull
<1>8. CASE ExitItem
  BY <1>8 DEF ExitItem, BatchIsFull
<1>9. CASE SelectChannelClosed \/ SelectTimer \/ SelectMaintenance \/
     SelectNotify \/ SelectCancelled \/ ExitEnd \/ TimerFires
  BY <1>9 DEF SelectChannelClosed, SelectTimer, SelectMaintenance,
       SelectNotify, SelectCancelled, ExitEnd, TimerFires
<1>10. CASE FlushDiscards \/ FlushCommits \/ FlushFails
  BY <1>10 DEF FlushDiscards, BatchIsSettled, FlushCommits, FlushFails
<1>11. CASE ReEnqueueEnd \/ FlushReturns
  BY <1>11 DEF ReEnqueueEnd, FlushReturns
<1>12. CASE StartDQueDrain \/ StartDQueDrainNotifies \/ Cancel \/ CloseBegin \/ CloseEnd
  BY <1>12 DEF StartDQueDrain, StartDQueDrainNotifies, Cancel, CloseBegin, CloseEnd
<1>13. CASE Crash
  BY <1>13 DEF Crash
<1>14. CASE New
  <2>1. CASE life = "dead"
    BY <1>14, <2>1 DEF New
  <2>2. CASE life = "closed" /\ "cancel" \in troubles
    BY <1>14, <2>2 DEF New
  <2>3. CASE life = "closed" /\ "cancel" \notin troubles
    <3>1. ch = <<>> /\ Elements(ch) = {}
      BY <2>3, ElementsEmpty DEF QueueTypes
    <3> QED
      BY <1>14, <3>1 DEF New
  <2> QED
    BY <1>14, <2>1, <2>2, <2>3 DEF New
<1>15. CASE UNCHANGED vars
  BY <1>15 DEF vars
<1> QED
  BY <1>1, <1>2, <1>3, <1>4, <1>5, <1>6, <1>7, <1>8, <1>9, <1>10, <1>11, <1>12,
       <1>13, <1>14, <1>15 DEF Next, Submit, Worker, Finished

-----------------------------------------------------------------------------
(* The theorems. *)

\* A new batcher over a new dque satisfies the inductive invariant.
LEMMA InitIInv == Init => IInv
<1> SUFFICES ASSUME Init PROVE IInv
  OBVIOUS
<1> USE WriteBatcherAssumption DEF Init
<1>1. TypeOK
  <2>1. QueueTypes /\ CountTypes
    BY DEF QueueTypes, CountTypes
  <2>2. FlagTypes
    BY DEF FlagTypes
  <2>3. PlaceTypes /\ SetTypes
    BY DEF PlaceTypes, SetTypes
  <2> QED
    BY <2>1, <2>2, <2>3 DEF TypeOK
<1>2. LockInv /\ BatchInv /\ TimerInv
  BY DEF LockInv, BatchInv, TimerInv, Gathering, Flushing, closed
<1>3. PendingExact /\ BacklogInv /\ CauseInv /\ LossHasACause
  BY DEF PendingExact, Uncounted, BacklogInv, CauseInv, LossHasACause, Flushing, closed
<1> QED
  BY <1>1, <1>2, <1>3 DEF IInv

\* Every step of callers, worker, timers and of the environment preserves IInv.
LEMMA NextIInv == IInv /\ [Next]_vars => IInv'
  BY TypeStep, LockStep, BatchStep, PendingStep, TimerStep, BacklogStep, CauseStep, LossStep
     DEF IInv

\* IInv holds in every state the batcher reaches.
THEOREM Invariance == Spec => []IInv
  BY InitIInv, NextIInv, PTL DEF Spec

\* The channel and the batch keep their bounds, and every variable its type.
THEOREM TypeCorrect == Spec => []TypeOK
<1>1. IInv => TypeOK
  BY DEF IInv
<1> QED
  BY <1>1, Invariance, PTL

\* pendingCount counts exactly the writes that are queued, batched or in a flush.
THEOREM PendingIsExact == Spec => []PendingExact
<1>1. IInv => PendingExact
  BY DEF IInv
<1> QED
  BY <1>1, Invariance, PTL

\* PendingCount() = 0 between two Submits means that nothing is left to write.
THEOREM ZeroMeansIdle == Spec => []PendingZeroMeansIdle
<1>1. IInv => PendingZeroMeansIdle
  <2> SUFFICES ASSUME IInv, mu = "free", pending = 0 PROVE Held = {}
    BY DEF PendingZeroMeansIdle
  <2>1. /\ ch \in Seq(Item) /\ dq \in Seq(Item) /\ batch \in Seq(Item) /\ redo \in Seq(Item)
        /\ Len(ch) \in Nat /\ Len(dq) \in Nat /\ Len(batch) \in Nat /\ Len(redo) \in Nat
        /\ n \in Nat /\ leaked \in Nat /\ Len(redo) <= n
    BY DEF IInv, TypeOK, QueueTypes, CountTypes, BatchInv
  <2>2. Uncounted = 0
    BY DEF IInv, LockInv, Uncounted
  <2>3. 0 = Len(ch) + Len(dq) + Len(batch) + n + leaked
    BY <2>1, <2>2 DEF IInv, PendingExact
  <2>4. Len(ch) = 0 /\ Len(dq) = 0 /\ Len(batch) = 0 /\ Len(redo) = 0
    BY <2>1, <2>3
  <2>5. Elements(ch) = {} /\ Elements(dq) = {} /\ Elements(batch) = {} /\ Elements(redo) = {}
    BY <2>1, <2>4, ElementsEmpty
  <2> QED
    BY <2>5 DEF Held
<1> QED
  BY <1>1, Invariance, PTL

\* The worker never waits on its select with a batch that no timer will flush.
THEOREM BatchIsCovered == Spec => []TimerCoversBatch
<1>1. IInv => TimerCoversBatch
  BY DEF IInv, TimerInv, TimerCoversBatch
<1> QED
  BY <1>1, Invariance, PTL

\* The worker never waits on its select beside a backlog nothing will wake it for.
THEOREM BacklogHasAToken == Spec => []BacklogIsNoticed
<1>1. IInv => BacklogIsNoticed
  BY DEF IInv, BacklogInv, BacklogIsNoticed
<1> QED
  BY <1>1, Invariance, PTL

\* No write is lost without a crash, a cancelled context, a failing dque, or a
\* failed flush whose re-enqueue met Close or a full queue.
THEOREM LossIsExplained == Spec => []LossHasACause
<1>1. IInv => LossHasACause
  BY DEF IInv
<1> QED
  BY <1>1, Invariance, PTL

\* After Close nothing accepted is left outside the dque.
THEOREM CloseLeavesTheBacklog == Spec => []CloseDrainsTheChannel
<1>1. IInv => CloseDrainsTheChannel
  <2> SUFFICES ASSUME IInv, life = "closed", "cancel" \notin troubles
               PROVE  Held = Elements(dq)
    BY DEF CloseDrainsTheChannel
  <2>1. wpc = "done" /\ batch = <<>> /\ redo = <<>>
    BY DEF IInv, BatchInv
  <2>2. ch = <<>>
    BY <2>1 DEF IInv, CauseInv
  <2> QED
    BY <2>1, <2>2 DEF Held, Elements
<1> QED
  BY <1>1, Invariance, PTL

-----------------------------------------------------------------------------
(***************************************************************************)
(* The write batcher implements WriteSink, for every set of writes, every  *)
(* size of the channel and of the batch, and any number of failures and    *)
(* restarts: a write is in one place at a time, is committed once, in a    *)
(* batch that is neither empty nor too large, and what is settled or lost  *)
(* does not come back.                                                     *)
(*                                                                         *)
(* IInv above says what the worker holds where; PlaceInv                   *)
(* adds that no write is in two places, which every hand-over needs: from  *)
(* a caller to the channel or the disk, from there into the batch, from a  *)
(* failed batch back through Submit.                                       *)
(***************************************************************************)

Distinct(s) == \A i, j \in DOMAIN s : s[i] = s[j] => i = j

\* No write twice in a queue, nor in two of the seven places.
Apart ==
    /\ Distinct(ch) /\ Distinct(dq) /\ Distinct(batch) /\ Distinct(redo)
    /\ Elements(ch) \cap (Elements(dq) \cup Elements(batch) \cup Elements(redo)
                            \cup committed \cup discarded \cup lost) = {}
    /\ Elements(dq) \cap (Elements(batch) \cup Elements(redo)
                            \cup committed \cup discarded \cup lost) = {}
    /\ Elements(batch) \cap (Elements(redo) \cup committed \cup discarded \cup lost) = {}
    /\ Elements(redo) \cap (committed \cup discarded \cup lost) = {}
    /\ committed \cap (discarded \cup lost) = {}
    /\ discarded \cap lost = {}

Placed == Held \cup committed \cup discarded \cup lost
\* A Submit on its way to the dque has a write that is nowhere yet, or the
\* first one that reEnqueueBatch still holds.
Offering ==
    sub = "overflow" =>
        \E x \in used : /\ offered = {x}
                        /\ IF mu = "worker" THEN redo # <<>> /\ x = Head(redo) ELSE x \notin Placed
FlushHasBatch == wpc = "flush" => batch # <<>>

PlaceInv == Apart /\ Placed \subseteq used /\ Offering /\ FlushHasBatch
SinkStep == Sink!SinkNext \/ UNCHANGED Sink!sinkVars

-----------------------------------------------------------------------------
(* Queues as sets. *)

\* One write more at the end of a queue.
LEMMA ElementsOfAppend ==
  ASSUME NEW s \in Seq(Item), NEW x \in Item
  PROVE  /\ Elements(Append(s, x)) = Elements(s) \cup {x}
         /\ Distinct(s) /\ x \notin Elements(s) => Distinct(Append(s, x))
<1>1. /\ Append(s, x) \in Seq(Item) /\ DOMAIN Append(s, x) = 1..Len(s) + 1
      /\ \A i \in 1..Len(s) : Append(s, x)[i] = s[i]
      /\ Append(s, x)[Len(s) + 1] = x /\ DOMAIN s = 1..Len(s) /\ Len(s) \in Nat
  OBVIOUS
<1>2. Elements(Append(s, x)) = Elements(s) \cup {x} BY <1>1 DEF Elements
<1>3. ASSUME Distinct(s), x \notin Elements(s) PROVE Distinct(Append(s, x))
  BY <1>1, <1>3 DEF Distinct, Elements
<1> QED BY <1>2, <1>3

\* The first write taken off a queue.
LEMMA ElementsOfTail ==
  ASSUME NEW s \in Seq(Item), s # <<>>
  PROVE  /\ Head(s) \in Item /\ Elements(s) = Elements(Tail(s)) \cup {Head(s)}
         /\ Distinct(s) => Distinct(Tail(s)) /\ Head(s) \notin Elements(Tail(s))
<1>1. /\ Tail(s) \in Seq(Item) /\ DOMAIN Tail(s) = 1..Len(s) - 1 /\ Len(s) \in Nat \ {0}
      /\ \A i \in 1..Len(s) - 1 : Tail(s)[i] = s[i + 1]
      /\ DOMAIN s = 1..Len(s) /\ Head(s) = s[1] /\ Head(s) \in Item
  OBVIOUS
<1>2. Elements(s) = Elements(Tail(s)) \cup {Head(s)}
  <2>1. \A i \in 1..Len(s) : i = 1 \/ (i - 1 \in 1..Len(s) - 1 /\ s[i] = Tail(s)[i - 1])
    BY <1>1
  <2>2. \A i \in 1..Len(s) - 1 : i + 1 \in 1..Len(s) BY <1>1
  <2>3. 1 \in 1..Len(s) BY <1>1
  <2>4. ASSUME NEW y \in Elements(s) PROVE y \in Elements(Tail(s)) \cup {Head(s)}
    <3>1. PICK i \in 1..Len(s) : y = s[i] BY <1>1, <2>4 DEF Elements
    <3> QED BY <1>1, <2>1, <3>1 DEF Elements
  <2>5. ASSUME NEW y \in Elements(Tail(s)) PROVE y \in Elements(s)
    <3>1. PICK i \in 1..Len(s) - 1 : y = Tail(s)[i] BY <1>1, <2>5 DEF Elements
    <3> QED BY <1>1, <2>2, <3>1 DEF Elements
  <2>6. Head(s) \in Elements(s) BY <1>1, <2>3 DEF Elements
  <2> QED BY <2>4, <2>5, <2>6
<1>3. ASSUME Distinct(s) PROVE Distinct(Tail(s)) /\ Head(s) \notin Elements(Tail(s))
  <2>1. \A i \in 1..Len(s) - 1 : i + 1 \in 1..Len(s) /\ i + 1 # 1 BY <1>1
  <2>2. 1 \in 1..Len(s) BY <1>1
  <2>3. Head(s) \notin Elements(Tail(s)) BY <1>1, <1>3, <2>1, <2>2 DEF Distinct, Elements
  <2>4. Distinct(Tail(s))
    <3> SUFFICES ASSUME NEW i \in 1..Len(s) - 1, NEW j \in 1..Len(s) - 1, Tail(s)[i] = Tail(s)[j]
                 PROVE  i = j
      BY <1>1 DEF Distinct
    <3>1. s[i + 1] = s[j + 1] BY <1>1
    <3>2. i + 1 = j + 1 BY <1>1, <1>3, <2>1, <3>1 DEF Distinct
    <3> QED BY <3>2
  <2> QED BY <2>3, <2>4
<1> QED BY <1>1, <1>2, <1>3

\* An empty queue.
LEMMA ElementsOfNone == Elements(<<>>) = {} /\ Distinct(<<>>)
BY DEF Elements, Distinct

\* A batch that is flushed is one WriteSink may commit.
LEMMA BatchIsBounded ==
  ASSUME TypeOK, batch # <<>>
  PROVE  Cardinality(Elements(batch)) \in 1..MaxBatchSize
<1>1. /\ batch \in Seq(Item) /\ Len(batch) \in Nat /\ Len(batch) <= MaxBatchSize
      /\ DOMAIN batch = 1..Len(batch) /\ MaxBatchSize \in Nat
  BY WriteBatcherAssumption DEF TypeOK, QueueTypes
<1>2. batch \in Surjection(1..Len(batch), Elements(batch))
  BY <1>1 DEF Surjection, Elements
<1>3. IsFiniteSet(1..Len(batch)) /\ Cardinality(1..Len(batch)) = Len(batch)
  <2>1. 1 \in Int /\ Len(batch) \in Int BY <1>1
  <2>2. /\ IsFiniteSet(1..Len(batch))
        /\ Cardinality(1..Len(batch)) = IF 1 > Len(batch) THEN 0 ELSE Len(batch) - 1 + 1
    BY <2>1, FS_Interval
  <2> QED BY <1>1, <2>2
<1>4. IsFiniteSet(Elements(batch)) /\ Cardinality(Elements(batch)) <= Len(batch)
  BY <1>2, <1>3, FS_Surjection
<1>5. Cardinality(Elements(batch)) \in Nat BY <1>4, FS_CardinalityType
<1>6. Elements(batch) # {}
  <2>1. 1 \in DOMAIN batch BY <1>1
  <2> QED BY <2>1 DEF Elements
<1>7. Cardinality(Elements(batch)) # 0 BY <1>4, <1>6, FS_EmptySet
<1> QED BY <1>1, <1>4, <1>5, <1>7

-----------------------------------------------------------------------------
(* Steps of WriteSink. *)

\* Taking a write into a place is Accept.
LEMMA AcceptIsSinkStep ==
  ASSUME NEW x \in Item, x \notin Placed, Held' = Held \cup {x},
         UNCHANGED <<committed, discarded, lost>>
  PROVE  SinkStep
<1>1. Sink!Accept(x) BY DEF Sink!Accept, Placed
<1> QED BY <1>1 DEF SinkStep, Sink!SinkNext

\* Moving writes between places is no step of WriteSink at all.
LEMMA MoveIsSinkStep ==
  ASSUME Held' = Held, UNCHANGED <<committed, discarded, lost>>
  PROVE  SinkStep
BY DEF SinkStep, Sink!sinkVars

\* Dropping writes is Lose.
LEMMA LoseIsSinkStep ==
  ASSUME NEW S, S \subseteq Held, Held' = Held \ S, lost' = lost \cup S,
         UNCHANGED <<committed, discarded>>
  PROVE  SinkStep
<1>1. Sink!Lose(S) BY DEF Sink!Lose
<1>2. S \in SUBSET Held OBVIOUS
<1> QED BY <1>1, <1>2 DEF SinkStep, Sink!SinkNext

\* What is being overflowed stays so while the holder of wb.mu waits.
LEMMA OfferingStays ==
  ASSUME Offering, UNCHANGED <<mu, sub, offered, used>>, Placed' \subseteq Placed,
         mu = "worker" => redo' = redo
  PROVE  Offering'
<1> SUFFICES ASSUME sub = "overflow"
             PROVE  Offering'
  BY DEF Offering
<1>1. PICK x \in used : /\ offered = {x}
                        /\ IF mu = "worker" THEN redo # <<>> /\ x = Head(redo)
                                            ELSE x \notin Placed
  BY DEF Offering
<1>2. IF mu' = "worker" THEN redo' # <<>> /\ x = Head(redo') ELSE x \notin Placed'
  BY <1>1
<1> QED BY <1>1, <1>2 DEF Offering

-----------------------------------------------------------------------------
(* The ways a write moves, one lemma for the actions that share one. *)

places == <<ch, dq, batch, redo, committed, discarded, lost>>

\* No place changes.
LEMMA NothingMoves ==
  ASSUME PlaceInv, UNCHANGED places
  PROVE  Apart' /\ Placed' = Placed /\ SinkStep
<1>1. Held' = Held /\ Placed' = Placed BY DEF places, Held, Placed
<1>2. Apart' BY DEF PlaceInv, Apart, places
<1>3. SinkStep BY <1>1, MoveIsSinkStep DEF places
<1> QED BY <1>1, <1>2, <1>3

\* The first write of the channel, or of the dque, goes into the batch.
LEMMA ChannelToBatch ==
  ASSUME TypeOK, PlaceInv, ch # <<>>, ch' = Tail(ch), batch' = Append(batch, Head(ch)),
         UNCHANGED <<dq, redo, committed, discarded, lost>>
  PROVE  Apart' /\ Placed' = Placed /\ SinkStep
<1>1. ch \in Seq(Item) /\ batch \in Seq(Item) BY DEF TypeOK, QueueTypes
<1>2. /\ Head(ch) \in Item /\ Elements(ch) = Elements(ch') \cup {Head(ch)}
      /\ Distinct(ch) => Distinct(ch') /\ Head(ch) \notin Elements(ch')
  BY <1>1, ElementsOfTail
<1>3. /\ Elements(batch') = Elements(batch) \cup {Head(ch)}
      /\ Distinct(batch) /\ Head(ch) \notin Elements(batch) => Distinct(batch')
  BY <1>1, <1>2, ElementsOfAppend
<1>4. Held' = Held /\ Placed' = Placed BY <1>2, <1>3 DEF Held, Placed
<1>5. Apart' BY <1>2, <1>3 DEF PlaceInv, Apart
<1> QED BY <1>4, <1>5, MoveIsSinkStep

\* drainDQueAll takes the first write of the dque.
LEMMA DiskToBatch ==
  ASSUME TypeOK, PlaceInv, dq # <<>>, dq' = Tail(dq), batch' = Append(batch, Head(dq)),
         UNCHANGED <<ch, redo, committed, discarded, lost>>
  PROVE  Apart' /\ Placed' = Placed /\ SinkStep
<1>1. dq \in Seq(Item) /\ batch \in Seq(Item) BY DEF TypeOK, QueueTypes
<1>2. /\ Head(dq) \in Item /\ Elements(dq) = Elements(dq') \cup {Head(dq)}
      /\ Distinct(dq) => Distinct(dq') /\ Head(dq) \notin Elements(dq')
  BY <1>1, ElementsOfTail
<1>3. /\ Elements(batch') = Elements(batch) \cup {Head(dq)}
      /\ Distinct(batch) /\ Head(dq) \notin Elements(batch) => Distinct(batch')
  BY <1>1, <1>2, ElementsOfAppend
<1>4. Held' = Held /\ Placed' = Placed BY <1>2, <1>3 DEF Held, Placed
<1>5. Apart' BY <1>2, <1>3 DEF PlaceInv, Apart
<1> QED BY <1>4, <1>5, MoveIsSinkStep

\* A Dequeue that removed its write and returned an error loses it.
LEMMA DiskToNowhere ==
  ASSUME TypeOK, PlaceInv, dq # <<>>, dq' = Tail(dq), lost' = lost \cup {Head(dq)},
         UNCHANGED <<ch, batch, redo, committed, discarded>>
  PROVE  Apart' /\ Placed' = Placed /\ SinkStep
<1>1. dq \in Seq(Item) BY DEF TypeOK, QueueTypes
<1>2. /\ Head(dq) \in Item /\ Elements(dq) = Elements(dq') \cup {Head(dq)}
      /\ Distinct(dq) => Distinct(dq') /\ Head(dq) \notin Elements(dq')
  BY <1>1, ElementsOfTail
<1>3. /\ {Head(dq)} \subseteq Held /\ Held' = Held \ {Head(dq)} /\ Placed' = Placed
  BY <1>2 DEF Held, Placed, PlaceInv, Apart
<1>4. Apart' BY <1>2 DEF PlaceInv, Apart
<1> QED BY <1>3, <1>4, LoseIsSinkStep

\* A flush that committed, or that the drop hook spared, settles the batch.
LEMMA BatchIsGone ==
  ASSUME TypeOK, PlaceInv, batch # <<>>, batch' = <<>>,
         UNCHANGED <<ch, dq, redo, lost>>,
         \/ committed' = committed \cup Elements(batch) /\ UNCHANGED discarded
         \/ discarded' = discarded \cup Elements(batch) /\ UNCHANGED committed
  PROVE  Apart' /\ Placed' = Placed /\ SinkStep
<1>1. Elements(batch') = {} /\ Distinct(batch') BY ElementsOfNone
<1>2. /\ Elements(batch) \subseteq Held /\ Held' = Held \ Elements(batch)
      /\ Placed' = Placed
  BY <1>1 DEF Held, Placed, PlaceInv, Apart
<1>3. Apart'
  <2>1. CASE committed' = committed \cup Elements(batch) /\ UNCHANGED discarded
    BY <1>1, <2>1 DEF PlaceInv, Apart
  <2>2. CASE discarded' = discarded \cup Elements(batch) /\ UNCHANGED committed
    BY <1>1, <2>2 DEF PlaceInv, Apart
  <2> QED BY <2>1, <2>2
<1>4. Sink!Batch(Elements(batch))
  <2>1. Sink!Cardinality(Elements(batch)) = Cardinality(Elements(batch))
    BY DEF Sink!Cardinality, Cardinality
  <2> QED BY <1>2, <2>1, BatchIsBounded DEF Sink!Batch
<1>5. Sink!Commit(Elements(batch)) \/ Sink!Discard(Elements(batch))
  BY <1>2, <1>4 DEF Sink!Commit, Sink!Discard
<1>6. SinkStep BY <1>2, <1>5 DEF SinkStep, Sink!SinkNext
<1> QED BY <1>2, <1>3, <1>6

\* A flush that failed hands the batch to reEnqueueBatch.
LEMMA BatchToRedo ==
  ASSUME PlaceInv, redo = <<>>, redo' = batch, batch' = <<>>,
         UNCHANGED <<ch, dq, committed, discarded, lost>>
  PROVE  Apart' /\ Placed' = Placed /\ SinkStep
<1>1. /\ Elements(batch') = {} /\ Distinct(batch')
      /\ Elements(redo) = {} /\ Elements(redo') = Elements(batch)
  BY ElementsOfNone
<1>2. Held' = Held /\ Placed' = Placed BY <1>1 DEF Held, Placed
<1>3. Apart' BY <1>1 DEF PlaceInv, Apart
<1> QED BY <1>2, <1>3, MoveIsSinkStep

\* reEnqueueBatch gives up on what it still holds.
LEMMA RedoToNowhere ==
  ASSUME PlaceInv, redo' = <<>>, lost' = lost \cup Elements(redo),
         UNCHANGED <<ch, dq, batch, committed, discarded>>
  PROVE  Apart' /\ Placed' = Placed /\ SinkStep
<1>1. Elements(redo') = {} /\ Distinct(redo') BY ElementsOfNone
<1>2. /\ Elements(redo) \subseteq Held /\ Held' = Held \ Elements(redo)
      /\ Placed' = Placed
  BY <1>1 DEF Held, Placed, PlaceInv, Apart
<1>3. Apart' BY <1>1 DEF PlaceInv, Apart
<1> QED BY <1>2, <1>3, LoseIsSinkStep

\* What a Submit that is accepted may submit: a write of a caller that is
\* nowhere yet, or the first one reEnqueueBatch holds.
Offers(p, x) ==
    IF p = "worker" THEN redo # <<>> /\ x = Head(redo) /\ redo' = Tail(redo)
                    ELSE x \notin Placed /\ redo' = redo

\* A Submit whose send succeeds.
LEMMA SubmitToChannel ==
  ASSUME TypeOK, PlaceInv, NEW p, NEW x \in Item, Offers(p, x), ch' = Append(ch, x),
         UNCHANGED <<dq, batch, committed, discarded, lost>>
  PROVE  Apart' /\ Placed' = Placed \cup {x} /\ SinkStep
<1>1. ch \in Seq(Item) /\ redo \in Seq(Item) BY DEF TypeOK, QueueTypes
<1>2. /\ Elements(ch') = Elements(ch) \cup {x}
      /\ Distinct(ch) /\ x \notin Elements(ch) => Distinct(ch')
  BY <1>1, ElementsOfAppend
<1>3. CASE p = "worker"
  <2>1. redo # <<>> /\ x = Head(redo) /\ redo' = Tail(redo) BY <1>3 DEF Offers
  <2>2. /\ Elements(redo) = Elements(redo') \cup {x}
        /\ Distinct(redo) => Distinct(redo') /\ x \notin Elements(redo')
    BY <1>1, <2>1, ElementsOfTail
  <2>3. Held' = Held /\ Placed' = Placed \cup {x} BY <1>2, <2>2 DEF Held, Placed
  <2>4. Apart' BY <1>2, <2>2 DEF PlaceInv, Apart
  <2> QED BY <2>3, <2>4, MoveIsSinkStep
<1>4. CASE p # "worker"
  <2>1. x \notin Placed /\ redo' = redo BY <1>4 DEF Offers
  <2>2. Held' = Held \cup {x} /\ Placed' = Placed \cup {x} BY <1>2, <2>1 DEF Held, Placed
  <2>3. Apart' BY <1>2, <2>1 DEF PlaceInv, Apart, Placed, Held
  <2> QED BY <2>1, <2>2, <2>3, AcceptIsSinkStep
<1> QED BY <1>3, <1>4

\* A Submit that overflows to the dque.
LEMMA SubmitToDisk ==
  ASSUME TypeOK, PlaceInv, NEW p, NEW x \in Item, Offers(p, x), dq' = Append(dq, x),
         UNCHANGED <<ch, batch, committed, discarded, lost>>
  PROVE  Apart' /\ Placed' = Placed \cup {x} /\ SinkStep
<1>1. dq \in Seq(Item) /\ redo \in Seq(Item) BY DEF TypeOK, QueueTypes
<1>2. /\ Elements(dq') = Elements(dq) \cup {x}
      /\ Distinct(dq) /\ x \notin Elements(dq) => Distinct(dq')
  BY <1>1, ElementsOfAppend
<1>3. CASE p = "worker"
  <2>1. redo # <<>> /\ x = Head(redo) /\ redo' = Tail(redo) BY <1>3 DEF Offers
  <2>2. /\ Elements(redo) = Elements(redo') \cup {x}
        /\ Distinct(redo) => Distinct(redo') /\ x \notin Elements(redo')
    BY <1>1, <2>1, ElementsOfTail
  <2>3. Held' = Held /\ Placed' = Placed \cup {x} BY <1>2, <2>2 DEF Held, Placed
  <2>4. Apart' BY <1>2, <2>2 DEF PlaceInv, Apart
  <2> QED BY <2>3, <2>4, MoveIsSinkStep
<1>4. CASE p # "worker"
  <2>1. x \notin Placed /\ redo' = redo BY <1>4 DEF Offers
  <2>2. Held' = Held \cup {x} /\ Placed' = Placed \cup {x} BY <1>2, <2>1 DEF Held, Placed
  <2>3. Apart' BY <1>2, <2>1 DEF PlaceInv, Apart, Placed, Held
  <2> QED BY <2>1, <2>2, <2>3, AcceptIsSinkStep
<1> QED BY <1>3, <1>4

\* The process dies: of all places only the dque and the past survive.
LEMMA OnlyTheDiskSurvives ==
  ASSUME PlaceInv, ch' = <<>>, batch' = <<>>, redo' = <<>>,
         lost' = lost \cup Elements(ch) \cup Elements(batch) \cup Elements(redo),
         UNCHANGED <<dq, committed, discarded>>
  PROVE  Apart' /\ Placed' = Placed /\ SinkStep
<1> DEFINE S == Elements(ch) \cup Elements(batch) \cup Elements(redo)
<1>1. /\ Elements(ch') = {} /\ Elements(batch') = {} /\ Elements(redo') = {}
      /\ Distinct(ch') /\ Distinct(batch') /\ Distinct(redo')
  BY ElementsOfNone
<1>2. S \subseteq Held /\ Held' = Held \ S /\ lost' = lost \cup S /\ Placed' = Placed
  BY <1>1 DEF Held, Placed, PlaceInv, Apart
<1>3. Apart' BY <1>1 DEF PlaceInv, Apart
<1>4. SinkStep
  <2> HIDE DEF S
  <2> QED BY <1>2, LoseIsSinkStep
<1> QED BY <1>2, <1>3, <1>4

-----------------------------------------------------------------------------
(* Every action keeps PlaceInv and maps to a step of WriteSink. *)

\* What a step of each group gives; the cases below use it through this name.
Implements == PlaceInv' /\ SinkStep

\* A worker step or a command: a Submit under way is not touched by it.
LEMMA WorkerImplements ==
  ASSUME IInv, IInv', PlaceInv, UNCHANGED <<mu, sub, offered, used>>,
         mu = "worker" => redo' = redo,
         Apart', Placed' = Placed, SinkStep, FlushHasBatch'
  PROVE  Implements
<1>1. Offering' BY OfferingStays DEF PlaceInv
<1> QED BY <1>1 DEF PlaceInv, Implements

\* A worker step that moves no write.
LEMMA StillWorker ==
  ASSUME IInv, IInv', PlaceInv, UNCHANGED <<mu, sub, offered, used>>, UNCHANGED places,
         wpc' = "flush" => batch # <<>>
  PROVE  Implements
<1>1. Apart' /\ Placed' = Placed /\ SinkStep BY NothingMoves
<1>2. FlushHasBatch' BY DEF FlushHasBatch, places
<1> QED BY <1>1, <1>2, WorkerImplements DEF places

\* No write leaves its place while the worker goes about its loop.
LEMMA LoopImplements ==
  ASSUME IInv, IInv', PlaceInv,
         \/ WorkerTop \/ DrainClosed \/ DrainCancelled \/ DrainChannelClosed \/ DrainIdle
         \/ DrainEmpty \/ DrainFails \/ DrainEnd \/ SelectChannelClosed \/ SelectTimer
         \/ SelectMaintenance \/ SelectNotify \/ SelectCancelled \/ ExitEnd
         \/ ReEnqueueEnd \/ FlushReturns \/ TimerFires
  PROVE  Implements
<1> USE DEF places, loopFrame, flushFrame, runFrame, fateVars, submitVars, GoTo, FlushThen, Exit
<1>1. CASE WorkerTop BY <1>1, StillWorker DEF WorkerTop
<1>2. CASE DrainClosed BY <1>2, StillWorker DEF DrainClosed
<1>3. CASE DrainCancelled BY <1>3, StillWorker DEF DrainCancelled
<1>4. CASE DrainChannelClosed BY <1>4, StillWorker DEF DrainChannelClosed
<1>5. CASE DrainIdle BY <1>5, StillWorker DEF DrainIdle
<1>6. CASE DrainEmpty BY <1>6, StillWorker DEF DrainEmpty
<1>7. CASE DrainFails BY <1>7, StillWorker DEF DrainFails
<1>8. CASE DrainEnd BY <1>8, StillWorker DEF DrainEnd
<1>9. CASE SelectChannelClosed BY <1>9, StillWorker DEF SelectChannelClosed
<1>10. CASE SelectTimer BY <1>10, StillWorker DEF SelectTimer
<1>11. CASE SelectMaintenance BY <1>11, StillWorker DEF SelectMaintenance
<1>12. CASE SelectNotify BY <1>12, StillWorker DEF SelectNotify
<1>13. CASE SelectCancelled BY <1>13, StillWorker DEF SelectCancelled
<1>14. CASE ExitEnd BY <1>14, StillWorker DEF ExitEnd
<1>15. CASE ReEnqueueEnd BY <1>15, StillWorker DEF ReEnqueueEnd
<1>16. CASE FlushReturns BY <1>16, StillWorker DEF FlushReturns, IInv, TypeOK, PlaceTypes
<1>17. CASE TimerFires BY <1>17, StillWorker DEF TimerFires, PlaceInv, FlushHasBatch
<1> QED
  BY <1>1, <1>2, <1>3, <1>4, <1>5, <1>6, <1>7, <1>8, <1>9, <1>10, <1>11, <1>12, <1>13,
     <1>14, <1>15, <1>16, <1>17

\* The batch grows from the channel and from the dque, and leaves in a flush.
LEMMA BatchImplements ==
  ASSUME IInv, IInv', PlaceInv,
         \/ DrainChannel \/ SelectItem \/ ExitItem \/ DrainDequeue \/ DrainDrops
         \/ FlushDiscards \/ FlushCommits \/ FlushFails
  PROVE  Implements
<1> USE DEF loopFrame, flushFrame, runFrame, fateVars, submitVars
<1>1. TypeOK BY DEF IInv
<1>2. ASSUME NEW x, NEW next, AppendAndManageTimer(x, next) PROVE batch' = Append(batch, x)
  BY <1>2 DEF AppendAndManageTimer
<1>3. ASSUME NEW x \in Item, batch' = Append(batch, x) PROVE batch' # <<>>
  BY <1>1, <1>3 DEF TypeOK, QueueTypes
<1>4. ASSUME ch # <<>>, ch' = Tail(ch), batch' = Append(batch, Head(ch)),
             UNCHANGED <<dq, redo, committed, discarded, lost, mu, sub, offered, used>>
      PROVE  Implements
  <2>1. Head(ch) \in Item BY <1>1, <1>4, HeadAndTail DEF TypeOK, QueueTypes
  <2>2. FlushHasBatch' BY <1>3, <1>4, <2>1 DEF FlushHasBatch
  <2>3. Apart' /\ Placed' = Placed /\ SinkStep BY <1>1, <1>4, ChannelToBatch
  <2> QED BY <1>4, <2>2, <2>3, WorkerImplements
<1>5. CASE DrainChannel BY <1>2, <1>4, <1>5 DEF DrainChannel, Receive
<1>6. CASE SelectItem BY <1>2, <1>4, <1>6 DEF SelectItem, Receive
<1>7. CASE ExitItem BY <1>4, <1>7 DEF ExitItem
<1>8. CASE DrainDequeue
  <2>1. /\ dq # <<>> /\ dq' = Tail(dq) /\ batch' = Append(batch, Head(dq))
        /\ UNCHANGED <<ch, redo, committed, discarded, lost, mu, sub, offered, used>>
    BY <1>2, <1>8 DEF DrainDequeue
  <2>2. Head(dq) \in Item BY <1>1, <2>1, HeadAndTail DEF TypeOK, QueueTypes
  <2>3. FlushHasBatch' BY <1>3, <2>1, <2>2 DEF FlushHasBatch
  <2>4. Apart' /\ Placed' = Placed /\ SinkStep BY <1>1, <2>1, DiskToBatch
  <2> QED BY <2>1, <2>3, <2>4, WorkerImplements
<1>9. CASE DrainDrops
  <2>1. /\ dq # <<>> /\ dq' = Tail(dq) /\ lost' = lost \cup {Head(dq)} /\ wpc' = "select"
        /\ UNCHANGED <<ch, batch, redo, committed, discarded, mu, sub, offered, used>>
    BY <1>9 DEF DrainDrops, GoTo
  <2>2. FlushHasBatch' BY <2>1 DEF FlushHasBatch
  <2>3. Apart' /\ Placed' = Placed /\ SinkStep BY <1>1, <2>1, DiskToNowhere
  <2> QED BY <2>1, <2>2, <2>3, WorkerImplements
<1>10. CASE FlushDiscards \/ FlushCommits
  <2>1. /\ wpc = "flush" /\ wpc' = "flushed" /\ batch' = <<>>
        /\ UNCHANGED <<ch, dq, redo, lost, mu, sub, offered, used>>
        /\ \/ committed' = committed \cup Elements(batch) /\ UNCHANGED discarded
           \/ discarded' = discarded \cup Elements(batch) /\ UNCHANGED committed
    BY <1>10 DEF FlushDiscards, FlushCommits, BatchIsSettled
  <2>2. batch # <<>> /\ FlushHasBatch' BY <2>1 DEF PlaceInv, FlushHasBatch
  <2>3. Apart' /\ Placed' = Placed /\ SinkStep BY <1>1, <2>1, <2>2, BatchIsGone
  <2> QED BY <2>1, <2>2, <2>3, WorkerImplements
<1>11. CASE FlushFails
  <2>1. /\ wpc = "flush" /\ wpc' = "reenq" /\ redo' = batch /\ batch' = <<>>
        /\ UNCHANGED <<ch, dq, committed, discarded, lost, mu, sub, offered, used>>
    BY <1>11 DEF FlushFails
  <2>2. redo = <<>> /\ mu # "worker" BY <2>1 DEF IInv, BatchInv, LockInv
  <2>3. FlushHasBatch' BY <2>1 DEF FlushHasBatch
  <2>4. Apart' /\ Placed' = Placed /\ SinkStep BY <2>1, <2>2, BatchToRedo
  <2> QED BY <2>1, <2>2, <2>3, <2>4, WorkerImplements
<1> QED BY <1>5, <1>6, <1>7, <1>8, <1>9, <1>10, <1>11

\* A Submit from outside or from reEnqueueBatch.
LEMMA SubmitImplements ==
  ASSUME IInv, IInv', PlaceInv, NEW p \in {"caller", "worker"}, Submit(p)
  PROVE  Implements
<1> USE DEF submitFrame, submitVars
<1>1. TypeOK /\ Placed \subseteq used BY DEF IInv, PlaceInv
<1>2. ASSUME NEW x \in Item, Enters(p, x), Refused(p), UNCHANGED submitFrame,
             UNCHANGED <<ch, dq, mu, sub, offered>>
      PROVE  Implements
  <2>1. FlushHasBatch' BY <1>2 DEF PlaceInv, FlushHasBatch
  <2>2. mu = "free" /\ sub = "none" /\ used \subseteq used' BY <1>2 DEF Enters, IInv, LockInv
  <2>3. Offering' BY <1>2, <2>2 DEF Offering
  <2>4. Apart' /\ Placed' = Placed /\ SinkStep
    <3>1. CASE p = "worker" BY <1>2, <3>1, RedoToNowhere DEF Refused
    <3>2. CASE p # "worker" BY <1>2, <3>2, NothingMoves DEF Refused, places
    <3> QED BY <3>1, <3>2
  <2> QED BY <1>1, <2>1, <2>2, <2>3, <2>4 DEF PlaceInv, Implements
<1>3. ASSUME NEW x \in Item, SubmitClosed(p, x) PROVE Implements
  BY <1>2, <1>3 DEF SubmitClosed
<1>4. ASSUME NEW x \in Item, SubmitFull(p, x) PROVE Implements
  BY <1>2, <1>4 DEF SubmitFull
<1>5. ASSUME NEW x \in Item, SubmitSend(p, x) PROVE Implements
  <2>1. /\ ch' = Append(ch, x) /\ sub' = "count" /\ used' = used \cup {x} /\ wpc' = wpc
        /\ UNCHANGED <<dq, batch, committed, discarded, lost>>
    BY <1>5 DEF SubmitSend, Enters, Accepted
  <2>2. Offers(p, x) BY <1>1, <1>5 DEF SubmitSend, Enters, Accepted, Offers
  <2>3. Apart' /\ Placed' = Placed \cup {x} /\ SinkStep BY <1>1, <2>1, <2>2, SubmitToChannel
  <2>4. FlushHasBatch' BY <2>1 DEF PlaceInv, FlushHasBatch
  <2>5. Offering' BY <2>1 DEF Offering
  <2> QED BY <1>1, <2>1, <2>3, <2>4, <2>5 DEF PlaceInv, Implements
<1>6. ASSUME NEW x \in Item, SubmitOverflow(p, x) PROVE Implements
  <2>1. /\ used' = used \cup {x} /\ mu' = p /\ offered' = {x} /\ UNCHANGED places /\ wpc' = wpc
        /\ IF p = "worker" THEN redo # <<>> /\ x = Head(redo) ELSE x \notin used
    BY <1>6 DEF SubmitOverflow, Enters, places
  <2>2. Apart' /\ Placed' = Placed /\ SinkStep BY <2>1, NothingMoves
  <2>3. Offering'
    <3>1. x \in used' BY <2>1
    <3>2. IF mu' = "worker" THEN redo' # <<>> /\ x = Head(redo') ELSE x \notin Placed'
      BY <1>1, <2>1, <2>2 DEF places
    <3> QED BY <2>1, <3>1, <3>2 DEF Offering
  <2>4. FlushHasBatch' BY <2>1 DEF PlaceInv, FlushHasBatch, places
  <2> QED BY <1>1, <2>1, <2>2, <2>3, <2>4 DEF PlaceInv, Implements
<1>7. ASSUME mu = p, SubmitEnqueue PROVE Implements
  <2>1. PICK x \in used : /\ offered = {x}
                          /\ IF mu = "worker" THEN redo # <<>> /\ x = Head(redo)
                                              ELSE x \notin Placed
    BY <1>7 DEF PlaceInv, Offering, SubmitEnqueue
  <2>2. x \in Item BY <1>1, <2>1 DEF TypeOK, SetTypes
  <2>3. /\ dq' = Append(dq, x) /\ sub' = "countOverflow" /\ used' = used /\ wpc' = wpc
        /\ UNCHANGED <<ch, batch, committed, discarded, lost>>
    BY <1>7, <2>1 DEF SubmitEnqueue, Accepted
  <2>4. Offers(p, x) BY <1>7, <2>1 DEF SubmitEnqueue, Accepted, Offers
  <2>5. Apart' /\ Placed' = Placed \cup {x} /\ SinkStep
    BY <1>1, <2>2, <2>3, <2>4, SubmitToDisk
  <2>6. FlushHasBatch' BY <2>3 DEF PlaceInv, FlushHasBatch
  <2>7. Offering' BY <2>3 DEF Offering
  <2> QED BY <1>1, <2>1, <2>3, <2>5, <2>6, <2>7 DEF PlaceInv, Implements
<1>8. ASSUME mu = p, SubmitEnqueueFails PROVE Implements
  <2>1. /\ Refused(p) /\ sub' = "none" /\ used' = used /\ wpc' = wpc
        /\ UNCHANGED <<ch, dq, batch, committed, discarded>>
    BY <1>8 DEF SubmitEnqueueFails
  <2>2. Apart' /\ Placed' = Placed /\ SinkStep
    <3>1. CASE p = "worker" BY <2>1, <3>1, RedoToNowhere DEF Refused
    <3>2. CASE p # "worker" BY <2>1, <3>2, NothingMoves DEF Refused, places
    <3> QED BY <3>1, <3>2
  <2>3. FlushHasBatch' /\ Offering' BY <2>1 DEF PlaceInv, FlushHasBatch, Offering
  <2> QED BY <1>1, <2>1, <2>2, <2>3 DEF PlaceInv, Implements
<1>9. ASSUME SubmitCount PROVE Implements
  <2>1. /\ sub' = "none" /\ used' = used /\ wpc' = wpc /\ UNCHANGED places
    BY <1>9 DEF SubmitCount, places
  <2>2. Apart' /\ Placed' = Placed /\ SinkStep BY <2>1, NothingMoves
  <2>3. FlushHasBatch' /\ Offering' BY <2>1 DEF PlaceInv, FlushHasBatch, Offering, places
  <2> QED BY <1>1, <2>1, <2>2, <2>3 DEF PlaceInv, Implements
<1> QED BY <1>3, <1>4, <1>5, <1>6, <1>7, <1>8, <1>9 DEF Submit

\* Commands, the death of the process and a new batcher.
LEMMA LifeImplements ==
  ASSUME IInv, IInv', PlaceInv,
         \/ StartDQueDrain \/ StartDQueDrainNotifies \/ Cancel \/ CloseBegin \/ CloseEnd
         \/ Crash \/ New \/ UNCHANGED vars
  PROVE  Implements
<1> USE DEF controlFrame, submitVars, workerVars, fateVars
<1>1. CASE StartDQueDrain \/ StartDQueDrainNotifies \/ Cancel \/ CloseBegin \/ CloseEnd \/ UNCHANGED vars
  <2>1. UNCHANGED <<mu, sub, offered, used, wpc, places>>
    BY <1>1 DEF StartDQueDrain, StartDQueDrainNotifies, Cancel, CloseBegin, CloseEnd, vars, places
  <2>2. wpc' = "flush" => batch # <<>> BY <2>1 DEF PlaceInv, FlushHasBatch
  <2> QED BY <2>1, <2>2, StillWorker
<1>2. CASE Crash
  <2>1. /\ ch' = <<>> /\ batch' = <<>> /\ redo' = <<>> /\ sub' = "none" /\ wpc' = "done"
        /\ lost' = lost \cup Elements(ch) \cup Elements(batch) \cup Elements(redo)
        /\ UNCHANGED <<dq, committed, discarded, used>>
    BY <1>2 DEF Crash
  <2>2. Apart' /\ Placed' = Placed /\ SinkStep BY <2>1, OnlyTheDiskSurvives
  <2>3. FlushHasBatch' /\ Offering' BY <2>1 DEF FlushHasBatch, Offering
  <2> QED BY <2>1, <2>2, <2>3 DEF PlaceInv, Implements
<1>3. CASE New
  <2>1. /\ life \in {"closed", "dead"} /\ ch' = <<>> /\ batch' = <<>> /\ redo' = <<>>
        /\ wpc' = "top" /\ lost' = lost \cup Elements(ch)
        /\ UNCHANGED <<dq, committed, discarded, used, sub>>
    BY <1>3 DEF New
  <2>2. batch = <<>> /\ redo = <<>> /\ sub = "none"
    BY <2>1 DEF IInv, BatchInv, LockInv, closed
  <2>3. Elements(batch) = {} /\ Elements(redo) = {} BY <2>2, ElementsOfNone
  <2>4. lost' = lost \cup Elements(ch) \cup Elements(batch) \cup Elements(redo)
    BY <2>1, <2>3
  <2>5. Apart' /\ Placed' = Placed /\ SinkStep BY <2>1, <2>4, OnlyTheDiskSurvives
  <2>6. FlushHasBatch' /\ Offering' BY <2>1, <2>2 DEF FlushHasBatch, Offering
  <2> QED BY <2>1, <2>5, <2>6 DEF PlaceInv, Implements
<1> QED BY <1>1, <1>2, <1>3

\* In the first state nothing is anywhere.
LEMMA InitPlaces == Init => PlaceInv /\ Sink!SinkInit
<1> SUFFICES ASSUME Init PROVE PlaceInv /\ Sink!SinkInit OBVIOUS
<1>1. /\ Elements(ch) = {} /\ Elements(dq) = {} /\ Elements(batch) = {} /\ Elements(redo) = {}
      /\ Distinct(ch) /\ Distinct(dq) /\ Distinct(batch) /\ Distinct(redo)
  BY ElementsOfNone DEF Init
<1>2. Held = {} /\ Placed = {} BY <1>1 DEF Init, Held, Placed
<1>3. Apart BY <1>1 DEF Init, Apart
<1>4. Offering /\ FlushHasBatch BY DEF Init, Offering, FlushHasBatch
<1> QED BY <1>2, <1>3, <1>4 DEF Init, PlaceInv, Sink!SinkInit

\* Every step keeps PlaceInv and is a step of WriteSink or none.
LEMMA NextPlaces == IInv /\ IInv' /\ PlaceInv /\ [Next]_vars => PlaceInv' /\ SinkStep
<1> SUFFICES ASSUME IInv, IInv', PlaceInv, [Next]_vars PROVE Implements
  BY DEF Implements
<1>1. CASE Submit("caller") \/ Submit("worker") BY <1>1, SubmitImplements
<1>2. CASE Worker \/ TimerFires BY <1>2, LoopImplements, BatchImplements DEF Worker
<1>3. CASE \/ StartDQueDrain \/ StartDQueDrainNotifies \/ Cancel \/ CloseBegin \/ CloseEnd
           \/ Crash \/ New
           \/ Finished \/ UNCHANGED vars
  BY <1>3, LifeImplements DEF Finished
<1> QED BY <1>1, <1>2, <1>3 DEF Next

\* The batcher is a WriteSink: no write is committed twice or after it was
\* lost, and no transaction is larger than MaxBatchSize, over failed flushes,
\* re-enqueues, crashes and restarts.
THEOREM BatcherImplementsSink == Spec => ImplementsSink
<1>1. IInv /\ IInv' /\ PlaceInv /\ [Next]_vars => PlaceInv' /\ [Sink!SinkNext]_(Sink!sinkVars)
  BY NextPlaces DEF SinkStep
<1> QED
  BY <1>1, InitPlaces, Invariance, PTL DEF Spec, ImplementsSink, Sink!SinkSpec
=============================================================================
