---------------------------- MODULE WriteBatcher ----------------------------
(***************************************************************************)
(* internal/writebatcher: every high-volume database write of the server   *)
(* goes through one batcher.  Callers Submit to a bounded channel; when it *)
(* is full the item overflows to a durable queue on disk.  One worker      *)
(* goroutine gathers items into a batch and flushes it in a transaction;   *)
(* a batch that fails is submitted again.  Close, the cancellation of the  *)
(* context and the death of the process end the worker.                    *)
(*                                                                         *)
(* Submit holds wb.mu from start to end, so of all callers only the one    *)
(* inside it has a state: mu says who that is, sub how far it has come.    *)
(* The worker itself is a caller of Submit when it re-enqueues a batch.    *)
(* The durable queue is a sequence, as DurableFifo specifies and DQue      *)
(* implements it, with the two ways a Dequeue of DQue can fail.            *)
(***************************************************************************)
EXTENDS Integers, Sequences, FiniteSets

CONSTANTS Item,            \* writes; each is submitted at most once
          ItemSize,        \* cfg.SizeFunc
          ChannelSize,     \* cfg.ChannelSize
          MaxBatchSize,    \* cfg.MaxBatchSize
          MaxBatchBytes,   \* cfg.MaxBatchBytes, 0 for no limit
          HasDQue,         \* a dque is configured
          HasQuota,        \* cfg.MaxDiskBytes > 0
          DeferDQueDrain,  \* cfg.DeferDQueDrain
          Discardable,     \* DropWithoutFlush accepts batches of these only
          MaxFailures,     \* bound: flushes that fail
          MaxDQueFailures, \* bound: dque calls that fail
          MaxRestarts,     \* bound: restarts of the process
          MayCrash,        \* the process may die
          MayCancel        \* the context given to New may be cancelled

ASSUME WriteBatcherAssumption ==
    /\ ItemSize \in [Item -> Nat]
    /\ ChannelSize \in Nat \ {0} /\ MaxBatchSize \in Nat \ {0}
    /\ MaxBatchBytes \in Nat
    /\ HasDQue \in BOOLEAN /\ HasQuota \in BOOLEAN /\ DeferDQueDrain \in BOOLEAN
    /\ Discardable \subseteq Item
    /\ MaxFailures \in Nat /\ MaxDQueFailures \in Nat /\ MaxRestarts \in Nat
    /\ MayCrash \in BOOLEAN /\ MayCancel \in BOOLEAN

VARIABLES ch,         \* wb.ch
          dq,         \* wb.dq, the items on disk
          dqStuck,    \* dque answers ErrEmpty although it holds items
          token,      \* wb.dqNotify holds its one token
          drainOn,    \* wb.dqueDrainEnabled
          starting,   \* StartDQueDrain has set it, and not yet sent the token
          pending,    \* wb.pendingCount
          cancelled,  \* wb.ctx is done
          life,       \* running, closing (closed = true), closed, dead
          mu,         \* holder of wb.mu: free, caller, worker
          sub,        \* where the holder stands in Submit
          offered,    \* the item a caller is overflowing, a set of at most one
          wpc,        \* where the worker stands
          ret,        \* where it goes on after a flush
          batch,      \* its batch
          batchBytes, \* and the bytes in it
          timer,      \* flushTimer: off, armed, fired
          drained,    \* drainDQueAll dequeued something in this call
          reason,     \* of flushChannelAndExit: close or shutdown
          n,          \* n of flush, once its outcome is known
          redo,       \* what reEnqueueBatch still has to submit
          \* History and bounds, no part of the code:
          used,       \* items some Submit was called with
          spilled,    \* items ever accepted by the dque
          committed, discarded, lost,
          leaked,     \* items lost by Dequeue, still counted in pending
          failures, dqFailures, restarts,
          troubles    \* what befell the process: crash, cancel, close

submitVars  == <<mu, sub, offered>>
workerVars  == <<wpc, ret, batch, batchBytes, timer, drained, reason, n, redo>>
fateVars    == <<committed, discarded, lost>>
boundVars   == <<failures, dqFailures, restarts, troubles>>
vars == <<ch, dq, dqStuck, token, drainOn, starting, pending, cancelled, life,
          submitVars, workerVars, used, spilled, fateVars, leaked, boundVars>>

closed == life # "running"      \* wb.closed, while the process lives
Elements(s) == {s[i] : i \in DOMAIN s}

\* The accepted writes that are neither settled nor lost.
Held == Elements(ch) \cup Elements(dq) \cup Elements(batch) \cup Elements(redo)

-----------------------------------------------------------------------------
(* New. *)

Init ==
    /\ ch = <<>> /\ dq = <<>> /\ dqStuck = FALSE /\ token = FALSE
    /\ drainOn = (HasDQue /\ ~DeferDQueDrain) /\ starting = FALSE /\ pending = 0
    /\ cancelled = FALSE /\ life = "running"
    /\ mu = "free" /\ sub = "none" /\ offered = {}
    /\ wpc = "top" /\ ret = "top" /\ batch = <<>> /\ batchBytes = 0
    /\ timer = "off" /\ drained = FALSE /\ reason = "none" /\ n = 0 /\ redo = <<>>
    /\ used = {} /\ spilled = {} /\ committed = {} /\ discarded = {} /\ lost = {}
    /\ leaked = 0 /\ failures = 0 /\ dqFailures = 0 /\ restarts = 0
    /\ troubles = {}

\* Faulty variant: the backlog is not counted.
NewForgetsBacklog ==
    /\ life \in {"closed", "dead"} /\ restarts < MaxRestarts
    /\ restarts' = restarts + 1
    /\ lost' = lost \cup Elements(ch)
    /\ ch' = <<>> /\ dqStuck' = FALSE /\ token' = FALSE /\ starting' = FALSE
    /\ drainOn' = (HasDQue /\ ~DeferDQueDrain) /\ pending' = 0
    /\ cancelled' = FALSE /\ life' = "running" /\ leaked' = 0
    /\ wpc' = "top" /\ ret' = "top" /\ batch' = <<>> /\ batchBytes' = 0
    /\ timer' = "off" /\ drained' = FALSE /\ reason' = "none" /\ n' = 0 /\ redo' = <<>>
    /\ UNCHANGED <<dq, submitVars, used, spilled, committed, discarded,
                   failures, dqFailures, troubles>>

\* A new batcher over the dque the last one left.  What that one still had in
\* its channel is gone.
New ==
    /\ life \in {"closed", "dead"} /\ restarts < MaxRestarts
    /\ restarts' = restarts + 1
    /\ lost' = lost \cup Elements(ch)
    /\ ch' = <<>> /\ dqStuck' = FALSE /\ token' = FALSE /\ starting' = FALSE
    /\ drainOn' = (HasDQue /\ ~DeferDQueDrain) /\ pending' = Len(dq)
    /\ cancelled' = FALSE /\ life' = "running" /\ leaked' = 0
    /\ wpc' = "top" /\ ret' = "top" /\ batch' = <<>> /\ batchBytes' = 0
    /\ timer' = "off" /\ drained' = FALSE /\ reason' = "none" /\ n' = 0 /\ redo' = <<>>
    /\ UNCHANGED <<dq, submitVars, used, spilled, committed, discarded,
                   failures, dqFailures, troubles>>

-----------------------------------------------------------------------------
(* Submit.  p is "caller", or "worker" inside reEnqueueBatch. *)

Enters(p, x) ==
    /\ mu = "free" /\ life \in {"running", "closing", "closed"}
    /\ IF p = "worker" THEN wpc = "reenq" /\ redo # <<>> /\ x = Head(redo)
                       ELSE x \notin used
    /\ used' = used \cup {x}

\* reEnqueueBatch goes on to the next item, or gives up on the rest.
Accepted(p) == /\ redo' = IF p = "worker" THEN Tail(redo) ELSE redo
               /\ UNCHANGED lost
Refused(p) == /\ redo' = IF p = "worker" THEN <<>> ELSE redo
              /\ lost' = IF p = "worker" THEN lost \cup Elements(redo) ELSE lost

submitFrame == <<wpc, ret, batch, batchBytes, timer, drained, reason, n,
                 dqStuck, drainOn, starting, cancelled, life, committed, discarded, leaked,
                 failures, restarts, troubles>>

\* ErrClosed: wb.closed is set, or the select sees wb.ctx done.
SubmitClosed(p, x) ==
    /\ Enters(p, x) /\ (closed \/ cancelled)
    /\ Refused(p)
    /\ UNCHANGED <<submitFrame, ch, dq, token, pending, submitVars, spilled, dqFailures>>

\* Faulty variant: off by one.
SubmitSendOneMore(p, x) ==
    /\ Enters(p, x) /\ ~closed /\ Len(ch) <= ChannelSize
    /\ ch' = Append(ch, x)
    /\ mu' = p /\ sub' = "count"
    /\ Accepted(p)
    /\ UNCHANGED <<submitFrame, dq, token, pending, offered, spilled, dqFailures>>

\* The send succeeds.  With wb.ctx done as well select may take either case.
SubmitSend(p, x) ==
    /\ Enters(p, x) /\ ~closed /\ Len(ch) < ChannelSize
    /\ ch' = Append(ch, x)
    /\ mu' = p /\ sub' = "count"
    /\ Accepted(p)
    /\ UNCHANGED <<submitFrame, dq, token, pending, offered, spilled, dqFailures>>

\* ErrFull without a dque; ErrQuotaExceeded with one that is over its quota.
SubmitFull(p, x) ==
    /\ Enters(p, x) /\ ~closed /\ ~cancelled /\ Len(ch) = ChannelSize
    /\ ~HasDQue \/ HasQuota
    /\ Refused(p)
    /\ UNCHANGED <<submitFrame, ch, dq, token, pending, submitVars, spilled, dqFailures>>

SubmitOverflow(p, x) ==
    /\ Enters(p, x) /\ ~closed /\ ~cancelled /\ Len(ch) = ChannelSize /\ HasDQue
    /\ mu' = p /\ sub' = "overflow" /\ offered' = {x}
    /\ UNCHANGED <<submitFrame, ch, dq, token, pending, redo, lost, spilled, dqFailures>>

\* dq.Enqueue, under overflowMu.
SubmitEnqueue ==
    /\ sub = "overflow"
    /\ \E x \in offered : dq' = Append(dq, x)
    /\ spilled' = spilled \cup offered
    /\ sub' = "countOverflow" /\ offered' = {}
    /\ Accepted(mu)
    /\ UNCHANGED <<submitFrame, ch, token, pending, mu, used, dqFailures>>

\* ErrFull: dq.Enqueue failed.
SubmitEnqueueFails ==
    /\ sub = "overflow" /\ dqFailures < MaxDQueFailures
    /\ dqFailures' = dqFailures + 1
    /\ Refused(mu)
    /\ mu' = "free" /\ sub' = "none" /\ offered' = {}
    /\ UNCHANGED <<submitFrame, ch, dq, token, pending, used, spilled>>

\* Faulty variant: an overflow is not counted.
SubmitCountSendsOnly ==
    /\ sub \in {"count", "countOverflow"}
    /\ pending' = IF sub = "count" THEN pending + 1 ELSE pending
    /\ token' = (token \/ sub = "countOverflow")
    /\ mu' = "free" /\ sub' = "none"
    /\ UNCHANGED <<submitFrame, ch, dq, offered, redo, lost, used, spilled, dqFailures>>

\* The count follows the send: until then the worker may already have the item.
SubmitCount ==
    /\ sub \in {"count", "countOverflow"}
    /\ pending' = pending + 1
    /\ token' = (token \/ sub = "countOverflow")
    /\ mu' = "free" /\ sub' = "none"
    /\ UNCHANGED <<submitFrame, ch, dq, offered, redo, lost, used, spilled, dqFailures>>

-----------------------------------------------------------------------------
(* The worker's batch. *)

runFrame == <<cancelled, life, submitVars, used, drainOn, starting, restarts, troubles>>
flushFrame == <<ch, dq, dqStuck, token, pending, spilled, leaked, dqFailures>>

BatchIsFull(b, size) == \/ Len(b) >= MaxBatchSize
                        \/ MaxBatchBytes > 0 /\ size >= MaxBatchBytes

\* Faulty variant: the timer is never armed.
AppendWithoutTimer(x, next) ==
    /\ batch' = Append(batch, x)
    /\ batchBytes' = batchBytes + ItemSize[x]
    /\ UNCHANGED timer
    /\ IF BatchIsFull(batch', batchBytes')
         THEN wpc' = "flush" /\ ret' = next ELSE wpc' = next /\ UNCHANGED ret

\* appendAndManageTimer: flush a full batch, or arm the timer for its first item.
AppendAndManageTimer(x, next) ==
    /\ batch' = Append(batch, x)
    /\ batchBytes' = batchBytes + ItemSize[x]
    /\ IF BatchIsFull(batch', batchBytes')
         THEN wpc' = "flush" /\ ret' = next /\ UNCHANGED timer
         ELSE /\ wpc' = next /\ UNCHANGED ret
              /\ timer' = IF batch = <<>> THEN "armed" ELSE timer

GoTo(place) == wpc' = place /\ UNCHANGED <<ret, batch, batchBytes>>
FlushThen(next) == wpc' = "flush" /\ ret' = next /\ UNCHANGED <<batch, batchBytes>>

\* flushChannelAndExit begins by stopping the timer.
Exit(why) == GoTo("exit") /\ reason' = why /\ timer' = "off"

\* The worker takes an item from the channel.
Receive(next) ==
    /\ ch # <<>> /\ ch' = Tail(ch)
    /\ AppendAndManageTimer(Head(ch), next)

\* What a step of the worker between two flushes leaves alone.
loopFrame == <<runFrame, fateVars, n, redo, failures>>

TimerFires == /\ timer = "armed" /\ timer' = "fired"
              /\ UNCHANGED <<loopFrame, flushFrame, wpc, ret, batch, batchBytes, drained, reason>>

-----------------------------------------------------------------------------
(* Phase 1 of the worker's loop: drainDQueAll. *)

WorkerTop ==
    /\ wpc = "top"
    /\ GoTo(IF HasDQue /\ drainOn THEN "drain" ELSE "select")
    /\ drained' = FALSE
    /\ UNCHANGED <<loopFrame, flushFrame, timer, reason>>

\* Faulty variant: the worker ends without flushChannelAndExit.
DrainClosedEnds ==
    /\ wpc = "drain" /\ closed /\ GoTo("done")
    /\ UNCHANGED <<loopFrame, flushFrame, timer, drained, reason>>

DrainClosed ==
    /\ wpc = "drain" /\ closed /\ GoTo("select")
    /\ UNCHANGED <<loopFrame, flushFrame, timer, drained, reason>>

DrainCancelled ==
    /\ wpc = "drain" /\ ~closed /\ cancelled /\ Exit("shutdown")
    /\ UNCHANGED <<loopFrame, flushFrame, drained>>

DrainChannel ==
    /\ wpc = "drain" /\ ~closed /\ ~cancelled /\ Receive("drain")
    /\ UNCHANGED <<loopFrame, dq, dqStuck, token, pending, spilled, leaked, dqFailures,
                   drained, reason>>

\* Close came between the test of wb.closed and the receive.
DrainChannelClosed ==
    /\ wpc = "drain" /\ closed /\ ch = <<>> /\ Exit("close")
    /\ UNCHANGED <<loopFrame, flushFrame, drained>>

DrainIdle ==
    /\ wpc = "drain" /\ ~closed /\ ~cancelled /\ ch = <<>> /\ GoTo("dequeue")
    /\ UNCHANGED <<loopFrame, flushFrame, timer, drained, reason>>

DrainDequeue ==
    /\ wpc = "dequeue" /\ dq # <<>> /\ ~dqStuck
    /\ dq' = Tail(dq) /\ drained' = TRUE
    /\ AppendAndManageTimer(Head(dq), "drain")
    /\ UNCHANGED <<loopFrame, ch, dqStuck, token, pending, spilled, leaked, dqFailures, reason>>

\* ErrEmpty although Size() > 0: the loop goes round again.
DrainEmpty ==
    /\ wpc = "dequeue" /\ dq # <<>> /\ dqStuck /\ GoTo("drain")
    /\ UNCHANGED <<loopFrame, flushFrame, timer, drained, reason>>

\* Dequeue could not write its marker: nothing was removed.
DrainFails ==
    /\ wpc = "dequeue" /\ dq # <<>> /\ ~dqStuck
    /\ dqFailures < MaxDQueFailures /\ dqFailures' = dqFailures + 1
    /\ GoTo("select")
    /\ UNCHANGED <<loopFrame, ch, dq, dqStuck, token, pending, spilled, leaked,
                   timer, drained, reason>>

\* Dequeue removed the item and returned it with an error, because the next
\* segment could not be opened: the worker looks at the error only.
DrainDrops ==
    /\ wpc = "dequeue" /\ dq # <<>> /\ ~dqStuck
    /\ dqFailures < MaxDQueFailures /\ dqFailures' = dqFailures + 1
    /\ dq' = Tail(dq) /\ dqStuck' = TRUE
    /\ lost' = lost \cup {Head(dq)} /\ leaked' = leaked + 1
    /\ GoTo("select")
    /\ UNCHANGED <<runFrame, ch, token, pending, spilled, committed, discarded,
                   n, redo, failures, timer, drained, reason>>

\* Channel and dque are empty: a batch this call added to is flushed now.
DrainEnd ==
    /\ wpc = "dequeue" /\ dq = <<>>
    /\ IF drained /\ batch # <<>> THEN FlushThen("select") ELSE GoTo("select")
    /\ UNCHANGED <<loopFrame, flushFrame, timer, drained, reason>>

-----------------------------------------------------------------------------
(* Phase 2: the select. *)

SelectItem ==
    /\ wpc = "select" /\ Receive("top")
    /\ UNCHANGED <<loopFrame, dq, dqStuck, token, pending, spilled, leaked, dqFailures,
                   drained, reason>>

\* Faulty variant: a closed channel does not end the worker.
SelectChannelClosedIgnored ==
    /\ wpc = "select" /\ ch = <<>> /\ closed /\ GoTo("top")
    /\ UNCHANGED <<loopFrame, flushFrame, timer, drained, reason>>

SelectChannelClosed ==
    /\ wpc = "select" /\ ch = <<>> /\ closed /\ Exit("close")
    /\ UNCHANGED <<loopFrame, flushFrame, drained>>

\* Faulty variant: the batch is left for the next wake-up.
SelectTimerWithoutFlush ==
    /\ wpc = "select" /\ timer = "fired" /\ timer' = "off" /\ GoTo("top")
    /\ UNCHANGED <<loopFrame, flushFrame, drained, reason>>

SelectTimer ==
    /\ wpc = "select" /\ timer = "fired" /\ timer' = "off"
    /\ IF batch # <<>> THEN FlushThen("top") ELSE GoTo("top")
    /\ UNCHANGED <<loopFrame, flushFrame, drained, reason>>

\* The maintenance timer: only the way round the loop matters here.
SelectMaintenance ==
    /\ wpc = "select" /\ GoTo("top")
    /\ UNCHANGED <<loopFrame, flushFrame, timer, drained, reason>>

SelectNotify ==
    /\ wpc = "select" /\ token /\ token' = FALSE /\ GoTo("top")
    /\ UNCHANGED <<loopFrame, ch, dq, dqStuck, pending, spilled, leaked, dqFailures,
                   timer, drained, reason>>

SelectCancelled ==
    /\ wpc = "select" /\ cancelled /\ Exit("shutdown")
    /\ UNCHANGED <<loopFrame, flushFrame, drained>>

-----------------------------------------------------------------------------
(* flushChannelAndExit: what is in the channel, never what is in the dque. *)

ExitItem ==
    /\ wpc = "exit" /\ ch # <<>> /\ ch' = Tail(ch)
    /\ batch' = Append(batch, Head(ch))
    /\ batchBytes' = batchBytes + ItemSize[Head(ch)]
    /\ IF BatchIsFull(batch', batchBytes')
         THEN wpc' = "flush" /\ ret' = "exit" ELSE UNCHANGED <<wpc, ret>>
    /\ UNCHANGED <<loopFrame, dq, dqStuck, token, pending, spilled, leaked, dqFailures,
                   timer, drained, reason>>

ExitEnd ==
    /\ wpc = "exit" /\ ch = <<>> /\ (reason = "close" => closed)
    /\ IF batch # <<>> THEN FlushThen("done") ELSE GoTo("done")
    /\ UNCHANGED <<loopFrame, flushFrame, timer, drained, reason>>

-----------------------------------------------------------------------------
(* flush. *)

\* The batch leaves the worker; n stays in pendingCount until flush returns.
BatchIsSettled ==
    /\ wpc = "flush" /\ n' = Len(batch) /\ batch' = <<>> /\ batchBytes' = 0
    /\ wpc' = "flushed"
    /\ UNCHANGED <<runFrame, flushFrame, ret, timer, drained, reason, redo, failures, lost>>

\* DropWithoutFlush says that the whole batch may go; its answer depends on
\* state outside this module.
FlushDiscards ==
    /\ BatchIsSettled /\ Elements(batch) \subseteq Discardable
    /\ discarded' = discarded \cup Elements(batch) /\ UNCHANGED committed

FlushCommits ==
    /\ BatchIsSettled
    /\ committed' = committed \cup Elements(batch) /\ UNCHANGED discarded

\* Faulty variant: the first item is not submitted again.
FlushFailsSkipsOne ==
    /\ wpc = "flush"
    /\ failures < MaxFailures /\ failures' = failures + 1
    /\ n' = Len(batch) /\ redo' = Tail(batch) /\ batch' = <<>> /\ batchBytes' = 0
    /\ lost' = lost \cup {Head(batch)}
    /\ wpc' = "reenq"
    /\ UNCHANGED <<runFrame, flushFrame, committed, discarded, ret, timer, drained, reason>>

\* Faulty variant: the transaction is not rolled back.
FlushFailsCommitted ==
    /\ wpc = "flush"
    /\ failures < MaxFailures /\ failures' = failures + 1
    /\ n' = Len(batch) /\ redo' = batch /\ batch' = <<>> /\ batchBytes' = 0
    /\ committed' = committed \cup Elements(batch)
    /\ wpc' = "reenq"
    /\ UNCHANGED <<runFrame, flushFrame, discarded, lost, ret, timer, drained, reason>>

\* BeginTx, Flush or Commit fails and the transaction is rolled back.
FlushFails ==
    /\ wpc = "flush"
    /\ failures < MaxFailures /\ failures' = failures + 1
    /\ n' = Len(batch) /\ redo' = batch /\ batch' = <<>> /\ batchBytes' = 0
    /\ wpc' = "reenq"
    /\ UNCHANGED <<runFrame, flushFrame, fateVars, ret, timer, drained, reason>>

ReEnqueueEnd ==
    /\ wpc = "reenq" /\ redo = <<>> /\ mu # "worker"
    /\ wpc' = "flushed"
    /\ UNCHANGED <<loopFrame, flushFrame, ret, batch, batchBytes, timer, drained, reason>>

\* The deferred decrement.  Every caller of flush then has its timer stopped:
\* stopFlushTimer, or it had just fired, or flushChannelAndExit had stopped it.
FlushReturns ==
    /\ wpc = "flushed"
    /\ pending' = pending - n /\ n' = 0 /\ timer' = "off" /\ wpc' = ret
    /\ UNCHANGED <<runFrame, fateVars, redo, failures, ch, dq, dqStuck, token, spilled,
                   leaked, dqFailures, ret, batch, batchBytes, drained, reason>>

-----------------------------------------------------------------------------
(* The environment and the end. *)

controlFrame == <<submitVars, workerVars, ch, dq, dqStuck, pending, used, spilled,
                  fateVars, leaked, failures, dqFailures>>

\* Faulty variant: the worker is not told.
StartDQueDrainSilently ==
    /\ life = "running" /\ HasDQue /\ ~drainOn
    /\ drainOn' = TRUE
    /\ UNCHANGED <<controlFrame, starting, token, cancelled, life, restarts, troubles>>

\* The flag is swapped, then the worker is told.
StartDQueDrain ==
    /\ life = "running" /\ HasDQue /\ ~drainOn
    /\ drainOn' = TRUE /\ starting' = TRUE
    /\ UNCHANGED <<controlFrame, token, cancelled, life, restarts, troubles>>

StartDQueDrainNotifies ==
    /\ life # "dead" /\ starting /\ starting' = FALSE
    /\ token' = TRUE
    /\ UNCHANGED <<controlFrame, drainOn, cancelled, life, restarts, troubles>>

Cancel ==
    /\ MayCancel /\ life = "running" /\ ~cancelled /\ cancelled' = TRUE
    /\ troubles' = troubles \cup {"cancel"}
    /\ UNCHANGED <<controlFrame, token, drainOn, starting, life, restarts>>

CloseBegin ==
    /\ life = "running" /\ mu = "free" /\ life' = "closing"
    /\ troubles' = troubles \cup {"close"}
    /\ UNCHANGED <<controlFrame, token, drainOn, starting, cancelled, restarts>>

\* Close returns: overflowWG is zero, the worker is done; cancel, close the dque.
CloseEnd ==
    /\ life = "closing" /\ sub \notin {"overflow", "countOverflow"} /\ wpc = "done"
    /\ life' = "closed" /\ cancelled' = TRUE
    /\ UNCHANGED <<controlFrame, token, drainOn, starting, restarts, troubles>>

\* The process dies.  Only the dque is left.
Crash ==
    /\ MayCrash /\ life \in {"running", "closing"} /\ life' = "dead"
    /\ troubles' = troubles \cup {"crash"}
    /\ lost' = lost \cup Elements(ch) \cup Elements(batch) \cup Elements(redo)
    /\ ch' = <<>> /\ batch' = <<>> /\ batchBytes' = 0 /\ redo' = <<>> /\ n' = 0
    /\ mu' = "free" /\ sub' = "none" /\ offered' = {} /\ pending' = Len(dq)
    /\ leaked' = 0 /\ wpc' = "done" /\ timer' = "off" /\ token' = FALSE /\ starting' = FALSE
    /\ UNCHANGED <<dq, dqStuck, drainOn, cancelled, ret, drained, reason, used, spilled,
                   committed, discarded, failures, dqFailures, restarts>>

Finished == life \in {"closed", "dead"} /\ UNCHANGED vars
-----------------------------------------------------------------------------
Submit(p) == \/ \E x \in Item : \/ SubmitClosed(p, x) \/ SubmitSend(p, x)
                              \/ SubmitFull(p, x) \/ SubmitOverflow(p, x)
             \/ mu = p /\ (SubmitEnqueue \/ SubmitEnqueueFails \/ SubmitCount)

Worker == \/ WorkerTop \/ DrainClosed \/ DrainCancelled \/ DrainChannel
          \/ DrainChannelClosed \/ DrainIdle \/ DrainDequeue \/ DrainEmpty
          \/ DrainFails \/ DrainDrops \/ DrainEnd
          \/ SelectItem \/ SelectChannelClosed \/ SelectTimer \/ SelectMaintenance
          \/ SelectNotify \/ SelectCancelled
          \/ ExitItem \/ ExitEnd
          \/ FlushDiscards \/ FlushCommits \/ FlushFails \/ ReEnqueueEnd \/ FlushReturns

Next == \/ Submit("caller") \/ Submit("worker") \/ Worker \/ TimerFires
        \/ StartDQueDrain \/ StartDQueDrainNotifies \/ Cancel
        \/ CloseBegin \/ CloseEnd \/ Crash \/ New \/ Finished

Spec == Init /\ [][Next]_vars

\* The worker and a caller inside Submit are scheduled, timers expire, and
\* select, which picks at random among the ready cases, neglects none for ever.
Fairness ==
    /\ WF_vars(Worker) /\ WF_vars(Submit("worker"))
    /\ WF_vars(mu = "caller" /\ Submit("caller"))
    /\ WF_vars(TimerFires) /\ WF_vars(CloseEnd)
    /\ WF_vars(StartDQueDrain \/ StartDQueDrainNotifies)
    /\ SF_vars(SelectItem) /\ SF_vars(SelectTimer) /\ SF_vars(SelectNotify)
    /\ SF_vars(SelectChannelClosed) /\ SF_vars(SelectCancelled)

FairSpec == Spec /\ Fairness

-----------------------------------------------------------------------------
(* Properties. *)

QueueTypes ==
    /\ ch \in Seq(Item) /\ dq \in Seq(Item) /\ batch \in Seq(Item) /\ redo \in Seq(Item)
    /\ Len(ch) <= ChannelSize /\ Len(batch) <= MaxBatchSize
CountTypes ==
    /\ pending \in Int /\ batchBytes \in Nat /\ n \in Nat /\ leaked \in Nat
    /\ failures \in Nat /\ dqFailures \in Nat /\ restarts \in Nat
FlagTypes ==
    /\ dqStuck \in BOOLEAN /\ token \in BOOLEAN /\ drainOn \in BOOLEAN
    /\ starting \in BOOLEAN
    /\ cancelled \in BOOLEAN /\ drained \in BOOLEAN
PlaceTypes ==
    /\ life \in {"running", "closing", "closed", "dead"}
    /\ mu \in {"free", "caller", "worker"}
    /\ sub \in {"none", "count", "overflow", "countOverflow"}
    /\ wpc \in {"top", "drain", "dequeue", "select", "exit", "flush", "flushed",
               "reenq", "done"}
    /\ ret \in {"top", "drain", "select", "exit", "done"}
    /\ timer \in {"off", "armed", "fired"} /\ reason \in {"none", "close", "shutdown"}
SetTypes ==
    /\ offered \subseteq Item /\ used \subseteq Item /\ spilled \subseteq Item
    /\ committed \subseteq Item /\ discarded \subseteq Item /\ lost \subseteq Item
    /\ troubles \subseteq {"crash", "cancel", "close"}

\* Every variable keeps its type, and the channel and the batch their bounds.
TypeOK == QueueTypes /\ CountTypes /\ FlagTypes /\ PlaceTypes /\ SetTypes

\* pendingCount is exact: what is queued, batched or in a flush that has not
\* returned, plus what Dequeue dropped, less a send that is not counted yet.
Uncounted == IF sub \in {"count", "countOverflow"} THEN 1 ELSE 0
PendingExact ==
    pending + Uncounted = Len(ch) + Len(dq) + Len(batch) + n + leaked

\* PendingCount() = 0 with no Submit under way means that no write is left
\* anywhere: the completion checks of discovery rely on it.
PendingZeroMeansIdle == mu = "free" /\ pending = 0 => Held = {}

\* The worker never blocks on select with a batch and no timer to flush it.
TimerCoversBatch == wpc = "select" /\ batch # <<>> => timer # "off"

\* The worker never blocks on select with a backlog on disk it should drain and
\* no token to wake it, there or about to be sent, as long as every dque call
\* succeeded.
BacklogIsNoticed ==
    wpc = "select" /\ life = "running" /\ drainOn /\ ~starting /\ dq # <<>> /\ sub # "countOverflow"
        /\ dqFailures = 0 => token

\* The batcher is a WriteSink: batches are bounded, nothing is committed twice,
\* nothing committed or lost comes back, over failures, re-enqueue and restarts.
Sink == INSTANCE WriteSink WITH held <- Held
ImplementsSink == Sink!SinkSpec

\* A write is lost only by a crash, a cancelled context, a failing dque, or a
\* failed batch that could not be re-enqueued because of Close or a full queue.
LossHasACause ==
    lost # {} => \/ {"crash", "cancel"} \cap troubles # {}
                 \/ dqFailures > 0
                 \/ failures > 0 /\ ("close" \in troubles \/ ~HasDQue \/ HasQuota)

\* Close leaves no accepted write behind except on disk, unless the context was
\* cancelled under it (then Submit may have fed a channel nobody reads).
CloseDrainsTheChannel ==
    life = "closed" /\ "cancel" \notin troubles => Held = Elements(dq)

\* An accepted write is settled in the end, while the batcher runs: by a full
\* batch, the timer, or the drain of the backlog.
EveryWriteSettles ==
    \A x \in Item : x \in Held ~> x \notin Held \/ life # "running" \/ cancelled

\* docs/ARCHITECTURE.md:381 "Interleaves channel items with dque items so new
\* channel submissions are never starved during a drain": what is in the channel
\* is settled in the end.
ChannelIsNotStarved ==
    \A x \in Item :
        x \in Elements(ch) ~> x \notin Held \/ life # "running" \/ cancelled

\* Close returns: the worker sees the closed channel wherever it was.
CloseReturns == life = "closing" ~> life # "closing"

\* docs/ARCHITECTURE.md:374 "Pending overflow writes persist across process
\* restarts and are flushed on the next startup."
OverflowIsNeverLost == spilled \cap lost = {}
=============================================================================
