----------------------------- MODULE RingQueue ------------------------------
(***************************************************************************)
(* internal/queue: a ring buffer under one mutex, whose capacity is always *)
(* a power of two, that doubles when it is full and halves when it is a    *)
(* quarter full.  Every operation is one step.  DequeueWait, which sleeps  *)
(* on a condition, is part of ParallelWalk, its one caller.                *)
(***************************************************************************)
EXTENDS Integers, Sequences

CONSTANTS QueueItem,         \* what is queued
          MinCapacity,  \* minCapacity, a power of two
          InitialCap,   \* the first argument of NewBoundedQueue
          MaxItems      \* maxCap, 0 for none

ASSUME RingQueueAssumption ==
    /\ MinCapacity \in Nat \ {0} /\ InitialCap \in Nat
    /\ MaxItems \in Nat

VARIABLES buf, headAt, tailAt, queueLen, queueClosed,
          queueAnswer        \* what the last call answered (history)

queueVars == <<buf, headAt, tailAt, queueLen, queueClosed, queueAnswer>>

Freed == "zero"
CapOf(b) == Len(b)
Wrap(n, b) == (n + CapOf(b)) % CapOf(b)          \* x & (len(buf) - 1)
CellAt(b, i) == b[i + 1]
FreshBuf(n) == [i \in 1..n |-> Freed]

\* The smallest power of two from MinCapacity on that holds n.
GrowTo(n) == CHOOSE c \in {MinCapacity * 2^k : k \in 0..n} :
                c >= n /\ (c > MinCapacity => c \div 2 < n)
FirstCap == LET wanted == IF InitialCap < MinCapacity THEN MinCapacity ELSE InitialCap
            IN GrowTo(IF MaxItems > 0 /\ MaxItems < wanted THEN MaxItems ELSE wanted)
ASSUME FirstCapAssumption == FirstCap \in Nat \ {0}

QueueInit == /\ buf = FreshBuf(FirstCap) /\ headAt = 0 /\ tailAt = 0 /\ queueLen = 0
             /\ queueClosed = FALSE /\ queueAnswer = "none"

-----------------------------------------------------------------------------
\* Slice: the contents in order.
Slice(b, h, n) == [i \in 1..n |-> CellAt(b, Wrap(h + i - 1, b))]

\* resize: the contents from the start of a new buffer.
Resize(b, h, n, cap) == [i \in 1..cap |-> IF i <= n THEN Slice(b, h, n)[i] ELSE Freed]

\* Faulty variant: the tail is not moved with the contents.
ShrinkKeepsTail(b, h, t, n) ==
    IF CapOf(b) > MinCapacity /\ n <= CapOf(b) \div 4
    THEN [buf |-> Resize(b, h, n, IF CapOf(b) \div 2 > MinCapacity THEN CapOf(b) \div 2 ELSE MinCapacity),
          head |-> 0, tail |-> t]
    ELSE [buf |-> b, head |-> h, tail |-> t]
\* shrinkIfNeeded, after a removal has left n items from h to t.
ShrinkIfNeeded(b, h, t, n) ==
    IF CapOf(b) > MinCapacity /\ n <= CapOf(b) \div 4
    THEN [buf |-> Resize(b, h, n, IF CapOf(b) \div 2 > MinCapacity THEN CapOf(b) \div 2 ELSE MinCapacity),
          head |-> 0, tail |-> n]
    ELSE [buf |-> b, head |-> h, tail |-> t]

QueueAnswers(why) == queueAnswer' = why /\ UNCHANGED <<buf, headAt, tailAt, queueLen, queueClosed>>
AtMaxCap == MaxItems > 0 /\ queueLen >= MaxItems

\* The buffer an addition writes to: twice as large when it is full.
Grown == IF queueLen = CapOf(buf)
         THEN [buf |-> Resize(buf, headAt, queueLen, 2 * CapOf(buf)), head |-> 0, tail |-> queueLen]
         ELSE [buf |-> buf, head |-> headAt, tail |-> tailAt]

AddBack(x) ==
    \/ queueClosed /\ QueueAnswers("closed")
    \/ ~queueClosed /\ AtMaxCap /\ QueueAnswers("full")
    \/ /\ ~queueClosed /\ ~AtMaxCap
          /\ buf' = [Grown.buf EXCEPT ![Grown.tail + 1] = x]
          /\ headAt' = Grown.head /\ tailAt' = Wrap(Grown.tail + 1, Grown.buf)
          /\ queueLen' = queueLen + 1 /\ queueAnswer' = "added" /\ UNCHANGED queueClosed

AddFront(x) ==
    \/ queueClosed /\ QueueAnswers("closed")
    \/ ~queueClosed /\ AtMaxCap /\ QueueAnswers("full")
    \/ LET h == Wrap(Grown.head - 1, Grown.buf) IN
          /\ ~queueClosed /\ ~AtMaxCap
          /\ buf' = [Grown.buf EXCEPT ![h + 1] = x]
          /\ headAt' = h /\ tailAt' = Grown.tail
          /\ queueLen' = queueLen + 1 /\ queueAnswer' = "added" /\ UNCHANGED queueClosed

\* RemoveFront and RemoveBack, with the cell freed and the buffer shrunk.
Takes(i, h, t) ==
    LET s == ShrinkIfNeeded([buf EXCEPT ![i + 1] = Freed], h, t, queueLen - 1) IN
    /\ queueLen > 0 /\ ~queueClosed
    /\ queueAnswer' = CellAt(buf, i) /\ queueLen' = queueLen - 1
    /\ buf' = s.buf /\ headAt' = s.head /\ tailAt' = s.tail /\ UNCHANGED queueClosed
NothingToTake == \/ queueLen = 0 /\ QueueAnswers("empty")
                 \/ queueLen > 0 /\ queueClosed /\ QueueAnswers("closed")
RemoveFront == NothingToTake \/ Takes(headAt, Wrap(headAt + 1, buf), tailAt)
RemoveBack == NothingToTake \/ Takes(Wrap(tailAt - 1, buf), headAt, Wrap(tailAt - 1, buf))

ClearQueue == /\ buf' = FreshBuf(MinCapacity) /\ headAt' = 0 /\ tailAt' = 0 /\ queueLen' = 0
         /\ queueAnswer' = "cleared" /\ UNCHANGED queueClosed

CloseQueue == queueClosed' = TRUE /\ queueAnswer' = "none" /\ UNCHANGED <<buf, headAt, tailAt, queueLen>>

QueueNext == \/ \E x \in QueueItem : AddBack(x) \/ AddFront(x)
             \/ RemoveFront \/ RemoveBack \/ ClearQueue \/ CloseQueue

QueueSpec == QueueInit /\ [][QueueNext]_queueVars

-----------------------------------------------------------------------------
(* The ring is a double-ended queue: no item is lost, repeated or moved    *)
(* when the buffer wraps around, doubles or halves (resize,                *)
(* shrinkIfNeeded, the masks of AddFront and RemoveBack).                  *)
Contents == Slice(buf, headAt, queueLen)
AsDeque == INSTANCE Deque WITH Item <- QueueItem, items <- Contents, shut <- queueClosed, answer <- queueAnswer
RingIsDeque == AsDeque!DequeSpec
=============================================================================
