----------------------------- MODULE DbConnPool -----------------------------
(***************************************************************************)
(* internal/dbconnpool: a pool of SQLite connections shared by request     *)
(* handlers, file workers and the write batcher.  It has no mutex: idle    *)
(* connections sit in a buffered channel, the total is an atomic counter,  *)
(* and closed (an atomic) and done (a channel) say that Close has begun.   *)
(* Each of them is read and written in steps of its own, so every Get, Put *)
(* and tick of the monitor may be overtaken by every other, and by Close.  *)
(*                                                                         *)
(* Connections are interchangeable; what matters is how many there are and *)
(* who holds them.  Whether one needs a ping, or is recycled by Put for    *)
(* its age or its memory, is left open.                                    *)
(***************************************************************************)
EXTENDS Integers, FiniteSets

CONSTANTS Client,           \* goroutines that call Get and then Put
          MaxConnections,   \* Config.MaxConnections
          MinIdles,         \* the values Config.MinIdleConnections may have
          Recycles,         \* this is the RW pool: Put may recycle
          MayFail,          \* a ping or the making of a connection may fail
          MayCancel         \* the context of the pool may be cancelled

ASSUME DbConnPoolAssumption ==
    /\ IsFiniteSet(Client)
    /\ MaxConnections \in Nat \ {0} /\ MinIdles \subseteq 0..MaxConnections
    /\ Recycles \in BOOLEAN /\ MayFail \in BOOLEAN /\ MayCancel \in BOOLEAN

VARIABLES idle,       \* len(p.connections)
          num,        \* p.numConnections
          cancelled,  \* p.ctx is done
          closer,     \* where Close stands
          timedOut,   \* Close gave up waiting for connections (history)
          pc,         \* where each client stands in Get or Put
          mon,        \* where the monitor stands
          left,       \* its deficit or excess still to work off
          minIdle     \* p.minIdleConnections

vars == <<idle, num, cancelled, closer, timedOut, pc, mon, left, minIdle>>

Closed == closer # "open"                        \* p.closed
Done == closer \notin {"open", "closed"}         \* p.done is closed
ChannelClosed == closer \in {"final", "done"}    \* p.connections is closed
DbOpen == closer # "done"                        \* p.pool is open

Init == /\ idle = 0 /\ num = 0 /\ cancelled = FALSE
        /\ closer = "open" /\ timedOut = FALSE
        /\ pc = [c \in Client |-> "out"] /\ mon = "sleep" /\ left = 0
        /\ minIdle \in MinIdles

-----------------------------------------------------------------------------
(* Get. *)

Go(c, place) == pc' = [pc EXCEPT ![c] = place]
clientFrame == <<cancelled, closer, timedOut, mon, left, minIdle>>

\* The test of p.closed, at the call and after a failed ping.
GetChecks(c) ==
    /\ pc[c] \in {"out", "retry"}
    /\ Go(c, IF Closed THEN "out" ELSE "try")
    /\ UNCHANGED <<clientFrame, idle, num>>

\* An idle connection, old enough for a ping or not.
GetIdle(c) ==
    /\ pc[c] \in {"try", "blocked"} /\ idle > 0
    /\ idle' = idle - 1
    /\ Go(c, "ping") \/ Go(c, "hold")
    /\ UNCHANGED <<clientFrame, num>>

\* ErrPoolClosed from done or from the closed channel, or the context's error.
GetEnds(c) ==
    /\ \/ pc[c] \in {"try", "blocked"} /\ Done
       \/ pc[c] = "blocked" /\ cancelled
    /\ Go(c, "out")
    /\ UNCHANGED <<clientFrame, idle, num>>

GetNoneIdle(c) ==
    /\ pc[c] = "try" /\ idle = 0 /\ ~Done
    /\ Go(c, "reserve")
    /\ UNCHANGED <<clientFrame, idle, num>>

PingSucceeds(c) ==
    /\ pc[c] = "ping" /\ ~cancelled /\ DbOpen
    /\ Go(c, "hold")
    /\ UNCHANGED <<clientFrame, idle, num>>

\* Faulty variant: the slot of the dead connection is not given back.
PingFailsKeepsSlot(c) ==
    /\ pc[c] = "ping" /\ (MayFail \/ cancelled \/ ~DbOpen)
    /\ Go(c, "retry")
    /\ UNCHANGED <<clientFrame, idle, num>>

PingFails(c) ==
    /\ pc[c] = "ping" /\ (MayFail \/ cancelled \/ ~DbOpen)
    /\ num' = num - 1 /\ Go(c, "retry")
    /\ UNCHANGED <<clientFrame, idle>>

\* Faulty variant: off by one.
ReserveOneMore(c) ==
    /\ pc[c] = "reserve"
    /\ IF num <= MaxConnections THEN num' = num + 1 /\ Go(c, "create")
                                ELSE Go(c, "blocked") /\ UNCHANGED num
    /\ UNCHANGED <<clientFrame, idle>>

\* reserveSlot: a compare-and-swap, retried until it decides.
Reserve(c) ==
    /\ pc[c] = "reserve"
    /\ IF num < MaxConnections THEN num' = num + 1 /\ Go(c, "create")
                               ELSE Go(c, "blocked") /\ UNCHANGED num
    /\ UNCHANGED <<clientFrame, idle>>

CreateSucceeds(c) ==
    /\ pc[c] = "create" /\ ~cancelled /\ DbOpen
    /\ Go(c, "hold")
    /\ UNCHANGED <<clientFrame, idle, num>>

CreateFails(c) ==
    /\ pc[c] = "create" /\ (MayFail \/ cancelled \/ ~DbOpen)
    /\ num' = num - 1 /\ Go(c, "out")
    /\ UNCHANGED <<clientFrame, idle>>

-----------------------------------------------------------------------------
(* Put. *)

\* Faulty variant: Put goes on after recycling the connection.
PutAlsoReturns(c) ==
    /\ pc[c] = "hold"
    /\ \/ Closed /\ num' = num - 1 /\ Go(c, "out")
       \/ ~Closed /\ Recycles /\ num' = num - 1 /\ Go(c, "send")
       \/ ~Closed /\ Go(c, "send") /\ UNCHANGED num
    /\ UNCHANGED <<clientFrame, idle>>

\* The test of p.closed and the decision to recycle.
Put(c) ==
    /\ pc[c] = "hold"
    /\ \/ Closed /\ num' = num - 1 /\ Go(c, "out")
       \/ ~Closed /\ Recycles /\ num' = num - 1 /\ Go(c, "out")
       \/ ~Closed /\ Go(c, "send") /\ UNCHANGED num
    /\ UNCHANGED <<clientFrame, idle>>

\* The select: with done closed as well either case may be taken, and a send
\* on the closed channel panics.  The default closes the connection.
PutSends(c) ==
    /\ pc[c] = "send" /\ ~ChannelClosed
    /\ IF idle < MaxConnections THEN idle' = idle + 1 /\ UNCHANGED num
                                ELSE num' = num - 1 /\ UNCHANGED idle
    /\ Go(c, "out")
    /\ UNCHANGED clientFrame

PutSeesDone(c) ==
    /\ pc[c] = "send" /\ Done
    /\ num' = num - 1 /\ Go(c, "out")
    /\ UNCHANGED <<clientFrame, idle>>

PutPanics(c) ==
    /\ pc[c] = "send" /\ ChannelClosed
    /\ Go(c, "panicked")
    /\ UNCHANGED <<clientFrame, idle, num>>

-----------------------------------------------------------------------------
(* The monitor: on each tick, grow to minIdle idle connections, then shrink. *)

monitorFrame == <<cancelled, closer, timedOut, pc, minIdle>>
Goes(place) == mon' = place

MonitorStops ==
    /\ mon = "sleep" /\ (Done \/ cancelled \/ Closed)
    /\ Goes("stopped")
    /\ UNCHANGED <<monitorFrame, idle, num, left>>

\* The ticker may win against done and against the context.
MonitorTick ==
    /\ mon = "sleep" /\ ~Closed
    /\ left' = minIdle - idle /\ Goes("measure")
    /\ UNCHANGED <<monitorFrame, idle, num>>

Least(a, b) == IF a < b THEN a ELSE b

MonitorMeasure ==
    /\ mon = "measure"
    /\ left' = Least(left, MaxConnections - num) /\ Goes("grow")
    /\ UNCHANGED <<monitorFrame, idle, num>>

MonitorReserve ==
    /\ mon = "grow" /\ left > 0 /\ num < MaxConnections
    /\ num' = num + 1 /\ Goes("create")
    /\ UNCHANGED <<monitorFrame, idle, left>>

MonitorCreateSucceeds ==
    /\ mon = "create" /\ ~cancelled /\ DbOpen
    /\ Goes("send")
    /\ UNCHANGED <<monitorFrame, idle, num, left>>

MonitorCreateFails ==
    /\ mon = "create" /\ (MayFail \/ cancelled \/ ~DbOpen)
    /\ num' = num - 1 /\ Goes("excess")
    /\ UNCHANGED <<monitorFrame, idle, left>>

\* Faulty variant: the new connection is made and forgotten.
MonitorForgets ==
    /\ mon = "send" /\ ~ChannelClosed
    /\ left' = left - 1 /\ Goes("grow")
    /\ UNCHANGED <<monitorFrame, idle, num>>

MonitorSends ==
    /\ mon = "send" /\ ~ChannelClosed
    /\ IF idle < MaxConnections THEN idle' = idle + 1 /\ UNCHANGED num
                                ELSE num' = num - 1 /\ UNCHANGED idle
    /\ left' = left - 1 /\ Goes("grow")
    /\ UNCHANGED monitorFrame

\* The monitor does not look at done here.
MonitorSendPanics ==
    /\ mon = "send" /\ ChannelClosed
    /\ Goes("panicked")
    /\ UNCHANGED <<monitorFrame, idle, num, left>>

MonitorGrown ==
    /\ mon = "grow" /\ (left <= 0 \/ num >= MaxConnections)
    /\ Goes("excess")
    /\ UNCHANGED <<monitorFrame, idle, num, left>>

MonitorExcess ==
    /\ mon = "excess"
    /\ left' = idle - minIdle /\ Goes("shrink")
    /\ UNCHANGED <<monitorFrame, idle, num>>

MonitorTakes ==
    /\ mon = "shrink" /\ left > 0 /\ idle > 0
    /\ idle' = idle - 1 /\ Goes("close")
    /\ UNCHANGED <<monitorFrame, num, left>>

MonitorCloses ==
    /\ mon = "close"
    /\ num' = num - 1 /\ left' = left - 1 /\ Goes("shrink")
    /\ UNCHANGED <<monitorFrame, idle>>

\* A closed channel yields nil, and nil.Close() dereferences it.
MonitorTakesNil ==
    /\ mon = "shrink" /\ left > 0 /\ idle = 0 /\ ChannelClosed
    /\ Goes("nilPanicked")
    /\ UNCHANGED <<monitorFrame, idle, num, left>>

MonitorShrunk ==
    /\ mon = "shrink"
    /\ left <= 0 \/ (idle = 0 /\ ~ChannelClosed)
    /\ left' = 0 /\ Goes("sleep")
    /\ UNCHANGED <<monitorFrame, idle, num>>

-----------------------------------------------------------------------------
(* Close. *)

closeFrame == <<cancelled, pc, mon, left, minIdle>>

\* The compare-and-swap of p.closed; only the first Close gets past it.
CloseBegins == /\ closer = "open" /\ closer' = "closed"
               /\ UNCHANGED <<closeFrame, idle, num, timedOut>>

CloseSignals == /\ closer = "closed" /\ closer' = "drain"
                /\ UNCHANGED <<closeFrame, idle, num, timedOut>>

DrainTakes == /\ closer = "drain" /\ idle > 0
              /\ idle' = idle - 1 /\ closer' = "drop"
              /\ UNCHANGED <<closeFrame, num, timedOut>>

DrainDrops == /\ closer = "drop" /\ num' = num - 1 /\ closer' = "drain"
              /\ UNCHANGED <<closeFrame, idle, timedOut>>

DrainEnds == /\ closer = "drain" /\ idle = 0 /\ closer' = "wait"
             /\ UNCHANGED <<closeFrame, idle, num, timedOut>>

\* Faulty variant: Close does not wait.
WaitSkipped == /\ closer = "wait" /\ closer' = "closing"
               /\ UNCHANGED <<closeFrame, idle, num, timedOut>>

\* Every connection has come back.
WaitEnds == /\ closer = "wait" /\ num = 0 /\ closer' = "closing"
            /\ UNCHANGED <<closeFrame, idle, num, timedOut>>

\* Faulty variant: no deadline.
WaitForever == /\ closer = "wait" /\ num = 0 /\ timedOut' = TRUE /\ closer' = "closing"
               /\ UNCHANGED <<closeFrame, idle, num>>

\* The deadline has passed, with or without connections outstanding.
WaitTimesOut == /\ closer = "wait" /\ timedOut' = TRUE /\ closer' = "closing"
                /\ UNCHANGED <<closeFrame, idle, num>>

ChannelCloses == /\ closer = "closing" /\ closer' = "final"
                 /\ UNCHANGED <<closeFrame, idle, num, timedOut>>

CloseEnds == /\ closer = "final" /\ closer' = "done"
             /\ UNCHANGED <<closeFrame, idle, num, timedOut>>

Cancel == /\ MayCancel /\ ~cancelled /\ cancelled' = TRUE
          /\ UNCHANGED <<idle, num, closer, timedOut, pc, mon, left, minIdle>>

-----------------------------------------------------------------------------
Get(c) == \/ GetChecks(c) \/ GetIdle(c) \/ GetEnds(c) \/ GetNoneIdle(c)
          \/ PingSucceeds(c) \/ PingFails(c) \/ Reserve(c)
          \/ CreateSucceeds(c) \/ CreateFails(c)

Return(c) == Put(c) \/ PutSends(c) \/ PutSeesDone(c) \/ PutPanics(c)

Monitor == \/ MonitorStops \/ MonitorTick \/ MonitorMeasure \/ MonitorReserve
           \/ MonitorCreateSucceeds \/ MonitorCreateFails \/ MonitorSends
           \/ MonitorSendPanics \/ MonitorGrown \/ MonitorExcess \/ MonitorTakes
           \/ MonitorCloses \/ MonitorTakesNil \/ MonitorShrunk

Close == \/ CloseBegins \/ CloseSignals \/ DrainTakes \/ DrainDrops \/ DrainEnds
         \/ WaitEnds \/ WaitTimesOut \/ ChannelCloses \/ CloseEnds

\* Nobody has to call Get on a closed pool.
Idles == closer = "done" /\ UNCHANGED vars

Next == \/ \E c \in Client : Get(c) \/ Return(c)
        \/ Monitor \/ Close \/ Cancel \/ Idles

Spec == Init /\ [][Next]_vars

\* Clients inside the pool go on and give back what they hold, the monitor
\* ticks, Close goes on once begun, and the channel serves its waiting
\* receivers in turn.
Fairness ==
    /\ \A c \in Client : /\ WF_vars(pc[c] # "out" /\ (Get(c) \/ Return(c)))
                         /\ SF_vars(GetIdle(c))
    /\ WF_vars(Monitor)
    /\ WF_vars(closer # "open" /\ Close)

FairSpec == Spec /\ Fairness

-----------------------------------------------------------------------------
(* Properties. *)

\* Every variable keeps its type: never more connections than MaxConnections.
TypeOK ==
    /\ idle \in 0..MaxConnections /\ num \in 0..MaxConnections
    /\ cancelled \in BOOLEAN /\ timedOut \in BOOLEAN /\ left \in Int
    /\ minIdle \in MinIdles
    /\ closer \in {"open", "closed", "drain", "drop", "wait", "closing", "final", "done"}
    /\ pc \in [Client -> {"out", "retry", "try", "ping", "reserve", "create",
                          "blocked", "hold", "send", "panicked"}]
    /\ mon \in {"sleep", "measure", "grow", "create", "send", "excess", "shrink",
                "close", "stopped", "panicked", "nilPanicked"}

\* Those who hold a connection, or a slot for one they are making.
Holding == {"ping", "create", "hold", "send", "panicked"}
Holders == {c \in Client : pc[c] \in Holding}
MonitorHas == IF mon \in {"create", "send", "close", "panicked"} THEN 1 ELSE 0
CloserHas == IF closer = "drop" THEN 1 ELSE 0

\* numConnections is exact at every step: what is idle and what someone holds.
\* Get's limit, the monitor's growth and Close's wait all rest on it.
CountExact == num = idle + Cardinality(Holders) + MonitorHas + CloserHas

\* A connection that is given back finds room in the channel: the default case
\* of Put, commented "shouldn't happen", and the one of the monitor never run.
ReturnFits == (mon = "send" \/ \E c \in Client : pc[c] = "send") => idle < MaxConnections

\* A Close that did not give up at its deadline has waited for every Put that
\* was past the test of closed: none sends on the closed channel, whatever the
\* order of the two flags, the drain, the count and the close of the channel.
CloseWaitsForPuts ==
    ChannelClosed /\ ~timedOut => \A c \in Client : pc[c] \notin {"send", "panicked"}

\* A Get that waits at capacity returns in the end, unless the pool falls below
\* capacity meanwhile: while it is full, what is given back reaches the waiters.
FullPoolServes ==
    \A c \in Client : pc[c] = "blocked" ~> pc[c] # "blocked" \/ num < MaxConnections

\* Close returns, even if connections are never given back to it.
CloseReturns == closer = "closed" ~> closer = "done"

\* dbconnpool.go:470 "Create a new connection if below maxConnections" and :471
\* "Block waiting for a connection if at maxConnections": a Get that blocked when
\* the pool was full is not left waiting beside free slots.
GetWaitsOnlyAtCapacity == \A c \in Client : pc[c] = "blocked" ~> pc[c] # "blocked"

\* dbconnpool.go:755 "Exits when context is cancelled or done channel is closed":
\* that is the only way the monitor ends.
MonitorExitsInOrder == mon \notin {"panicked", "nilPanicked"}
=============================================================================
