-------------------------- MODULE DbConnPoolProofs --------------------------
(***************************************************************************)
(* Proofs about DbConnPool, for any number of clients and connections.     *)
(* The count of connections is its own invariant, but it must be shown     *)
(* together with the types (a decrement stays in the naturals because what *)
(* it gives up was counted) and with what Close has waited for.            *)
(***************************************************************************)
EXTENDS DbConnPool, FiniteSetTheorems, TLAPS

Places == {"out", "retry", "try", "ping", "reserve", "create", "blocked",
           "hold", "send", "panicked"}
Held == Cardinality(Holders)

\* CloseWaitsForPuts, from the moment at which Close has seen the count at zero.
CloseInv ==
    closer \in {"closing", "final", "done"} /\ ~timedOut
        => \A c \in Client : pc[c] \notin {"send", "panicked"}

\* The inductive invariant.
IInv == TypeOK /\ CountExact /\ CloseInv

-----------------------------------------------------------------------------
(* How a client that moves changes the number of connections held. *)

\* The holders are finitely many, and none when their number is zero.
LEMMA HeldType ==
  /\ IsFiniteSet(Holders) /\ Held \in Nat
  /\ Held = 0 => Holders = {}
<1>1. IsFiniteSet(Holders)
  BY FS_Subset, DbConnPoolAssumption DEF Holders
<1> QED
  BY <1>1, FS_CardinalityType, FS_EmptySet DEF Held

\* A client that holds is counted.
LEMMA HolderCounts ==
  ASSUME NEW c \in Client, pc[c] \in Holding
  PROVE  Held >= 1
<1>1. Holders # {}
  BY DEF Holders
<1> QED
  BY <1>1, HeldType

\* What a client at a place holds.
Has(place) == IF place \in Holding THEN 1 ELSE 0

\* One client moves: the others stay, and the count of holders follows it.
LEMMA ClientMoves ==
  ASSUME TypeOK, NEW c \in Client, NEW place \in Places, Go(c, place)
  PROVE  /\ pc' \in [Client -> Places]
         /\ pc'[c] = place /\ \A d \in Client \ {c} : pc'[d] = pc[d]
         /\ Held' = Held + Has(place) - Has(pc[c])
<1>1. pc \in [Client -> Places]
  BY DEF TypeOK, Places
<1>2. /\ pc' \in [Client -> Places]
      /\ pc'[c] = place /\ \A d \in Client \ {c} : pc'[d] = pc[d]
  BY <1>1 DEF Go
<1>3. Holders' = IF place \in Holding THEN Holders \cup {c} ELSE Holders \ {c}
  BY <1>2 DEF Holders
<1>4. c \in Holders <=> pc[c] \in Holding
  BY DEF Holders
<1>5. /\ Cardinality(Holders \cup {c}) = IF c \in Holders THEN Held ELSE Held + 1
      /\ Cardinality(Holders \ {c}) = IF c \in Holders THEN Held - 1 ELSE Held
  BY HeldType, FS_AddElement, FS_RemoveElement DEF Held
<1>6. Held' = Cardinality(Holders')
  BY DEF Held
<1> QED
  BY <1>2, <1>3, <1>4, <1>5, <1>6, HeldType DEF Has

\* Nobody moves: the count of holders stays.
LEMMA NobodyMoves == ASSUME pc' = pc PROVE Held' = Held
  BY DEF Held, Holders

\* The four parts of the count add up to a natural number.
LEMMA SumIsNatural ==
  ASSUME NEW a \in Nat, NEW b \in Nat, NEW d \in Nat, NEW e \in Nat
  PROVE  a + b + d + e \in Nat
  OBVIOUS

\* A client's step keeps the invariant when the count of connections changes by
\* what becomes idle and what the client takes or gives up, and when it reaches
\* the sends of Put only before Close has begun.
LEMMA ClientKeeps ==
  ASSUME IInv, NEW c \in Client, NEW place \in Places, Go(c, place),
         UNCHANGED clientFrame,
         idle' \in 0..MaxConnections, num' \in Int, num' <= MaxConnections,
         num' = num + (idle' - idle) + Has(place) - Has(pc[c]),
         place = "send" => ~Closed,
         place = "panicked" => pc[c] = "send"
  PROVE  IInv'
<1>1. TypeOK /\ CountExact /\ CloseInv
  BY DEF IInv
<1>2. /\ pc' \in [Client -> Places]
      /\ pc'[c] = place /\ \A d \in Client \ {c} : pc'[d] = pc[d]
      /\ Held' = Held + Has(place) - Has(pc[c])
  BY <1>1, ClientMoves
<1>3. Held \in Nat /\ Held' \in Nat
  <2>1. IsFiniteSet(Holders')
    BY FS_Subset, DbConnPoolAssumption DEF Holders
  <2> QED
    BY <2>1, HeldType, FS_CardinalityType DEF Held
<1>4. MonitorHas' = MonitorHas /\ CloserHas' = CloserHas
      /\ MonitorHas \in {0, 1} /\ CloserHas \in {0, 1}
  BY DEF MonitorHas, CloserHas, clientFrame
<1>5. num = idle + Held + MonitorHas + CloserHas
  BY <1>1 DEF CountExact, Held
<1>6. Has(place) \in {0, 1} /\ Has(pc[c]) \in {0, 1}
  BY DEF Has
<1>7. num' = idle' + Held' + MonitorHas' + CloserHas'
  BY <1>1, <1>2, <1>3, <1>4, <1>5, <1>6 DEF TypeOK
<1>8. CountExact'
  BY <1>7 DEF CountExact, Held
<1>9. num' \in 0..MaxConnections
  <2>1. idle' \in Nat /\ MonitorHas' \in Nat /\ CloserHas' \in Nat
    BY <1>4, DbConnPoolAssumption
  <2>2. idle' + Held' + MonitorHas' + CloserHas' \in Nat
    BY <1>3, <2>1, SumIsNatural
  <2> QED
    BY <1>7, <2>2, DbConnPoolAssumption
<1>10. TypeOK'
  BY <1>1, <1>2, <1>9 DEF TypeOK, clientFrame, Places
<1>11. CloseInv'
  BY <1>1, <1>2 DEF CloseInv, clientFrame, Closed
<1> QED
  BY <1>8, <1>10, <1>11 DEF IInv

-----------------------------------------------------------------------------
(* Get and Put. *)

\* Every step of Get keeps the inductive invariant.
LEMMA GetKeeps == ASSUME IInv, NEW c \in Client, Get(c) PROVE IInv'
<1> USE DEF Places
<1>t. TypeOK
  BY DEF IInv
<1>h. /\ \A p \in Holding : Has(p) = 1
      /\ \A p \in {"out", "retry", "try", "reserve", "blocked"} : Has(p) = 0
  BY DEF Has, Holding
<1>1. CASE GetChecks(c)
  BY <1>1, <1>t, <1>h, ClientKeeps DEF GetChecks, TypeOK, clientFrame
<1>2. CASE GetIdle(c)
  <2>1. PICK place \in {"ping", "hold"} : Go(c, place)
    BY <1>2 DEF GetIdle
  <2>2. Has(place) = 1 /\ Has(pc[c]) = 0
    BY <1>2, <1>h DEF GetIdle, Holding
  <2>3. idle' \in 0..MaxConnections /\ num' = num + (idle' - idle) + Has(place) - Has(pc[c])
    BY <1>2, <2>2, <1>t, DbConnPoolAssumption DEF GetIdle, TypeOK
  <2> QED
    BY <1>2, <2>1, <2>2, <2>3, <1>t, ClientKeeps DEF GetIdle, TypeOK, clientFrame
<1>3. CASE GetEnds(c)
  BY <1>3, <1>t, <1>h, ClientKeeps DEF GetEnds, TypeOK, clientFrame
<1>4. CASE GetNoneIdle(c)
  BY <1>4, <1>t, <1>h, ClientKeeps DEF GetNoneIdle, TypeOK, clientFrame
<1>5. CASE PingSucceeds(c)
  BY <1>5, <1>t, <1>h, ClientKeeps DEF PingSucceeds, TypeOK, clientFrame, Holding
<1>6. CASE PingFails(c)
  <2>1. Has("retry") = 0 /\ Has(pc[c]) = 1
    BY <1>6, <1>h DEF PingFails, Holding
  <2>2. num' <= MaxConnections /\ num' = num + (idle' - idle) + Has("retry") - Has(pc[c])
    BY <1>6, <2>1, <1>t, DbConnPoolAssumption DEF PingFails, TypeOK
  <2> QED
    BY <1>6, <2>2, <1>t, ClientKeeps DEF PingFails, TypeOK, clientFrame
<1>7. CASE Reserve(c)
  BY <1>7, <1>t, <1>h, ClientKeeps, DbConnPoolAssumption DEF Reserve, TypeOK, clientFrame, Holding
<1>8. CASE CreateSucceeds(c)
  BY <1>8, <1>t, <1>h, ClientKeeps DEF CreateSucceeds, TypeOK, clientFrame, Holding
<1>9. CASE CreateFails(c)
  <2>1. Has("out") = 0 /\ Has(pc[c]) = 1
    BY <1>9, <1>h DEF CreateFails, Holding
  <2>2. num' <= MaxConnections /\ num' = num + (idle' - idle) + Has("out") - Has(pc[c])
    BY <1>9, <2>1, <1>t, DbConnPoolAssumption DEF CreateFails, TypeOK
  <2> QED
    BY <1>9, <2>2, <1>t, ClientKeeps DEF CreateFails, TypeOK, clientFrame
<1> QED
  BY <1>1, <1>2, <1>3, <1>4, <1>5, <1>6, <1>7, <1>8, <1>9 DEF Get

\* Every step of Put keeps the inductive invariant.
LEMMA ReturnKeeps == ASSUME IInv, NEW c \in Client, Return(c) PROVE IInv'
<1> USE DEF Places
<1>t. TypeOK
  BY DEF IInv
<1>h. (\A p \in Holding : Has(p) = 1) /\ Has("out") = 0
  BY DEF Has, Holding
<1>1. CASE Put(c)
  <2>1. Has(pc[c]) = 1 /\ Has("send") = 1
    BY <1>1, <1>h DEF Put, Holding
  <2>2. CASE num' = num - 1 /\ Go(c, "out")
    <3>1. num' <= MaxConnections /\ num' = num + (idle' - idle) + Has("out") - Has(pc[c])
      BY <1>1, <2>1, <2>2, <1>h, <1>t, DbConnPoolAssumption DEF Put, TypeOK
    <3> QED
      BY <1>1, <2>2, <3>1, <1>t, ClientKeeps DEF Put, TypeOK, clientFrame
  <2>3. CASE ~Closed /\ Go(c, "send") /\ UNCHANGED num
    <3>1. num' = num + (idle' - idle) + Has("send") - Has(pc[c])
      BY <1>1, <2>1, <2>3, <1>t DEF Put, TypeOK
    <3> QED
      BY <1>1, <2>3, <3>1, <1>t, ClientKeeps DEF Put, TypeOK, clientFrame
  <2> QED
    BY <1>1, <2>2, <2>3 DEF Put
<1>2. CASE PutSends(c)
  <2>1. Has(pc[c]) = 1
    BY <1>2, <1>h DEF PutSends, Holding
  <2>2. /\ idle' \in 0..MaxConnections /\ num' <= MaxConnections
        /\ num' = num + (idle' - idle) + Has("out") - Has(pc[c])
    BY <1>2, <2>1, <1>h, <1>t, DbConnPoolAssumption DEF PutSends, TypeOK
  <2> QED
    BY <1>2, <2>2, <1>t, ClientKeeps DEF PutSends, TypeOK, clientFrame
<1>3. CASE PutSeesDone(c)
  <2>1. Has(pc[c]) = 1
    BY <1>3, <1>h DEF PutSeesDone, Holding
  <2>2. /\ idle' \in 0..MaxConnections /\ num' <= MaxConnections
        /\ num' = num + (idle' - idle) + Has("out") - Has(pc[c])
    BY <1>3, <2>1, <1>h, <1>t, DbConnPoolAssumption DEF PutSeesDone, TypeOK
  <2> QED
    BY <1>3, <2>2, <1>t, ClientKeeps DEF PutSeesDone, TypeOK, clientFrame
<1>4. CASE PutPanics(c)
  BY <1>4, <1>t, <1>h, ClientKeeps DEF PutPanics, TypeOK, clientFrame, Holding
<1> QED
  BY <1>1, <1>2, <1>3, <1>4 DEF Return

-----------------------------------------------------------------------------
(* The monitor, Close and the context. *)

Stages == {"sleep", "measure", "grow", "create", "send", "excess", "shrink",
           "close", "stopped", "panicked", "nilPanicked"}
Stands == {"open", "closed", "drain", "drop", "wait", "closing", "final", "done"}

\* A step that moves no client keeps the count when the count of connections
\* changes by what becomes idle and what the monitor and Close hold.
LEMMA OthersCount ==
  ASSUME IInv, pc' = pc, mon' \in Stages, closer' \in Stands,
         minIdle' = minIdle, cancelled' \in BOOLEAN, timedOut' \in BOOLEAN, left' \in Int,
         idle' \in 0..MaxConnections, num' \in Int, num' <= MaxConnections,
         num' = num + (idle' - idle) + (MonitorHas' - MonitorHas) + (CloserHas' - CloserHas)
  PROVE  TypeOK' /\ CountExact'
<1>1. TypeOK /\ CountExact
  BY DEF IInv
<1>2. Held' = Held /\ Held \in Nat
  BY NobodyMoves, HeldType
<1>3. /\ MonitorHas \in {0, 1} /\ CloserHas \in {0, 1}
      /\ MonitorHas' \in {0, 1} /\ CloserHas' \in {0, 1}
  BY DEF MonitorHas, CloserHas
<1>4. num = idle + Held + MonitorHas + CloserHas
  BY <1>1 DEF CountExact, Held
<1>5. num' = idle' + Held' + MonitorHas' + CloserHas'
  BY <1>1, <1>2, <1>3, <1>4 DEF TypeOK
<1>6. CountExact'
  BY <1>5 DEF CountExact, Held
<1>7. num' \in 0..MaxConnections
  <2>1. idle' \in Nat /\ Held' \in Nat /\ MonitorHas' \in Nat /\ CloserHas' \in Nat
    BY <1>2, <1>3, DbConnPoolAssumption
  <2>2. idle' + Held' + MonitorHas' + CloserHas' \in Nat
    BY <2>1, SumIsNatural
  <2> QED
    BY <1>5, <2>2, DbConnPoolAssumption
<1>8. TypeOK'
  BY <1>1, <1>7 DEF TypeOK, Stages, Stands
<1> QED
  BY <1>6, <1>8

\* Every step of the monitor keeps the inductive invariant.
LEMMA MonitorKeeps == ASSUME IInv, Monitor PROVE IInv'
<1>t. TypeOK /\ CloseInv /\ MaxConnections \in Nat /\ minIdle \in Int
  BY DbConnPoolAssumption DEF IInv, TypeOK
<1>f. UNCHANGED monitorFrame => CloseInv' /\ CloserHas' = CloserHas /\ CloserHas \in {0, 1}
  BY <1>t DEF CloseInv, CloserHas, monitorFrame
<1> USE <1>t, <1>f DEF Stages, Stands, Goes, MonitorHas, TypeOK, IInv
<1>1. CASE MonitorStops
  BY <1>1, OthersCount DEF MonitorStops, monitorFrame
<1>2. CASE MonitorTick
  BY <1>2, OthersCount DEF MonitorTick, monitorFrame
<1>3. CASE MonitorMeasure
  BY <1>3, OthersCount DEF MonitorMeasure, monitorFrame, Least
<1>4. CASE MonitorReserve
  BY <1>4, OthersCount DEF MonitorReserve, monitorFrame
<1>5. CASE MonitorCreateSucceeds
  BY <1>5, OthersCount DEF MonitorCreateSucceeds, monitorFrame
<1>6. CASE MonitorCreateFails
  BY <1>6, OthersCount DEF MonitorCreateFails, monitorFrame
<1>7. CASE MonitorSends
  BY <1>7, OthersCount DEF MonitorSends, monitorFrame
<1>8. CASE MonitorSendPanics
  BY <1>8, OthersCount DEF MonitorSendPanics, monitorFrame
<1>9. CASE MonitorGrown
  BY <1>9, OthersCount DEF MonitorGrown, monitorFrame
<1>10. CASE MonitorExcess
  BY <1>10, OthersCount DEF MonitorExcess, monitorFrame
<1>11. CASE MonitorTakes
  BY <1>11, OthersCount DEF MonitorTakes, monitorFrame
<1>12. CASE MonitorCloses
  BY <1>12, OthersCount DEF MonitorCloses, monitorFrame
<1>13. CASE MonitorTakesNil
  BY <1>13, OthersCount DEF MonitorTakesNil, monitorFrame
<1>14. CASE MonitorShrunk
  BY <1>14, OthersCount DEF MonitorShrunk, monitorFrame
<1> QED
  BY <1>1, <1>2, <1>3, <1>4, <1>5, <1>6, <1>7, <1>8, <1>9, <1>10, <1>11, <1>12,
     <1>13, <1>14 DEF Monitor

\* Every step of Close keeps the inductive invariant.  When it sees the count at
\* zero nobody holds a connection, so no Put is past its test of closed.
LEMMA CloseKeeps == ASSUME IInv, Close PROVE IInv'
<1>t. TypeOK /\ CountExact /\ CloseInv /\ MaxConnections \in Nat
  BY DbConnPoolAssumption DEF IInv
<1>m. UNCHANGED closeFrame => MonitorHas' = MonitorHas /\ MonitorHas \in {0, 1}
  BY DEF MonitorHas, closeFrame
<1> USE <1>t, <1>m DEF Stages, Stands, CloserHas, TypeOK, IInv, CloseInv, closeFrame
<1>1. CASE CloseBegins
  BY <1>1, OthersCount DEF CloseBegins
<1>2. CASE CloseSignals
  BY <1>2, OthersCount DEF CloseSignals
<1>3. CASE DrainTakes
  BY <1>3, OthersCount DEF DrainTakes
<1>4. CASE DrainDrops
  BY <1>4, OthersCount DEF DrainDrops
<1>5. CASE DrainEnds
  BY <1>5, OthersCount DEF DrainEnds
<1>6. CASE WaitEnds
  <2>1. TypeOK' /\ CountExact'
    BY <1>6, OthersCount DEF WaitEnds
  <2>2. Held = 0
    <3>1. /\ Held \in Nat /\ idle \in Nat /\ MonitorHas \in Nat /\ CloserHas = 0
          /\ 0 = idle + Held + MonitorHas + CloserHas
      BY <1>6, HeldType DEF WaitEnds, CountExact, Held, MonitorHas
    <3> QED
      BY <3>1
  <2>3. \A c \in Client : pc[c] \notin {"send", "panicked"}
    BY <2>2, HeldType DEF Holders, Holding
  <2> QED
    BY <1>6, <2>1, <2>3 DEF WaitEnds
<1>7. CASE WaitTimesOut
  BY <1>7, OthersCount DEF WaitTimesOut
<1>8. CASE ChannelCloses
  BY <1>8, OthersCount DEF ChannelCloses
<1>9. CASE CloseEnds
  BY <1>9, OthersCount DEF CloseEnds
<1> QED
  BY <1>1, <1>2, <1>3, <1>4, <1>5, <1>6, <1>7, <1>8, <1>9 DEF Close

\* The cancellation of the context keeps the inductive invariant.
LEMMA CancelKeeps == ASSUME IInv, Cancel PROVE IInv'
<1>1. MonitorHas' = MonitorHas /\ CloserHas' = CloserHas /\ MonitorHas \in {0, 1}
      /\ CloserHas \in {0, 1}
  BY DEF Cancel, MonitorHas, CloserHas
<1> QED
  BY <1>1, OthersCount, DbConnPoolAssumption
  DEF Cancel, IInv, TypeOK, CloseInv, Stages, Stands

-----------------------------------------------------------------------------
(* The theorems. *)

\* A new pool satisfies the inductive invariant.
LEMMA InitInvariant == ASSUME Init PROVE IInv
<1>1. Holders = {}
  BY DEF Init, Holders, Holding
<1>2. Cardinality(Holders) = 0
  BY <1>1, FS_EmptySet
<1>3. CountExact
  BY <1>2 DEF Init, CountExact, MonitorHas, CloserHas
<1>4. 0 \in 0..MaxConnections
  BY DbConnPoolAssumption
<1>5. TypeOK
  <2>1. pc \in [Client -> Places]
    BY DEF Init, Places
  <2>2. left \in Int
    BY DEF Init
  <2> QED
    BY <1>4, <2>1, <2>2, Zenon DEF Init, TypeOK, Places
<1> QED
  BY <1>3, <1>5 DEF Init, IInv, CloseInv

\* Every step of the pool, and every stutter, keeps the inductive invariant.
LEMMA NextInvariant == ASSUME IInv, [Next]_vars PROVE IInv'
<1>1. CASE \E c \in Client : Get(c) \/ Return(c)
  BY <1>1, GetKeeps, ReturnKeeps
<1>2. CASE Monitor
  BY <1>2, MonitorKeeps
<1>3. CASE Close
  BY <1>3, CloseKeeps
<1>4. CASE Cancel
  BY <1>4, CancelKeeps
<1>5. CASE UNCHANGED vars
  BY <1>5 DEF vars, IInv, TypeOK, CountExact, CloseInv, Holders, MonitorHas, CloserHas
<1> QED
  BY <1>1, <1>2, <1>3, <1>4, <1>5 DEF Next, Idles

\* The inductive invariant holds in every state that Get, Put, the monitor and
\* Close can reach together.
THEOREM PoolInvariance == Spec => []IInv
  BY InitInvariant, NextInvariant, PTL DEF Spec

\* Types: Get and the monitor never exceed MaxConnections, and no decrement of
\* numConnections goes below zero.
THEOREM PoolTypeCorrect == Spec => []TypeOK
  BY PoolInvariance, PTL DEF IInv

\* numConnections is exact between any two steps of Get, Put, monitor and Close.
THEOREM CountIsExact == Spec => []CountExact
  BY PoolInvariance, PTL DEF IInv

\* A connection about to be given back by Put or by the monitor finds room in
\* the channel: it is counted, and there are no more than the channel holds.
THEOREM ReturnAlwaysFits == Spec => []ReturnFits
<1>1. ASSUME IInv PROVE ReturnFits
  <2> USE DbConnPoolAssumption
  <2>1. /\ TypeOK /\ Held \in Nat /\ MonitorHas \in {0, 1} /\ CloserHas \in {0, 1}
        /\ num = idle + Held + MonitorHas + CloserHas
    BY <1>1, HeldType DEF IInv, CountExact, Held, MonitorHas, CloserHas
  <2>2. CASE mon = "send"
    BY <2>1, <2>2 DEF ReturnFits, TypeOK, MonitorHas
  <2>3. CASE \E c \in Client : pc[c] = "send"
    <3>1. Held >= 1
      BY <2>3, HolderCounts DEF Holding
    <3> QED
      BY <2>1, <3>1 DEF ReturnFits, TypeOK
  <2> QED
    BY <2>2, <2>3 DEF ReturnFits
<1> QED
  BY <1>1, PoolInvariance, PTL

\* A Close that did not give up at its deadline closes the channel only when no
\* Put is past its test of closed.
THEOREM CloseAwaitsPuts == Spec => []CloseWaitsForPuts
<1>1. ASSUME IInv PROVE CloseWaitsForPuts
  BY <1>1 DEF IInv, CloseInv, CloseWaitsForPuts, ChannelClosed
<1> QED
  BY <1>1, PoolInvariance, PTL
=============================================================================
