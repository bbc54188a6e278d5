----------------------------- MODULE WriteSink -----------------------------
(***************************************************************************)
(* What internal/writebatcher promises the code that submits to it: an     *)
(* accepted write is held until one transaction of at most MaxBatchSize    *)
(* writes commits it, or it is discarded whole by the drop hook, or it is  *)
(* lost.  It is never in two of those states and never committed twice.    *)
(* When losing a write is acceptable is not said here but by the           *)
(* properties of WriteBatcher.                                             *)
(***************************************************************************)
EXTENDS Naturals, FiniteSets

CONSTANTS Item,           \* writes, each submitted at most once
          MaxBatchSize

VARIABLES held, committed, discarded, lost

sinkVars == <<held, committed, discarded, lost>>

SinkInit == held = {} /\ committed = {} /\ discarded = {} /\ lost = {}

Batch(S) == S \subseteq held /\ Cardinality(S) \in 1..MaxBatchSize

Accept(x) == /\ x \notin held \cup committed \cup discarded \cup lost
             /\ held' = held \cup {x}
             /\ UNCHANGED <<committed, discarded, lost>>

Commit(S) == /\ Batch(S) /\ held' = held \ S /\ committed' = committed \cup S
             /\ UNCHANGED <<discarded, lost>>

Discard(S) == /\ Batch(S) /\ held' = held \ S /\ discarded' = discarded \cup S
              /\ UNCHANGED <<committed, lost>>

Lose(S) == /\ S \subseteq held /\ held' = held \ S /\ lost' = lost \cup S
           /\ UNCHANGED <<committed, discarded>>

SinkNext == \/ \E x \in Item : Accept(x)
            \/ \E S \in SUBSET held : Commit(S) \/ Discard(S) \/ Lose(S)

SinkSpec == SinkInit /\ [][SinkNext]_sinkVars
=============================================================================
