------------------------------- MODULE Deque --------------------------------
(***************************************************************************)
(* What internal/queue promises: a double-ended queue of items that may be *)
(* bounded, that refuses additions when closed or full, and removals when  *)
(* empty or closed.                                                        *)
(***************************************************************************)
EXTENDS Integers, Sequences

CONSTANTS Item, MaxItems    \* 0 for a queue without bound

VARIABLES items, shut, answer
dequeVars == <<items, shut, answer>>

DequeInit == items = <<>> /\ shut = FALSE /\ answer = "none"

Refused(why) == answer' = why /\ UNCHANGED <<items, shut>>

AddsTo(newItems) ==
    \/ shut /\ Refused("closed")
    \/ ~shut /\ MaxItems > 0 /\ Len(items) >= MaxItems /\ Refused("full")
    \/ /\ ~shut /\ (MaxItems > 0 => Len(items) < MaxItems)
       /\ items' = newItems /\ answer' = "added" /\ UNCHANGED shut

RemovesTo(item, rest) ==
    \/ items = <<>> /\ Refused("empty")
    \/ items # <<>> /\ shut /\ Refused("closed")
    \/ items # <<>> /\ ~shut /\ items' = rest /\ answer' = item /\ UNCHANGED shut

DequeNext ==
    \/ \E i \in Item : AddsTo(Append(items, i)) \/ AddsTo(<<i>> \o items)
    \/ RemovesTo(Head(items), Tail(items))
    \/ RemovesTo(items[Len(items)], SubSeq(items, 1, Len(items) - 1))
    \/ items' = <<>> /\ answer' = "cleared" /\ UNCHANGED shut
    \/ shut' = TRUE /\ answer' = "none" /\ UNCHANGED items

DequeSpec == DequeInit /\ [][DequeNext]_dequeVars
=============================================================================
