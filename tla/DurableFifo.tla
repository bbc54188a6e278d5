---------------------------- MODULE DurableFifo ----------------------------
(***************************************************************************)
(* What internal/dque promises its two callers (the write batcher and the  *)
(* discovery backlog): a first-in first-out sequence that a restart of the *)
(* process neither shortens, reorders nor repeats.  There is no action for *)
(* a crash or a reopen, and that is the point: to the holder of the queue  *)
(* they are invisible.                                                     *)
(***************************************************************************)
EXTENDS Sequences

CONSTANT Item           \* the values the queue can hold

VARIABLES content,      \* the items waiting, oldest first
          taken         \* every item ever removed, in the order of removal

fifoVars == <<content, taken>>

FifoInit == content = <<>> /\ taken = <<>>

Put(x) == content' = Append(content, x) /\ UNCHANGED taken

Take == /\ content # <<>>
        /\ taken' = Append(taken, Head(content))
        /\ content' = Tail(content)

FifoNext == Take \/ \E x \in Item : Put(x)

FifoSpec == FifoInit /\ [][FifoNext]_fifoVars
=============================================================================
