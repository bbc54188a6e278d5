------------------------------- MODULE MCDQue -------------------------------
(* DQue on a few items in segments of two: enough for three segments, so that *)
(* one of them is on disk only, and for a retirement of each kind.            *)
EXTENDS DQue, TLC

Values == Permutations(Item)
=============================================================================
