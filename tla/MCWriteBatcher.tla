--------------------------- MODULE MCWriteBatcher ---------------------------
(* WriteBatcher with a channel of one and batches of two, so that a handful of *)
(* writes fills the channel, overflows to disk and fills a batch.              *)
EXTENDS WriteBatcher, TLC

CONSTANTS Small, Large      \* writes below and at the byte limit

Writes == Small \cup Large
Sizes == [x \in Writes |-> IF x \in Large THEN 2 ELSE 1]
Interchangeable == Permutations(Small)
=============================================================================
