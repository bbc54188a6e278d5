-------------------------- MODULE RingQueueProofs ---------------------------
(***************************************************************************)
(* The ring buffer implements the double-ended queue, for any items, any   *)
(* minimum and initial capacity and any bound.                             *)
(*                                                                         *)
(* The lemmas follow the code from the inside: the mask, a slice of the    *)
(* ring, the four ways to touch a cell, the doubling and the halving.      *)
(* Each says what becomes of the slice, which is the queue's contents; the *)
(* steps of the queue then are steps of Deque.                             *)
(***************************************************************************)
EXTENDS RingQueue, SequenceTheorems, TLAPS

Cell == QueueItem \cup {Freed}

(* n items lie from h up to t in the ring b.                               *)
Ring(b, h, t, n) ==
  /\ b \in Seq(Cell) /\ CapOf(b) \in Nat \ {0}
  /\ h \in 0..CapOf(b) - 1 /\ n \in 0..CapOf(b) /\ t = Wrap(h + n, b)

RingInv == Ring(buf, headAt, tailAt, queueLen)

-----------------------------------------------------------------------------
(* The mask: positions past either end come back at the other.             *)
LEMMA WrapIs ==
  ASSUME NEW b, CapOf(b) \in Nat \ {0}, NEW n \in -1..2 * CapOf(b) - 1
  PROVE  /\ Wrap(n, b) = IF n = -1 THEN CapOf(b) - 1
                         ELSE IF n < CapOf(b) THEN n ELSE n - CapOf(b)
         /\ Wrap(n, b) \in 0..CapOf(b) - 1
<1> DEFINE c == CapOf(b)
<1> HIDE DEF c
<1>1. c \in Nat \ {0} /\ n \in -1..2 * c - 1 /\ Wrap(n, b) = (n + c) % c BY DEF c, Wrap
<1>2. ASSUME NEW m \in 0..c - 1 PROVE m % c = m /\ (m + c) % c = m /\ (m + c + c) % c = m
  <2>1. m % c = m BY <1>1
  <2>2. (m + c) % c = m BY <1>1
  <2>3. (m + c + c) % c = m BY <1>1
  <2> QED BY <2>1, <2>2, <2>3
<1>3. CASE n = -1
  <2>1. c - 1 \in 0..c - 1 /\ n + c = c - 1 BY <1>1, <1>3
  <2>2. (n + c) % c = c - 1 BY <1>2, <2>1
  <2> QED BY <1>1, <1>3, <2>1, <2>2 DEF c
<1>4. CASE n \in 0..c - 1
  <2>1. (n + c) % c = n BY <1>2, <1>4
  <2> QED BY <1>1, <1>4, <2>1 DEF c
<1>5. CASE n \in c..2 * c - 1
  <2>1. n - c \in 0..c - 1 /\ n + c = (n - c) + c + c BY <1>1, <1>5
  <2>2. (n + c) % c = n - c BY <1>2, <2>1
  <2> QED BY <1>1, <1>5, <2>1, <2>2 DEF c
<1> QED BY <1>1, <1>3, <1>4, <1>5

(* A slice is a sequence of as many cells.                                 *)
LEMMA SliceIs ==
  ASSUME NEW b, NEW h, NEW t, NEW n, Ring(b, h, t, n)
  PROVE  /\ Slice(b, h, n) \in Seq(Cell) /\ Len(Slice(b, h, n)) = n
         /\ \A i \in 1..n : /\ Slice(b, h, n)[i] = b[Wrap(h + i - 1, b) + 1]
                            /\ Wrap(h + i - 1, b) \in 0..CapOf(b) - 1
<1>1. /\ CapOf(b) \in Nat \ {0} /\ h \in 0..CapOf(b) - 1 /\ n \in 0..CapOf(b)
      /\ b \in Seq(Cell) /\ Len(b) = CapOf(b)
  BY DEF Ring, CapOf
<1>2. ASSUME NEW i \in 1..n
      PROVE  /\ Wrap(h + i - 1, b) \in 0..CapOf(b) - 1
             /\ b[Wrap(h + i - 1, b) + 1] \in Cell
  <2>1. h + i - 1 \in -1..2 * CapOf(b) - 1 BY <1>1
  <2>2. Wrap(h + i - 1, b) \in 0..CapOf(b) - 1 BY <1>1, <2>1, WrapIs
  <2>3. Wrap(h + i - 1, b) + 1 \in 1..Len(b) BY <1>1, <2>2
  <2> QED BY <1>1, <2>2, <2>3, ElementOfSeq
<1>3. Slice(b, h, n) = [i \in 1..n |-> b[Wrap(h + i - 1, b) + 1]] BY DEF Slice, CellAt
<1>4. Slice(b, h, n) \in [1..n -> Cell] BY <1>2, <1>3
<1>5. n \in Nat BY <1>1
<1> QED BY <1>2, <1>3, <1>4, <1>5

(* An item written behind the last.                                        *)
PutsBack(b, h, t, n, x) ==
  /\ Ring([b EXCEPT ![t + 1] = x], h, Wrap(t + 1, b), n + 1)
  /\ Slice([b EXCEPT ![t + 1] = x], h, n + 1) = Append(Slice(b, h, n), x)

\* AddBack writes the cell at the tail and moves the tail on.
LEMMA PutBack ==
  ASSUME NEW b, NEW h, NEW t, NEW n, Ring(b, h, t, n), n < CapOf(b), NEW x \in QueueItem
  PROVE  PutsBack(b, h, t, n, x)
<1> DEFINE b2 == [b EXCEPT ![t + 1] = x]
           c == CapOf(b)
<1>1. /\ c \in Nat \ {0} /\ h \in 0..c - 1 /\ n \in 0..c - 1 /\ b \in Seq(Cell) /\ Len(b) = c
      /\ t = Wrap(h + n, b) /\ x \in Cell
  BY DEF Ring, CapOf, Cell
<1> HIDE DEF c
<1>2. /\ t = IF h + n < c THEN h + n ELSE h + n - c
      /\ t \in 0..c - 1
  <2>1. h + n \in -1..2 * c - 1 /\ h + n # -1 BY <1>1
  <2> QED BY <1>1, <2>1, WrapIs DEF c
<1>3. /\ b2 \in Seq(Cell) /\ Len(b2) = c /\ CapOf(b2) = c
      /\ \A j \in 1..c : b2[j] = IF j = t + 1 THEN x ELSE b[j]
  <2>1. t + 1 \in 1..Len(b) BY <1>1, <1>2
  <2> QED BY <1>1, <2>1, ExceptSeq DEF CapOf
<1>4. \A m : Wrap(m, b2) = Wrap(m, b) BY <1>3 DEF Wrap, c
<1> HIDE DEF b2
<1>5. Wrap(t + 1, b) = Wrap(h + n + 1, b)
  <2>1. t + 1 \in -1..2 * c - 1 /\ h + n + 1 \in -1..2 * c - 1 BY <1>1, <1>2
  <2>2. Wrap(t + 1, b) = IF t + 1 < c THEN t + 1 ELSE t + 1 - c
    BY SMTT(30), <1>1, <1>2, <2>1, WrapIs DEF c
  <2>3. Wrap(h + n + 1, b) = IF h + n + 1 < c THEN h + n + 1 ELSE h + n + 1 - c
    BY <1>1, <2>1, WrapIs DEF c
  <2> QED BY <1>1, <1>2, <2>2, <2>3
<1>6. Ring(b2, h, Wrap(t + 1, b), n + 1)
  <2>1. Wrap(t + 1, b) = Wrap(h + (n + 1), b2) BY <1>1, <1>4, <1>5
  <2> QED BY <1>1, <1>3, <2>1 DEF Ring
<1>7. Slice(b2, h, n + 1) = Append(Slice(b, h, n), x)
  <2>1. /\ Slice(b, h, n) \in Seq(Cell) /\ Len(Slice(b, h, n)) = n
        /\ \A i \in 1..n : Slice(b, h, n)[i] = b[Wrap(h + i - 1, b) + 1]
    BY SliceIs
  <2>2. /\ Slice(b2, h, n + 1) \in Seq(Cell) /\ Len(Slice(b2, h, n + 1)) = n + 1
        /\ \A i \in 1..n + 1 : Slice(b2, h, n + 1)[i] = b2[Wrap(h + i - 1, b2) + 1]
    BY <1>6, SliceIs
  <2>3. /\ Append(Slice(b, h, n), x) \in Seq(Cell)
        /\ Len(Append(Slice(b, h, n), x)) = n + 1
        /\ \A i \in 1..n : Append(Slice(b, h, n), x)[i] = Slice(b, h, n)[i]
        /\ Append(Slice(b, h, n), x)[n + 1] = x
    BY <1>1, <2>1, AppendProperties
  <2>4. ASSUME NEW i \in 1..n + 1
        PROVE  Slice(b2, h, n + 1)[i] = Append(Slice(b, h, n), x)[i]
    <3> DEFINE w == Wrap(h + i - 1, b)
    <3>1. /\ h + i - 1 \in -1..2 * c - 1 /\ h + i - 1 # -1 BY <1>1
    <3>2. w = (IF h + i - 1 < c THEN h + i - 1 ELSE h + i - 1 - c) /\ w \in 0..c - 1
      BY <1>1, <3>1, WrapIs DEF c
    <3>3. Slice(b2, h, n + 1)[i] = IF w = t THEN x ELSE b[w + 1]
      <4>1. w + 1 \in 1..c /\ (w + 1 = t + 1 <=> w = t) BY <1>1, <1>2, <3>2
      <4> QED BY <1>3, <1>4, <2>2, <4>1
    <3> HIDE DEF w
    <3>4. CASE i = n + 1
      <4>1. w = t BY <1>1, <1>2, <3>2, <3>4
      <4> QED BY <2>3, <3>3, <3>4, <4>1
    <3>5. CASE i \in 1..n
      <4>1. w # t BY <1>1, <1>2, <3>2, <3>5
      <4> QED BY <2>1, <2>3, <3>3, <3>5, <4>1 DEF w
    <3>6. i = n + 1 \/ i \in 1..n BY <1>1
    <3> QED BY <3>4, <3>5, <3>6
  <2> QED BY <2>2, <2>3, <2>4, SeqEqual
<1> QED BY <1>6, <1>7 DEF PutsBack, b2

(* An item written before the first.                                       *)
LEMMA PutFront ==
  ASSUME NEW b, NEW h, NEW t, NEW n, Ring(b, h, t, n), n < CapOf(b), NEW x \in QueueItem
  PROVE  /\ Ring([b EXCEPT ![Wrap(h - 1, b) + 1] = x], Wrap(h - 1, b), t, n + 1)
         /\ Slice([b EXCEPT ![Wrap(h - 1, b) + 1] = x], Wrap(h - 1, b), n + 1)
              = <<x>> \o Slice(b, h, n)
<1> DEFINE g == Wrap(h - 1, b)
           b2 == [b EXCEPT ![g + 1] = x]
           c == CapOf(b)
<1>1. /\ c \in Nat \ {0} /\ h \in 0..c - 1 /\ n \in 0..c - 1 /\ b \in Seq(Cell) /\ Len(b) = c
      /\ t = Wrap(h + n, b) /\ x \in Cell
  BY DEF Ring, CapOf, Cell
<1> HIDE DEF c, g
<1>2. g = (IF h = 0 THEN c - 1 ELSE h - 1) /\ g \in 0..c - 1
  <2>1. h - 1 \in -1..2 * c - 1 /\ h - 1 < c BY <1>1
  <2> QED BY <1>1, <2>1, WrapIs DEF c, g
<1>3. /\ b2 \in Seq(Cell) /\ Len(b2) = c /\ CapOf(b2) = c
      /\ \A j \in 1..c : b2[j] = IF j = g + 1 THEN x ELSE b[j]
  <2>1. g + 1 \in 1..Len(b) BY <1>1, <1>2
  <2> QED BY <1>1, <2>1, ExceptSeq DEF CapOf
<1>4. \A m : Wrap(m, b2) = Wrap(m, b) BY <1>3 DEF Wrap, c
<1> HIDE DEF b2
<1>5. t = Wrap(g + (n + 1), b)
  <2>1. h + n \in -1..2 * c - 1 /\ g + (n + 1) \in -1..2 * c - 1 BY <1>1, <1>2
  <2>2. Wrap(h + n, b) = IF h + n < c THEN h + n ELSE h + n - c BY <1>1, <2>1, WrapIs DEF c
  <2>3. Wrap(g + (n + 1), b) = IF g + (n + 1) < c THEN g + (n + 1) ELSE g + (n + 1) - c
    BY SMTT(30), <1>1, <1>2, <2>1, WrapIs DEF c
  <2> QED BY <1>1, <1>2, <2>2, <2>3
<1>6. Ring(b2, g, t, n + 1)
  <2>1. t = Wrap(g + (n + 1), b2) BY <1>4, <1>5
  <2> QED BY <1>1, <1>2, <1>3, <2>1 DEF Ring
<1>7. Slice(b2, g, n + 1) = <<x>> \o Slice(b, h, n)
  <2>1. /\ Slice(b, h, n) \in Seq(Cell) /\ Len(Slice(b, h, n)) = n
        /\ \A i \in 1..n : Slice(b, h, n)[i] = b[Wrap(h + i - 1, b) + 1]
    BY SliceIs
  <2>2. /\ Slice(b2, g, n + 1) \in Seq(Cell) /\ Len(Slice(b2, g, n + 1)) = n + 1
        /\ \A i \in 1..n + 1 : Slice(b2, g, n + 1)[i] = b2[Wrap(g + i - 1, b2) + 1]
    BY <1>6, SliceIs
  <2>a. <<x>> \in Seq(Cell) /\ Len(<<x>>) = 1 /\ <<x>>[1] = x BY <1>1
  <2>3. /\ <<x>> \o Slice(b, h, n) \in Seq(Cell)
        /\ Len(<<x>> \o Slice(b, h, n)) = n + 1
        /\ \A i \in 1..1 + n : (<<x>> \o Slice(b, h, n))[i] =
                                  IF i <= 1 THEN <<x>>[i] ELSE Slice(b, h, n)[i - 1]
    BY <1>1, <2>1, <2>a, ConcatProperties
  <2>4. ASSUME NEW i \in 1..n + 1
        PROVE  Slice(b2, g, n + 1)[i] = (<<x>> \o Slice(b, h, n))[i]
    <3> DEFINE w == Wrap(g + i - 1, b)
    <3>1. /\ g + i - 1 \in -1..2 * c - 1 /\ g + i - 1 # -1 BY <1>1, <1>2
    <3>2. w = (IF g + i - 1 < c THEN g + i - 1 ELSE g + i - 1 - c) /\ w \in 0..c - 1
      BY SMTT(30), <1>1, <1>2, <3>1, WrapIs DEF c
    <3>3. Slice(b2, g, n + 1)[i] = IF w = g THEN x ELSE b[w + 1]
      <4>1. w + 1 \in 1..c /\ (w + 1 = g + 1 <=> w = g) BY <1>1, <1>2, <3>2
      <4> QED BY <1>3, <1>4, <2>2, <4>1
    <3> HIDE DEF w
    <3>4. CASE i = 1
      <4>1. w = g BY <1>1, <1>2, <3>2, <3>4
      <4>2. (<<x>> \o Slice(b, h, n))[i] = x BY <1>1, <2>3, <2>a, <3>4
      <4> QED BY <3>3, <4>1, <4>2
    <3>5. CASE i \in 2..n + 1
      <4>1. w # g BY <1>1, <1>2, <3>2, <3>5
      <4>2. i - 1 \in 1..n BY <1>1, <3>5
      <4>3. (<<x>> \o Slice(b, h, n))[i] = Slice(b, h, n)[i - 1] BY <1>1, <2>3, <3>5
      <4>4. Slice(b, h, n)[i - 1] = b[Wrap(h + (i - 1) - 1, b) + 1] BY <2>1, <4>2
      <4>5. Wrap(h + (i - 1) - 1, b) = w
        <5>1. h + (i - 1) - 1 \in -1..2 * c - 1 /\ h + (i - 1) - 1 # -1 BY <1>1, <4>2
        <5>2. Wrap(h + (i - 1) - 1, b) =
                IF h + (i - 1) - 1 < c THEN h + (i - 1) - 1 ELSE h + (i - 1) - 1 - c
          BY <1>1, <5>1, WrapIs DEF c
        <5> QED BY <1>1, <1>2, <3>2, <4>2, <5>2
      <4> QED BY <3>3, <4>1, <4>3, <4>4, <4>5
    <3>6. i = 1 \/ i \in 2..n + 1 BY <1>1
    <3> QED BY <3>4, <3>5, <3>6
  <2> QED BY <2>2, <2>3, <2>4, SeqEqual
<1> QED BY <1>6, <1>7 DEF b2, g

(* Freeing a cell outside the slice leaves the slice.                      *)
LEMMA FreeOutside ==
  ASSUME NEW b, NEW h, NEW t, NEW n, Ring(b, h, t, n), NEW i \in 0..CapOf(b) - 1,
         \A k \in 1..n : Wrap(h + k - 1, b) # i
  PROVE  /\ Ring([b EXCEPT ![i + 1] = Freed], h, t, n)
         /\ Slice([b EXCEPT ![i + 1] = Freed], h, n) = Slice(b, h, n)
<1> DEFINE b2 == [b EXCEPT ![i + 1] = Freed]
           c == CapOf(b)
<1>1. /\ c \in Nat \ {0} /\ h \in 0..c - 1 /\ n \in 0..c /\ b \in Seq(Cell) /\ Len(b) = c
      /\ t = Wrap(h + n, b) /\ Freed \in Cell /\ i \in 0..c - 1
  BY DEF Ring, CapOf, Cell
<1> HIDE DEF c
<1>3. /\ b2 \in Seq(Cell) /\ Len(b2) = c /\ CapOf(b2) = c
      /\ \A j \in 1..c : b2[j] = IF j = i + 1 THEN Freed ELSE b[j]
  <2>1. i + 1 \in 1..Len(b) BY <1>1
  <2> QED BY <1>1, <2>1, ExceptSeq DEF CapOf
<1>4. \A m : Wrap(m, b2) = Wrap(m, b) BY <1>3 DEF Wrap, c
<1> HIDE DEF b2
<1>5. Ring(b2, h, t, n) BY <1>1, <1>3, <1>4 DEF Ring
<1>6. /\ Slice(b, h, n) \in Seq(Cell) /\ Len(Slice(b, h, n)) = n
      /\ \A k \in 1..n : /\ Slice(b, h, n)[k] = b[Wrap(h + k - 1, b) + 1]
                         /\ Wrap(h + k - 1, b) \in 0..c - 1
  BY SliceIs DEF c
<1>7. /\ Slice(b2, h, n) \in Seq(Cell) /\ Len(Slice(b2, h, n)) = n
      /\ \A k \in 1..n : Slice(b2, h, n)[k] = b2[Wrap(h + k - 1, b2) + 1]
  BY <1>5, SliceIs
<1>8. ASSUME NEW k \in 1..n PROVE Slice(b2, h, n)[k] = Slice(b, h, n)[k]
  <2> DEFINE w == Wrap(h + k - 1, b)
  <2>1. w \in 0..c - 1 /\ w # i BY <1>6
  <2> HIDE DEF w
  <2>2. w + 1 \in 1..c /\ w + 1 # i + 1 BY <1>1, <2>1
  <2>3. b2[w + 1] = b[w + 1] BY <1>3, <2>2
  <2>4. Slice(b2, h, n)[k] = b2[w + 1] BY <1>4, <1>7 DEF w
  <2>5. Slice(b, h, n)[k] = b[w + 1] BY <1>6 DEF w
  <2> QED BY <2>3, <2>4, <2>5
<1>9. Slice(b2, h, n) = Slice(b, h, n) BY <1>6, <1>7, <1>8, SeqEqual
<1> QED BY <1>5, <1>9 DEF b2

(* What is left when the first item is taken.                              *)
LEMMA DropFront ==
  ASSUME NEW b, NEW h, NEW t, NEW n, Ring(b, h, t, n), n > 0
  PROVE  /\ Ring(b, Wrap(h + 1, b), t, n - 1)
         /\ Slice(b, h, n) # <<>> /\ Head(Slice(b, h, n)) = b[h + 1]
         /\ Slice(b, Wrap(h + 1, b), n - 1) = Tail(Slice(b, h, n))
         /\ \A k \in 1..n - 1 : Wrap(Wrap(h + 1, b) + k - 1, b) # h
<1> DEFINE g == Wrap(h + 1, b)
           c == CapOf(b)
<1>1. /\ c \in Nat \ {0} /\ h \in 0..c - 1 /\ n \in 1..c /\ b \in Seq(Cell)
      /\ t = Wrap(h + n, b)
  BY DEF Ring
<1> HIDE DEF c, g
<1>w. \A m \in -1..2 * c - 1 : m # -1 => Wrap(m, b) = IF m < c THEN m ELSE m - c
  BY <1>1, WrapIs DEF c
<1>2. g = (IF h + 1 < c THEN h + 1 ELSE h + 1 - c) /\ g \in 0..c - 1
  <2>1. h + 1 \in -1..2 * c - 1 /\ h + 1 # -1 BY <1>1
  <2> QED BY <1>1, <2>1, WrapIs DEF c, g
<1>3. t = Wrap(g + (n - 1), b)
  <2>1. /\ h + n \in -1..2 * c - 1 /\ g + (n - 1) \in -1..2 * c - 1
        /\ h + n # -1 /\ g + (n - 1) # -1
    BY <1>1, <1>2
  <2>2. Wrap(h + n, b) = IF h + n < c THEN h + n ELSE h + n - c BY <1>1, <2>1, WrapIs DEF c
  <2>3. Wrap(g + (n - 1), b) = IF g + (n - 1) < c THEN g + (n - 1) ELSE g + (n - 1) - c
    BY <1>1, <1>2, <1>w, <2>1
  <2> QED BY <1>1, <1>2, <2>2, <2>3
<1>4. Ring(b, g, t, n - 1) BY <1>1, <1>2, <1>3 DEF Ring, c
<1>5. /\ Slice(b, h, n) \in Seq(Cell) /\ Len(Slice(b, h, n)) = n
      /\ \A i \in 1..n : Slice(b, h, n)[i] = b[Wrap(h + i - 1, b) + 1]
  BY SliceIs
<1>6. /\ Slice(b, g, n - 1) \in Seq(Cell) /\ Len(Slice(b, g, n - 1)) = n - 1
      /\ \A i \in 1..n - 1 : Slice(b, g, n - 1)[i] = b[Wrap(g + i - 1, b) + 1]
  BY <1>4, SliceIs
<1>7. /\ Slice(b, h, n) # <<>> /\ Tail(Slice(b, h, n)) \in Seq(Cell)
      /\ Len(Tail(Slice(b, h, n))) = n - 1
      /\ \A i \in 1..n - 1 : Tail(Slice(b, h, n))[i] = Slice(b, h, n)[i + 1]
  <2>1. Slice(b, h, n) # <<>> BY <1>1, <1>5, EmptySeq
  <2> QED BY <1>5, <2>1, HeadTailProperties
<1>8. Head(Slice(b, h, n)) = b[h + 1]
  <2>1. Wrap(h + 1 - 1, b) = h
    <3>1. h + 1 - 1 \in -1..2 * c - 1 /\ h + 1 - 1 = h /\ h # -1 /\ h < c BY <1>1
    <3> QED BY <1>1, <3>1, WrapIs DEF c
  <2>2. 1 \in 1..n BY <1>1
  <2>3. Slice(b, h, n)[1] = b[Wrap(h + 1 - 1, b) + 1] BY <1>5, <2>2
  <2>4. Head(Slice(b, h, n)) = Slice(b, h, n)[1] BY <1>5, <1>7
  <2> QED BY <2>1, <2>3, <2>4
<1>9. ASSUME NEW i \in 1..n - 1
      PROVE  /\ Slice(b, g, n - 1)[i] = Tail(Slice(b, h, n))[i]
             /\ Wrap(g + i - 1, b) # h
  <2>1. /\ g + i - 1 \in -1..2 * c - 1 /\ g + i - 1 # -1
        /\ h + (i + 1) - 1 \in -1..2 * c - 1 /\ h + (i + 1) - 1 # -1
    BY <1>1, <1>2
  <2>2. Wrap(g + i - 1, b) = IF g + i - 1 < c THEN g + i - 1 ELSE g + i - 1 - c
    BY <1>1, <1>2, <1>w, <2>1
  <2>3. Wrap(h + (i + 1) - 1, b) =
          IF h + (i + 1) - 1 < c THEN h + (i + 1) - 1 ELSE h + (i + 1) - 1 - c
    BY <1>1, <2>1, WrapIs DEF c
  <2>4. Wrap(g + i - 1, b) = Wrap(h + (i + 1) - 1, b) BY <1>1, <1>2, <2>2, <2>3
  <2>5. Wrap(g + i - 1, b) # h BY <1>1, <1>2, <2>2
  <2>6. i + 1 \in 1..n BY <1>1
  <2>7. Slice(b, h, n)[i + 1] = b[Wrap(h + (i + 1) - 1, b) + 1] BY <1>5, <2>6
  <2>8. Slice(b, g, n - 1)[i] = b[Wrap(g + i - 1, b) + 1] BY <1>6
  <2>9. Tail(Slice(b, h, n))[i] = Slice(b, h, n)[i + 1] BY <1>7
  <2> QED BY <2>4, <2>5, <2>7, <2>8, <2>9
<1>10. Slice(b, g, n - 1) = Tail(Slice(b, h, n)) BY <1>6, <1>7, <1>9, SeqEqual
<1>11. \A k \in 1..n - 1 : Wrap(g + k - 1, b) # h BY <1>9
<1> QED BY <1>4, <1>7, <1>8, <1>10, <1>11 DEF g

(* What is left when the last item is taken.                               *)
TakesLast(b, h, t, n) == Slice(b, h, n)[n] = b[Wrap(t - 1, b) + 1]

\* RemoveBack moves the tail back over the last cell.
LEMMA DropBack ==
  ASSUME NEW b, NEW h, NEW t, NEW n, Ring(b, h, t, n), n > 0
  PROVE  /\ Ring(b, h, Wrap(t - 1, b), n - 1) /\ Wrap(t - 1, b) \in 0..CapOf(b) - 1
         /\ Slice(b, h, n) # <<>> /\ Len(Slice(b, h, n)) = n
         /\ TakesLast(b, h, t, n)
         /\ Slice(b, h, n - 1) = SubSeq(Slice(b, h, n), 1, n - 1)
         /\ \A k \in 1..n - 1 : Wrap(h + k - 1, b) # Wrap(t - 1, b)
<1> DEFINE u == Wrap(t - 1, b)
           c == CapOf(b)
<1>1. /\ c \in Nat \ {0} /\ h \in 0..c - 1 /\ n \in 1..c /\ b \in Seq(Cell)
      /\ t = Wrap(h + n, b)
  BY DEF Ring
<1> HIDE DEF c, u
<1>2. t = (IF h + n < c THEN h + n ELSE h + n - c) /\ t \in 0..c - 1
  <2>1. h + n \in -1..2 * c - 1 /\ h + n # -1 BY <1>1
  <2> QED BY <1>1, <2>1, WrapIs DEF c
<1>3. u = (IF t = 0 THEN c - 1 ELSE t - 1) /\ u \in 0..c - 1
  <2>1. t - 1 \in -1..2 * c - 1 /\ t - 1 < c BY <1>1, <1>2
  <2> QED BY <1>1, <1>2, <2>1, WrapIs DEF c, u
<1>4. u = Wrap(h + (n - 1), b) /\ u = Wrap(h + n - 1, b)
  <2>1. /\ h + (n - 1) \in -1..2 * c - 1 /\ h + (n - 1) # -1 /\ h + n - 1 = h + (n - 1) BY <1>1
  <2>2. Wrap(h + (n - 1), b) = IF h + (n - 1) < c THEN h + (n - 1) ELSE h + (n - 1) - c
    BY <1>1, <2>1, WrapIs DEF c
  <2>3. u = Wrap(h + (n - 1), b) BY <1>1, <1>2, <1>3, <2>2
  <2> QED BY <2>1, <2>3
<1>5. Ring(b, h, u, n - 1) BY <1>1, <1>4 DEF Ring, c
<1>6. /\ Slice(b, h, n) \in Seq(Cell) /\ Len(Slice(b, h, n)) = n
      /\ \A i \in 1..n : Slice(b, h, n)[i] = b[Wrap(h + i - 1, b) + 1]
  BY SliceIs
<1>7. /\ Slice(b, h, n - 1) \in Seq(Cell) /\ Len(Slice(b, h, n - 1)) = n - 1
      /\ \A i \in 1..n - 1 : Slice(b, h, n - 1)[i] = b[Wrap(h + i - 1, b) + 1]
  BY <1>5, SliceIs
<1>8. Slice(b, h, n) # <<>> BY <1>1, <1>6, EmptySeq
<1>9. Slice(b, h, n)[n] = b[u + 1]
  <2>1. n \in 1..n BY <1>1
  <2> QED BY <1>4, <1>6, <2>1
<1>10. /\ SubSeq(Slice(b, h, n), 1, n - 1) \in Seq(Cell)
       /\ Len(SubSeq(Slice(b, h, n), 1, n - 1)) = n - 1
       /\ \A i \in 1..n - 1 : SubSeq(Slice(b, h, n), 1, n - 1)[i] = Slice(b, h, n)[i]
  <2>1. \A i \in 1..n - 1 : Slice(b, h, n)[i] \in Cell
    <3>1. \A i \in 1..n - 1 : i \in 1..Len(Slice(b, h, n)) BY <1>1, <1>6
    <3> QED BY <1>6, <3>1, ElementOfSeq
  <2>2. 1 \in Int /\ n - 1 \in Int BY <1>1
  <2>3. /\ SubSeq(Slice(b, h, n), 1, n - 1) \in Seq(Cell)
        /\ Len(SubSeq(Slice(b, h, n), 1, n - 1)) = IF 1 <= n - 1 THEN n - 1 - 1 + 1 ELSE 0
        /\ \A i \in 1..n - 1 - 1 + 1 :
             SubSeq(Slice(b, h, n), 1, n - 1)[i] = Slice(b, h, n)[1 + i - 1]
    BY <2>1, <2>2, SubSeqProperties
  <2>4. n - 1 - 1 + 1 = n - 1 /\ \A i \in 1..n - 1 : 1 + i - 1 = i BY <1>1
  <2> QED BY <1>1, <2>3, <2>4
<1>11. \A i \in 1..n - 1 : Slice(b, h, n - 1)[i] = SubSeq(Slice(b, h, n), 1, n - 1)[i]
  <2>1. \A i \in 1..n - 1 : i \in 1..n BY <1>1
  <2> QED BY <1>6, <1>7, <1>10, <2>1
<1>12. Slice(b, h, n - 1) = SubSeq(Slice(b, h, n), 1, n - 1) BY <1>7, <1>10, <1>11, SeqEqual
<1>13. ASSUME NEW k \in 1..n - 1 PROVE Wrap(h + k - 1, b) # u
  <2>1. h + k - 1 \in -1..2 * c - 1 /\ h + k - 1 # -1 BY <1>1
  <2>2. Wrap(h + k - 1, b) = IF h + k - 1 < c THEN h + k - 1 ELSE h + k - 1 - c
    BY <1>1, <2>1, WrapIs DEF c
  <2> QED BY <1>1, <1>2, <1>3, <2>2
<1>14. TakesLast(b, h, t, n) BY <1>9 DEF TakesLast, u
<1> QED BY <1>3, <1>5, <1>6, <1>8, <1>12, <1>13, <1>14 DEF c, u

(* Copying the slice to the start of another buffer: doubling, halving.    *)
LEMMA Moves ==
  ASSUME NEW b, NEW h, NEW t, NEW n, Ring(b, h, t, n), NEW cap \in Nat, n < cap
  PROVE  /\ Ring(Resize(b, h, n, cap), 0, n, n) /\ CapOf(Resize(b, h, n, cap)) = cap
         /\ Slice(Resize(b, h, n, cap), 0, n) = Slice(b, h, n)
<1> DEFINE b2 == Resize(b, h, n, cap)
<1>1. n \in Nat /\ Freed \in Cell BY DEF Ring, Cell
<1>2. /\ Slice(b, h, n) \in Seq(Cell) /\ Len(Slice(b, h, n)) = n
  BY SliceIs
<1>3. /\ b2 \in Seq(Cell) /\ Len(b2) = cap
      /\ \A i \in 1..n : b2[i] = Slice(b, h, n)[i]
  <2>1. b2 = [i \in 1..cap |-> IF i <= n THEN Slice(b, h, n)[i] ELSE Freed] BY DEF Resize
  <2>2. ASSUME NEW i \in 1..cap PROVE (IF i <= n THEN Slice(b, h, n)[i] ELSE Freed) \in Cell
    <3>1. CASE i <= n
      <4>1. i \in 1..Len(Slice(b, h, n)) BY <1>1, <1>2, <3>1
      <4> QED BY <1>2, <3>1, <4>1, ElementOfSeq
    <3>2. CASE ~(i <= n) BY <1>1, <3>2
    <3> QED BY <3>1, <3>2
  <2>3. b2 \in [1..cap -> Cell] BY <2>1, <2>2
  <2>4. b2 \in Seq(Cell) /\ Len(b2) = cap BY <2>3
  <2>5. \A i \in 1..n : i \in 1..cap /\ i <= n BY <1>1
  <2> QED BY <2>1, <2>4, <2>5
<1> HIDE DEF b2
<1>4. CapOf(b2) = cap /\ cap \in Nat \ {0} BY <1>1, <1>3 DEF CapOf
<1>5. \A m \in 0..cap - 1 : Wrap(m, b2) = m
  <2> SUFFICES ASSUME NEW m \in 0..cap - 1 PROVE Wrap(m, b2) = m OBVIOUS
  <2>1. m \in -1..2 * CapOf(b2) - 1 /\ m # -1 /\ m < CapOf(b2) BY <1>4
  <2> QED BY <1>4, <2>1, WrapIs
<1>6. Ring(b2, 0, n, n)
  <2>1. 0 + n = n /\ n \in 0..cap - 1 BY <1>1
  <2>2. n = Wrap(0 + n, b2) BY <1>5, <2>1
  <2> QED BY <1>1, <1>3, <1>4, <2>2 DEF Ring
<1>7. Slice(b2, 0, n) = Slice(b, h, n)
  <2>1. /\ Slice(b2, 0, n) \in Seq(Cell) /\ Len(Slice(b2, 0, n)) = n
        /\ \A i \in 1..n : Slice(b2, 0, n)[i] = b2[Wrap(0 + i - 1, b2) + 1]
    BY <1>6, SliceIs
  <2>2. ASSUME NEW i \in 1..n PROVE Slice(b2, 0, n)[i] = Slice(b, h, n)[i]
    <3>1. 0 + i - 1 \in 0..cap - 1 /\ 0 + i - 1 + 1 = i BY <1>1
    <3>2. Wrap(0 + i - 1, b2) + 1 = i BY <1>5, <3>1
    <3> QED BY <1>3, <2>1, <3>2
  <2> QED BY <1>2, <2>1, <2>2, SeqEqual
<1> QED BY <1>4, <1>6, <1>7 DEF b2

\* The resize of a full ring makes room and keeps the contents.
LEMMA GrowingKeeps ==
  ASSUME RingInv
  PROVE  /\ Ring(Grown.buf, Grown.head, Grown.tail, queueLen) /\ queueLen < CapOf(Grown.buf)
         /\ Slice(Grown.buf, Grown.head, queueLen) = Contents
<1>1. CASE queueLen = CapOf(buf)
  <2>1. /\ 2 * CapOf(buf) \in Nat /\ queueLen < 2 * CapOf(buf)
    BY <1>1 DEF RingInv, Ring
  <2>2. /\ Grown.buf = Resize(buf, headAt, queueLen, 2 * CapOf(buf))
        /\ Grown.head = 0 /\ Grown.tail = queueLen
    BY <1>1 DEF Grown
  <2> QED BY <2>1, <2>2, Moves DEF RingInv, Contents
<1>2. CASE queueLen # CapOf(buf)
  <2>1. queueLen < CapOf(buf) BY <1>2 DEF RingInv, Ring
  <2>2. Grown.buf = buf /\ Grown.head = headAt /\ Grown.tail = tailAt BY <1>2 DEF Grown
  <2> QED BY <2>1, <2>2 DEF RingInv, Contents
<1> QED BY <1>1, <1>2

\* shrinkIfNeeded keeps the contents.
LEMMA ShrinkingKeeps ==
  ASSUME NEW b, NEW h, NEW t, NEW n, Ring(b, h, t, n)
  PROVE  LET s == ShrinkIfNeeded(b, h, t, n) IN
         Ring(s.buf, s.head, s.tail, n) /\ Slice(s.buf, s.head, n) = Slice(b, h, n)
<1> DEFINE s == ShrinkIfNeeded(b, h, t, n)
           small == IF CapOf(b) \div 2 > MinCapacity THEN CapOf(b) \div 2 ELSE MinCapacity
           needed == CapOf(b) > MinCapacity /\ n <= CapOf(b) \div 4
<1>1. CASE needed
  <2>1. /\ CapOf(b) \in Nat /\ MinCapacity \in Nat \ {0} /\ n \in Nat
        /\ CapOf(b) > MinCapacity /\ n <= CapOf(b) \div 4
    BY <1>1, RingQueueAssumption DEF Ring
  <2>2. CapOf(b) \div 2 \in Nat /\ CapOf(b) \div 4 < CapOf(b) \div 2 BY <2>1
  <2>3. small \in Nat /\ n < small BY <2>1, <2>2
  <2>4. /\ s.buf = Resize(b, h, n, small) /\ s.head = 0 /\ s.tail = n
    BY <1>1 DEF ShrinkIfNeeded
  <2> HIDE DEF small, s
  <2> QED BY <2>3, <2>4, Moves DEF s
<1>2. CASE ~needed
  <2>1. s.buf = b /\ s.head = h /\ s.tail = t BY <1>2 DEF ShrinkIfNeeded
  <2> QED BY <2>1
<1> QED BY <1>1, <1>2

-----------------------------------------------------------------------------
(* The operations: each is a step of the deque, and keeps the ring.        *)
Step == RingInv' /\ (AsDeque!DequeNext \/ UNCHANGED AsDeque!dequeVars)

\* The contents are as long as the queue says.
LEMMA LenIs ==
  ASSUME RingInv
  PROVE  /\ Contents \in Seq(Cell) /\ Len(Contents) = queueLen /\ queueLen \in Nat
         /\ Contents = <<>> <=> queueLen = 0
<1>1. /\ Contents \in Seq(Cell) /\ Len(Contents) = queueLen
  BY SliceIs DEF RingInv, Contents
<1>2. queueLen \in Nat BY DEF RingInv, Ring
<1>3. Contents = <<>> <=> queueLen = 0 BY <1>1, EmptySeq
<1> QED BY <1>1, <1>2, <1>3

(* A call that only answers.                                               *)
LEMMA AnswersIs ==
  ASSUME RingInv, NEW why, QueueAnswers(why)
  PROVE  /\ RingInv' /\ AsDeque!Refused(why)
  BY DEF QueueAnswers, RingInv, Contents, AsDeque!Refused

\* Both ways to add are steps of the deque.
LEMMA AddingSteps ==
  ASSUME RingInv, NEW x \in QueueItem, AddBack(x) \/ AddFront(x)
  PROVE  Step
<1> USE DEF AsDeque!DequeNext, AsDeque!AddsTo
<1>1. Contents \in Seq(Cell) /\ Len(Contents) = queueLen /\ queueLen \in Nat BY LenIs
<1>2. CASE queueClosed /\ QueueAnswers("closed")
  <2>1. RingInv' /\ AsDeque!Refused("closed") BY <1>2, AnswersIs
  <2>2. AsDeque!AddsTo(Append(Contents, x)) BY <1>2, <2>1
  <2> QED BY <2>1, <2>2 DEF Step
<1>3. CASE ~queueClosed /\ AtMaxCap /\ QueueAnswers("full")
  <2>1. RingInv' /\ AsDeque!Refused("full") BY <1>3, AnswersIs
  <2>2. AsDeque!AddsTo(Append(Contents, x)) BY <1>1, <1>3, <2>1 DEF AtMaxCap
  <2> QED BY <2>1, <2>2 DEF Step
<1>4. /\ Ring(Grown.buf, Grown.head, Grown.tail, queueLen) /\ queueLen < CapOf(Grown.buf)
      /\ Slice(Grown.buf, Grown.head, queueLen) = Contents
  BY GrowingKeeps
<1>5. ASSUME ~queueClosed, ~AtMaxCap, AddBack(x) PROVE Step
  <2>1. /\ buf' = [Grown.buf EXCEPT ![Grown.tail + 1] = x]
        /\ headAt' = Grown.head /\ tailAt' = Wrap(Grown.tail + 1, Grown.buf)
        /\ queueLen' = queueLen + 1 /\ queueAnswer' = "added" /\ queueClosed' = queueClosed
    BY <1>5 DEF AddBack
  <2>2. /\ Ring([Grown.buf EXCEPT ![Grown.tail + 1] = x], Grown.head,
                Wrap(Grown.tail + 1, Grown.buf), queueLen + 1)
        /\ Slice([Grown.buf EXCEPT ![Grown.tail + 1] = x], Grown.head, queueLen + 1)
             = Append(Slice(Grown.buf, Grown.head, queueLen), x)
    <3>1. PutsBack(Grown.buf, Grown.head, Grown.tail, queueLen, x) BY <1>4, PutBack
    <3> QED BY <3>1, Zenon DEF PutsBack
  <2>3. RingInv' /\ Contents' = Append(Contents, x) BY <1>4, <2>1, <2>2, Zenon DEF RingInv, Contents
  <2>4. AsDeque!AddsTo(Append(Contents, x))
    BY <1>1, <1>5, <2>1, <2>3, RingQueueAssumption DEF AtMaxCap
  <2> QED BY <2>3, <2>4 DEF Step
<1>6. ASSUME ~queueClosed, ~AtMaxCap, AddFront(x) PROVE Step
  <2>1. /\ buf' = [Grown.buf EXCEPT ![Wrap(Grown.head - 1, Grown.buf) + 1] = x]
        /\ headAt' = Wrap(Grown.head - 1, Grown.buf) /\ tailAt' = Grown.tail
        /\ queueLen' = queueLen + 1 /\ queueAnswer' = "added" /\ queueClosed' = queueClosed
    BY <1>6 DEF AddFront
  <2>2. /\ Ring([Grown.buf EXCEPT ![Wrap(Grown.head - 1, Grown.buf) + 1] = x],
                Wrap(Grown.head - 1, Grown.buf), Grown.tail, queueLen + 1)
        /\ Slice([Grown.buf EXCEPT ![Wrap(Grown.head - 1, Grown.buf) + 1] = x],
                 Wrap(Grown.head - 1, Grown.buf), queueLen + 1)
             = <<x>> \o Slice(Grown.buf, Grown.head, queueLen)
    BY <1>4, PutFront
  <2>3. RingInv' /\ Contents' = <<x>> \o Contents BY <1>4, <2>1, <2>2, Zenon DEF RingInv, Contents
  <2>4. AsDeque!AddsTo(<<x>> \o Contents)
    BY <1>1, <1>6, <2>1, <2>3, RingQueueAssumption DEF AtMaxCap
  <2> QED BY <2>3, <2>4 DEF Step
<1> QED BY <1>2, <1>3, <1>5, <1>6 DEF AddBack, AddFront

(* What Takes does to a cell at either end: freed, then halved away.       *)
LEMMA TakesKeeps ==
  ASSUME RingInv, NEW i \in 0..CapOf(buf) - 1, NEW h, NEW t, Takes(i, h, t),
         Ring(buf, h, t, queueLen - 1), \A k \in 1..queueLen - 1 : Wrap(h + k - 1, buf) # i
  PROVE  RingInv' /\ Contents' = Slice(buf, h, queueLen - 1)
<1> DEFINE b2 == [buf EXCEPT ![i + 1] = Freed]
           s == ShrinkIfNeeded(b2, h, t, queueLen - 1)
           n == queueLen - 1
<1>0. Ring(buf, h, t, n) /\ \A k \in 1..n : Wrap(h + k - 1, buf) # i OBVIOUS
<1> HIDE DEF n
<1>a. Ring(b2, h, t, n) /\ Slice(b2, h, n) = Slice(buf, h, n) BY <1>0, FreeOutside
<1>1. /\ Ring(b2, h, t, queueLen - 1)
      /\ Slice(b2, h, queueLen - 1) = Slice(buf, h, queueLen - 1)
  BY <1>a, Zenon DEF n
<1> HIDE DEF b2
<1>2. /\ Ring(s.buf, s.head, s.tail, queueLen - 1)
      /\ Slice(s.buf, s.head, queueLen - 1) = Slice(b2, h, queueLen - 1)
  BY <1>1, ShrinkingKeeps
<1>3. /\ buf' = s.buf /\ headAt' = s.head /\ tailAt' = s.tail /\ queueLen' = queueLen - 1
  BY DEF Takes, b2
<1> HIDE DEF s
<1> QED BY <1>1, <1>2, <1>3 DEF RingInv, Contents

\* Both ways to remove are steps of the deque.
LEMMA RemovingSteps ==
  ASSUME RingInv, RemoveFront \/ RemoveBack
  PROVE  Step
<1> USE DEF AsDeque!DequeNext, AsDeque!RemovesTo
<1>1. /\ Contents \in Seq(Cell) /\ Len(Contents) = queueLen /\ queueLen \in Nat
      /\ Contents = <<>> <=> queueLen = 0
  BY LenIs
<1>2. CASE NothingToTake
  <2>1. CASE queueLen = 0 /\ QueueAnswers("empty")
    <3>1. RingInv' /\ AsDeque!Refused("empty") BY <2>1, AnswersIs
    <3>2. AsDeque!RemovesTo(Head(Contents), Tail(Contents)) BY <1>1, <2>1, <3>1
    <3> QED BY <3>1, <3>2 DEF Step
  <2>2. CASE queueLen > 0 /\ queueClosed /\ QueueAnswers("closed")
    <3>1. RingInv' /\ AsDeque!Refused("closed") BY <2>2, AnswersIs
    <3>2. AsDeque!RemovesTo(Head(Contents), Tail(Contents)) BY <1>1, <2>2, <3>1
    <3> QED BY <3>1, <3>2 DEF Step
  <2> QED BY <1>2, <2>1, <2>2 DEF NothingToTake
<1>3. CASE Takes(headAt, Wrap(headAt + 1, buf), tailAt)
  <2>1. /\ queueLen > 0 /\ ~queueClosed /\ queueAnswer' = buf[headAt + 1]
        /\ queueClosed' = queueClosed
    BY <1>3 DEF Takes, CellAt
  <2>2. /\ Ring(buf, Wrap(headAt + 1, buf), tailAt, queueLen - 1)
        /\ Contents # <<>> /\ Head(Contents) = buf[headAt + 1]
        /\ Slice(buf, Wrap(headAt + 1, buf), queueLen - 1) = Tail(Contents)
        /\ \A k \in 1..queueLen - 1 : Wrap(Wrap(headAt + 1, buf) + k - 1, buf) # headAt
    <3>1. Ring(buf, headAt, tailAt, queueLen) BY DEF RingInv
    <3>2. queueLen > 0 BY <2>1
    <3> HIDE DEF AsDeque!DequeNext, AsDeque!RemovesTo
    <3>3. /\ Ring(buf, Wrap(headAt + 1, buf), tailAt, queueLen - 1)
          /\ Contents # <<>> /\ Head(Contents) = buf[headAt + 1]
      BY <3>1, <3>2, DropFront DEF Contents
    <3>4. Slice(buf, Wrap(headAt + 1, buf), queueLen - 1) = Tail(Contents)
      BY ZenonT(30), <3>1, <3>2, DropFront DEF Contents
    <3>5. \A k \in 1..queueLen - 1 : Wrap(Wrap(headAt + 1, buf) + k - 1, buf) # headAt
      BY <3>1, <3>2, DropFront
    <3> QED BY <3>3, <3>4, <3>5
  <2>3. headAt \in 0..CapOf(buf) - 1 BY DEF RingInv, Ring
  <2>4. RingInv' /\ Contents' = Tail(Contents) BY <1>3, <2>2, <2>3, TakesKeeps
  <2>5. AsDeque!RemovesTo(Head(Contents), Tail(Contents)) BY <2>1, <2>2, <2>4
  <2> QED BY <2>4, <2>5 DEF Step
<1>4. CASE Takes(Wrap(tailAt - 1, buf), headAt, Wrap(tailAt - 1, buf))
  <2>1. /\ queueLen > 0 /\ ~queueClosed /\ queueAnswer' = buf[Wrap(tailAt - 1, buf) + 1]
        /\ queueClosed' = queueClosed
    BY <1>4 DEF Takes, CellAt
  <2>2. /\ Ring(buf, headAt, Wrap(tailAt - 1, buf), queueLen - 1)
        /\ Wrap(tailAt - 1, buf) \in 0..CapOf(buf) - 1
        /\ Contents # <<>> /\ Len(Contents) = queueLen
        /\ Contents[queueLen] = buf[Wrap(tailAt - 1, buf) + 1]
        /\ Slice(buf, headAt, queueLen - 1) = SubSeq(Contents, 1, queueLen - 1)
        /\ \A k \in 1..queueLen - 1 : Wrap(headAt + k - 1, buf) # Wrap(tailAt - 1, buf)
    <3>1. Ring(buf, headAt, tailAt, queueLen) BY DEF RingInv
    <3>2. queueLen > 0 BY <2>1
    <3> HIDE DEF AsDeque!DequeNext, AsDeque!RemovesTo
    <3>3. /\ Ring(buf, headAt, Wrap(tailAt - 1, buf), queueLen - 1)
          /\ Wrap(tailAt - 1, buf) \in 0..CapOf(buf) - 1
      BY <3>1, <3>2, DropBack
    <3>4. /\ Contents # <<>> /\ Len(Contents) = queueLen
          /\ Contents[queueLen] = buf[Wrap(tailAt - 1, buf) + 1]
      <4>1. Contents # <<>> /\ Len(Contents) = queueLen BY <1>1, <3>2
      <4>2. Contents[queueLen] = buf[Wrap(tailAt - 1, buf) + 1]
        <5>1. TakesLast(buf, headAt, tailAt, queueLen) BY <3>1, <3>2, DropBack
        <5> QED BY <5>1, Zenon DEF TakesLast, Contents
      <4> QED BY <4>1, <4>2
    <3>5. Slice(buf, headAt, queueLen - 1) = SubSeq(Contents, 1, queueLen - 1)
      BY <3>1, <3>2, DropBack, ZenonT(30) DEF Contents
    <3>6. \A k \in 1..queueLen - 1 : Wrap(headAt + k - 1, buf) # Wrap(tailAt - 1, buf)
      BY <3>1, <3>2, DropBack
    <3> QED BY <3>3, <3>4, <3>5, <3>6
  <2>3. RingInv' /\ Contents' = SubSeq(Contents, 1, queueLen - 1) BY <1>4, <2>2, TakesKeeps
  <2>4. AsDeque!RemovesTo(Contents[Len(Contents)], SubSeq(Contents, 1, Len(Contents) - 1))
    BY <2>1, <2>2, <2>3
  <2> QED BY <2>3, <2>4 DEF Step
<1> QED BY <1>2, <1>3, <1>4 DEF RemoveFront, RemoveBack

(* A fresh ring is empty.                                                  *)
LEMMA FreshIs ==
  ASSUME NEW cap \in Nat \ {0}
  PROVE  Ring(FreshBuf(cap), 0, 0, 0) /\ Slice(FreshBuf(cap), 0, 0) = <<>>
<1> DEFINE b == FreshBuf(cap)
<1>1. b \in Seq(Cell) /\ Len(b) = cap
  <2>1. b \in [1..cap -> Cell] BY DEF FreshBuf, Cell
  <2> QED BY <2>1
<1> HIDE DEF b
<1>2. CapOf(b) \in Nat \ {0} /\ 0 + 0 \in -1..2 * CapOf(b) - 1 /\ 0 + 0 < CapOf(b)
  BY <1>1 DEF CapOf
<1>3. Wrap(0 + 0, b) = 0 BY <1>2, WrapIs
<1>4. Ring(b, 0, 0, 0) BY <1>1, <1>2, <1>3 DEF Ring
<1>5. Slice(b, 0, 0) \in Seq(Cell) /\ Len(Slice(b, 0, 0)) = 0 BY <1>4, SliceIs
<1> QED BY <1>4, <1>5, EmptySeq DEF b

(* The ring buffer implements the deque (internal/queue), for any items,   *)
(* capacities and bound.                                                   *)
THEOREM RingImplementsDeque == QueueSpec => RingIsDeque
<1>1. QueueInit => RingInv /\ AsDeque!DequeInit
  BY FreshIs, FirstCapAssumption DEF QueueInit, RingInv, Contents, AsDeque!DequeInit
<1>2. RingInv /\ [QueueNext]_queueVars => RingInv' /\ [AsDeque!DequeNext]_(AsDeque!dequeVars)
  <2> SUFFICES ASSUME RingInv, [QueueNext]_queueVars PROVE Step BY DEF Step
  <2>1. ASSUME NEW x \in QueueItem, AddBack(x) \/ AddFront(x) PROVE Step BY <2>1, AddingSteps
  <2>2. CASE RemoveFront \/ RemoveBack BY <2>2, RemovingSteps
  <2>3. CASE ClearQueue
    <3>1. RingInv' /\ Contents' = <<>>
      BY <2>3, FreshIs, RingQueueAssumption DEF ClearQueue, RingInv, Contents
    <3>2. AsDeque!DequeNext BY <2>3, <3>1 DEF ClearQueue, AsDeque!DequeNext
    <3> QED BY <3>1, <3>2 DEF Step
  <2>4. CASE CloseQueue
    <3>1. RingInv' /\ Contents' = Contents BY <2>4 DEF CloseQueue, RingInv, Contents
    <3>2. AsDeque!DequeNext BY <2>4, <3>1 DEF CloseQueue, AsDeque!DequeNext
    <3> QED BY <3>1, <3>2 DEF Step
  <2>5. CASE UNCHANGED queueVars
    BY <2>5 DEF queueVars, Step, RingInv, Contents, AsDeque!dequeVars
  <2> QED BY <2>1, <2>2, <2>3, <2>4, <2>5 DEF QueueNext
<1> QED BY <1>1, <1>2, PTL DEF QueueSpec, RingIsDeque, AsDeque!DequeSpec
=============================================================================
