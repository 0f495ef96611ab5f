-------------------------- MODULE TimeTable_proof --------------------------
(***************************************************************************)
(* Proofs about TimeTable, for any number of days, blocks and answers and  *)
(* any scale: the state keeps its shape, and no dialog is open over a      *)
(* drag.  On a day that is not cramped, no two blocks overlap and no block *)
(* shorter than a minute stays behind.                                     *)
(***************************************************************************)
EXTENDS TimeTable, SequenceTheorems, WellFoundedInduction, TLAPS

USE SizeAssumption

(* Finding the least of a set of numbers, from the well-foundedness of <. *)
Below == OpToRel(<, Nat)

LEMMA BelowMember == \A a, b \in Nat : a < b => <<a, b>> \in Below
  BY DEF Below, OpToRel

LEMMA BelowWellFounded == IsWellFoundedOn(Below, Nat)
  BY NatLessThanWellFounded DEF Below

LEMMA LeastOf ==
  ASSUME NEW S, S \subseteq Nat, S # {}
  PROVE  \E i \in S : \A j \in S : i <= j
<1>1. PICK i \in S : \A j \in S : <<j, i>> \notin Below
  BY BelowWellFounded, WFMin
<1>2. ASSUME NEW j \in S PROVE i <= j
  <2>1. i \in Nat /\ j \in Nat
    OBVIOUS
  <2>2. ~(j < i)
    BY <1>1, <2>1, BelowMember
  <2> QED
    BY <2>1, <2>2
<1> QED
  BY <1>2

-----------------------------------------------------------------------------
(* One line: the order of its blocks, said of neighbours. *)
Inside(s, i) ==
  /\ s[i].x0 \in Int /\ s[i].x \in Int
  /\ s[i].x0 <= s[i].x
  /\ i = 1 => 0 <= s[i].x0
  /\ i = Len(s) => s[i].x <= Day
  /\ i + 1 \in 1 .. Len(s) => s[i].x <= s[i + 1].x0

LEMMA OrderOfNeighbours ==
  ASSUME NEW s \in Seq(Block)
  PROVE  InOrder(s) <=> \A i \in 1 .. Len(s) : Inside(s, i)
<1>1. Len(s) \in Nat /\ \A i \in 1 .. Len(s) : s[i].x0 \in Int /\ s[i].x \in Int
  <2>1. Len(s) \in Nat /\ \A i \in 1 .. Len(s) : s[i] \in Block
    BY ElementOfSeq, LenProperties
  <2> QED
    BY <2>1 DEF Block
<1>2. ASSUME InOrder(s), NEW i \in 1 .. Len(s) PROVE Inside(s, i)
  <2>1. LeftEdge(s, i) <= s[i].x0 /\ s[i].x0 <= s[i].x /\ s[i].x <= RightEdge(s, i)
    BY <1>2 DEF InOrder
  <2>2. i = 1 => LeftEdge(s, i) = 0
    BY DEF LeftEdge
  <2>3. i = Len(s) => RightEdge(s, i) = Day
    BY <1>1 DEF RightEdge
  <2>4. i + 1 \in 1 .. Len(s) => RightEdge(s, i) = s[i + 1].x0
    BY <1>1 DEF RightEdge
  <2> QED
    BY <1>1, <2>1, <2>2, <2>3, <2>4 DEF Inside
<1>3. ASSUME \A i \in 1 .. Len(s) : Inside(s, i), NEW i \in 1 .. Len(s)
      PROVE  LeftEdge(s, i) <= s[i].x0 /\ s[i].x0 <= s[i].x /\ s[i].x <= RightEdge(s, i)
  <2>1. Inside(s, i)
    BY <1>3
  <2>2. LeftEdge(s, i) <= s[i].x0
    <3>1. CASE i = 1
      BY <2>1, <3>1 DEF LeftEdge, Inside
    <3>2. CASE i # 1
      <4>1. i - 1 \in 1 .. Len(s) /\ i - 1 + 1 = i
        BY <1>1, <3>2
      <4>2. Inside(s, i - 1)
        BY <1>3, <4>1
      <4>3. s[i - 1].x <= s[i].x0
        BY <4>1, <4>2 DEF Inside
      <4>4. LeftEdge(s, i) = s[i - 1].x
        BY <3>2, <4>1 DEF LeftEdge
      <4> QED
        BY <4>3, <4>4
    <3> QED
      BY <3>1, <3>2
  <2>3. s[i].x <= RightEdge(s, i)
    BY <1>1, <2>1 DEF RightEdge, Inside
  <2> QED
    BY <2>1, <2>2, <2>3 DEF Inside
<1> QED
  BY <1>2, <1>3 DEF InOrder

-----------------------------------------------------------------------------
(* What is done to one line. *)
OthersLong(s, i) == \A j \in 1 .. Len(s) : j # i => Long(s[j])

\* b may stand where the block i of s stands.
Fits(s, i, b) ==
  /\ b.x0 <= b.x
  /\ i = 1 => 0 <= b.x0
  /\ i = Len(s) => b.x <= Day
  /\ i - 1 \in 1 .. Len(s) => s[i - 1].x <= b.x0
  /\ i + 1 \in 1 .. Len(s) => b.x <= s[i + 1].x0

LEMMA SetTidy ==
  ASSUME NEW s \in Seq(Block), InOrder(s), NEW i \in 1 .. Len(s), OthersLong(s, i),
         NEW b \in Block, Fits(s, i, b), Long(b)
  PROVE  [s EXCEPT ![i] = b] \in Seq(Block) /\ Tidy([s EXCEPT ![i] = b])
<1> DEFINE r == [s EXCEPT ![i] = b]
<1>1. r \in Seq(Block) /\ Len(r) = Len(s) /\ Len(s) \in Nat
  BY ExceptSeq, LenProperties
<1>2. \A j \in 1 .. Len(s) : r[j] = IF j = i THEN b ELSE s[j]
  BY LenProperties
<1>3. \A j \in 1 .. Len(s) : Inside(s, j)
  BY OrderOfNeighbours
<1>4. b.x0 \in Int /\ b.x \in Int
  BY DEF Block
<1> HIDE DEF r
<1>5. ASSUME NEW j \in 1 .. Len(r) PROVE Inside(r, j)
  <2>1. CASE j = i
    <3>1. r[j] = b /\ (j + 1 \in 1 .. Len(r) => r[j + 1] = s[j + 1])
      BY <1>1, <1>2, <2>1
    <3> QED
      BY <1>1, <1>4, <2>1, <3>1 DEF Fits, Inside
  <2>2. CASE j = i - 1
    <3>1. r[j] = s[j] /\ r[j + 1] = b /\ j + 1 = i
      BY <1>1, <1>2, <2>2
    <3>2. Inside(s, j)
      BY <1>1, <1>3
    <3> QED
      BY <1>1, <2>2, <3>1, <3>2 DEF Fits, Inside
  <2>3. CASE j # i /\ j # i - 1
    <3>1. r[j] = s[j] /\ (j + 1 \in 1 .. Len(r) => r[j + 1] = s[j + 1])
      <4>1. j \in 1 .. Len(s) /\ j + 1 # i
        BY <1>1, <2>3
      <4>2. r[j] = s[j]
        BY <1>2, <2>3, <4>1
      <4>3. j + 1 \in 1 .. Len(s) => r[j + 1] = s[j + 1]
        BY <1>2, <4>1
      <4> QED
        BY <1>1, <4>2, <4>3
    <3>2. Inside(s, j)
      BY <1>1, <1>3
    <3> QED
      BY <1>1, <3>1, <3>2 DEF Inside
  <2> QED
    BY <2>1, <2>2, <2>3
<1>6. \A j \in 1 .. Len(r) : Long(r[j])
  BY <1>1, <1>2 DEF OthersLong
<1>7. InOrder(r)
  BY <1>1, <1>5, OrderOfNeighbours
<1>8. r \in Seq(Block) /\ Tidy(r)
  BY <1>1, <1>6, <1>7 DEF Tidy
<1> QED
  BY <1>8 DEF r
LEMMA InARow == \A a, b, c, d \in Int : a <= b /\ b <= c /\ c <= d => a <= d
  OBVIOUS

\* A block taken out.
LEMMA RemoveTidy ==
  ASSUME NEW s \in Seq(Block), InOrder(s), NEW i \in 1 .. Len(s), OthersLong(s, i)
  PROVE  RemoveAt(s, i) \in Seq(Block) /\ Tidy(RemoveAt(s, i))
<1> DEFINE before == SubSeq(s, 1, i - 1)
           after == SubSeq(s, i + 1, Len(s))
           r == before \o after
<1>1. Len(s) \in Nat
  BY LenProperties
<1>2. before \in Seq(Block) /\ Len(before) = i - 1 /\ \A j \in 1 .. i - 1 : before[j] = s[j]
  BY <1>1, SubSeqProperties
<1>3. /\ after \in Seq(Block) /\ Len(after) = Len(s) - i
      /\ \A j \in 1 .. Len(s) - i : after[j] = s[i + j]
  BY <1>1, SubSeqProperties
<1> HIDE DEF before, after
<1>40. /\ r \in Seq(Block) /\ Len(r) = Len(before) + Len(after)
      /\ \A j \in 1 .. Len(before) + Len(after) :
           r[j] = IF j <= Len(before) THEN before[j] ELSE after[j - Len(before)]
  BY <1>2, <1>3, ConcatProperties
<1> HIDE DEF r
<1>4. /\ r \in Seq(Block) /\ Len(r) = Len(s) - 1
      /\ \A j \in 1 .. Len(r) : r[j] = IF j <= i - 1 THEN before[j] ELSE after[j - (i - 1)]
  BY <1>1, <1>2, <1>3, <1>40
<1>5. /\ \A j \in 1 .. Len(r) : j < i => r[j] = s[j]
      /\ \A j \in 1 .. Len(r) : j >= i => r[j] = s[j + 1]
  <2>1. ASSUME NEW j \in 1 .. Len(r), j < i PROVE r[j] = s[j]
    BY <1>1, <1>2, <1>4, <2>1
  <2>2. ASSUME NEW j \in 1 .. Len(r), j >= i PROVE r[j] = s[j + 1]
    <3>1. j - (i - 1) \in 1 .. Len(s) - i /\ i + (j - (i - 1)) = j + 1
      BY <1>1, <1>4, <2>2
    <3>2. after[j - (i - 1)] = s[j + 1]
      BY <1>3, <3>1
    <3>3. ~(j <= i - 1)
      BY <1>1, <2>2
    <3> QED
      BY <1>4, <3>2, <3>3
  <2> QED
    BY <2>1, <2>2
<1>6. \A j \in 1 .. Len(s) : Inside(s, j)
  BY OrderOfNeighbours
<1>7. ASSUME NEW j \in 1 .. Len(r) PROVE Inside(r, j)
  <2>1. CASE j < i - 1
    <3>1. r[j] = s[j] /\ r[j + 1] = s[j + 1] /\ Inside(s, j) /\ j + 1 \in 1 .. Len(s)
      <4>1. j \in 1 .. Len(s) /\ j + 1 \in 1 .. Len(s) /\ j + 1 \in 1 .. Len(r)
            /\ j < i /\ j + 1 < i
        BY <1>1, <1>4, <2>1
      <4> QED
        BY <1>5, <1>6, <4>1
    <3> QED
      BY <1>1, <1>4, <2>1, <3>1 DEF Inside
  <2>2. CASE j = i - 1
    <3>1. j \in 1 .. Len(s) /\ j + 1 \in 1 .. Len(s) /\ j < i /\ j + 1 = i
      BY <1>1, <1>4, <2>2
    <3>2. r[j] = s[j]
      BY <1>5, <3>1
    <3>3. Inside(s, j) /\ Inside(s, j + 1)
      BY <1>6, <3>1
    <3>4. j + 1 \in 1 .. Len(r) => r[j + 1] = s[j + 1 + 1]
      BY <1>1, <1>4, <1>5, <3>1
    <3>5. j = Len(r) => r[j].x <= Day
      <4>1. j = Len(r) => j + 1 = Len(s)
        BY <1>1, <1>4
      <4>2. s[j].x <= s[j + 1].x0 /\ s[j + 1].x0 <= s[j + 1].x
        BY <3>1, <3>3 DEF Inside
      <4> QED
        BY <3>2, <3>3, <4>1, <4>2, SMTT(30) DEF Inside
    <3>6. j + 1 \in 1 .. Len(r) => r[j].x <= r[j + 1].x0
      <4>1. j + 1 \in 1 .. Len(r) => j + 1 + 1 \in 1 .. Len(s)
        BY <1>1, <1>4
      <4>2. /\ s[j].x <= s[j + 1].x0 /\ s[j + 1].x0 <= s[j + 1].x
            /\ j + 1 + 1 \in 1 .. Len(s) => s[j + 1].x <= s[j + 1 + 1].x0
        BY <3>1, <3>3 DEF Inside
      <4>3. j + 1 + 1 \in 1 .. Len(s) => s[j + 1 + 1].x0 \in Int
        BY <1>6 DEF Inside
      <4>4. s[j].x \in Int /\ s[j + 1].x0 \in Int /\ s[j + 1].x \in Int
        BY <3>3 DEF Inside
      <4>5. j + 1 + 1 \in 1 .. Len(s) => s[j].x <= s[j + 1 + 1].x0
        BY <4>2, <4>3, <4>4, InARow, Zenon
      <4> QED
        BY <3>2, <3>4, <4>1, <4>5
    <3> QED
      BY <3>2, <3>3, <3>5, <3>6 DEF Inside
  <2>3. CASE j >= i
    <3>1. r[j] = s[j + 1] /\ Inside(s, j) /\ Inside(s, j + 1) /\ j + 1 \in 1 .. Len(s)
      <4>1. j \in 1 .. Len(s) /\ j + 1 \in 1 .. Len(s)
        BY <1>1, <1>4
      <4> QED
        BY <1>5, <1>6, <2>3, <4>1
    <3>2. j + 1 \in 1 .. Len(r) => r[j + 1] = s[j + 1 + 1]
      BY <1>1, <1>4, <1>5, <2>3
    <3>3. j = 1 => 0 <= r[j].x0
      <4>1. j = 1 => 0 <= s[j].x0
        BY <3>1 DEF Inside
      <4>2. s[j].x0 <= s[j].x /\ s[j].x <= s[j + 1].x0
        BY <3>1 DEF Inside
      <4> QED
        BY <3>1, <4>1, <4>2, SMTT(30) DEF Inside
    <3>4. j = Len(r) => r[j].x <= Day
      <4>1. j = Len(r) => j + 1 = Len(s)
        BY <1>1, <1>4
      <4> QED
        BY <3>1, <4>1 DEF Inside
    <3>5. j + 1 \in 1 .. Len(r) => r[j].x <= r[j + 1].x0
      <4>1. j + 1 \in 1 .. Len(r) => j + 1 + 1 \in 1 .. Len(s)
        BY <1>1, <1>4
      <4> QED
        BY <3>1, <3>2, <4>1 DEF Inside
    <3> QED
      BY <3>1, <3>3, <3>4, <3>5 DEF Inside
  <2> QED
    BY <1>1, <1>4, <2>1, <2>2, <2>3
<1>8. ASSUME NEW j \in 1 .. Len(r) PROVE Long(r[j])
  <2>1. CASE j < i
    BY <1>1, <1>4, <1>5, <2>1 DEF OthersLong
  <2>2. CASE j >= i
    <3>1. j + 1 \in 1 .. Len(s) /\ j + 1 # i
      BY <1>1, <1>4, <2>2
    <3>2. Long(s[j + 1])
      BY <3>1 DEF OthersLong
    <3> QED
      BY <1>5, <2>2, <3>2
  <2> QED
    BY <1>1, <1>4, <2>1, <2>2
<1>9. r \in Seq(Block) /\ Tidy(r)
  BY <1>4, <1>7, <1>8, OrderOfNeighbours DEF Tidy
<1> QED
  BY <1>9 DEF r, before, after, RemoveAt
\* Where a new block at p may go: behind block k, with a pixel to spare.
Spot(s, k, p) ==
  /\ k \in 0 .. Len(s)
  /\ p \in 0 .. Day
  /\ k \in 1 .. Len(s) => s[k].x + Pixel < p
  /\ k + 1 \in 1 .. Len(s) => p + Pixel < s[k + 1].x0

LEMMA InsertMeans ==
  ASSUME NEW s, NEW k, NEW b
  PROVE  InsertAt(s, k, b) = SubSeq(s, 1, k - 1) \o <<b>> \o SubSeq(s, k, Len(s))
  BY Zenon DEF InsertAt

LEMMA InsertOrdered ==
  ASSUME NEW s \in Seq(Block), Tidy(s), NEW k, NEW p, Spot(s, k, p)
  PROVE  LET r == InsertAt(s, k + 1, [x0 |-> p, x |-> p])
         IN  /\ r \in Seq(Block) /\ InOrder(r) /\ k + 1 \in 1 .. Len(r)
             /\ OthersLong(r, k + 1)
<1> DEFINE b == [x0 |-> p, x |-> p]
           before == SubSeq(s, 1, k)
           after == SubSeq(s, k + 1, Len(s))
           head == before \o <<b>>
           r == head \o after
<1>1. Len(s) \in Nat /\ k \in 0 .. Len(s) /\ (k + 1) - 1 = k
  BY LenProperties DEF Spot
<1>2. /\ before \in Seq(Block) /\ Len(before) = k
      /\ \A j \in 1 .. k : before[j] = s[j]
  BY <1>1, SubSeqProperties
<1>3. /\ after \in Seq(Block) /\ Len(after) = Len(s) - k
      /\ \A j \in 1 .. Len(s) - k : after[j] = s[k + j]
  <2>1. /\ after \in Seq(Block)
        /\ Len(after) = IF k + 1 <= Len(s) THEN Len(s) - (k + 1) + 1 ELSE 0
        /\ \A j \in 1 .. Len(s) - (k + 1) + 1 : after[j] = s[(k + 1) + j - 1]
    <3>1. k + 1 \in Int /\ Len(s) \in Int /\ \A i \in (k + 1) .. Len(s) : s[i] \in Block
      BY <1>1, ElementOfSeq
    <3> QED
      BY <1>1, <3>1, SubSeqProperties
  <2>2. Len(s) - (k + 1) + 1 = Len(s) - k
    BY <1>1
  <2>3. \A j \in 1 .. Len(s) - k : (k + 1) + j - 1 = k + j
    BY <1>1
  <2> HIDE DEF after
  <2>4. Len(after) = Len(s) - k
    <3>1. k + 1 <= Len(s) \/ Len(s) - k = 0
      BY <1>1
    <3> QED
      BY <1>1, <2>1, <2>2, <3>1
  <2>5. ASSUME NEW j \in 1 .. Len(s) - k PROVE after[j] = s[k + j]
    <3>1. j \in 1 .. Len(s) - (k + 1) + 1
      BY <2>2
    <3>2. after[j] = s[(k + 1) + j - 1]
      BY <2>1, <3>1
    <3> QED
      BY <2>3, <3>2
  <2> QED
    BY <2>1, <2>4, <2>5
<1>4. b \in Block /\ b.x0 = p /\ b.x = p /\ p \in Int
  BY DEF Spot, Block
<1> HIDE DEF before, after, b
<1>5. <<b>> \in Seq(Block) /\ Len(<<b>>) = 1 /\ <<b>>[1] = b
  BY <1>4
<1>6. /\ head \in Seq(Block) /\ Len(head) = Len(before) + Len(<<b>>)
      /\ \A j \in 1 .. Len(before) + Len(<<b>>) :
           head[j] = IF j <= Len(before) THEN before[j] ELSE <<b>>[j - Len(before)]
  BY <1>2, <1>5, ConcatProperties
<1> HIDE DEF head
<1>7. head \in Seq(Block) /\ Len(head) = k + 1 /\ head[k + 1] = b
      /\ \A j \in 1 .. k : head[j] = s[j]
  <2>1. Len(head) = k + 1
    BY <1>2, <1>5, <1>6
  <2>2. head[k + 1] = <<b>>[1]
    <3>1. /\ k + 1 \in 1 .. Len(before) + Len(<<b>>) /\ ~(k + 1 <= Len(before))
          /\ (k + 1) - Len(before) = 1
      BY <1>1, <1>2, <1>5
    <3> QED
      BY <1>6, <3>1
  <2>3. \A j \in 1 .. k : head[j] = s[j]
    BY <1>1, <1>2, <1>5, <1>6
  <2> QED
    BY <1>5, <1>6, <2>1, <2>2, <2>3
<1>8. /\ r \in Seq(Block) /\ Len(r) = Len(head) + Len(after)
      /\ \A j \in 1 .. Len(head) + Len(after) :
           r[j] = IF j <= Len(head) THEN head[j] ELSE after[j - Len(head)]
  BY <1>3, <1>7, ConcatProperties
<1> HIDE DEF r
<1>9. Len(r) = Len(s) + 1 /\ k + 1 \in 1 .. Len(r) /\ r[k + 1] = b
  <2>1. Len(r) = Len(s) + 1 /\ Len(head) + Len(after) = Len(s) + 1
    BY <1>1, <1>3, <1>7, <1>8
  <2>2. k + 1 \in 1 .. Len(s) + 1 /\ k + 1 <= Len(head)
    BY <1>1, <1>7
  <2> QED
    BY <1>7, <1>8, <2>1, <2>2
<1>10. \A j \in 1 .. k : r[j] = s[j]
  <2>1. ASSUME NEW j \in 1 .. k PROVE r[j] = s[j]
    <3>1. j \in 1 .. Len(head) + Len(after) /\ j <= Len(head)
      BY <1>1, <1>3, <1>7
    <3> QED
      BY <1>7, <1>8, <3>1
  <2> QED
    BY <2>1
<1>11. \A j \in k + 1 .. Len(s) : r[j + 1] = s[j]
  <2>1. ASSUME NEW j \in k + 1 .. Len(s) PROVE r[j + 1] = s[j]
    <3>1. /\ j + 1 \in 1 .. Len(head) + Len(after) /\ ~(j + 1 <= Len(head))
          /\ (j + 1) - Len(head) = j - k /\ j - k \in 1 .. Len(s) - k /\ k + (j - k) = j
      BY <1>1, <1>3, <1>7
    <3>2. r[j + 1] = after[j - k]
      BY <1>8, <3>1
    <3> QED
      BY <1>3, <3>1, <3>2
  <2> QED
    BY <2>1
<1>12. \A j \in 1 .. Len(s) : Inside(s, j) /\ Long(s[j])
  BY OrderOfNeighbours DEF Tidy
<1>13. Pixel \in Nat /\ Day \in Nat
  OBVIOUS
<1>14. ASSUME NEW j \in 1 .. Len(r) PROVE Inside(r, j) /\ (j # k + 1 => Long(r[j]))
  <2>1. CASE j < k
    <3>1. j \in 1 .. Len(s) /\ r[j] = s[j] /\ r[j + 1] = s[j + 1] /\ j # Len(r)
          /\ j + 1 \in 1 .. Len(s)
      BY <1>1, <1>9, <1>10, <2>1
    <3> QED
      BY <1>12, <3>1 DEF Inside
  <2>2. CASE j = k
    <3>1. j \in 1 .. Len(s) /\ r[j] = s[j] /\ r[j + 1] = b /\ j # Len(r)
      BY <1>1, <1>9, <1>10, <2>2
    <3>2. Inside(s, j) /\ Long(s[j]) /\ s[j].x + Pixel < p
      BY <1>12, <2>2, <3>1 DEF Spot
    <3>3. s[j].x <= p
      BY <1>4, <1>13, <3>2 DEF Inside
    <3> QED
      BY <1>4, <3>1, <3>2, <3>3 DEF Inside
  <2>3. CASE j = k + 1
    <3>1. r[j] = b
      BY <1>9, <2>3
    <3>2. 0 <= p /\ p <= Day
      BY <1>13 DEF Spot
    <3>3. j + 1 \in 1 .. Len(r) => p <= r[j + 1].x0
      <4>1. j + 1 \in 1 .. Len(r) => k + 1 \in 1 .. Len(s) /\ r[j + 1] = s[k + 1]
        <5>1. j + 1 \in 1 .. Len(r) => k + 1 \in k + 1 .. Len(s) /\ k + 1 \in 1 .. Len(s)
          BY <1>1, <1>9, <2>3
        <5> QED
          BY <1>11, <2>3, <5>1
      <4>2. k + 1 \in 1 .. Len(s) => p + Pixel < s[k + 1].x0 /\ s[k + 1].x0 \in Int
        BY <1>12 DEF Spot, Inside
      <4>3. k + 1 \in 1 .. Len(s) => p <= s[k + 1].x0
        BY <1>4, <1>13, <4>2
      <4> QED
        BY <4>1, <4>3
    <3> QED
      BY <1>4, <2>3, <3>1, <3>2, <3>3, SMTT(30) DEF Inside
  <2>4. CASE j > k + 1
    <3>1. j - 1 \in k + 1 .. Len(s) /\ j - 1 + 1 = j /\ j \in k + 1 .. Len(s) + 1 /\ j # 1
      BY <1>1, <1>9, <2>4
    <3>2. r[j] = s[j - 1] /\ (j \in 1 .. Len(s) => r[j + 1] = s[j])
      <4>1. r[j - 1 + 1] = s[j - 1]
        BY <1>11, <3>1
      <4>2. j \in 1 .. Len(s) => j \in k + 1 .. Len(s)
        BY <1>1, <3>1
      <4> QED
        BY <1>11, <3>1, <4>1, <4>2
    <3>3. Inside(s, j - 1) /\ Long(s[j - 1])
      BY <1>1, <1>12, <3>1
    <3>4. j = Len(r) => j - 1 = Len(s)
      BY <1>1, <1>9
    <3>5. j + 1 \in 1 .. Len(r) => j \in 1 .. Len(s)
      BY <1>1, <1>9
    <3>6. j + 1 \in 1 .. Len(r) => r[j].x <= r[j + 1].x0
      BY <3>1, <3>2, <3>3, <3>5 DEF Inside
    <3>7. j = Len(r) => r[j].x <= Day
      BY <3>2, <3>3, <3>4 DEF Inside
    <3> QED
      BY <3>1, <3>2, <3>3, <3>6, <3>7 DEF Inside
  <2> QED
    BY <1>1, <1>9, <2>1, <2>2, <2>3, <2>4
<1>16. /\ r \in Seq(Block) /\ InOrder(r) /\ k + 1 \in 1 .. Len(r)
       /\ OthersLong(r, k + 1)
  BY <1>8, <1>9, <1>14, OrderOfNeighbours DEF OthersLong
<1>17. r = InsertAt(s, k + 1, [x0 |-> p, x |-> p])
  <2>1. InsertAt(s, k + 1, b) = SubSeq(s, 1, (k + 1) - 1) \o <<b>> \o SubSeq(s, k + 1, Len(s))
    BY InsertMeans, Zenon
  <2>2. SubSeq(s, 1, (k + 1) - 1) = before
    BY <1>1, Zenon DEF before
  <2>3. r = before \o <<b>> \o SubSeq(s, k + 1, Len(s))
    BY Zenon DEF r, head, after
  <2> QED
    BY <2>1, <2>2, <2>3, Zenon DEF b
<1> QED
  BY <1>16, <1>17
-----------------------------------------------------------------------------
(* What dragging makes of a block, and where a new one goes. *)
LEMMA EdgesOf ==
  ASSUME NEW s \in Seq(Block), InOrder(s), NEW i \in 1 .. Len(s)
  PROVE  /\ LeftEdge(s, i) \in Int /\ RightEdge(s, i) \in Int
         /\ s[i].x0 \in Int /\ s[i].x \in Int
         /\ LeftEdge(s, i) <= s[i].x0 /\ s[i].x0 <= s[i].x /\ s[i].x <= RightEdge(s, i)
<1>1. Len(s) \in Nat /\ \A j \in 1 .. Len(s) : s[j].x0 \in Int /\ s[j].x \in Int
  BY LenProperties, OrderOfNeighbours DEF Inside
<1>2. LeftEdge(s, i) \in Int
  <2>1. i > 1 => i - 1 \in 1 .. Len(s)
    BY <1>1
  <2> QED
    BY <1>1, <2>1 DEF LeftEdge
<1>3. RightEdge(s, i) \in Int
  <2>1. i < Len(s) => i + 1 \in 1 .. Len(s)
    BY <1>1
  <2> QED
    BY <1>1, <2>1 DEF RightEdge
<1> QED
  BY <1>1, <1>2, <1>3 DEF InOrder

LEMMA BetweenEdges ==
  ASSUME NEW s \in Seq(Block), InOrder(s), NEW i \in 1 .. Len(s), NEW b \in Block,
         LeftEdge(s, i) <= b.x0, b.x0 <= b.x, b.x <= RightEdge(s, i)
  PROVE  Fits(s, i, b)
<1>1. Len(s) \in Nat
  BY LenProperties
<1>2. i = 1 => LeftEdge(s, i) = 0
  BY DEF LeftEdge
<1>3. i - 1 \in 1 .. Len(s) => LeftEdge(s, i) = s[i - 1].x
  BY <1>1 DEF LeftEdge
<1>4. i = Len(s) => RightEdge(s, i) = Day
  BY <1>1 DEF RightEdge
<1>5. i + 1 \in 1 .. Len(s) => RightEdge(s, i) = s[i + 1].x0
  BY <1>1 DEF RightEdge
<1> QED
  BY <1>2, <1>3, <1>4, <1>5 DEF Fits

\* A block moved as far as its neighbours let it, in numbers.
Shifted(left, right, x0, x) ==
  IF x0 < left THEN [x0 |-> left, x |-> x + left - x0]
  ELSE IF x > right THEN [x0 |-> x0 - (x - right), x |-> right]
  ELSE [x0 |-> x0, x |-> x]

LEMMA ShiftedBetween ==
  ASSUME NEW left \in Int, NEW right \in Int, NEW x0 \in Int, NEW x \in Int,
         x - x0 >= MinGap, x - x0 <= right - left
  PROVE  LET b == Shifted(left, right, x0, x)
         IN  /\ b \in Block /\ left <= b.x0 /\ b.x0 <= b.x /\ b.x <= right
             /\ b.x - b.x0 >= MinGap
<1>1. CASE x0 < left
  BY <1>1 DEF Shifted, Block
<1>2. CASE ~(x0 < left) /\ x > right
  BY <1>2 DEF Shifted, Block
<1>3. CASE ~(x0 < left) /\ ~(x > right)
  BY <1>3 DEF Shifted, Block
<1> QED
  BY <1>1, <1>2, <1>3

LEMMA KeepsLength ==
  \A left, right, x0, x, d \in Int :
    /\ x0 + d \in Int /\ x + d \in Int
    /\ x - x0 >= MinGap => (x + d) - (x0 + d) >= MinGap
    /\ left <= x0 /\ x <= right => (x + d) - (x0 + d) <= right - left
  OBVIOUS

LEMMA MovedFits ==
  ASSUME NEW s \in Seq(Block), Tidy(s), NEW i \in 1 .. Len(s), NEW d \in Int
  PROVE  Moved(s, i, d) \in Block /\ Fits(s, i, Moved(s, i, d)) /\ Long(Moved(s, i, d))
<1> DEFINE left == LeftEdge(s, i)
           right == RightEdge(s, i)
           b == Shifted(left, right, s[i].x0 + d, s[i].x + d)
<1>1. Moved(s, i, d) = b
  BY Zenon DEF Moved, Shifted
<1>2. /\ left \in Int /\ right \in Int /\ s[i].x0 \in Int /\ s[i].x \in Int
      /\ left <= s[i].x0 /\ s[i].x0 <= s[i].x /\ s[i].x <= right
  BY EdgesOf DEF Tidy
<1>3. s[i].x - s[i].x0 >= MinGap
  BY DEF Tidy, Long
<1> HIDE DEF left, right
<1>4. /\ s[i].x0 + d \in Int /\ s[i].x + d \in Int
      /\ (s[i].x + d) - (s[i].x0 + d) >= MinGap
      /\ (s[i].x + d) - (s[i].x0 + d) <= right - left
  BY <1>2, <1>3, KeepsLength, Zenon
<1>5. /\ b \in Block /\ left <= b.x0 /\ b.x0 <= b.x /\ b.x <= right
      /\ b.x - b.x0 >= MinGap
  BY <1>2, <1>4, ShiftedBetween, Zenon
<1> HIDE DEF b
<1>6. Fits(s, i, b)
  BY <1>5, BetweenEdges DEF Tidy, left, right
<1> QED
  BY <1>1, <1>5, <1>6 DEF Long

LEMMA ClampBetween ==
  ASSUME NEW v \in Int, NEW low \in Int, NEW high \in Int, low <= high
  PROVE  Clamp(v, low, high) \in low .. high
  BY DEF Clamp

\* A block of which one end is moved as far as the neighbour and a minute from the
\* other end let it, in numbers.
Stretched(left, right, x0, x, end, d) ==
  IF end = "x" THEN [x0 |-> x0, x |-> Clamp(x + d, x0 + MinGap, right)]
  ELSE [x0 |-> Clamp(x0 + d, left, x - MinGap), x |-> x]

LEMMA StretchedBetween ==
  ASSUME NEW left \in Int, NEW right \in Int, NEW x0 \in Int, NEW x \in Int,
         NEW end, NEW d \in Int, left <= x0, x0 <= x, x <= right,
         x - x0 >= MinGap \/ (left + MinGap <= x /\ x0 + MinGap <= right)
  PROVE  LET b == Stretched(left, right, x0, x, end, d)
         IN  /\ b \in Block /\ left <= b.x0 /\ b.x0 <= b.x /\ b.x <= right
             /\ b.x - b.x0 >= MinGap
<1>1. /\ left <= x - MinGap /\ x0 + MinGap <= right /\ MinGap \in Nat
      /\ x - MinGap \in Int /\ x0 + MinGap \in Int /\ x + d \in Int /\ x0 + d \in Int
  OBVIOUS
<1>2. CASE end = "x"
  <2> DEFINE c == Clamp(x + d, x0 + MinGap, right)
  <2>1. c \in x0 + MinGap .. right
    BY <1>1, ClampBetween, Zenon
  <2> HIDE DEF c
  <2>2. Stretched(left, right, x0, x, end, d) = [x0 |-> x0, x |-> c]
    BY <1>2 DEF Stretched, c
  <2> QED
    BY <1>1, <2>1, <2>2 DEF Block
<1>3. CASE end # "x"
  <2> DEFINE c == Clamp(x0 + d, left, x - MinGap)
  <2>1. c \in left .. x - MinGap
    BY <1>1, ClampBetween, Zenon
  <2> HIDE DEF c
  <2>2. Stretched(left, right, x0, x, end, d) = [x0 |-> c, x |-> x]
    BY <1>3 DEF Stretched, c
  <2> QED
    BY <1>1, <2>1, <2>2 DEF Block
<1> QED
  BY <1>2, <1>3

\* A block that is a minute long, or has room for one on either side.
LEMMA ResizedFits ==
  ASSUME NEW s \in Seq(Block), InOrder(s), NEW i \in 1 .. Len(s),
         Long(s[i]) \/ Room(s, i), NEW end \in Ends, NEW d \in Int
  PROVE  /\ Resized(s, i, end, d) \in Block /\ Fits(s, i, Resized(s, i, end, d))
         /\ Long(Resized(s, i, end, d))
<1> DEFINE left == LeftEdge(s, i)
           right == RightEdge(s, i)
           b == Stretched(left, right, s[i].x0, s[i].x, end, d)
<1>1. Resized(s, i, end, d) = b
  BY Zenon DEF Resized, Stretched
<1>2. /\ left \in Int /\ right \in Int /\ s[i].x0 \in Int /\ s[i].x \in Int
      /\ left <= s[i].x0 /\ s[i].x0 <= s[i].x /\ s[i].x <= right
  BY EdgesOf
<1>3. s[i].x - s[i].x0 >= MinGap \/ (left + MinGap <= s[i].x /\ s[i].x0 + MinGap <= right)
  BY Zenon DEF Long, Room
<1> HIDE DEF left, right
<1>4. /\ b \in Block /\ left <= b.x0 /\ b.x0 <= b.x /\ b.x <= right
      /\ b.x - b.x0 >= MinGap
  BY <1>2, <1>3, StretchedBetween, Zenon
<1> HIDE DEF b
<1>5. Fits(s, i, b)
  BY <1>4, BetweenEdges DEF left, right
<1> QED
  BY <1>1, <1>4, <1>5 DEF Long

LEMMA AfterAll ==
  \A x0, x, p \in Int : \A q \in Nat :
    x0 <= x /\ (x + q < p \/ p + q < x0) /\ (p > x \/ x < p) => x + q < p
  OBVIOUS

LEMMA BeforeAll ==
  \A x0, x, p \in Int : \A q \in Nat :
    x0 <= x /\ (x + q < p \/ p + q < x0) /\ p < x0 => p + q < x0
  OBVIOUS

LEMMA BehindIfNotBefore ==
  \A x0, p \in Int : \A q \in Nat : p + q < x0 => p < x0
  OBVIOUS

LEMMA OneSide ==
  \A x0, x, p \in Int : \A q \in Nat :
    ~(x0 - q <= p /\ p <= x + q) => x + q < p \/ p + q < x0
  OBVIOUS

LEMMA PixelBehind == \A x, p \in Int : \A q \in Nat : x + q < p => x < p
  OBVIOUS

\* A press that grabs no block is a pixel away from every block, on one side or
\* the other: getOrder finds the gap it is in, if it is in one at all.
LEMMA OrderIsSpot ==
  ASSUME NEW s \in Seq(Block), InOrder(s), NEW p \in Presses, Hit(s, p) = {}
  PROVE  Spot(s, Order(s, p), p)
<1> DEFINE n == Len(s)
           G == GapsAround(s, p)
<1>1. n \in Nat /\ \A i \in 1 .. n : Inside(s, i)
  BY LenProperties, OrderOfNeighbours
<1>2. Pixel \in Nat /\ Day \in Nat /\ p \in Int /\ p \in 0 .. Day
  BY InputAssumption
<1>3. ASSUME NEW i \in 1 .. n PROVE s[i].x + Pixel < p \/ p + Pixel < s[i].x0
  <2>1. ~(s[i].x0 - Pixel <= p /\ p <= s[i].x + Pixel)
    BY DEF Hit
  <2>2. s[i].x0 \in Int /\ s[i].x \in Int
    BY <1>1 DEF Inside
  <2> QED
    BY <1>2, <2>1, <2>2, OneSide, Zenon
<1>4. CASE s = <<>>
  <2>1. n = 0 /\ Order(s, p) = 0
    BY <1>4 DEF Order
  <2> QED
    BY <1>2, <2>1 DEF Spot
<1>5. CASE s # <<>> /\ p < s[1].x0
  <2>1. Order(s, p) = 0 /\ 1 \in 1 .. n
    BY <1>1, <1>5, EmptySeq DEF Order
  <2>2. p + Pixel < s[1].x0
    BY <1>1, <1>2, <1>3, <1>5, <2>1 DEF Inside
  <2> QED
    BY <1>1, <1>2, <2>1, <2>2 DEF Spot
<1>6. CASE s # <<>> /\ ~(p < s[1].x0) /\ p > s[n].x
  <2>1. Order(s, p) = n /\ n \in 1 .. n /\ n + 1 \notin 1 .. n
    BY <1>1, <1>6, EmptySeq DEF Order
  <2>3. s[n].x0 \in Int /\ s[n].x \in Int /\ s[n].x0 <= s[n].x
    BY <1>1, <2>1 DEF Inside
  <2>2. s[n].x + Pixel < p
    BY <1>2, <1>3, <1>6, <2>1, <2>3, AfterAll, Zenon
  <2> QED
    BY <1>1, <1>2, <2>1, <2>2 DEF Spot
<1>7. CASE s # <<>> /\ ~(p < s[1].x0) /\ ~(p > s[n].x)
  <2> DEFINE S == { i \in 1 .. n : p < s[i].x0 }
  <2>1. 1 \in 1 .. n /\ n \in 1 .. n
    BY <1>1, <1>7, EmptySeq
  <2>2. n \in S
    <3>1. Inside(s, n) /\ (s[n].x + Pixel < p \/ p + Pixel < s[n].x0)
      BY <1>1, <1>3, <2>1
    <3>2. p < s[n].x0
      BY <1>2, <1>7, <3>1 DEF Inside
    <3> QED
      BY <2>1, <3>2
  <2>3. PICK m \in S : \A j \in S : m <= j
    <3>1. S \subseteq Nat /\ S # {}
      BY <2>2
    <3> QED
      BY <3>1, LeastOf
  <2>4. m \in 1 .. n /\ p < s[m].x0
    BY <2>3
  <2>5. m - 1 \in 1 .. n - 1 /\ m - 1 \in 1 .. n /\ (m - 1) + 1 = m /\ m - 1 \notin S
    BY <1>1, <1>7, <2>3, <2>4
  <2>6. s[m - 1].x + Pixel < p
    <3>1. ~(p < s[m - 1].x0)
      BY <2>5
    <3>2. s[m - 1].x0 \in Int
      BY <1>1, <2>5 DEF Inside
    <3> QED
      BY <1>2, <1>3, <2>5, <3>1, <3>2, BehindIfNotBefore, Zenon
  <2>7. m - 1 \in G
    <3>1. s[m - 1].x \in Int
      BY <1>1, <2>5 DEF Inside
    <3>2. s[m - 1].x < p
      BY <1>2, <2>6, <3>1, PixelBehind, Zenon
    <3> QED
      BY <2>4, <2>5, <3>2 DEF GapsAround
  <2>8. G \subseteq Nat /\ G \subseteq 1 .. n - 1
    BY DEF GapsAround
  <2>9. Order(s, p) = CHOOSE i \in G : \A j \in G : i <= j
    BY <1>7, <2>7 DEF Order
  <2>10. \E i \in G : \A j \in G : i <= j
    BY <2>7, <2>8, LeastOf
  <2>11. Order(s, p) \in G
    BY <2>9, <2>10
  <2> DEFINE k == Order(s, p)
  <2>12. k \in 1 .. n - 1 /\ s[k].x < p /\ p < s[k + 1].x0
    BY <2>11 DEF GapsAround
  <2> HIDE DEF k
  <2>13. k \in 0 .. n /\ k \in 1 .. n /\ k + 1 \in 1 .. n
    BY <1>1, <2>12
  <2>14. Inside(s, k) /\ Inside(s, k + 1)
    BY <1>1, <2>13
  <2>15. s[k].x + Pixel < p
    <3>1. s[k].x0 \in Int /\ s[k].x \in Int /\ s[k].x0 <= s[k].x
      BY <2>14 DEF Inside
    <3> QED
      BY <1>2, <1>3, <2>12, <2>13, <3>1, AfterAll, Zenon
  <2>16. p + Pixel < s[k + 1].x0
    <3>1. /\ s[k + 1].x0 \in Int /\ s[k + 1].x \in Int
          /\ s[k + 1].x0 <= s[k + 1].x
      BY <2>14 DEF Inside
    <3> QED
      BY <1>2, <1>3, <2>12, <2>13, <3>1, BeforeAll, Zenon
  <2>17. Spot(s, k, p)
    BY <1>2, <2>13, <2>15, <2>16 DEF Spot
  <2> QED
    BY <2>17 DEF k
<1> QED
  BY <1>4, <1>5, <1>6, <1>7
-----------------------------------------------------------------------------
(* Shapes, on any line: what is done to a line gives a line again. *)
LEMMA EdgesTyped ==
  ASSUME NEW s \in Seq(Block), NEW i \in 1 .. Len(s)
  PROVE  /\ LeftEdge(s, i) \in Int /\ RightEdge(s, i) \in Int
         /\ s[i].x0 \in Int /\ s[i].x \in Int
<1>1. Len(s) \in Nat /\ \A j \in 1 .. Len(s) : s[j].x0 \in Int /\ s[j].x \in Int
  <2>1. Len(s) \in Nat /\ \A j \in 1 .. Len(s) : s[j] \in Block
    BY ElementOfSeq, LenProperties
  <2> QED
    BY <2>1 DEF Block
<1>2. i > 1 => i - 1 \in 1 .. Len(s)
  BY <1>1
<1>3. i < Len(s) => i + 1 \in 1 .. Len(s)
  BY <1>1
<1> QED
  BY <1>1, <1>2, <1>3 DEF LeftEdge, RightEdge

LEMMA ShapedTyped ==
  ASSUME NEW s \in Seq(Block), NEW i \in 1 .. Len(s), NEW d \in Int, NEW end
  PROVE  Moved(s, i, d) \in Block /\ Resized(s, i, end, d) \in Block
<1> DEFINE left == LeftEdge(s, i)
           right == RightEdge(s, i)
           x0 == s[i].x0
           x == s[i].x
<1>1. left \in Int /\ right \in Int /\ x0 \in Int /\ x \in Int
  BY EdgesTyped
<1>2. Moved(s, i, d) = Shifted(left, right, x0 + d, x + d)
  BY Zenon DEF Moved, Shifted
<1>3. Resized(s, i, end, d) = Stretched(left, right, x0, x, end, d)
  BY Zenon DEF Resized, Stretched
<1> HIDE DEF left, right, x0, x
<1>4. Shifted(left, right, x0 + d, x + d) \in Block
  BY <1>1 DEF Shifted, Block
<1>5. Stretched(left, right, x0, x, end, d) \in Block
  <2>1. \A v, low, high \in Int : Clamp(v, low, high) \in Int
    BY DEF Clamp
  <2>2. /\ Clamp(x + d, x0 + MinGap, right) \in Int
        /\ Clamp(x0 + d, left, x - MinGap) \in Int
    <3>1. x + d \in Int /\ x0 + MinGap \in Int /\ x0 + d \in Int /\ x - MinGap \in Int
      BY <1>1
    <3> QED
      BY <1>1, <2>1, <3>1, Zenon
  <2> QED
    BY <1>1, <2>2 DEF Stretched, Block
<1> QED
  BY <1>2, <1>3, <1>4, <1>5

LEMMA WithoutTyped ==
  ASSUME NEW s \in Seq(Block), NEW i
  PROVE  Without(s, i) \in Seq(Block)
<1>1. CASE i \in 1 .. Len(s)
  <2>1. /\ SubSeq(s, 1, i - 1) \in Seq(Block)
        /\ SubSeq(s, i + 1, Len(s)) \in Seq(Block)
    <3>1. Len(s) \in Nat /\ i \in Nat
      BY <1>1, LenProperties
    <3> QED
      BY <1>1, <3>1, SubSeqProperties
  <2> QED
    BY <1>1, <2>1, ConcatProperties DEF Without, RemoveAt
<1>2. CASE i \notin 1 .. Len(s)
  BY <1>2 DEF Without
<1> QED
  BY <1>1, <1>2

LEMMA InsertTyped ==
  ASSUME NEW s \in Seq(Block), NEW i \in 1 .. Len(s) + 1, NEW b \in Block
  PROVE  InsertAt(s, i, b) \in Seq(Block)
<1>1. Len(s) \in Nat /\ i \in Nat /\ \A j \in 1 .. Len(s) : s[j] \in Block
  BY LenProperties, ElementOfSeq
<1>2. SubSeq(s, 1, i - 1) \in Seq(Block) /\ SubSeq(s, i, Len(s)) \in Seq(Block)
  BY <1>1, SubSeqProperties
<1>3. <<b>> \in Seq(Block)
  OBVIOUS
<1>4. SubSeq(s, 1, i - 1) \o <<b>> \in Seq(Block)
  BY <1>2, <1>3, ConcatProperties
<1> QED
  BY <1>2, <1>4, ConcatProperties, InsertMeans

LEMMA OrderTyped ==
  ASSUME NEW s \in Seq(Block), NEW p
  PROVE  Order(s, p) \in 0 .. Len(s) \/ Order(s, p) = Undefined
<1> DEFINE G == GapsAround(s, p)
<1>1. Len(s) \in Nat
  BY LenProperties
<1>2. G \subseteq 1 .. Len(s) - 1 /\ G \subseteq Nat
  BY DEF GapsAround
<1>3. G # {} => (CHOOSE i \in G : \A j \in G : i <= j) \in G
  <2>1. G # {} => \E i \in G : \A j \in G : i <= j
    BY <1>2, LeastOf
  <2> QED
    BY <2>1
<1> QED
  BY <1>1, <1>2, <1>3 DEF Order

-----------------------------------------------------------------------------
(* The inductive invariant.  Beyond the properties it says that a block that is *)
(* not drawn out yet has a minute's room on either side, which lets the first   *)
(* move draw it out, and that the tables on their way are tidy, on every line   *)
(* that is not cramped.                                                         *)
TablesType ==
  /\ lines \in [Lines -> Seq(Block)]
  /\ answers \subseteq [Lines -> Seq(Block)]
  /\ cramped \subseteq Lines
GestureType ==
  /\ activeLine \in Lines \cup {NoLine}
  /\ activeBlob \in Nat
  /\ drag \in Drags
  /\ pointLine \in Lines \cup {NoLine}
  /\ handles \in BOOLEAN /\ shown \in BOOLEAN
FormType == form \in Forms

Fresh(l, i) == Drawing /\ shown /\ l = activeLine /\ i = activeBlob
LineOK(l) ==
  /\ InOrder(lines[l])
  /\ \A i \in 1 .. Len(lines[l]) :
       Long(lines[l][i]) \/ (Fresh(l, i) /\ Room(lines[l], i))
PageOK == \A l \in Lines \ cramped : LineOK(l)
AnswersOK == \A t \in answers : \A l \in Lines \ cramped : Tidy(t[l])

Tables == TablesType /\ PageOK /\ AnswersOK
Page == GestureType /\ FormType /\ NoDragUnderForm
IInv == Tables /\ Page

LEMMA InitOK == ASSUME Init PROVE IInv
<1>1. PICK t \in Opening : answers = {t} /\ cramped = { l \in Lines : ~Tidy(t[l]) }
  BY DEF Init
<1>2. TablesType
  BY <1>1, EmptySeq, InputAssumption DEF Init, TablesType
<1>3. PageOK
  BY DEF Init, PageOK, LineOK, InOrder
<1>4. AnswersOK
  BY <1>1 DEF AnswersOK
<1>5. Page
  BY DEF Init, Page, GestureType, FormType, NoDragUnderForm, Drags, Forms, NoForm
<1> QED
  BY <1>2, <1>3, <1>4, <1>5 DEF IInv, Tables

\* The lines as they are, while lines may become cramped and answers go.
LEMMA SamePage ==
  ASSUME IInv, UNCHANGED lines, answers' \subseteq answers,
         cramped \subseteq cramped', cramped' \subseteq Lines,
         \A l \in Lines \ cramped' : \A i \in 1 .. Len(lines[l]) :
            Fresh(l, i) => Fresh(l, i)' \/ Long(lines[l][i])
  PROVE  Tables'
<1>1. TablesType'
  BY DEF IInv, Tables, TablesType
<1>2. ASSUME NEW l \in Lines \ cramped' PROVE LineOK(l)'
  <2>1. LineOK(l) /\ lines'[l] = lines[l]
    BY DEF IInv, Tables, PageOK
  <2>2. ASSUME NEW i \in 1 .. Len(lines[l])
        PROVE  Long(lines[l][i]) \/ (Fresh(l, i)' /\ Room(lines[l], i))
    BY <2>1, <2>2 DEF LineOK
  <2> QED
    BY <2>1, <2>2 DEF LineOK
<1>3. AnswersOK'
  BY DEF IInv, Tables, AnswersOK
<1> QED
  BY <1>1, <1>2, <1>3 DEF Tables, PageOK

\* One line changed.
LEMMA OneLine ==
  ASSUME IInv, NEW l0 \in Lines, NEW r \in Seq(Block),
         lines' = [lines EXCEPT ![l0] = r], UNCHANGED answers,
         cramped \subseteq cramped', cramped' \subseteq Lines,
         l0 \notin cramped' =>
            /\ InOrder(r)
            /\ \A i \in 1 .. Len(r) : Long(r[i]) \/ (Fresh(l0, i)' /\ Room(r, i)),
         \A l \in Lines \ cramped' : \A i \in 1 .. Len(lines[l]) :
            l # l0 /\ Fresh(l, i) => Fresh(l, i)' \/ Long(lines[l][i])
  PROVE  Tables'
<1>1. TablesType'
  BY DEF IInv, Tables, TablesType
<1>2. ASSUME NEW l \in Lines \ cramped' PROVE LineOK(l)'
  <2>1. CASE l = l0
    <3>1. lines'[l] = r
      BY <2>1 DEF IInv, Tables, TablesType
    <3> QED
      BY <1>2, <2>1, <3>1 DEF LineOK
  <2>2. CASE l # l0
    <3>1. LineOK(l) /\ lines'[l] = lines[l]
      BY <2>2 DEF IInv, Tables, TablesType, PageOK
    <3>2. ASSUME NEW i \in 1 .. Len(lines[l])
          PROVE  Long(lines[l][i]) \/ (Fresh(l, i)' /\ Room(lines[l], i))
      BY <2>2, <3>1, <3>2 DEF LineOK
    <3> QED
      BY <3>1, <3>2 DEF LineOK
  <2> QED
    BY <2>1, <2>2
<1>3. AnswersOK'
  BY DEF IInv, Tables, AnswersOK
<1> QED
  BY <1>1, <1>2, <1>3 DEF Tables, PageOK

\* All lines replaced by tidy ones.
LEMMA TidyPage ==
  ASSUME IInv, lines' \in [Lines -> Seq(Block)], answers' \subseteq answers,
         cramped \subseteq cramped', cramped' \subseteq Lines,
         \A l \in Lines \ cramped' : Tidy(lines'[l])
  PROVE  Tables'
<1>1. TablesType'
  BY DEF IInv, Tables, TablesType
<1>2. PageOK'
  BY DEF PageOK, LineOK, Tidy
<1>3. AnswersOK'
  BY DEF IInv, Tables, AnswersOK
<1> QED
  BY <1>1, <1>2, <1>3 DEF Tables

LEMMA LineOf ==
  ASSUME IInv, NEW l \in Lines
  PROVE  /\ lines[l] \in Seq(Block)
         /\ l \notin cramped => LineOK(l)
  BY DEF IInv, Tables, TablesType, PageOK

\* Without block i, a line where only that block may be fresh.
LEMMA RemovedLine ==
  ASSUME IInv, NEW l \in Lines, NEW i,
         \A j \in 1 .. Len(lines[l]) : Fresh(l, j) => j = i
  PROVE  /\ Without(lines[l], i) \in Seq(Block)
         /\ l \notin cramped => Tidy(Without(lines[l], i))
<1> DEFINE s == lines[l]
<1>1. s \in Seq(Block)
  BY LineOf
<1>2. Without(s, i) \in Seq(Block)
  BY <1>1, WithoutTyped
<1>3. ASSUME l \notin cramped PROVE Tidy(Without(s, i))
  <2>1. InOrder(s) /\ OthersLong(s, i)
    BY <1>3, LineOf DEF LineOK, OthersLong
  <2>2. CASE i \in 1 .. Len(s)
    BY <1>1, <2>1, <2>2, RemoveTidy DEF Without
  <2>3. CASE i \notin 1 .. Len(s)
    BY <2>1, <2>3 DEF Without, OthersLong, Tidy
  <2> QED
    BY <2>2, <2>3
<1> QED
  BY <1>2, <1>3

LEMMA DragShapes ==
  ASSUME drag \in Drags
  PROVE  /\ drag.end \in Ends
         /\ drag.status = "null" <=> drag = Idle
         /\ drag.status = "new" =>
              \A end \in Ends : [drag EXCEPT !.end = end] \in Drags \ {Idle}
  BY DEF Drags, Idle, Moving, Ends
-----------------------------------------------------------------------------
(* Moves of the mouse. *)
LEMMA HoverStep == ASSUME IInv, NEW l \in Lines \cup {NoLine}, Hover(l) PROVE IInv'
<1>1. ~Drawing
  BY DEF Hover, Idle, Drawing
<1>2. Tables'
  BY <1>1, SamePage DEF Hover, Fresh, IInv, Tables, TablesType
<1>3. Page'
  BY DEF Hover, IInv, Page, GestureType, FormType, NoDragUnderForm
<1> QED
  BY <1>2, <1>3 DEF IInv

\* What the three drags have in common: no block is fresh any more when they are
\* through, and a drag that goes on is still a drag without a dialog.
LEMMA DragOn ==
  ASSUME IInv, Exists(activeLine, activeBlob), shown' = FALSE,
         NEW b \in Block, SetBlob(b),
         activeLine \notin cramped =>
           Fits(lines[activeLine], activeBlob, b) /\ Long(b),
         UNCHANGED <<activeLine, activeBlob, form, answers, cramped>>,
         drag # Idle, drag' \in Drags,
         handles' \in BOOLEAN, pointLine' \in Lines \cup {NoLine}
  PROVE  IInv'
<1> DEFINE s == lines[activeLine]
           r == [s EXCEPT ![activeBlob] = b]
<1>1. activeLine \in Lines /\ activeBlob \in 1 .. Len(s)
  BY DEF Exists
<1>2. s \in Seq(Block) /\ (activeLine \notin cramped => LineOK(activeLine))
  BY <1>1, LineOf
<1>3. r \in Seq(Block)
  BY <1>1, <1>2, ExceptSeq
<1>4. lines' = [lines EXCEPT ![activeLine] = r]
  BY <1>1 DEF SetBlob
<1>5. activeLine \notin cramped => Tidy(r)
  <2>1. activeLine \notin cramped => InOrder(s) /\ OthersLong(s, activeBlob)
    BY <1>2 DEF LineOK, OthersLong, Fresh
  <2> QED
    BY <1>1, <1>2, <2>1, SetTidy
<1> HIDE DEF r
<1>6. \A l \in Lines : \A i : l # activeLine => ~Fresh(l, i)
  BY DEF Fresh
<1>7. cramped \subseteq Lines
  BY DEF IInv, Tables, TablesType
<1>8. Tables'
  BY <1>1, <1>3, <1>4, <1>5, <1>6, <1>7, OneLine DEF Tidy
<1>9. Page'
  BY DEF IInv, Page, GestureType, FormType, NoDragUnderForm
<1> QED
  BY <1>8, <1>9 DEF IInv

\* The block in hand, on a line that is not cramped
LEMMA LineOfDrag ==
  ASSUME IInv, Exists(activeLine, activeBlob)
  PROVE  /\ lines[activeLine] \in Seq(Block)
         /\ activeBlob \in 1 .. Len(lines[activeLine]) /\ activeLine \in Lines
         /\ activeLine \notin cramped =>
              /\ InOrder(lines[activeLine])
              /\ \/ Long(lines[activeLine][activeBlob])
                 \/ Room(lines[activeLine], activeBlob) /\ Drawing
  BY LineOf DEF Exists, LineOK, Fresh

LEMMA MoveStep == ASSUME IInv, NEW d \in Int, MoveBlob(d) PROVE IInv'
<1> DEFINE s == lines[activeLine]
           b == Moved(s, activeBlob, d)
<1>1. /\ Dragging("move") /\ SetBlob(b)
      /\ SetActivePoint /\ drag' \in {drag, Idle}
  BY DEF MoveBlob
<1>2. ~Drawing /\ Exists(activeLine, activeBlob) /\ drag # Idle
  BY <1>1 DEF Dragging, Drawing, Idle
<1>3. b \in Block
  BY <1>2, LineOfDrag, ShapedTyped
<1>4. activeLine \notin cramped => Fits(s, activeBlob, b) /\ Long(b)
  <2>1. activeLine \notin cramped => Tidy(s)
    BY <1>2, LineOf DEF LineOK, Fresh, Tidy, Exists
  <2> QED
    BY <1>2, <2>1, LineOfDrag, MovedFits
<1> HIDE DEF b
<1>5. drag' \in Drags /\ handles' \in BOOLEAN /\ pointLine' \in Lines \cup {NoLine}
  BY <1>1 DEF IInv, Page, GestureType, Drags, SetActivePoint
<1> QED
  BY <1>1, <1>2, <1>3, <1>4, <1>5, DragOn DEF Dragging

LEMMA ResizeStep == ASSUME IInv, NEW d \in Int, ResizeBlob(d) PROVE IInv'
<1> DEFINE s == lines[activeLine]
           b == Resized(s, activeBlob, drag.end, d)
<1>1. /\ Dragging("resize") /\ SetBlob(b)
      /\ SetActivePoint /\ drag' \in {drag, Idle}
  BY DEF ResizeBlob
<1>2. Exists(activeLine, activeBlob) /\ drag # Idle /\ drag.end \in Ends
  BY <1>1, DragShapes DEF Dragging, Idle, IInv, Page, GestureType
<1>3. b \in Block
  BY <1>2, LineOfDrag, ShapedTyped
<1>4. activeLine \notin cramped => Fits(s, activeBlob, b) /\ Long(b)
  BY <1>2, LineOfDrag, ResizedFits
<1> HIDE DEF b
<1>5. drag' \in Drags /\ handles' \in BOOLEAN /\ pointLine' \in Lines \cup {NoLine}
  BY <1>1 DEF IInv, Page, GestureType, Drags, SetActivePoint
<1> QED
  BY <1>1, <1>2, <1>3, <1>4, <1>5, DragOn DEF Dragging

LEMMA NewStep == ASSUME IInv, NEW d \in Int, NewBlob(d) PROVE IInv'
<1> DEFINE s == lines[activeLine]
           b == s[activeBlob]
           end == IF b.x # b.x0 THEN drag.end ELSE IF d > 0 THEN "x" ELSE "x0"
           r == Resized(s, activeBlob, end, d)
<1>1. /\ Dragging("new") /\ SetBlob(r) /\ UNCHANGED <<handles, pointLine>>
      /\ drag' \in {[drag EXCEPT !.end = end], Idle}
  BY DEF NewBlob
<1>2. /\ Exists(activeLine, activeBlob) /\ drag # Idle /\ drag.status = "new"
      /\ drag \in Drags
  BY <1>1, DragShapes DEF Dragging, Idle, IInv, Page, GestureType
<1>3. end \in Ends
  BY <1>2, DragShapes DEF Ends
<1> HIDE DEF end
<1>4. r \in Block
  BY <1>2, LineOfDrag, ShapedTyped
<1>5. activeLine \notin cramped => Fits(s, activeBlob, r) /\ Long(r)
  BY <1>2, <1>3, LineOfDrag, ResizedFits
<1>6. drag' \in Drags
  BY <1>1, <1>2, <1>3, DragShapes DEF Drags
<1>7. handles' \in BOOLEAN /\ pointLine' \in Lines \cup {NoLine}
  BY <1>1 DEF IInv, Page, GestureType
<1> HIDE DEF r
<1> QED
  BY <1>1, <1>2, <1>4, <1>5, <1>6, <1>7, DragOn DEF Dragging

LEMMA DragNothingStep == ASSUME IInv, DragNothing PROVE IInv'
<1>1. \A l \in Lines : \A i \in 1 .. Len(lines[l]) : ~Fresh(l, i)
  BY DEF DragNothing, Exists, Fresh
<1>2. Tables'
  BY <1>1, SamePage DEF DragNothing, IInv, Tables, TablesType
<1>3. Page'
  BY DEF DragNothing, IInv, Page, GestureType, FormType, NoDragUnderForm
<1> QED
  BY <1>2, <1>3 DEF IInv
-----------------------------------------------------------------------------
(* The button goes down: a block that is fresh makes its line a cramped one.  *)
LEMMA FreshUnfinished ==
  ASSUME IInv
  PROVE  /\ Unfinished \subseteq Lines
         /\ \A l \in Lines : \A i \in 1 .. Len(lines[l]) :
              Fresh(l, i) => l \in Unfinished \/ Long(lines[l][i])
  BY DEF Unfinished, Fresh, Exists, TooShort

LEMMA PressTables == ASSUME IInv, Press({}), UNCHANGED lines PROVE Tables'
<1>1. /\ cramped \subseteq cramped' /\ cramped' \subseteq Lines
      /\ Unfinished \subseteq cramped' /\ UNCHANGED answers
  BY FreshUnfinished DEF Press, IInv, Tables, TablesType
<1> QED
  BY <1>1, FreshUnfinished, SamePage

LEMMA PressPage ==
  ASSUME IInv, shown' \in BOOLEAN, UNCHANGED activeLine, activeBlob' \in Nat, drag' \in Drags,
         pointLine' \in Lines \cup {NoLine}, handles' \in BOOLEAN,
         form' \in Forms, drag' = Idle \/ form' = NoForm
  PROVE  Page'
  BY DEF IInv, Page, GestureType, FormType, NoDragUnderForm, NoForm

LEMMA PressNowhereStep == ASSUME IInv, PressNowhere PROVE IInv'
<1>1. form' \in Forms /\ (drag' = Idle \/ form' = NoForm)
  BY DEF IInv, Page, PressNowhere, Close, FormType, Forms
<1> QED
  BY <1>1, PressTables, PressPage DEF PressNowhere, Press, IInv, Page, GestureType

LEMMA PressCopyStep == ASSUME IInv, PressCopy PROVE IInv'
<1>1. [kind |-> "copy", line |-> activeLine, blob |-> 0] \in Forms
  BY DEF PressCopy, Forms
<1>2. form' \in Forms /\ (drag' = Idle \/ form' = NoForm)
  BY <1>1 DEF IInv, Page, PressCopy, FormType, Forms
<1> QED
  BY <1>2, PressTables, PressPage DEF PressCopy, Press, IInv, Page, GestureType

LEMMA PressHandleStep == ASSUME IInv, NEW end \in Ends, PressHandle(end) PROVE IInv'
<1>1. drag' = [status |-> "resize", end |-> end] /\ drag' \in Drags /\ drag' # Idle
  BY DEF PressHandle, Drags, Idle
<1>2. form' = NoForm /\ form' \in Forms
  BY <1>1 DEF PressHandle, Close, Forms
<1> QED
  BY <1>1, <1>2, PressTables, PressPage
     DEF PressHandle, PressStrip, Press, IInv, Page, GestureType

LEMMA PressBetweenStep == ASSUME IInv, PressBetween PROVE IInv'
<1>1. drag' = Moving /\ drag' \in Drags /\ drag' # Idle
  BY DEF PressBetween, Drags, Idle, Moving
<1>2. form' = NoForm /\ form' \in Forms
  BY <1>1 DEF PressBetween, Close, Forms
<1> QED
  BY <1>1, <1>2, PressTables, PressPage
     DEF PressBetween, PressStrip, Press, IInv, Page, GestureType

LEMMA PressStaleStep == ASSUME IInv, PressStale PROVE IInv'
<1>1. Tables'
  BY PressTables DEF PressStale, PressStrip
<1>2. Page'
  BY DEF IInv, PressStale, PressStrip, Press, Page, GestureType, FormType, NoDragUnderForm
<1> QED
  BY <1>1, <1>2 DEF IInv

LEMMA PressBlockStep == ASSUME IInv, NEW p \in Presses, PressBlock(p) PROVE IInv'
<1> DEFINE hit == Hit(lines[activeLine], p)
<1>1. /\ Press({}) /\ UNCHANGED lines /\ activeLine \in Lines /\ hit # {}
      /\ activeBlob' = CHOOSE i \in hit : \A j \in hit : i <= j
      /\ drag' = Moving /\ Close(drag') /\ SetActivePoint
  BY DEF PressBlock
<1>2. hit \subseteq Nat
  BY DEF Hit
<1>3. \E i \in hit : \A j \in hit : i <= j
  BY <1>1, <1>2, LeastOf
<1>4. activeBlob' \in Nat
  BY <1>1, <1>2, <1>3
<1>5. drag' \in Drags /\ drag' # Idle
  BY <1>1 DEF Drags, Idle, Moving
<1>6. form' = NoForm /\ form' \in Forms
  BY <1>1, <1>5 DEF Close, Forms
<1>7. pointLine' \in Lines \cup {NoLine} /\ handles' \in BOOLEAN
  BY <1>1 DEF SetActivePoint
<1>8. Page'
  BY <1>1, <1>4, <1>5, <1>6, <1>7, PressPage DEF Press
<1> QED
  BY <1>1, <1>8, PressTables DEF IInv

\* A line that is not cramped afterwards was tidy: the new block has its place
\* between its neighbours, and room.
LEMMA PressGapStep == ASSUME IInv, NEW p \in Presses, PressGap(p) PROVE IInv'
<1> DEFINE s == lines[activeLine]
           k == Order(s, p)
           place == IF k = Undefined THEN 1 ELSE k + 1
           b == [x0 |-> p, x |-> p]
           r == InsertAt(s, place, b)
           more == IF Room(r, place) THEN {} ELSE {activeLine}
<1>1. /\ Press(more) /\ activeLine \in Lines /\ Hit(s, p) = {}
      /\ activeBlob' = k + 1 /\ lines' = [lines EXCEPT ![activeLine] = r]
      /\ drag' \in [status : {"new"}, end : Ends] /\ Close(drag')
      /\ handles' = FALSE /\ UNCHANGED pointLine
  BY DEF PressGap
<1>2. /\ shown' /\ cramped' = cramped \cup Unfinished \cup more
      /\ UNCHANGED <<activeLine, answers>>
  BY <1>1 DEF Press
<1>3. s \in Seq(Block) /\ (activeLine \notin cramped => LineOK(activeLine))
  BY <1>1, LineOf
<1>4. k \in 0 .. Len(s) \/ k = Undefined
  BY <1>3, OrderTyped
<1>5. r \in Seq(Block)
  <2>1. b \in Block /\ place \in 1 .. Len(s) + 1
    <3>1. Len(s) \in Nat
      BY <1>3, LenProperties
    <3> QED
      BY <1>4, <3>1, InputAssumption DEF Block, Undefined
  <2> HIDE DEF b, place
  <2> QED
    BY <1>3, <2>1, InsertTyped
<1>6. cramped \subseteq cramped' /\ cramped' \subseteq Lines
  <2>1. more \subseteq Lines
    BY <1>1
  <2> HIDE DEF more
  <2> QED
    BY <1>2, <2>1, FreshUnfinished DEF IInv, Tables, TablesType
<1>7. drag' \in Drags /\ drag' # Idle /\ drag'.status = "new"
  BY <1>1 DEF Drags, Idle
<1>8. ASSUME NEW l0 \in Lines, l0 = activeLine, l0 \notin cramped'
      PROVE  /\ InOrder(r)
             /\ \A i \in 1 .. Len(r) :
                  Long(r[i]) \/ (Fresh(l0, i)' /\ Room(r, i))
  <2>1. Room(r, place) /\ activeLine \notin Unfinished /\ activeLine \notin cramped
    BY <1>2, <1>8
  <2>2. Tidy(s)
    BY <1>1, <1>3, <2>1, FreshUnfinished DEF LineOK, Tidy
  <2>3. Spot(s, k, p)
    BY <1>1, <1>3, <2>2, OrderIsSpot DEF Tidy
  <2>4. k # Undefined /\ place = k + 1
    <3>1. k \in 0 .. Len(s) /\ Len(s) \in Nat
      BY <1>3, <2>3, LenProperties DEF Spot
    <3> QED
      BY <3>1 DEF Undefined
  <2>5. InOrder(r) /\ OthersLong(r, k + 1)
    BY <1>3, <2>2, <2>3, <2>4, InsertOrdered
  <2>6. ASSUME NEW i, i = k + 1 PROVE Fresh(l0, i)'
    BY <1>1, <1>2, <1>7, <1>8, <2>6 DEF Fresh, Drawing
  <2> HIDE DEF r, k, place
  <2>7. ASSUME NEW i \in 1 .. Len(r)
        PROVE  Long(r[i]) \/ (Fresh(l0, i)' /\ Room(r, i))
    <3>1. CASE i = k + 1
      BY <2>1, <2>4, <2>6, <3>1
    <3>2. CASE i # k + 1
      BY <2>5, <3>2 DEF OthersLong
    <3> QED
      BY <3>1, <3>2
  <2> QED
    BY <2>5, <2>7
<1>9. \A l \in Lines : \A i : l # activeLine => ~Fresh(l, i)
  BY DEF Fresh
<1> HIDE DEF r, more
<1>10. Tables'
  <2>1. PICK l0 \in Lines : l0 = activeLine
    BY <1>1
  <2>2. /\ lines' = [lines EXCEPT ![l0] = r] /\ UNCHANGED answers
        /\ \A l \in Lines : \A i : l # l0 => ~Fresh(l, i)
    BY <1>1, <1>2, <1>9, <2>1
  <2>3. l0 \notin cramped' =>
          /\ InOrder(r)
          /\ \A i \in 1 .. Len(r) : Long(r[i]) \/ (Fresh(l0, i)' /\ Room(r, i))
    BY <1>8, <2>1
  <2> QED
    BY <1>5, <1>6, <2>2, <2>3, OneLine
<1>11. activeBlob' \in Nat
  <2>1. Len(s) \in Nat
    BY <1>3, LenProperties
  <2> QED
    BY <1>1, <1>4, <2>1 DEF Undefined
<1>12. form' = NoForm /\ form' \in Forms
  BY <1>1, <1>7 DEF Close, Forms
<1>13. pointLine' \in Lines \cup {NoLine} /\ handles' \in BOOLEAN
  BY <1>1 DEF IInv, Page, GestureType
<1>14. Page'
  BY <1>2, <1>7, <1>11, <1>12, <1>13, PressPage DEF Press
<1> QED
  BY <1>10, <1>14 DEF IInv

LEMMA PressAsideStep == ASSUME IInv, PressAside PROVE IInv'
<1>1. drag' = Idle /\ drag' \in Drags
  BY DEF PressAside, Drags
<1> QED
  BY <1>1, PressTables, PressPage DEF PressAside, Press, IInv, Page, GestureType, FormType
-----------------------------------------------------------------------------
(* The button comes up. *)
LEMMA CrampedLines == ASSUME IInv PROVE cramped \subseteq Lines
  BY DEF IInv, Tables, TablesType

LEMMA ReleaseDropStep == ASSUME IInv, ReleaseDrop PROVE IInv'
<1>1. PICK l0 \in Lines : l0 = activeLine /\ activeBlob \in 1 .. Len(lines[l0])
  BY DEF ReleaseDrop, Exists
<1> DEFINE r == Without(lines[l0], activeBlob)
<1>2. lines' = [lines EXCEPT ![l0] = r] /\ UNCHANGED <<answers, cramped>>
  BY <1>1 DEF ReleaseDrop, Release, Without
<1>3. r \in Seq(Block) /\ (l0 \notin cramped => Tidy(r))
  BY RemovedLine DEF Fresh
<1> HIDE DEF r
<1>4. \A l \in Lines : \A i : l # l0 => ~Fresh(l, i)
  BY <1>1 DEF Fresh
<1>5. Tables'
  BY <1>2, <1>3, <1>4, OneLine, CrampedLines DEF Tidy
<1>6. Page'
  BY DEF ReleaseDrop, Release, IInv, Page, GestureType, FormType, NoDragUnderForm, Drags
<1> QED
  BY <1>5, <1>6 DEF IInv

LEMMA ReleaseLostStep == ASSUME IInv, ReleaseLost PROVE IInv'
<1>1. \A l \in Lines : \A i \in 1 .. Len(lines[l]) : ~Fresh(l, i)
  BY DEF ReleaseLost, Exists, Fresh
<1>2. Tables'
  BY <1>1, SamePage, CrampedLines DEF ReleaseLost, Release
<1>3. Page'
  BY DEF ReleaseLost, Release, IInv, Page, GestureType, FormType, NoDragUnderForm
<1> QED
  BY <1>2, <1>3 DEF IInv

LEMMA ReleaseKeepStep ==
  ASSUME IInv, NEW inside \in BOOLEAN, ReleaseKeep(inside)
  PROVE  IInv'
<1>1. \A l \in Lines : \A i \in 1 .. Len(lines[l]) : Fresh(l, i) => Long(lines[l][i])
  BY DEF ReleaseKeep, Fresh, TooShort
<1>2. Tables'
  BY <1>1, SamePage, CrampedLines DEF ReleaseKeep, Release
<1>3. [kind |-> "edit", line |-> activeLine, blob |-> activeBlob] \in Forms
      \/ ~Exists(activeLine, activeBlob)
  BY DEF Exists, Forms, IInv, Page, GestureType
<1>4. FormType'
  BY <1>3 DEF ReleaseKeep, IInv, Page, FormType
<1>5. GestureType' /\ NoDragUnderForm'
  BY DEF ReleaseKeep, Release, IInv, Page, GestureType, NoDragUnderForm, Drags
<1> QED
  BY <1>2, <1>4, <1>5 DEF IInv, Page

-----------------------------------------------------------------------------
(* Buttons.  A dialog is open only when nothing is being drawn. *)
LEMMA NotDrawing ==
  ASSUME IInv, form.kind # "none"
  PROVE  /\ \A l \in Lines : \A i : ~Fresh(l, i)
         /\ \A l \in Lines : lines[l] \in Seq(Block) /\ (l \notin cramped => Tidy(lines[l]))
         /\ form.line \in Lines
<1>1. \A l \in Lines : \A i : ~Fresh(l, i)
  BY DEF IInv, Page, NoDragUnderForm, Fresh, Drawing, Idle
<1>2. \A l \in Lines : lines[l] \in Seq(Block) /\ (l \notin cramped => Tidy(lines[l]))
  BY <1>1, LineOf DEF LineOK, Tidy
<1>3. form.line \in Lines
  BY DEF IInv, Page, FormType, Forms, NoForm
<1> QED
  BY <1>1, <1>2, <1>3

LEMMA Dismissed ==
  ASSUME IInv, UNCHANGED gesture, form' = NoForm
  PROVE  Page'
  BY DEF IInv, Page, gesture, GestureType, FormType, Forms, NoForm, NoDragUnderForm

LEMMA OnSaveStep ==
  ASSUME IInv, NEW start \in Times, NEW end \in Times, OnSave(start, end)
  PROVE  IInv'
<1>1. form.kind # "none"
  BY DEF OnSave
<1>2. PICK l0 \in Lines : l0 = form.line
  BY <1>1, NotDrawing
<1> DEFINE s == lines[l0]
           b == [x0 |-> start, x |-> end]
           r == [s EXCEPT ![form.blob] = b]
<1>3. /\ start < end /\ form.blob \in 1 .. Len(s)
      /\ LeftEdge(s, form.blob) <= start /\ end <= RightEdge(s, form.blob)
      /\ lines' = [lines EXCEPT ![l0] = r]
      /\ form' = NoForm /\ UNCHANGED <<gesture, answers, cramped>>
  BY <1>2 DEF OnSave, Exists
<1>4. s \in Seq(Block) /\ (l0 \notin cramped => Tidy(s))
  BY <1>1, NotDrawing
<1>5. b \in Block /\ Long(b) /\ b.x0 = start /\ b.x = end /\ b.x0 <= b.x
  BY <1>3, InputAssumption DEF Block, Long
<1> HIDE DEF b
<1>6. r \in Seq(Block)
  BY <1>3, <1>4, <1>5, ExceptSeq
<1>7. l0 \notin cramped => Tidy(r)
  <2>1. l0 \notin cramped => Fits(s, form.blob, b)
    BY <1>3, <1>4, <1>5, BetweenEdges DEF Tidy
  <2>2. l0 \notin cramped => InOrder(s) /\ OthersLong(s, form.blob)
    BY <1>4 DEF Tidy, OthersLong
  <2> QED
    BY <1>3, <1>4, <1>5, <2>1, <2>2, SetTidy
<1> HIDE DEF r
<1>8. Tables'
  BY <1>1, <1>3, <1>6, <1>7, NotDrawing, OneLine, CrampedLines DEF Tidy
<1> QED
  BY <1>3, <1>8, Dismissed DEF IInv

LEMMA OnDeleteStep == ASSUME IInv, OnDelete PROVE IInv'
<1>1. form.kind # "none"
  BY DEF OnDelete
<1>2. PICK l0 \in Lines : l0 = form.line
  BY <1>1, NotDrawing
<1> DEFINE r == Without(lines[l0], form.blob)
<1>3. /\ lines' = [lines EXCEPT ![l0] = r]
      /\ form' = NoForm /\ UNCHANGED <<gesture, answers, cramped>>
  BY <1>2 DEF OnDelete
<1>4. r \in Seq(Block) /\ (l0 \notin cramped => Tidy(r))
  BY <1>1, NotDrawing, RemovedLine
<1> HIDE DEF r
<1>5. Tables'
  BY <1>1, <1>3, <1>4, NotDrawing, OneLine, CrampedLines DEF Tidy
<1> QED
  BY <1>3, <1>5, Dismissed DEF IInv

\* The block being drawn stays fresh, unless it is the one that goes.
LEMMA OnDeleteOneStep == ASSUME IInv, OnDeleteOne PROVE IInv'
<1>1. PICK l0 \in Lines : l0 = pointLine
  BY DEF OnDeleteOne
<1> DEFINE r == Without(lines[l0], activeBlob)
<1>2. /\ lines' = [lines EXCEPT ![l0] = r]
      /\ UNCHANGED <<activeLine, activeBlob, drag, shown, answers, cramped>>
  BY <1>1 DEF OnDeleteOne
<1>3. r \in Seq(Block) /\ (l0 \notin cramped => Tidy(r))
  BY RemovedLine DEF Fresh
<1> HIDE DEF r
<1>4. \A l \in Lines : \A i : Fresh(l, i) => Fresh(l, i)'
  BY <1>2 DEF Fresh, Drawing
<1>5. Tables'
  BY <1>2, <1>3, <1>4, OneLine, CrampedLines DEF Tidy
<1>6. Page'
  BY DEF OnDeleteOne, IInv, Page, GestureType, FormType, NoDragUnderForm
<1> QED
  BY <1>5, <1>6 DEF IInv

LEMMA OnDeleteAllStep == ASSUME IInv, OnDeleteAll PROVE IInv'
<1>1. lines' = [l \in Lines |-> <<>>] /\ UNCHANGED <<answers, cramped>>
  BY DEF OnDeleteAll
<1>2. lines' \in [Lines -> Seq(Block)]
  BY <1>1, EmptySeq
<1>3. \A l \in Lines : Tidy(lines'[l])
  BY <1>1 DEF Tidy, InOrder
<1>4. Tables'
  BY <1>1, <1>2, <1>3, TidyPage, CrampedLines
<1>5. Page'
  BY DEF OnDeleteAll, IInv, Page, GestureType, FormType, NoDragUnderForm
<1> QED
  BY <1>4, <1>5 DEF IInv

LEMMA OnConfirmStep ==
  ASSUME IInv, NEW chosen \in SUBSET (Lines \ {form.line}), OnConfirm(chosen)
  PROVE  IInv'
<1>1. /\ form.kind # "none" /\ form' = NoForm /\ UNCHANGED <<gesture, answers>>
      /\ lines' = [l \in Lines |-> IF l \in chosen THEN lines[form.line] ELSE lines[l]]
      /\ cramped' = IF form.line \in cramped THEN cramped \cup chosen ELSE cramped
  BY DEF OnConfirm
<1>2. /\ form.line \in Lines
      /\ \A l \in Lines : lines[l] \in Seq(Block) /\ (l \notin cramped => Tidy(lines[l]))
  BY <1>1, NotDrawing
<1>3. cramped \subseteq cramped' /\ cramped' \subseteq Lines
  BY <1>1, CrampedLines
<1>4. lines' \in [Lines -> Seq(Block)]
  BY <1>1, <1>2
<1>5. \A l \in Lines \ cramped' : Tidy(lines'[l])
  BY <1>1, <1>2
<1>6. Tables'
  BY <1>1, <1>3, <1>4, <1>5, TidyPage
<1> QED
  BY <1>1, <1>6, Dismissed DEF IInv

LEMMA OnNoStep == ASSUME IInv, OnNo PROVE IInv'
<1>1. Tables'
  BY NotDrawing, SamePage, CrampedLines DEF OnNo
<1> QED
  BY <1>1, Dismissed DEF OnNo, IInv

LEMMA SameGesture ==
  ASSUME UNCHANGED gesture PROVE \A l, i : Fresh(l, i) => Fresh(l, i)'
  BY DEF gesture, Fresh, Drawing

\* A table saved while a block is being drawn has one line that is not tidy.
LEMMA OnSelfSaveStep == ASSUME IInv, OnSelfSave PROVE IInv'
<1>1. /\ UNCHANGED <<lines, gesture, form>> /\ answers' = answers \cup {lines}
      /\ cramped' = cramped \cup Unfinished
  BY DEF OnSelfSave
<1>2. TablesType'
  BY <1>1, FreshUnfinished DEF IInv, Tables, TablesType
<1>3. PageOK'
  <2>1. ASSUME NEW l \in Lines \ cramped' PROVE LineOK(l)'
    <3>1. LineOK(l) /\ lines'[l] = lines[l]
      BY <1>1, <2>1 DEF IInv, Tables, PageOK
    <3> QED
      BY <1>1, <3>1, SameGesture DEF LineOK
  <2> QED
    BY <2>1 DEF PageOK
<1>4. AnswersOK'
  <2>1. ASSUME NEW l \in Lines \ cramped' PROVE Tidy(lines[l])
    <3>1. LineOK(l) /\ l \notin Unfinished
      BY <1>1, <2>1 DEF IInv, Tables, PageOK
    <3> QED
      BY <3>1, FreshUnfinished DEF LineOK, Tidy
  <2>2. \A t \in answers : \A l \in Lines \ cramped' : Tidy(t[l])
    BY <1>1 DEF IInv, Tables, AnswersOK
  <2> QED
    BY <1>1, <2>1, <2>2 DEF AnswersOK
<1>5. Page'
  BY <1>1 DEF gesture, IInv, Page, GestureType, FormType, NoDragUnderForm
<1> QED
  BY <1>2, <1>3, <1>4, <1>5 DEF IInv, Tables

LEMMA AnswerStep == ASSUME IInv, NEW table \in answers, Answer(table) PROVE IInv'
<1>1. lines' = table /\ answers' \subseteq answers /\ UNCHANGED <<gesture, form, cramped>>
  BY DEF Answer
<1>2. Tables'
  BY <1>1, TidyPage, CrampedLines DEF IInv, Tables, TablesType, AnswersOK
<1>3. Page'
  BY <1>1 DEF gesture, IInv, Page, GestureType, FormType, NoDragUnderForm
<1> QED
  BY <1>2, <1>3 DEF IInv

\* A step that leaves the page and the mouse alone.
LEMMA QuietStep ==
  ASSUME IInv, UNCHANGED <<lines, gesture, form, cramped>>, answers' \subseteq answers
  PROVE  IInv'
<1>1. Tables'
  BY SamePage, SameGesture, CrampedLines
<1>2. Page'
  BY DEF gesture, IInv, Page, GestureType, FormType, NoDragUnderForm
<1> QED
  BY <1>1, <1>2 DEF IInv

-----------------------------------------------------------------------------
LEMMA MouseMoveStep == ASSUME IInv, MouseMove PROVE IInv'
<1>1. \A d \in Deltas : d \in Int
  BY InputAssumption
<1> QED
  BY <1>1, HoverStep, MoveStep, ResizeStep, NewStep, DragNothingStep DEF MouseMove

LEMMA MouseDownStep == ASSUME IInv, MouseDown PROVE IInv'
  BY PressNowhereStep, PressCopyStep, PressHandleStep, PressBetweenStep, PressStaleStep,
     PressBlockStep, PressGapStep, PressAsideStep DEF MouseDown

LEMMA MouseUpStep == ASSUME IInv, MouseUp PROVE IInv'
  BY ReleaseDropStep, ReleaseLostStep, ReleaseKeepStep DEF MouseUp

LEMMA ButtonsStep == ASSUME IInv, Buttons PROVE IInv'
  BY OnSaveStep, OnDeleteStep, OnDeleteOneStep, OnDeleteAllStep, OnConfirmStep,
     OnNoStep, OnSelfSaveStep DEF Buttons

LEMMA NextStep == ASSUME IInv, [Next]_vars PROVE IInv'
<1>1. CASE MouseMove
  BY <1>1, MouseMoveStep
<1>2. CASE MouseDown
  BY <1>2, MouseDownStep
<1>3. CASE MouseUp
  BY <1>3, MouseUpStep
<1>4. CASE Buttons
  BY <1>4, ButtonsStep
<1>5. ASSUME NEW table \in answers, Answer(table) PROVE IInv'
  BY <1>5, AnswerStep
<1>6. ASSUME NEW table \in answers, AnswerFails(table) PROVE IInv'
  BY <1>6, QuietStep DEF AnswerFails
<1>7. CASE UNCHANGED vars
  BY <1>7, QuietStep DEF vars, gesture
<1> QED
  BY <1>1, <1>2, <1>3, <1>4, <1>5, <1>6, <1>7 DEF Next

THEOREM Invariance == Spec => []IInv
  BY InitOK, NextStep, PTL DEF Spec

\* The shapes of the page's state hold for any days, blocks, scale and answers.
THEOREM TypeCorrect == Spec => []TypeOK
<1>1. IInv => TypeOK
  BY DEF IInv, Tables, TablesType, Page, GestureType, FormType, TypeOK
<1> QED
  BY Invariance, <1>1, PTL

\* For presses anywhere on the line and pixels of any size, no two blocks of a day
\* overlap and none sticks out of it, whatever is drawn, moved, resized, typed,
\* copied, deleted and answered in between (mousemove, changeBlob, getOrder, onSave,
\* initDrawer), as long as every block begun there had a minute's room and was
\* drawn out, or dropped, before the next press and the next save.
THEOREM NeverOverlap == Spec => []Disjoint
<1>1. IInv => Disjoint
  BY DEF IInv, Tables, PageOK, LineOK, Disjoint
<1> QED
  BY Invariance, <1>1, PTL

\* On such a day no block shorter than a minute is ever left behind, however its
\* release is lost (the mouseup handler, or the first move, sees to it).
THEOREM NothingInvisible == Spec => []NoEmptyBlock
<1>1. IInv => NoEmptyBlock
  BY DEF IInv, Tables, PageOK, LineOK, Fresh, NoEmptyBlock
<1> QED
  BY Invariance, <1>1, PTL

\* No block is dragged under an open dialog, not even when a release was lost.
THEOREM DialogsAlone == Spec => []NoDragUnderForm
<1>1. IInv => NoDragUnderForm
  BY DEF IInv, Page
<1> QED
  BY Invariance, <1>1, PTL
=============================================================================
