----------------------------- MODULE RoceSqProof -----------------------------
(***************************************************************************)
(* Theorems about the send queue, for every size of the queue and every    *)
(* consumer that keeps fewer elements unexecuted than the queue has        *)
(* entries and takes no used QP back to INIT.                              *)
(***************************************************************************)
EXTENDS RoceSq, TLAPS

-----------------------------------------------------------------------------
(* Indices.                                                                *)

\* A multiple of n strictly between -n and n is zero.
LEMMA NoMultiple ==
  ASSUME NEW n \in Nat \ {0}, NEW k \in Int, n * k < n, -n < n * k
  PROVE  k = 0
<1>1. CASE k >= 1
  <2>1. n * k >= n
    BY <1>1
  <2> QED
    BY <2>1
<1>2. CASE k <= -1
  <2>1. n * k <= -n
    BY <1>2
  <2> QED
    BY <2>1
<1> QED
  BY <1>1, <1>2

\* A remainder is known by its range.
LEMMA Remainder ==
  ASSUME NEW n \in Nat \ {0}, NEW a \in Int, NEW k \in Int, NEW r \in 0..(n - 1), a = n * k + r
  PROVE  a % n = r
<1>1. a % n \in 0..(n - 1) /\ a \div n \in Int
  OBVIOUS
<1>2. a = n * (a \div n) + (a % n)
  BY Z3
<1>3. PICK s \in 0..(n - 1), d \in Int : s = a % n /\ a = n * d + s
  BY <1>1, <1>2
<1>4. n * (d - k) = r - s
  <2>1. n * (d - k) = n * d - n * k
    OBVIOUS
  <2> QED
    BY <1>3, <2>1
<1>5. d - k = 0
  BY <1>4, NoMultiple, d - k \in Int
<1> QED
  BY <1>3, <1>4, <1>5

\* What % does to the values that occur: one turn at most, in either direction.
LEMMA Turn ==
  ASSUME NEW n \in Nat \ {0}, NEW a \in Int
  PROVE  /\ 0 <= a /\ a < n => a % n = a
         /\ n <= a /\ a < 2 * n => a % n = a - n
         /\ -n <= a /\ a < 0 => a % n = a + n
<1>1. ASSUME 0 <= a, a < n PROVE a % n = a
  <2>1. a \in 0..(n - 1) /\ a = n * 0 + a
    BY <1>1
  <2> QED
    BY <2>1, Remainder
<1>2. ASSUME n <= a, a < 2 * n PROVE a % n = a - n
  <2>1. a - n \in 0..(n - 1) /\ a = n * 1 + (a - n)
    BY <1>2
  <2> QED
    BY <2>1, Remainder
<1>3. ASSUME -n <= a, a < 0 PROVE a % n = a + n
  <2>1. a + n \in 0..(n - 1) /\ a = n * (-1) + (a + n)
    BY <1>3
  <2> QED
    BY <2>1, Remainder
<1> QED
  BY <1>1, <1>2, <1>3

LEMMA Sizes ==
  /\ Q \in Nat \ {0} /\ Q >= 2 /\ R \in Nat \ {0} /\ R = 3 * Q
  /\ MaxSge \in Nat /\ MaxSge >= 1 /\ MaxSge < Q
BY SqConstants DEF R

\* An entry behind another.
LEMMA Entry ==
  ASSUME NEW a \in Idx, NEW k \in 0..Q
  PROVE  /\ (a + k) % Q \in Idx
         /\ (a + k) % Q = IF a + k < Q THEN a + k ELSE a + k - Q
<1>1. PICK x \in Int : x = a + k
  BY Sizes DEF Idx
<1>2. /\ 0 <= x /\ x < Q => x % Q = x
      /\ Q <= x /\ x < 2 * Q => x % Q = x - Q
      /\ -Q <= x /\ x < 0 => x % Q = x + Q
  BY Sizes, Turn
<1> QED
  BY <1>1, <1>2, Sizes DEF Idx

\* The distance of two entries.
LEMMA GapIs ==
  ASSUME NEW a \in Idx, NEW b \in Idx
  PROVE  /\ Gap(a, b) \in Idx
         /\ Gap(a, b) = IF a <= b THEN b - a ELSE b - a + Q
<1>1. PICK x \in Int : x = b - a
  BY Sizes DEF Idx
<1>2. /\ 0 <= x /\ x < Q => x % Q = x
      /\ Q <= x /\ x < 2 * Q => x % Q = x - Q
      /\ -Q <= x /\ x < 0 => x % Q = x + Q
  BY Sizes, Turn
<1> QED
  BY <1>1, <1>2, Sizes DEF Gap, Idx

\* An element number behind another.
LEMMA Number ==
  ASSUME NEW a \in Num, NEW k \in 0..R
  PROVE  /\ (a + k) % R \in Num
         /\ (a + k) % R = IF a + k < R THEN a + k ELSE a + k - R
<1>1. PICK x \in Int : x = a + k
  BY Sizes DEF Num
<1>2. /\ 0 <= x /\ x < R => x % R = x
      /\ R <= x /\ x < 2 * R => x % R = x - R
      /\ -R <= x /\ x < 0 => x % R = x + R
  BY Sizes, Turn
<1> QED
  BY <1>1, <1>2, Sizes DEF Num

\* The distance of two element numbers.
LEMMA NumberGap ==
  ASSUME NEW a \in Num, NEW b \in Num
  PROVE  /\ (b - a) % R \in Num
         /\ (b - a) % R = IF a <= b THEN b - a ELSE b - a + R
<1>1. PICK x \in Int : x = b - a
  BY Sizes DEF Num
<1>2. /\ 0 <= x /\ x < R => x % R = x
      /\ R <= x /\ x < 2 * R => x % R = x - R
      /\ -R <= x /\ x < 0 => x % R = x + R
  BY Sizes, Turn
<1> QED
  BY <1>1, <1>2, Sizes DEF Num

\* n elements more are owed, or one fewer.
LEMMA OwedMore ==
  ASSUME NEW a \in Num, NEW b \in Num, NEW n \in 0..Q, (b - a) % R < Q
  PROVE  (((b + n) % R) - a) % R = ((b - a) % R) + n
<1>0. n \in 0..R
  BY Sizes
<1>1. PICK c \in Num : c = (b + n) % R
  BY <1>0, Number
<1>2. c = IF b + n < R THEN b + n ELSE b + n - R
  BY <1>0, <1>1, Number
<1>3. (b - a) % R = IF a <= b THEN b - a ELSE b - a + R
  BY NumberGap
<1>4. (c - a) % R = IF a <= c THEN c - a ELSE c - a + R
  BY NumberGap
<1>5. (c - a) % R = ((b - a) % R) + n
  BY <1>2, <1>3, <1>4, Sizes DEF Num
<1> QED
  BY <1>1, <1>5

LEMMA OwedLess ==
  ASSUME NEW a \in Num, NEW b \in Num, (b - a) % R > 0
  PROVE  (b - ((a + 1) % R)) % R = ((b - a) % R) - 1
<1>0. 1 \in 0..R
  BY Sizes
<1>1. PICK c \in Num : c = (a + 1) % R
  BY <1>0, Number
<1>2. c = IF a + 1 < R THEN a + 1 ELSE a + 1 - R
  BY <1>0, <1>1, Number
<1>3. (b - a) % R = IF a <= b THEN b - a ELSE b - a + R
  BY NumberGap
<1>4. (b - c) % R = IF c <= b THEN b - c ELSE b - c + R
  BY NumberGap
<1>5. (b - c) % R = ((b - a) % R) - 1
  BY <1>2, <1>3, <1>4, Sizes DEF Num
<1> QED
  BY <1>1, <1>5

\* The distance of two entries that are counted from the same one.
LEMMA GapFrom ==
  ASSUME NEW r \in Idx, NEW o \in Idx, NEW k \in Idx
  PROVE  Gap((r + o) % Q, (r + k) % Q) = IF o <= k THEN k - o ELSE k - o + Q
<1>0. o \in 0..Q /\ k \in 0..Q
  BY Sizes DEF Idx
<1>1. PICK a \in Idx : a = (r + o) % Q /\ a = IF r + o < Q THEN r + o ELSE r + o - Q
  BY <1>0, Entry
<1>2. PICK b \in Idx : b = (r + k) % Q /\ b = IF r + k < Q THEN r + k ELSE r + k - Q
  BY <1>0, Entry
<1>3. Gap(a, b) = IF a <= b THEN b - a ELSE b - a + Q
  BY GapIs
<1>4. Gap(a, b) = IF o <= k THEN k - o ELSE k - o + Q
  BY <1>1, <1>2, <1>3, Sizes DEF Idx
<1> QED
  BY <1>1, <1>2, <1>4

\* Counting in two parts, entries and element numbers.
LEMMA EntryTwice ==
  ASSUME NEW r \in Idx, NEW j \in 0..Q, NEW k \in 0..Q, j + k <= Q
  PROVE  (((r + j) % Q) + k) % Q = (r + (j + k)) % Q
<1>1. PICK a \in Idx : a = (r + j) % Q /\ a = IF r + j < Q THEN r + j ELSE r + j - Q
  BY Entry
<1>2. (a + k) % Q = IF a + k < Q THEN a + k ELSE a + k - Q
  BY Entry
<1>3. j + k \in 0..Q
  BY Sizes
<1>4. (r + (j + k)) % Q = IF r + (j + k) < Q THEN r + (j + k) ELSE r + (j + k) - Q
  BY <1>3, Entry
<1>5. (a + k) % Q = (r + (j + k)) % Q
  BY <1>1, <1>2, <1>3, <1>4, Sizes DEF Idx
<1> QED
  BY <1>1, <1>5

LEMMA NumberTwice ==
  ASSUME NEW r \in Num, NEW j \in 0..R, NEW k \in 0..R, j + k <= R
  PROVE  (((r + j) % R) + k) % R = (r + (j + k)) % R
<1>1. PICK a \in Num : a = (r + j) % R /\ a = IF r + j < R THEN r + j ELSE r + j - R
  BY Number
<1>2. (a + k) % R = IF a + k < R THEN a + k ELSE a + k - R
  BY Number
<1>3. j + k \in 0..R
  BY Sizes
<1>4. (r + (j + k)) % R = IF r + (j + k) < R THEN r + (j + k) ELSE r + (j + k) - R
  BY <1>3, Number
<1>5. (a + k) % R = (r + (j + k)) % R
  BY <1>1, <1>2, <1>3, <1>4, Sizes DEF Num
<1> QED
  BY <1>1, <1>5

\* The number of the next element, counted from the one to be executed.
LEMMA NextIs ==
  ASSUME next \in Num, sent \in Num
  PROVE  Owed \in 0..(R - 1) /\ next = (sent + Owed) % R
<1>1. PICK o \in Num : o = Owed /\ o = IF sent <= next THEN next - sent ELSE next - sent + R
  BY NumberGap DEF Owed
<1>2. o \in 0..R
  BY Sizes DEF Num
<1>3. (sent + o) % R = IF sent + o < R THEN sent + o ELSE sent + o - R
  BY <1>2, Number
<1>4. next = (sent + o) % R
  BY <1>1, <1>3, Sizes DEF Num
<1> QED
  BY <1>1, <1>4 DEF Num
-----------------------------------------------------------------------------
(* The inductive invariant.                                                *)

Told == Gap(rp, wp % Q)           \* elements the device knows of

\* The driver's head is where the next element goes, also between the build and the
\* ring, and the elements that are owed lie between rp and head in order.
HeadInv ==
  /\ Owed < Q
  /\ head = (rp + Owed) % Q
  /\ \A k \in 0..(Owed - 1) : wqe[(rp + k) % Q] = (sent + k) % R

\* What the device has been told: everything, unless a request is being announced.  In
\* two parts only when the elements run over the end of the queue.
WpInv ==
  /\ pc # "ring" => wp = head /\ overhead = 0
  /\ pc = "ring" => Told <= Owed /\ Owed - Told <= MaxSge
  /\ pc = "ring" /\ overhead = 1 => rp <= wp /\ wp < Q /\ rp + Owed >= Q

SqInv == TypeOK /\ HeadInv /\ WpInv

\* What the invariant says of the distances.
LEMMA Known ==
  ASSUME SqInv
  PROVE  /\ Owed \in Idx /\ Told \in Idx /\ wp % Q \in Idx
         /\ Told <= Owed /\ (pc # "ring" => Told = Owed)
         /\ wp % Q = IF wp = Q THEN 0 ELSE wp
         /\ Told = IF rp <= wp % Q THEN (wp % Q) - rp ELSE (wp % Q) - rp + Q
         /\ head = IF rp + Owed < Q THEN rp + Owed ELSE rp + Owed - Q
<1>1. Owed \in Idx
  BY Sizes, NextIs DEF SqInv, TypeOK, HeadInv, Idx
<1>2. rp \in Idx /\ Owed \in 0..Q /\ wp \in 0..Q /\ wp \in Int
  BY <1>1, Sizes DEF SqInv, TypeOK, Idx
<1>3. head = IF rp + Owed < Q THEN rp + Owed ELSE rp + Owed - Q
  BY <1>2, Entry DEF SqInv, HeadInv
<1>4. wp % Q = IF wp = Q THEN 0 ELSE wp
  <2>1. /\ 0 <= wp /\ wp < Q => wp % Q = wp
        /\ Q <= wp /\ wp < 2 * Q => wp % Q = wp - Q
    BY <1>2, Sizes, Turn
  <2> QED
    BY <1>2, <2>1, Sizes
<1>5. wp % Q \in Idx
  BY <1>2, <1>4, Sizes DEF Idx
<1>6. /\ Told \in Idx
      /\ Told = IF rp <= wp % Q THEN (wp % Q) - rp ELSE (wp % Q) - rp + Q
  BY <1>2, <1>5, GapIs DEF Told
<1>7. ASSUME pc # "ring" PROVE Told = Owed
  <2>1. wp = head
    BY <1>7 DEF SqInv, WpInv
  <2>2. wp % Q = wp
    BY <1>2, <1>3, <1>4, <2>1, Sizes DEF Idx
  <2> QED
    BY <1>1, <1>2, <1>3, <1>6, <2>1, <2>2, Sizes DEF Idx
<1>8. Told <= Owed
  BY <1>1, <1>7 DEF SqInv, WpInv, Idx
<1> QED
  BY <1>1, <1>3, <1>4, <1>5, <1>6, <1>7, <1>8

\* The elements that are owed are nowhere near head.
LEMMA Clear ==
  ASSUME SqInv, NEW k \in 0..(Owed - 1)
  PROVE  (rp + k) % Q \in Idx /\ (rp + k) % Q # head /\ Gap(head, (rp + k) % Q) = k - Owed + Q
<1>1. Owed \in Idx /\ k \in Idx /\ rp \in Idx /\ k \in 0..Q
  BY Known, Sizes DEF Idx, SqInv, TypeOK
<1>2. (rp + k) % Q \in Idx
  BY <1>1, Entry
<1>3. Gap(head, (rp + k) % Q) = k - Owed + Q
  <2>1. Gap((rp + Owed) % Q, (rp + k) % Q) = IF Owed <= k THEN k - Owed ELSE k - Owed + Q
    BY <1>1, GapFrom
  <2> QED
    BY <1>1, <2>1 DEF SqInv, HeadInv, Idx
<1>4. (rp + k) % Q = IF rp + k < Q THEN rp + k ELSE rp + k - Q
  BY <1>1, Entry
<1>5. (rp + k) % Q # head
  BY <1>1, <1>4, Known, Sizes DEF Idx
<1> QED
  BY <1>2, <1>3, <1>5
-----------------------------------------------------------------------------
(* The steps.                                                              *)

\* What a request of n elements does, for PostWr(n, n) and PostWr(1, 0).
LEMMA Wr ==
  ASSUME Depth < Q, SqInv, NEW n \in 1..MaxSge, NEW num_sge, PostWr(n, num_sge)
  PROVE  /\ TypeOK' /\ Owed' = Owed + n /\ Owed + n < Q
         /\ \A k \in 0..(Owed - 1) : wqe'[(rp + k) % Q] = wqe[(rp + k) % Q]
         /\ \A k \in 0..(Owed - 1 + n) : wqe'[(rp + k) % Q] = (sent + k) % R
<1>1. /\ TypeOK /\ Owed \in Idx /\ n \in 0..Q /\ n \in Nat /\ n >= 1 /\ next \in Num /\ sent \in Num
      /\ n \in 0..R /\ rp \in Idx /\ head \in Idx
  BY Known, Sizes DEF SqInv, TypeOK
<1>2. Owed + n <= Depth /\ Depth \in Int
  BY SqConstants DEF PostWr
<1>3. Owed + n < Q
  BY <1>1, <1>2, Sizes DEF Idx
<1>4. next' = (next + n) % R /\ next' \in Num /\ UNCHANGED <<sent, rp>>
  BY <1>1, Number DEF PostWr
<1>5. Owed' = Owed + n
  <2>1. (next - sent) % R < Q
    BY <1>1, Sizes DEF Owed, Idx
  <2>2. (((next + n) % R) - sent) % R = ((next - sent) % R) + n
    BY <1>1, <2>1, OwedMore
  <2> QED
    BY <1>4, <2>2 DEF Owed
<1>6. \A i \in Idx : wqe'[i] = IF Gap(head, i) < n THEN (next + Gap(head, i)) % R ELSE wqe[i]
  BY DEF PostWr, Build, Advance
<1>7. ASSUME NEW k \in 0..(Owed - 1) PROVE wqe'[(rp + k) % Q] = wqe[(rp + k) % Q]
  <2>1. (rp + k) % Q \in Idx /\ Gap(head, (rp + k) % Q) = k - Owed + Q
    BY Clear
  <2>2. ~(k - Owed + Q < n)
    BY <1>1, <1>3, Sizes DEF Idx
  <2> QED
    BY <1>6, <2>1, <2>2
<1>8. ASSUME NEW k \in 0..(Owed - 1 + n) PROVE wqe'[(rp + k) % Q] = (sent + k) % R
  <2>1. CASE k <= Owed - 1
    <3>1. k \in 0..(Owed - 1)
      BY <1>1, <2>1 DEF Idx
    <3> QED
      BY <1>7, <3>1 DEF SqInv, HeadInv
  <2>2. CASE k > Owed - 1
    <3>1. k \in Idx /\ k \in 0..Q /\ Owed <= k /\ k - Owed \in 0..R /\ k - Owed < n /\ Owed \in 0..R
      BY <1>1, <1>3, <2>2, Sizes DEF Idx
    <3>2. Gap(head, (rp + k) % Q) = k - Owed
      <4>1. Gap((rp + Owed) % Q, (rp + k) % Q) = IF Owed <= k THEN k - Owed ELSE k - Owed + Q
        BY <1>1, <3>1, GapFrom
      <4> QED
        BY <3>1, <4>1 DEF SqInv, HeadInv
    <3>3. (rp + k) % Q \in Idx
      BY <1>1, <3>1, Entry
    <3>4. wqe'[(rp + k) % Q] = (next + (k - Owed)) % R
      BY <1>6, <3>1, <3>2, <3>3
    <3>5. (((sent + Owed) % R) + (k - Owed)) % R = (sent + (Owed + (k - Owed))) % R
      <4>1. Owed + (k - Owed) <= R
        BY <1>1, <3>1, Sizes DEF Idx
      <4> QED
        BY <1>1, <3>1, <4>1, NumberTwice
    <3>6. Owed + (k - Owed) = k
      BY <1>1, <3>1 DEF Idx
    <3> QED
      BY <1>1, <3>4, <3>5, <3>6, NextIs
  <2> QED
    BY <1>1, <2>1, <2>2 DEF Idx
<1>9. TypeOK'
  <2>1. ASSUME NEW i \in Idx PROVE wqe'[i] \in Num \cup {Cleared}
    <3>1. Gap(head, i) \in Idx
      BY <1>1, GapIs
    <3>2. Gap(head, i) \in 0..R
      BY <3>1, Sizes DEF Idx
    <3>3. (next + Gap(head, i)) % R \in Num
      BY <1>1, <3>2, Number
    <3> QED
      BY <1>1, <1>6, <3>3 DEF TypeOK
  <2>2. wqe' \in [Idx -> Num \cup {Cleared}]
    BY <2>1 DEF PostWr, Build, Advance
  <2>3. head' \in Idx
    BY <1>1, Entry DEF PostWr, Build, Advance
  <2>4. overhead' \in {0, 1} /\ pc' = "ring" /\ UNCHANGED <<qp_state, tail, qp_foe, wp>>
    BY <1>1 DEF PostWr, Build, Advance, TypeOK
  <2> QED
    BY <1>1, <1>4, <2>2, <2>3, <2>4 DEF TypeOK
<1> QED
  BY <1>3, <1>5, <1>7, <1>8, <1>9

\* The request is not announced yet; it is in two parts when it runs over the end.
LEMMA WrStep ==
  ASSUME Depth < Q, SqInv, NEW n \in 1..MaxSge, NEW num_sge, PostWr(n, num_sge)
  PROVE  SqInv'
<1>1. /\ TypeOK' /\ Owed' = Owed + n /\ Owed + n < Q
      /\ \A k \in 0..(Owed - 1 + n) : wqe'[(rp + k) % Q] = (sent + k) % R
  BY Wr
<1>2. /\ Owed \in Idx /\ n \in Nat /\ n >= 1 /\ n <= MaxSge /\ n \in 0..Q /\ Owed \in 0..Q
      /\ rp \in Idx /\ head \in Idx
  BY Known, Sizes DEF SqInv, TypeOK, Idx
<1>3. /\ UNCHANGED <<rp, sent, wp>> /\ pc = "wr" /\ pc' = "ring"
      /\ head' = (head + n) % Q /\ overhead' = IF head + n >= Q THEN 1 ELSE overhead
  BY DEF PostWr, Build, Advance
<1>4. HeadInv'
  <2>1. head' = (rp + (Owed + n)) % Q
    <3>1. Owed + n <= Q
      BY <1>1, <1>2, Sizes DEF Idx
    <3>2. (((rp + Owed) % Q) + n) % Q = (rp + (Owed + n)) % Q
      BY <1>2, <3>1, EntryTwice
    <3> QED
      BY <1>3, <3>2 DEF SqInv, HeadInv
  <2>2. 0..(Owed' - 1) = 0..(Owed - 1 + n)
    BY <1>1, <1>2 DEF Idx
  <2>3. \A k \in 0..(Owed' - 1) : wqe'[(rp' + k) % Q] = (sent' + k) % R
    BY <1>1, <1>3, <2>2
  <2> QED
    BY <1>1, <1>3, <2>1, <2>3 DEF HeadInv
<1>5. WpInv'
  <2>1. Told' = Told /\ Told = Owed /\ wp = head /\ overhead = 0
    BY <1>3, Known DEF Told, SqInv, WpInv
  <2>2. Told' <= Owed' /\ Owed' - Told' <= MaxSge
    BY <1>1, <1>2, <2>1, Sizes DEF Idx
  <2>3. ASSUME overhead' = 1 PROVE rp <= wp /\ wp < Q /\ rp + (Owed + n) >= Q
    <3>1. head + n >= Q
      BY <1>3, <2>1, <2>3
    <3>2. head = IF rp + Owed < Q THEN rp + Owed ELSE rp + Owed - Q
      BY Known
    <3> QED
      BY <1>1, <1>2, <2>1, <3>1, <3>2, Sizes DEF Idx
  <2> QED
    BY <1>1, <1>3, <2>2, <2>3 DEF WpInv
<1> QED
  BY <1>1, <1>4, <1>5 DEF SqInv

\* Steps that leave the device's part alone, and the elements that are owed.
LEMMA OtherStep ==
  ASSUME SqInv, TypeOK', UNCHANGED <<rp, wp, next, sent, head>>,
         wqe' = wqe \/ wqe' = [wqe EXCEPT ![head] = Cleared],
         overhead' = 0, pc # "ring"
  PROVE  SqInv'
<1>1. Owed' = Owed /\ Told' = Told
  BY DEF Owed, Told
<1>2. HeadInv'
  <2>1. ASSUME NEW k \in 0..(Owed - 1) PROVE wqe'[(rp + k) % Q] = (sent + k) % R
    BY Clear DEF SqInv, TypeOK, HeadInv
  <2> QED
    BY <1>1, <2>1 DEF SqInv, HeadInv
<1>3. WpInv'
  <2>1. Told = Owed /\ wp = head /\ Owed \in Idx
    BY Known DEF SqInv, WpInv
  <2> QED
    BY <1>1, <2>1, Sizes DEF WpInv, Idx
<1> QED
  BY <1>2, <1>3 DEF SqInv

\* bxroce_ring_sq_hw
LEMMA RingStep ==
  ASSUME SqInv, Ring
  PROVE  SqInv'
<1>1. UNCHANGED <<qp_state, head, tail, qp_foe, wqe, rp, next, sent>> /\ pc = "ring" /\ overhead' = 0
  BY DEF Ring
<1>2. Owed' = Owed /\ HeadInv'
  BY <1>1 DEF SqInv, HeadInv, Owed
<1>3. CASE overhead = 1
  <2>1. wp' = Q /\ pc' = "ring"
    BY <1>3 DEF Ring
  <2>2. TypeOK'
    BY <1>1, <2>1, Sizes DEF SqInv, TypeOK
  <2>3. rp <= wp /\ wp < Q /\ rp + Owed >= Q /\ Owed < Q /\ Owed \in Idx /\ rp \in Idx /\ wp \in 0..Q
    BY <1>1, <1>3, Known DEF SqInv, WpInv, HeadInv, TypeOK
  <2>4. Told = wp - rp
    BY <2>3, Known, Sizes DEF Idx
  <2>5. Told' = Q - rp
    <3>1. Q % Q = 0
      <4>1. Q \in Int /\ Q <= Q /\ Q < 2 * Q
        BY Sizes
      <4> QED
        BY <4>1, Turn, Sizes
    <3>2. Told' = Gap(rp, 0)
      BY <1>1, <2>1, <3>1 DEF Told
    <3>3. 0 \in Idx
      BY Sizes DEF Idx
    <3>4. Gap(rp, 0) = IF rp <= 0 THEN 0 - rp ELSE 0 - rp + Q
      BY <2>3, <3>3, GapIs
    <3> QED
      BY <2>3, <3>2, <3>4, Sizes DEF Idx
  <2>6. Owed - Told <= MaxSge
    BY <1>1 DEF SqInv, WpInv
  <2>7. WpInv'
    BY <1>1, <1>2, <2>1, <2>3, <2>4, <2>5, <2>6, Sizes DEF WpInv, Idx
  <2> QED
    BY <1>2, <2>2, <2>7 DEF SqInv
<1>4. CASE overhead # 1
  <2>1. wp' = head /\ pc' = "update"
    BY <1>4 DEF Ring
  <2>2. TypeOK'
    BY <1>1, <2>1, Sizes DEF SqInv, TypeOK, Idx
  <2>3. WpInv'
    BY <1>1, <2>1 DEF WpInv
  <2> QED
    BY <1>2, <2>2, <2>3 DEF SqInv
<1> QED
  BY <1>3, <1>4

\* The device executes what it has been told of, one element nearer to head.
LEMMA ExecuteStep ==
  ASSUME SqInv, HwExecute
  PROVE  SqInv' /\ Owed' = Owed - 1 /\ Told' = Told - 1 /\ Told >= 1
<1>1. /\ rp # wp % Q /\ rp' = (rp + 1) % Q /\ sent' = (sent + 1) % R
      /\ UNCHANGED <<qp_state, head, tail, qp_foe, overhead, wqe, wp, pc, next>>
  BY DEF HwExecute, Step, drv
<1>2. /\ Owed \in Idx /\ Told \in Idx /\ rp \in Idx /\ wp % Q \in Idx /\ wp \in 0..Q
      /\ sent \in Num /\ next \in Num /\ 1 \in 0..Q /\ 1 \in 0..R
  BY Known, Sizes DEF SqInv, TypeOK
<1>3. Told >= 1 /\ Owed >= 1
  BY <1>1, <1>2, Known, Sizes DEF Idx
<1>4. rp' \in Idx /\ rp' = IF rp + 1 < Q THEN rp + 1 ELSE rp + 1 - Q
  BY <1>1, <1>2, Entry
<1>5. sent' \in Num
  BY <1>1, <1>2, Number
<1>6. Owed' = Owed - 1
  BY <1>1, <1>2, <1>3, OwedLess DEF Owed, Idx
<1>7. Told' = Told - 1
  <2>1. PICK w \in Idx : w = wp % Q
    BY <1>2
  <2>2. Told' = Gap(rp', w)
    BY <1>1, <2>1 DEF Told
  <2>3. Gap(rp', w) = IF rp' <= w THEN w - rp' ELSE w - rp' + Q
    BY <1>4, GapIs
  <2>4. Told = IF rp <= w THEN w - rp ELSE w - rp + Q
    BY <2>1, Known
  <2> QED
    BY <1>1, <1>2, <1>4, <2>1, <2>2, <2>3, <2>4, Sizes DEF Idx
<1>8. TypeOK'
  BY <1>1, <1>4, <1>5 DEF SqInv, TypeOK
<1>9. HeadInv'
  <2>1. ASSUME NEW k \in 0..(Q - 1)
        PROVE  (rp' + k) % Q = (rp + (1 + k)) % Q /\ (sent' + k) % R = (sent + (1 + k)) % R
    <3>1. k \in 0..Q /\ k \in 0..R /\ 1 + k <= Q /\ 1 + k <= R
      BY Sizes
    <3> QED
      BY <1>1, <1>2, <3>1, EntryTwice, NumberTwice
  <2>2. head = (rp' + (Owed - 1)) % Q
    <3>1. Owed - 1 \in 0..(Q - 1) /\ 1 + (Owed - 1) = Owed
      BY <1>2, <1>3, Sizes DEF Idx
    <3> QED
      BY <2>1, <3>1 DEF SqInv, HeadInv
  <2>3. ASSUME NEW k \in 0..(Owed - 2) PROVE wqe[(rp' + k) % Q] = (sent' + k) % R
    <3>1. k \in 0..(Q - 1) /\ 1 + k \in 0..(Owed - 1)
      BY <1>2, <1>3, Sizes DEF Idx
    <3> QED
      BY <2>1, <3>1 DEF SqInv, HeadInv
  <2>4. Owed - 1 - 1 = Owed - 2 /\ Owed - 1 < Q
    BY <1>2, Sizes DEF Idx
  <2> QED
    BY <1>1, <1>6, <2>2, <2>3, <2>4 DEF HeadInv
<1>10. WpInv'
  <2>1. pc = "ring" => Told' <= Owed' /\ Owed' - Told' <= MaxSge
    BY <1>2, <1>6, <1>7 DEF SqInv, WpInv, Idx
  <2>2. ASSUME pc = "ring", overhead = 1 PROVE rp' <= wp /\ rp' + Owed' >= Q /\ wp < Q
    <3>1. rp <= wp /\ wp < Q /\ rp + Owed >= Q
      BY <2>2 DEF SqInv, WpInv
    <3>2. rp # wp
      BY <1>1, <1>2, <3>1, Known DEF Idx
    <3> QED
      BY <1>2, <1>4, <1>6, <3>1, <3>2, Sizes DEF Idx
  <2> QED
    BY <1>1, <2>1, <2>2 DEF WpInv, SqInv
<1> QED
  BY <1>3, <1>6, <1>7, <1>8, <1>9, <1>10 DEF SqInv
-----------------------------------------------------------------------------
(* The theorems.                                                           *)

\* A request that is refused leaves the head where it is.
LEMMA RefusedStays ==
  ASSUME ~RefuseImm, TypeOK, Refuse
  PROVE  Touch /\ UNCHANGED <<head, overhead>>
<1>1. Advance(0) /\ Touch
  BY DEF Refuse
<1>2. head \in Idx /\ 0 \in 0..Q /\ head + 0 < Q
  BY Sizes DEF TypeOK, Idx
<1>3. (head + 0) % Q = head + 0
  BY <1>2, Entry
<1>4. head' = (head + 0) % Q /\ overhead' = IF head + 0 >= Q THEN 1 ELSE overhead
  BY <1>1 DEF Advance
<1>5. head + 0 = head /\ ~(head + 0 >= Q)
  BY <1>2, Sizes DEF Idx
<1> QED
  BY <1>1, <1>3, <1>4, <1>5

LEMMA SqStep ==
  ASSUME Depth < Q, ~Reinit, ~RefuseImm, SqInv, [Next]_vars
  PROVE  SqInv'
<1>0. TypeOK /\ (pc # "ring" => wp = head /\ overhead = 0)
  BY DEF SqInv, WpInv
<1>1. CASE PostBegin
  <2>1. TypeOK'
    BY <1>0, <1>1 DEF PostBegin, UpdateTail, TypeOK
  <2> QED
    BY <1>1, <2>1, OtherStep DEF PostBegin
<1>2. ASSUME NEW n \in 1..MaxSge, NEW num_sge, PostWr(n, num_sge) PROVE SqInv'
  BY <1>2, WrStep
<1>3. CASE PostEmpty
  <2>1. TypeOK'
    BY <1>0, <1>3 DEF PostEmpty, Touch, drv, TypeOK
  <2> QED
    BY <1>0, <1>3, <2>1, OtherStep DEF PostEmpty, Touch, drv
<1>4. ASSUME NEW n \in 1..MaxSge, PostUnsupported(n) PROVE SqInv'
  <2>0. Touch /\ UNCHANGED <<head, overhead>>
    BY <1>0, <1>4, RefusedStays DEF PostUnsupported
  <2>1. TypeOK'
    BY <1>0, <1>4, <2>0 DEF PostUnsupported, Touch, TypeOK
  <2> QED
    BY <1>0, <1>4, <2>0, <2>1, OtherStep DEF PostUnsupported, Touch
<1>5. CASE PostEnd
  <2>0. (wqe' = wqe \/ Touch) /\ UNCHANGED <<head, overhead>>
    BY <1>0, <1>5, RefusedStays DEF PostEnd
  <2>1. TypeOK'
    BY <1>0, <1>5, <2>0 DEF PostEnd, Touch, TypeOK
  <2> QED
    BY <1>0, <1>5, <2>0, <2>1, OtherStep DEF PostEnd, Touch
<1>6. CASE Ring
  BY <1>6, RingStep
<1>7. CASE UpdateHead
  <2>1. TypeOK' /\ UNCHANGED head /\ overhead' = 0
    BY <1>0, <1>7 DEF UpdateHead, TypeOK
  <2> QED
    BY <1>7, <2>1, OtherStep DEF UpdateHead
<1>8. CASE HwExecute
  BY <1>8, ExecuteStep
<1>9. ASSUME NEW s \in QpStates, QpStateChange(s) PROVE SqInv'
  <2>1. UNCHANGED head
    BY <1>9 DEF QpStateChange
  <2>2. TypeOK'
    BY <1>0, <1>9, <2>1, Sizes DEF QpStateChange, TypeOK, Idx
  <2> QED
    BY <1>0, <1>9, <2>1, <2>2, OtherStep DEF QpStateChange
<1>10. CASE UNCHANGED vars
  BY <1>10 DEF vars, drv, SqInv, TypeOK, HeadInv, WpInv, Owed, Told
<1>11. 1 \in 1..MaxSge
  BY Sizes
<1> QED
  BY <1>1, <1>2, <1>3, <1>4, <1>5, <1>6, <1>7, <1>8, <1>9, <1>10, <1>11 DEF Next, Post

LEMMA SqInit == Init => SqInv
<1> SUFFICES ASSUME Init PROVE SqInv
  OBVIOUS
<1>1. TypeOK
  BY Sizes DEF Init, TypeOK, QpStates, Idx, Num
<1>2. Owed = 0
  <2>1. 0 \in Num
    BY Sizes DEF Num
  <2>2. (0 - 0) % R = 0
    BY <2>1, NumberGap
  <2> QED
    BY <2>2 DEF Init, Owed
<1>3. (0 + 0) % Q = 0
  <2>1. 0 \in Idx /\ 0 \in 0..Q /\ 0 < Q
    BY Sizes DEF Idx
  <2> QED
    BY <2>1, Entry
<1>4. HeadInv
  BY <1>2, <1>3, Sizes DEF Init, HeadInv
<1> QED
  BY <1>1, <1>4 DEF Init, SqInv, WpInv

LEMMA SqInductive ==
  ASSUME Depth < Q, ~Reinit, ~RefuseImm
  PROVE  Spec => []SqInv
<1>1. SqInv /\ [Next]_vars => SqInv'
  BY SqStep
<1> QED
  BY <1>1, SqInit, PTL DEF Spec

\* Between two calls of bxroce_post_send the device has been told of exactly the elements
\* that were posted and not executed, and finds them in order; for a consumer that keeps
\* fewer of them than the queue has entries, does not take a used QP back to INIT and has
\* no request without entries and with immediate data refused.
THEOREM SqQueue ==
  ASSUME Depth < Q, ~Reinit, ~RefuseImm
  PROVE  Spec => []QueueInv
<1>1. SqInv => QueueInv
  BY Known DEF SqInv, HeadInv, Told, QueueInv, InOrder
<1> QED
  BY <1>1, SqInductive, PTL

\* bxroce_post_send never builds an element over one that has not been executed, and
\* bxroce_build_wqe_opcode never clears one.
THEOREM SqBuildsFree ==
  ASSUME Depth < Q, ~Reinit, ~RefuseImm
  PROVE  Spec => BuildsFree
<1>1. SqInv /\ [Next]_vars => [\A i \in Unread : wqe'[i] = wqe[i]]_vars
  <2> SUFFICES ASSUME SqInv, Next, NEW k \in 0..(Owed - 1)
               PROVE  wqe'[(rp + k) % Q] = wqe[(rp + k) % Q]
    BY DEF Unread
  <2>1. (rp + k) % Q # head
    BY Clear
  <2>2. ASSUME NEW n \in 1..MaxSge, NEW num_sge, PostWr(n, num_sge)
        PROVE  wqe'[(rp + k) % Q] = wqe[(rp + k) % Q]
    BY <2>2, Wr
  <2>3. ASSUME wqe' = wqe \/ wqe' = [wqe EXCEPT ![head] = Cleared]
        PROVE  wqe'[(rp + k) % Q] = wqe[(rp + k) % Q]
    BY <2>1, <2>3, Clear DEF SqInv, TypeOK
  <2>4. 1 \in 1..MaxSge
    BY Sizes
  <2>5. \/ \E n \in 1..MaxSge : PostWr(n, n)
        \/ PostWr(1, 0)
        \/ wqe' = wqe \/ wqe' = [wqe EXCEPT ![head] = Cleared]
    BY DEF Next, Post, PostBegin, PostEmpty, PostUnsupported, PostEnd, Ring, UpdateHead, Touch, Refuse,
           HwExecute, QpStateChange
  <2> QED
    BY <2>2, <2>3, <2>4, <2>5
<1> QED
  BY <1>1, SqInductive, PTL DEF Spec, BuildsFree
-----------------------------------------------------------------------------
(* The refinement of SendFifo.                                             *)

\* The n element numbers from s on.
Numbers(s, n) == [k \in 1..n |-> (s + (k - 1)) % R]

\* The device's queue under the refinement mapping, and the next number.
FifoQ == [k \in 1..Told |-> wqe[(rp + k - 1) % Q]]
FifoN == (sent + Told) % R

LEMMA QueueIs ==
  ASSUME SqInv
  PROVE  FifoQ = Numbers(sent, Told)
<1>1. Told \in Idx /\ Owed \in Idx /\ Told <= Owed /\ rp \in Idx /\ sent \in Num
  BY Known DEF SqInv, TypeOK
<1>2. ASSUME NEW k \in 1..Told PROVE wqe[(rp + k - 1) % Q] = (sent + (k - 1)) % R
  <2>1. k - 1 \in 0..(Owed - 1) /\ rp + k - 1 = rp + (k - 1)
    BY <1>1, Sizes DEF Idx
  <2> QED
    BY <2>1 DEF SqInv, HeadInv
<1> QED
  BY <1>2 DEF FifoQ, Numbers

\* Numbers behind numbers.
LEMMA NumbersAppend ==
  ASSUME NEW s \in Num, NEW n \in 0..Q, NEW m \in 1..Q, n + m <= Q
  PROVE  /\ Numbers(s, n + m) = Numbers(s, n) \o [k \in 1..m |-> (((s + n) % R) + k - 1) % R]
         /\ (((s + n) % R) + m) % R = (s + (n + m)) % R
<1> DEFINE b == (s + n) % R
           E == [k \in 1..m |-> (b + k - 1) % R]
<1>1. n \in 0..R /\ m \in 0..R /\ n + m <= R /\ n \in Nat /\ m \in Nat /\ n + m \in Nat
  BY Sizes
<1>2. (b + m) % R = (s + (n + m)) % R
  BY <1>1, NumberTwice
<1>3. ASSUME NEW k \in 1..m PROVE (b + k - 1) % R = (s + (n + k - 1)) % R
  <2>1. k - 1 \in 0..R /\ n + (k - 1) <= R
    BY <1>1, Sizes
  <2>2. (b + (k - 1)) % R = (s + (n + (k - 1))) % R
    BY <1>1, <2>1, NumberTwice
  <2>3. b \in Num
    BY <1>1, Number
  <2>4. b + k - 1 = b + (k - 1) /\ n + (k - 1) = n + k - 1
    BY <1>1, <2>3, Sizes DEF Num
  <2> QED
    BY <2>2, <2>4
<1> HIDE DEF b
<1>4. \A x \in 1..(n + m) : (s + (x - 1)) % R \in Num
  <2> SUFFICES ASSUME NEW x \in 1..(n + m) PROVE (s + (x - 1)) % R \in Num
    OBVIOUS
  <2>1. x - 1 \in 0..R
    BY <1>1, Sizes
  <2> QED
    BY <2>1, Number
<1>5. Numbers(s, n) \in Seq(Num) /\ Len(Numbers(s, n)) = n
  BY <1>1, <1>4 DEF Numbers
<1>6. E \in Seq(Num) /\ Len(E) = m
  <2>1. \A k \in 1..m : (b + k - 1) % R \in Num
    BY <1>1, <1>3, <1>4
  <2> QED
    BY <1>1, <2>1
<1>7. Numbers(s, n + m) \in Seq(Num) /\ Len(Numbers(s, n + m)) = n + m
  BY <1>1, <1>4 DEF Numbers
<1>8. ASSUME NEW x \in 1..(n + m)
      PROVE  Numbers(s, n + m)[x] = (Numbers(s, n) \o E)[x]
  <2>1. CASE x <= n
    BY <1>1, <1>5, <1>6, <2>1 DEF Numbers
  <2>2. CASE x > n
    <3>1. x - n \in 1..m /\ n + (x - n) - 1 = x - 1
      BY <1>1, <2>2
    <3>2. (Numbers(s, n) \o E)[x] = E[x - n]
      BY <1>1, <1>5, <1>6, <2>2
    <3>3. E[x - n] = (s + (x - 1)) % R
      BY <1>3, <3>1
    <3> QED
      BY <3>2, <3>3 DEF Numbers
  <2>3. x <= n \/ x > n
    BY <1>1
  <2> QED
    BY <2>1, <2>2, <2>3, Zenon
<1> HIDE DEF E
<1>9. Numbers(s, n) \o E \in Seq(Num) /\ Len(Numbers(s, n) \o E) = n + m
  BY <1>1, <1>5, <1>6
<1>10. Numbers(s, n + m) = Numbers(s, n) \o E
  <2>1. PICK c : c = Numbers(s, n) \o E
    OBVIOUS
  <2>2. c \in Seq(Num) /\ Len(c) = n + m /\ \A x \in 1..(n + m) : Numbers(s, n + m)[x] = c[x]
    BY <1>8, <1>9, <2>1, Zenon
  <2>3. Numbers(s, n + m) = c
    BY <1>1, <1>7, <2>2
  <2> QED
    BY <2>1, <2>3
<1> QED
  BY <1>2, <1>10 DEF b, E

\* The first number executed.
LEMMA NumbersTail ==
  ASSUME NEW s \in Num, NEW n \in 1..Q
  PROVE  /\ Numbers(s, n) # <<>>
         /\ Numbers((s + 1) % R, n - 1) = Tail(Numbers(s, n))
         /\ (((s + 1) % R) + (n - 1)) % R = (s + n) % R
<1> DEFINE b == (s + 1) % R
<1>1. n \in Nat /\ n - 1 \in Nat /\ 1 \in 0..R /\ n - 1 \in 0..R /\ 1 + (n - 1) <= R /\ 1 + (n - 1) = n
  BY Sizes
<1>2. (b + (n - 1)) % R = (s + n) % R
  BY <1>1, NumberTwice
<1>3. ASSUME NEW k \in 1..(n - 1) PROVE (b + (k - 1)) % R = (s + ((k + 1) - 1)) % R
  <2>1. k - 1 \in 0..R /\ 1 + (k - 1) <= R /\ 1 + (k - 1) = (k + 1) - 1
    BY <1>1, Sizes
  <2>2. (b + (k - 1)) % R = (s + (1 + (k - 1))) % R
    BY <1>1, <2>1, NumberTwice
  <2> QED
    BY <2>1, <2>2
<1> HIDE DEF b
<1>4. \A x \in 1..n : (s + (x - 1)) % R \in Num
  <2> SUFFICES ASSUME NEW x \in 1..n PROVE (s + (x - 1)) % R \in Num
    OBVIOUS
  <2>1. x - 1 \in 0..R
    BY <1>1, Sizes
  <2> QED
    BY <2>1, Number
<1>5. Numbers(s, n) \in Seq(Num) /\ Len(Numbers(s, n)) = n
  BY <1>1, <1>4 DEF Numbers
<1>6. Numbers(s, n) # <<>>
  BY <1>5
<1>7. Numbers(b, n - 1) \in Seq(Num) /\ Len(Numbers(b, n - 1)) = n - 1
  <2>1. \A x \in 1..(n - 1) : (b + (x - 1)) % R \in Num
    BY <1>1, <1>3, <1>4
  <2> QED
    BY <1>1, <2>1 DEF Numbers
<1>8. Numbers(b, n - 1) = Tail(Numbers(s, n))
  <2>1. Tail(Numbers(s, n)) \in Seq(Num) /\ Len(Tail(Numbers(s, n))) = n - 1
    BY <1>5, <1>6
  <2>2. ASSUME NEW x \in 1..(n - 1) PROVE Numbers(b, n - 1)[x] = Tail(Numbers(s, n))[x]
    <3>1. Tail(Numbers(s, n))[x] = Numbers(s, n)[x + 1]
      BY <1>5, <1>6
    <3> QED
      BY <1>1, <1>3, <3>1 DEF Numbers
  <2> QED
    BY <1>1, <1>7, <2>1, <2>2
<1> QED
  BY <1>2, <1>6, <1>8 DEF b

\* What a step of the driver tells the device: nothing, or up to MaxSge elements.
LEMMA ToldStep ==
  ASSUME Depth < Q, ~Reinit, ~RefuseImm, SqInv, SqInv', [Next]_vars, ~HwExecute
  PROVE  sent' = sent /\ Told' >= Told /\ Told' - Told <= MaxSge
<1>1. Told \in Idx /\ Told' \in Idx /\ Owed \in Idx
  <2>1. SqInv => Told \in Idx /\ Owed \in Idx
    BY Known
  <2>2. SqInv' => (Told \in Idx)'
    BY Known, PTL
  <2> QED
    BY <2>1, <2>2 DEF Idx
<1>2. CASE UNCHANGED <<rp, wp, sent>>
  BY <1>1, <1>2, Sizes DEF Told, Idx
<1>3. CASE Ring
  <2>1. /\ UNCHANGED <<rp, sent, next, head>> /\ pc = "ring"
        /\ (overhead = 1 /\ wp' = Q) \/ (overhead # 1 /\ pc' = "update")
    BY <1>3 DEF Ring
  <2>2. Told <= Owed /\ Owed - Told <= MaxSge
    BY <2>1 DEF SqInv, WpInv
  <2>3. Owed' = Owed
    BY <2>1 DEF Owed
  <2>4. CASE overhead # 1
    <3>1. SqInv' => (pc # "ring" => Told = Owed)'
      BY Known, PTL
    <3>2. Told' = Owed
      BY <2>1, <2>3, <2>4, <3>1
    <3> QED
      BY <1>1, <2>1, <2>2, <3>2
  <2>5. CASE overhead = 1
    <3>1. rp <= wp /\ wp < Q /\ rp + Owed >= Q /\ rp \in Idx /\ wp \in 0..Q
      BY <2>1, <2>5 DEF SqInv, WpInv, TypeOK
    <3>2. Told = wp - rp
      BY <3>1, Known, Sizes DEF Idx
    <3>3. SqInv' => (/\ wp % Q = IF wp = Q THEN 0 ELSE wp
                     /\ Told = IF rp <= wp % Q THEN (wp % Q) - rp ELSE (wp % Q) - rp + Q
                     /\ Told <= Owed)'
      BY Known, PTL
    <3>4. Told' = IF rp <= 0 THEN 0 - rp ELSE 0 - rp + Q
      BY <2>1, <2>5, <3>3
    <3>5. Told' <= Owed
      BY <2>3, <3>3
    <3> QED
      BY <1>1, <2>1, <2>2, <3>1, <3>2, <3>4, <3>5, Sizes DEF Idx
  <2> QED
    BY <2>4, <2>5
<1>4. Ring \/ UNCHANGED <<rp, wp, sent>>
  BY DEF Next, Post, PostBegin, PostWr, PostEmpty, PostUnsupported, PostEnd, UpdateHead,
         QpStateChange, vars
<1> QED
  BY <1>2, <1>3, <1>4

\* Every step of the driver and of the device is one of SendFifo, or none.
LEMMA FifoStep ==
  ASSUME Depth < Q, ~Reinit, ~RefuseImm, SqInv, SqInv', [Next]_vars
  PROVE  [Fifo!Next]_<<FifoQ, FifoN>>
<1>1. FifoQ = Numbers(sent, Told) /\ Told \in Idx /\ sent \in Num
  BY QueueIs, Known DEF SqInv, TypeOK
<1>2. SqInv' => (FifoQ = Numbers(sent, Told) /\ Told \in Idx)'
  BY QueueIs, Known, PTL
<1>3. FifoQ' = Numbers(sent', Told') /\ Told' \in Idx
  BY <1>2 DEF Numbers, Idx, R
<1>4. CASE HwExecute
  <2>1. sent' = (sent + 1) % R /\ Told' = Told - 1 /\ Told \in 1..Q
    BY <1>1, <1>4, ExecuteStep, Sizes DEF HwExecute, Idx
  <2>2. /\ Numbers(sent, Told) # <<>>
        /\ Numbers((sent + 1) % R, Told - 1) = Tail(Numbers(sent, Told))
        /\ (((sent + 1) % R) + (Told - 1)) % R = (sent + Told) % R
    BY <1>1, <2>1, NumbersTail
  <2>3. FifoQ # <<>> /\ FifoQ' = Tail(FifoQ) /\ FifoN' = FifoN
    BY <1>1, <1>3, <2>1, <2>2 DEF FifoN, R
  <2> QED
    BY <2>3 DEF Fifo!Next, Fifo!Execute, FifoQ, FifoN, Told
<1>5. CASE ~HwExecute
  <2>1. sent' = sent /\ Told' >= Told /\ Told' - Told <= MaxSge
    BY <1>5, ToldStep
  <2>2. CASE Told' = Told
    BY <1>1, <1>3, <2>1, <2>2 DEF FifoN, R
  <2>3. CASE Told' # Told
    <3>1. PICK a \in Idx, b \in Idx : a = Told /\ b = Told'
      BY <1>1, <1>3
    <3>2. b >= a /\ b - a <= MaxSge /\ b # a
      BY <2>1, <2>3, <3>1, Zenon
    <3>4. b - a \in 1..MaxSge /\ a \in 0..Q /\ b - a \in 1..Q /\ a + (b - a) <= Q /\ b = a + (b - a)
      BY <3>2, Sizes DEF Idx
    <3>5. PICK m \in 1..MaxSge : m = b - a
      BY <3>4
    <3>6. Told \in 0..Q /\ m \in 1..Q /\ Told + m <= Q /\ Told' = Told + m
      BY <3>1, <3>4, <3>5, Zenon
    <3>3. /\ Numbers(sent, Told + m) =
               Numbers(sent, Told) \o [k \in 1..m |-> (((sent + Told) % R) + k - 1) % R]
          /\ (((sent + Told) % R) + m) % R = (sent + (Told + m)) % R
      BY <1>1, <3>6, NumbersAppend
    <3>7. FifoQ' = FifoQ \o [k \in 1..m |-> (FifoN + k - 1) % R]
      BY <1>1, <1>3, <2>1, <3>3, <3>6, Zenon DEF FifoN
    <3>8. FifoN' = (FifoN + m) % R
      BY <2>1, <3>3, <3>6 DEF FifoN, R
    <3> QED
      BY <3>7, <3>8 DEF Fifo!Next, Fifo!Post, Fifo!Elements, FifoQ, FifoN, Told
  <2> QED
    BY <2>2, <2>3
<1> QED
  BY <1>4, <1>5

\* The registers, the memory and the code around them implement a queue: elements are
\* executed once each, in the order they were posted.
THEOREM SqRefines ==
  ASSUME Depth < Q, ~Reinit, ~RefuseImm
  PROVE  Spec => IsFifo
<1>1. Init => Fifo!Init
  <2> SUFFICES ASSUME Init PROVE Fifo!Init
    OBVIOUS
  <2>1. Gap(0, 0 % Q) = 0 /\ (0 + 0) % R = 0
    <3>1. 0 \in Idx /\ 0 \in Num /\ 0 \in 0..R /\ 0 < R /\ 0 \in Int /\ 0 < Q
      BY Sizes DEF Idx, Num
    <3>2. 0 % Q = 0
      BY <3>1, Sizes, Turn
    <3> QED
      BY <3>1, <3>2, GapIs, Number
  <2>2. rp = 0 /\ wp = 0 /\ sent = 0
    BY DEF Init
  <2>3. 1..Gap(rp, wp % Q) = {}
    BY <2>1, <2>2
  <2> QED
    BY <2>1, <2>2, <2>3 DEF Fifo!Init
<1>2. SqInv /\ SqInv' /\ [Next]_vars => [Fifo!Next]_<<FifoQ, FifoN>>
  BY FifoStep
<1> QED
  BY <1>1, <1>2, SqInductive, PTL DEF Spec, IsFifo, Fifo!Spec, FifoQ, FifoN, Told
=============================================================================
