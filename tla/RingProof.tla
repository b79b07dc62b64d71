----------------------------- MODULE RingProof ------------------------------
(***************************************************************************)
(* What the proofs about the rings use of their index arithmetic.          *)
(***************************************************************************)
EXTENDS Ring, TLAPS

\* The counters' range holds at least two rings.
LEMMA RingSizes == N \in Nat /\ N >= 1 /\ W \in Nat /\ W >= 2 * N
<1>1. PICK k \in 2..W : W = k * N
  BY RingConstants
<1>2. N \in Nat /\ N >= 1 /\ W \in Nat
  BY RingConstants
<1>3. k * N >= 2 * N
  BY <1>2, k \in Nat, k >= 2
<1> QED
  BY <1>1, <1>2, <1>3

\* Unsigned addition and subtraction stay in range.
LEMMA CountArith ==
  ASSUME NEW a \in Count, NEW b \in Count, NEW n \in 0..W
  PROVE  Inc(a, n) \in Count /\ Dist(a, b) \in Count
BY RingSizes DEF Inc, Dist, Count

\* A distance is a natural number.
LEMMA DistNat ==
  ASSUME NEW a \in Count, NEW b \in Count
  PROVE  Dist(a, b) \in Nat
BY RingSizes DEF Dist, Count

\* Filling n descriptors moves the end of the ring by n.
LEMMA DistFill ==
  ASSUME NEW a \in Count, NEW b \in Count, NEW n \in Nat, Dist(a, b) + n <= N
  PROVE  Dist(a, Inc(b, n)) = Dist(a, b) + n
BY RingSizes DEF Dist, Inc, Count

\* Reclaiming one descriptor shortens the ring by one.
LEMMA DistReap ==
  ASSUME NEW a \in Count, NEW b \in Count, a # b
  PROVE  Dist(Inc(a, 1), b) = Dist(a, b) - 1
BY RingSizes DEF Dist, Inc, Count

\* A slot is a slot.
LEMMA SlotType ==
  ASSUME NEW a \in Count
  PROVE  Slot(a) \in Slots
BY RingSizes DEF Slot, Slots, Count
-----------------------------------------------------------------------------
(* Slots of consecutive counters.                                          *)

\* Quotient and remainder exist.
LEMMA DivMod ==
  ASSUME NEW a \in Nat, NEW n \in Nat, n > 0
  PROVE  /\ a % n \in 0..(n - 1)
         /\ \E q \in Int : a = n * q + (a % n)
<1>1. a \div n \in Int
  OBVIOUS
<1>2. a % n \in 0..(n - 1)
  OBVIOUS
<1>3. a = n * (a \div n) + (a % n)
  BY Z3
<1> QED
  BY <1>1, <1>2, <1>3

\* A multiple of n strictly between -n and n is zero.
LEMMA SmallMultiple ==
  ASSUME NEW n \in Nat, n > 0, NEW q \in Int, n * q < n, -n < n * q
  PROVE  q = 0
<1>1. CASE q >= 1
  <2>1. n * q >= n
    BY <1>1
  <2> QED
    BY <2>1
<1>2. CASE q <= -1
  <2>1. n * q <= -n
    BY <1>2
  <2> QED
    BY <2>1
<1> QED
  BY <1>1, <1>2

\* Quotient and remainder are unique.
LEMMA ModUnique ==
  ASSUME NEW n \in Nat, n > 0, NEW p \in Int, NEW q \in Int,
         NEW r \in 0..(n - 1), NEW s \in 0..(n - 1), n * p + r = n * q + s
  PROVE  r = s
<1>1. n * (p - q) = s - r
  <2>1. n * (p - q) = n * p - n * q
    OBVIOUS
  <2> QED
    BY <2>1
<1>2. p - q = 0
  BY <1>1, SmallMultiple, p - q \in Int
<1> QED
  BY <1>1, <1>2

\* A number that is r more than a multiple of n has the remainder r.
LEMMA ModIs ==
  ASSUME NEW a \in Nat, NEW n \in Nat, n > 0,
         NEW q \in Int, NEW r \in 0..(n - 1), a = n * q + r
  PROVE  a % n = r
<1>1. PICK p \in Int : a = n * p + (a % n)
  BY DivMod
<1>2. a % n \in 0..(n - 1)
  BY DivMod
<1> DEFINE s == a % n
<1> HIDE DEF s
<1>3. s \in 0..(n - 1) /\ n * p + s = n * q + r
  BY <1>1, <1>2 DEF s
<1>4. s = r
  BY <1>3, ModUnique
<1> QED
  BY <1>4 DEF s

\* The wrap of the counter is invisible in the slots.
LEMMA SlotInc ==
  ASSUME NEW a \in Count, NEW k \in 0..W
  PROVE  Slot(Inc(a, k)) = (a + k) % N
<1>1. CASE a + k < W
  BY <1>1, RingSizes DEF Slot, Inc, Count
<1>2. CASE a + k >= W
  <2>1. PICK m \in 2..W : W = m * N
    BY RingConstants
  <2>2. PICK b \in Nat : b = a + k - W
    BY <1>2, RingSizes DEF Count
  <2>3. N \in Nat /\ N > 0 /\ a + k \in Nat /\ W \in Nat
    BY RingSizes DEF Count
  <2>4. PICK q \in Int : b = N * q + (b % N)
    BY <2>3, DivMod, Zenon
  <2>5. PICK r \in 0..(N - 1) : r = b % N
    BY <2>3, DivMod, Zenon
  <2>6. q + m \in Int /\ N * (q + m) = N * q + m * N
    BY <2>3, m \in Int
  <2>7. b = N * q + r
    BY <2>4, <2>5
  <2>8. a + k = N * (q + m) + r
    <3>1. a + k = b + W
      BY <2>2, <2>3 DEF Count
    <3> QED
      BY <2>1, <2>3, <2>6, <2>7, <3>1
  <2>9. (a + k) % N = r
    BY <2>3, <2>6, <2>8, ModIs, Zenon
  <2>10. Inc(a, k) = b
    BY <1>2, <2>2 DEF Inc
  <2> QED
    BY <2>5, <2>9, <2>10 DEF Slot
<1> QED
  BY <1>1, <1>2, RingSizes DEF Count

\* Fewer than N consecutive counters have different slots.
LEMMA SlotInj ==
  ASSUME NEW a \in Count, NEW i \in Slots, NEW j \in Slots,
         Slot(Inc(a, i)) = Slot(Inc(a, j))
  PROVE  i = j
<1>1. /\ i \in 0..W /\ j \in 0..W /\ i - j < N /\ -N < i - j
      /\ a + i \in Nat /\ a + j \in Nat /\ N \in Nat /\ N > 0
  BY RingSizes DEF Count, Slots
<1>2. (a + i) % N = (a + j) % N
  BY <1>1, SlotInc
<1>3. PICK p \in Int : a + i = N * p + ((a + i) % N)
  BY <1>1, DivMod, Zenon
<1>4. PICK q \in Int : a + j = N * q + ((a + j) % N)
  BY <1>1, DivMod, Zenon
<1>5. PICK r \in 0..(N - 1) : r = (a + i) % N
  BY <1>1, DivMod, Zenon
<1>6. a + i = N * p + r /\ a + j = N * q + r
  BY <1>2, <1>3, <1>4, <1>5
<1>7. p - q \in Int /\ N * (p - q) = N * p - N * q
  BY <1>1
<1>8. N * (p - q) = i - j
  BY <1>1, <1>6, <1>7 DEF Count, Slots
<1>9. p - q = 0
  BY <1>1, <1>7, <1>8, SmallMultiple
<1> QED
  BY <1>1, <1>8, <1>9 DEF Slots

\* N counters further on, the slot is the same.
LEMMA SlotWrap ==
  ASSUME NEW a \in Count
  PROVE  Slot(Inc(a, N)) = Slot(a)
<1>1. a \in Nat /\ a + N \in Nat /\ N \in Nat /\ N > 0 /\ N \in 0..W
  BY RingSizes DEF Count
<1>2. PICK q \in Int : a = N * q + (a % N)
  BY <1>1, DivMod, Zenon
<1>3. PICK r \in 0..(N - 1) : r = a % N
  BY <1>1, DivMod, Zenon
<1>4. q + 1 \in Int /\ N * (q + 1) = N * q + N
  BY <1>1
<1>5. a + N = N * (q + 1) + r
  <2>1. a = N * q + r
    BY <1>2, <1>3
  <2> QED
    BY <1>1, <1>4, <2>1
<1>6. (a + N) % N = r
  BY <1>1, <1>4, <1>5, ModIs, Zenon
<1> QED
  BY <1>1, <1>3, <1>6, SlotInc DEF Slot

\* N consecutive counters reach every slot.
LEMMA SlotSurj ==
  ASSUME NEW a \in Count, NEW s \in Slots
  PROVE  \E k \in Slots : Slot(Inc(a, k)) = s
<1>1. a \in Nat /\ N \in Nat /\ N > 0 /\ s \in 0..(N - 1)
  BY RingSizes DEF Count, Slots
<1>2. PICK q \in Int : a = N * q + (a % N)
  BY <1>1, DivMod, Zenon
<1>3. PICK r \in 0..(N - 1) : r = a % N
  BY <1>1, DivMod, Zenon
<1>4. a = N * q + r
  BY <1>2, <1>3
<1>5. ASSUME NEW k \in Slots, NEW p \in Int, a + k = N * p + s
      PROVE  Slot(Inc(a, k)) = s
  <2>1. a + k \in Nat /\ k \in 0..W
    BY <1>1, RingSizes DEF Slots
  <2>2. (a + k) % N = s
    BY <1>1, <1>5, <2>1, ModIs, Zenon
  <2> QED
    BY <2>1, <2>2, SlotInc
<1>6. CASE s >= r
  <2>1. s - r \in Slots /\ a + (s - r) = N * q + s
    BY <1>1, <1>4, <1>6 DEF Slots
  <2> QED
    BY <1>5, <2>1
<1>7. CASE s < r
  <2>1. q + 1 \in Int /\ N * (q + 1) = N * q + N
    BY <1>1
  <2>2. s - r + N \in Slots /\ a + (s - r + N) = N * (q + 1) + s
    BY <1>1, <1>4, <1>7, <2>1 DEF Slots
  <2> QED
    BY <1>5, <2>1, <2>2
<1> QED
  BY <1>1, <1>6, <1>7

\* Counting on from an index inside the ring is counting on from its start.
LEMMA IncOffset ==
  ASSUME NEW a \in Count, NEW b \in Count, NEW i \in Nat, Dist(a, b) + i <= N
  PROVE  Inc(b, i) = Inc(a, Dist(a, b) + i)
BY RingSizes DEF Inc, Dist, Count

\* The slot of an index inside the ring is hit by its own offset only.
LEMMA SlotAt ==
  ASSUME NEW a \in Count, NEW b \in Count, Dist(a, b) < N, NEW k \in Slots
  PROVE  Slot(Inc(a, k)) = Slot(b) <=> k = Dist(a, b)
<1>1. Dist(a, b) \in Slots
  BY RingSizes, DistNat DEF Slots
<1>2. Inc(a, Dist(a, b)) = b
  BY RingSizes DEF Inc, Dist, Count
<1> QED
  BY <1>1, <1>2, SlotInj

\* n slots from an index inside the ring are hit by n offsets.
LEMMA RegionAt ==
  ASSUME NEW a \in Count, NEW b \in Count, NEW n \in Nat, Dist(a, b) + n <= N, NEW k \in Slots
  PROVE  Slot(Inc(a, k)) \in Region(b, n) <=> Dist(a, b) <= k /\ k < Dist(a, b) + n
<1>1. Dist(a, b) \in Nat
  BY DistNat
<1>2. ASSUME NEW i \in 0..(n - 1)
      PROVE  Slot(Inc(b, i)) = Slot(Inc(a, Dist(a, b) + i)) /\ Dist(a, b) + i \in Slots
  BY <1>1, IncOffset, RingSizes DEF Slots
<1>3. ASSUME Slot(Inc(a, k)) \in Region(b, n)
      PROVE  Dist(a, b) <= k /\ k < Dist(a, b) + n
  <2>1. PICK i \in 0..(n - 1) : Slot(Inc(a, k)) = Slot(Inc(b, i))
    BY <1>3 DEF Region
  <2>2. k = Dist(a, b) + i
    BY <1>2, <2>1, SlotInj
  <2> QED
    BY <1>1, <2>2
<1>4. ASSUME Dist(a, b) <= k, k < Dist(a, b) + n
      PROVE  Slot(Inc(a, k)) \in Region(b, n)
  <2>1. k - Dist(a, b) \in 0..(n - 1)
    BY <1>1, <1>4 DEF Slots
  <2>2. Slot(Inc(b, k - Dist(a, b))) = Slot(Inc(a, k))
    BY <1>1, <1>2, <2>1 DEF Slots
  <2> QED
    BY <2>1, <2>2 DEF Region
<1> QED
  BY <1>3, <1>4

\* Seen from the next counter, every slot is one nearer, and the slot left behind
\* is the farthest.
LEMMA SlotShift ==
  ASSUME NEW a \in Count, NEW k \in Slots
  PROVE  /\ k + 1 < N => /\ Slot(Inc(Inc(a, 1), k)) = Slot(Inc(a, k + 1)) /\ k + 1 \in Slots
                         /\ Slot(Inc(Inc(a, 1), k)) # Slot(a)
         /\ k + 1 = N => Slot(Inc(Inc(a, 1), k)) = Slot(a)
<1>1. Inc(Inc(a, 1), k) = Inc(a, k + 1)
  BY RingSizes DEF Inc, Count, Slots
<1>2. ASSUME k + 1 < N PROVE k + 1 \in Slots /\ Slot(Inc(a, k + 1)) # Slot(a)
  <2>1. k + 1 \in Slots /\ k + 1 # 0
    BY <1>2, RingSizes DEF Slots
  <2>2. Dist(a, a) = 0 /\ 0 < N
    BY RingSizes DEF Dist, Count
  <2> QED
    BY <2>1, <2>2, SlotAt
<1>3. ASSUME k + 1 = N PROVE Slot(Inc(a, k + 1)) = Slot(a)
  BY <1>3, SlotWrap
<1> QED
  BY <1>1, <1>2, <1>3
=============================================================================
