-------------------------------- MODULE Ring --------------------------------
(***************************************************************************)
(* Index arithmetic of a descriptor ring.  Both rings of the MAC driver    *)
(* count descriptors with two free-running unsigned ints, cur and dirty,   *)
(* and find a descriptor by masking the counter (MAC_GET_DESC_DATA).       *)
(***************************************************************************)
EXTENDS Integers

CONSTANTS
  N,            \* ring->dma_desc_count, a power of two
  W             \* range of an unsigned int: 2^32

\* The counters wrap at a multiple of the ring size.
ASSUME RingConstants ==
  /\ N \in Nat \ {0}
  /\ W \in Nat
  /\ \E k \in 2..W : W = k * N

Slots == 0..(N - 1)
Count == 0..(W - 1)

\* c + n in unsigned arithmetic, for n no larger than W
Inc(c, n) == IF c + n >= W THEN c + n - W ELSE c + n

\* b - a in unsigned arithmetic
Dist(a, b) == IF b >= a THEN b - a ELSE b - a + W

\* MAC_GET_DESC_DATA: idx & (dma_desc_count - 1)
Slot(c) == c % N

\* the n slots from counter c on
Region(c, n) == {Slot(Inc(c, k)) : k \in 0..(n - 1)}
=============================================================================
