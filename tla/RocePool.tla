------------------------------ MODULE RocePool ------------------------------
(***************************************************************************)
(* The object pools of the RoCE driver (bx_roce_driver/bxroce_pool.c) as   *)
(* operators on the record of a pool, and what a memory region computes:   *)
(* its key and the physical segments handed to the user library.           *)
(* The steps that callers interleave at are the actions of RoceDev.        *)
(***************************************************************************)
EXTENDS Integers, FiniteSets, FiniteSetsExt

Least(s) == CHOOSE x \in s : \A y \in s : x <= y

----------------------------------------------------------------------------
(* struct bxroce_pool.  An unindexed pool has range 0. *)

bxroce_pool_init_index(pool, max, min) ==
  [pool EXCEPT !.min_index = min, !.range = max - min + 1]

bxroce_pool_init(max_elem, indexed, max, min) ==
  LET pool == [state |-> "VALID", num_elem |-> 0, max_elem |-> max_elem, ref_cnt |-> 1,
               min_index |-> 0, range |-> 0, table |-> {}, last |-> 0]
  IN IF indexed THEN bxroce_pool_init_index(pool, max, min) ELSE pool

(* The last reference frees the table. *)
bxroce_pool_release(pool) == [pool EXCEPT !.ref_cnt = 0, !.state = "INVALID", !.table = {}]

bxroce_pool_put(pool) ==
  IF pool.ref_cnt = 1 THEN bxroce_pool_release(pool) ELSE [pool EXCEPT !.ref_cnt = @ - 1]

bxroce_pool_cleanup(pool) == bxroce_pool_put([pool EXCEPT !.state = "INVALID"])

----------------------------------------------------------------------------
(* Indexes: the first clear bit from the last one given, else the first.   *)

alloc_index(pool) ==
  LET zero == (0..(pool.range - 1)) \ pool.table
      next == {b \in zero : b >= pool.last}
  IN IF next # {} THEN Least(next) ELSE Least(zero)

bxroce_add_index(pool) ==
  LET b == alloc_index(pool) IN [pool EXCEPT !.table = @ \cup {b}, !.last = b]

bxroce_drop_index(pool, index) == [pool EXCEPT !.table = @ \ {index - pool.min_index}]

----------------------------------------------------------------------------
(* Keys: an 8 bit shift register.  Bit b of x, and the register's step.    *)

Bit(x, b) == (x \div (2^b)) % 2

bxroce_get_key(key) ==
  LET x == 2 * key
  IN (x + ((Bit(x, 8) + Bit(x, 4) + Bit(x, 7) + Bit(x, 6)) % 2)) % 256

lkey(index, key) == index * 256 + key

----------------------------------------------------------------------------
(* bxroce_mem_init_user walks the pages of a user buffer.  memsize bytes   *)
(* are behind page i, leftsize of the length (an unsigned number of Wide   *)
(* values) are ahead of it.  Pages of a huge page are next to each other.  *)

Wide == 4096

MapsOf(page, start, length) ==          \* umem->nmap
  ((start + length + page - 1) \div page) - (start \div page)

leftsize(page, length, i) == (length - i * page) % Wide

(* The walk of a huge page buffer stops at a tail shorter than a huge page. *)
Ends(page, huge, length, i) ==
  ((i * page) % huge) + leftsize(page, length, i) < huge

\* (mutant) a segment that is exactly a huge page is not one
HugeSegment_Longer(page, huge, length, i) ==
  \/ (i * page) % huge = 0 /\ leftsize(page, length, i) > huge
  \/ Ends(page, huge, length, i)

(* Whether page i of a huge page buffer starts a segment. *)
HugeSegment(page, huge, length, i) ==
  \/ (i * page) % huge = 0 /\ leftsize(page, length, i) >= huge
  \/ Ends(page, huge, length, i)

(* The segments of the response: the page each begins at, and its size.    *)
(* The walk ends without a word when the response has no room for more.    *)
bxroce_mem_init_user(page, huge, start, length, hugetlb, max_sg) ==
  LET walked == {i \in 0..(MapsOf(page, start, length) - 1) :
                   hugetlb => \A h \in 0..(i - 1) : ~Ends(page, huge, length, h)}
      begins == {i \in walked : hugetlb => HugeSegment(page, huge, length, i)}
      most == IF hugetlb THEN huge ELSE page
      Size(l) == IF l > most THEN most ELSE l
  IN {[at |-> i, size |-> Size(leftsize(page, length, i))] :
        i \in {j \in begins : Cardinality({h \in begins : h < j}) < max_sg}}

(* The segments of a buffer are the buffer: their sizes add up to its      *)
(* length, and none runs past the memory that is contiguous behind it.     *)
Covers(segs, page, huge, start, length, hugetlb) ==
  /\ MapThenSumSet(LAMBDA g : g.size, segs) = length
  /\ \A g \in segs :
       LET unit == IF hugetlb THEN huge ELSE page
       IN ((((start \div page) + g.at) * page) % unit) + g.size <= unit
=============================================================================
