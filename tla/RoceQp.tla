------------------------------- MODULE RoceQp -------------------------------
(***************************************************************************)
(* QP numbers, the QP table and the locks around them (bxroce_verbs.c,     *)
(* bxroce_hw.c): bxroce_create_qp, bxroce_modify_qp, bxroce_destroy_qp and *)
(* bxroce_poll_cq, called by several threads.  dev->dev_lock is a mutex,   *)
(* cq->lock a spin lock; dev->resource_lock protects one step of the       *)
(* bitmap and is part of it.  A consumer destroys only a QP it has, once,  *)
(* and no CQ is destroyed while a QP uses it.                              *)
(***************************************************************************)
EXTENDS Integers, FiniteSets, FiniteSetsExt

CONSTANTS
  Threads, Qps, Cqs,    \* callers, QP structures and completion queues
  MaxQp,                \* dev->attr.max_qp
  Ones,                 \* numbers whose bit, from &dev->allocated_qps on, may be a one in struct
                        \* bxroce_dev: of allocated_qps (0 to 63), qp_table (64 to 127), next_qp
                        \* (672 to 703) or Is_qp1_allocated (896)
  None, Wild,           \* NULL, and a pointer to no QP
  PollRaces,            \* TRUE: a CQ may be polled before, during and after its QPs' lives
  Shared,               \* TRUE: two QPs may use one CQ
  Exhaust,              \* TRUE: QPs are created also when no number is left
  HwFail                \* TRUE: bxroce_hw_create_qp may fail

ASSUME QpConstants ==
  /\ MaxQp \in Nat /\ MaxQp > 2
  /\ {None, Wild} \cap (Threads \cup Qps \cup Cqs) = {} /\ None # Wild
  /\ Ones \subseteq 0..(MaxQp - 1)
  /\ {PollRaces, Shared, Exhaust, HwFail} \subseteq BOOLEAN

Ids == 0..(MaxQp - 1)

VARIABLES
  allocated_qps, next_qp,   \* the set bits of dev->allocated_qps; dev->next_qp
  qp_table,                 \* dev->qp_table
  qp1,                      \* dev->Is_qp1_allocated
  mem,                      \* "intact", or "hit" once clear_bit has cleared a one of these fields
  st, id, sq_cq, rq_cq,     \* a QP's life, its number and its completion queues
  qp_id,                    \* cq->qp_id
  dev_lock, cq_lock,        \* holders of the locks
  pc,                       \* where a thread is
  arg,                      \* the QP, or for poll_cq the CQ, of its call
  got                       \* poll_cq: the QP it found

qps   == <<st, id, sq_cq, rq_cq>>
ids   == <<allocated_qps, next_qp, qp1>>
dev   == <<ids, mem>>
locks == <<dev_lock, cq_lock>>
vars  == <<dev, qp_table, qps, qp_id, locks, pc, arg, got>>

Steps == {"idle", "create", "create_hw", "modify", "modify_hw",
          "destroy", "destroy_sq", "destroy_rq", "destroy_free", "poll", "polled"}

\* (mutant) qp1 is not set aside for the GSI QP
Reserved_Qp0Only == {0}

\* bxroce_init_cqqp: numbers 0 and 1 are never handed out.
Reserved == {0, 1}

Init ==
  /\ allocated_qps = Reserved /\ next_qp = 0 /\ qp1 = FALSE /\ mem = "intact"
  /\ qp_table = [i \in Ids |-> None]
  /\ st = [q \in Qps |-> "none"] /\ id = [q \in Qps |-> 0]
  /\ sq_cq = [q \in Qps |-> None] /\ rq_cq = [q \in Qps |-> None]
  /\ qp_id = [c \in Cqs |-> 0]
  /\ dev_lock = None /\ cq_lock = [c \in Cqs |-> None]
  /\ pc = [t \in Threads |-> "idle"] /\ arg = [t \in Threads |-> None]
  /\ got = [t \in Threads |-> None]

Begin(t, step, a) ==
  /\ pc[t] = "idle"
  /\ pc' = [pc EXCEPT ![t] = step]
  /\ arg' = [arg EXCEPT ![t] = a]

Go(t, from, to) ==
  /\ pc[t] = from
  /\ pc' = [pc EXCEPT ![t] = to]

End(t, from) ==
  /\ Go(t, from, "idle")
  /\ arg' = [arg EXCEPT ![t] = None]

\* What the driver may read where it takes the bitmap and the table to be: anything
\* once their pointers have lost a bit.
Bitmaps == IF mem = "intact" THEN {allocated_qps} ELSE SUBSET Ids
Entry(i) == IF mem = "intact" THEN {qp_table[i]} ELSE Qps \cup {None, Wild}

\* bxroce_free_cqqpresource as _bxroce_destroy_qp calls it, with the address of the
\* pointer allocated_qps: clear_bit works on struct bxroce_dev and not on the bitmap.
FreeCqqpResource(i) == mem' = IF i \in Ones THEN "hit" ELSE mem
-----------------------------------------------------------------------------
(* bxroce_create_qp.                                                       *)

\* bxroce_alloc_cqqpresource: the next zero bit from next_qp on, or the first.
AllocQpn(taken) ==
  LET free == Ids \ taken
      rest == {i \in free : i >= next_qp}
  IN  Min(IF rest # {} THEN rest ELSE free)

NextQpn(taken) == (AllocQpn(taken) + 1) % MaxQp

\* The CQs a consumer gives a new QP.
MayUse(sc, rc) ==
  Shared \/ \A q \in Qps : st[q] \in {"made", "live", "dying"} =>
               {sc, rc} \cap {sq_cq[q], rq_cq[q]} = {}

\* A number is taken; when there is none the error is overwritten and the QP
\* goes on with number 0.
CreateAlloc(t, q, sc, rc) ==
  /\ Begin(t, "create", q)
  /\ st[q] = "none" /\ MayUse(sc, rc)
  /\ \E taken \in Bitmaps :
       /\ Exhaust \/ taken # Ids
       /\ IF taken # Ids
          THEN /\ id' = [id EXCEPT ![q] = AllocQpn(taken)]
               /\ allocated_qps' = allocated_qps \cup {AllocQpn(taken)}
               /\ next_qp' = NextQpn(taken)
          ELSE UNCHANGED <<id, allocated_qps, next_qp>>
  /\ st' = [st EXCEPT ![q] = "made"]
  /\ sq_cq' = [sq_cq EXCEPT ![q] = sc] /\ rq_cq' = [rq_cq EXCEPT ![q] = rc]
  /\ UNCHANGED <<qp1, mem, qp_table, qp_id, locks, got>>

\* The GSI QP is number 1, once in the life of the device.
CreateGsi(t, q, sc, rc) ==
  /\ Begin(t, "create", q)
  /\ st[q] = "none" /\ MayUse(sc, rc)
  /\ ~qp1 \/ mem = "hit"
  /\ qp1' = TRUE
  /\ id' = [id EXCEPT ![q] = 1]
  /\ st' = [st EXCEPT ![q] = "made"]
  /\ sq_cq' = [sq_cq EXCEPT ![q] = sc] /\ rq_cq' = [rq_cq EXCEPT ![q] = rc]
  /\ UNCHANGED <<allocated_qps, next_qp, mem, qp_table, qp_id, locks, got>>

\* mutex_lock(&dev->dev_lock)
TakeDevLock(t) == dev_lock = None /\ dev_lock' = t

CreateLock(t) ==
  /\ Go(t, "create", "create_hw")
  /\ TakeDevLock(t)
  /\ UNCHANGED <<dev, qp_table, qps, qp_id, cq_lock, arg, got>>

\* bxroce_hw_create_qp gives both completion queues the QP's number.
HwCreateQp(q) ==
  qp_id' = [c \in Cqs |-> IF c \in {sq_cq[q], rq_cq[q]} THEN id[q] ELSE qp_id[c]]

\* "storage the qp id,check if it is valid"
TableFree(q) == None \in Entry(id[q])

CreateDone(t) ==
  LET q == arg[t] IN
  /\ End(t, "create_hw")
  /\ TableFree(q)
  /\ HwCreateQp(q)
  /\ qp_table' = [qp_table EXCEPT ![id[q]] = q]
  /\ st' = [st EXCEPT ![q] = "live"]
  /\ dev_lock' = None
  /\ UNCHANGED <<dev, id, sq_cq, rq_cq, cq_lock, got>>

\* map_err: the entry is taken, or a table or the answer to user space fails.
\* The entry is cleared whoever it belongs to, and _bxroce_destroy_qp called.
CreateMapErr(t) ==
  LET q == arg[t] IN
  /\ End(t, "create_hw")
  /\ HwCreateQp(q)
  /\ qp_table' = [qp_table EXCEPT ![id[q]] = None]
  /\ st' = [st EXCEPT ![q] = "gone"]
  /\ FreeCqqpResource(id[q])
  /\ dev_lock' = None
  /\ UNCHANGED <<ids, id, sq_cq, rq_cq, cq_lock, got>>

\* bxroce_hw_create_qp fails to allocate a queue: the QP is freed and the call
\* returns with dev_lock taken and the number in use.
CreateHwFail(t) ==
  /\ HwFail
  /\ End(t, "create_hw")
  /\ st' = [st EXCEPT ![arg[t]] = "gone"]
  /\ UNCHANGED <<dev, qp_table, id, sq_cq, rq_cq, qp_id, locks, got>>
-----------------------------------------------------------------------------
(* bxroce_modify_qp: the state itself is in module RoceSq.                 *)

Modify(t, q) ==
  /\ Begin(t, "modify", q)
  /\ st[q] = "live"
  /\ UNCHANGED <<dev, qp_table, qps, qp_id, locks, got>>

ModifyLock(t) ==
  /\ Go(t, "modify", "modify_hw")
  /\ TakeDevLock(t)
  /\ UNCHANGED <<dev, qp_table, qps, qp_id, cq_lock, arg, got>>

ModifyDone(t) ==
  /\ End(t, "modify_hw")
  /\ dev_lock' = None
  /\ UNCHANGED <<dev, qp_table, qps, qp_id, cq_lock, got>>
-----------------------------------------------------------------------------
(* bxroce_destroy_qp.                                                      *)

\* calls under way on a QP, or on a CQ of a QP
UsedBy(q) == {t \in Threads : arg[t] = q}
PolledBy(q) == {t \in Threads : arg[t] \in {sq_cq[q], rq_cq[q]}}

\* The consumer has no other call on the QP under way.
Destroy(t, q) ==
  /\ Begin(t, "destroy", q)
  /\ st[q] = "live"
  /\ UsedBy(q) = {}
  /\ PollRaces \/ PolledBy(q) = {}
  /\ st' = [st EXCEPT ![q] = "dying"]
  /\ UNCHANGED <<dev, qp_table, id, sq_cq, rq_cq, qp_id, locks, got>>

\* dev_lock, and under it _bxroce_destroy_qp: no bit of the bitmap is cleared.
DestroyLock(t) ==
  /\ Go(t, "destroy", "destroy_sq")
  /\ TakeDevLock(t)
  /\ FreeCqqpResource(id[arg[t]])
  /\ UNCHANGED <<ids, qp_table, qps, qp_id, cq_lock, arg, got>>

\* spin_lock_irqsave(&qp->sq_cq->lock)
DestroySqLock(t) ==
  LET c == sq_cq[arg[t]] IN
  /\ Go(t, "destroy_sq", "destroy_rq")
  /\ cq_lock[c] = None
  /\ cq_lock' = [cq_lock EXCEPT ![c] = t]
  /\ UNCHANGED <<dev, qp_table, qps, qp_id, dev_lock, arg, got>>

\* (mutant) the lock of the receive CQ is not taken
DestroyTable_SqOnly(t) ==
  LET q == arg[t] IN
  /\ Go(t, "destroy_rq", "destroy_free")
  /\ qp_table' = [qp_table EXCEPT ![id[q]] = None]
  /\ cq_lock' = [cq_lock EXCEPT ![sq_cq[q]] = None]
  /\ dev_lock' = None
  /\ UNCHANGED <<dev, qps, qp_id, arg, got>>

\* (mutant) the lock of the send CQ is not given back
DestroyTable_Locked(t) ==
  LET q == arg[t] IN
  /\ Go(t, "destroy_rq", "destroy_free")
  /\ rq_cq[q] # sq_cq[q] => cq_lock[rq_cq[q]] = None
  /\ qp_table' = [qp_table EXCEPT ![id[q]] = None]
  /\ dev_lock' = None
  /\ UNCHANGED <<dev, qps, qp_id, cq_lock, arg, got>>

\* The receive CQ's lock too, when it is another one; the entry is cleared under
\* both, and all locks are given back.
DestroyTable(t) ==
  LET q == arg[t] IN
  /\ Go(t, "destroy_rq", "destroy_free")
  /\ rq_cq[q] # sq_cq[q] => cq_lock[rq_cq[q]] = None
  /\ qp_table' = [qp_table EXCEPT ![id[q]] = None]
  /\ cq_lock' = [cq_lock EXCEPT ![sq_cq[q]] = None]
  /\ dev_lock' = None
  /\ UNCHANGED <<dev, qps, qp_id, arg, got>>

\* kfree(qp)
DestroyFree(t) ==
  /\ End(t, "destroy_free")
  /\ st' = [st EXCEPT ![arg[t]] = "gone"]
  /\ UNCHANGED <<dev, qp_table, id, sq_cq, rq_cq, qp_id, locks, got>>
-----------------------------------------------------------------------------
(* bxroce_poll_cq.                                                         *)

\* Without PollRaces a CQ is polled only while a QP that uses it lives and none
\* that uses it is being destroyed.
MayPoll(c) ==
  LET users == {q \in Qps : c \in {sq_cq[q], rq_cq[q]}}
  IN  \/ PollRaces
      \/ /\ \E q \in users : st[q] = "live"
         /\ \A q \in users : st[q] # "dying"

\* spin_lock_irqsave(&cq->lock)
Poll(t, c) ==
  /\ Begin(t, "poll", c)
  /\ MayPoll(c)
  /\ cq_lock[c] = None
  /\ cq_lock' = [cq_lock EXCEPT ![c] = t]
  /\ UNCHANGED <<dev, qp_table, qps, qp_id, dev_lock, got>>

\* bxroce_poll_hwcq looks the QP up under dev_lock.
PollFind(t) ==
  /\ Go(t, "poll", "polled")
  /\ dev_lock = None
  /\ \E q \in Entry(qp_id[arg[t]]) : got' = [got EXCEPT ![t] = q]
  /\ UNCHANGED <<dev, qp_table, qps, qp_id, locks, arg>>

\* It reads the QP's registers through qp->id, and cq->lock is given back; without
\* a QP the thread has died in BUG_ON, with cq->lock taken, and it gets no further
\* with a pointer to no QP.
PollDone(t) ==
  /\ End(t, "polled")
  /\ got[t] \notin {None, Wild}
  /\ got' = [got EXCEPT ![t] = None]
  /\ cq_lock' = [cq_lock EXCEPT ![arg[t]] = None]
  /\ UNCHANGED <<dev, qp_table, qps, qp_id, dev_lock>>
-----------------------------------------------------------------------------
\* a call under way goes on
Continue(t) ==
  \/ CreateLock(t) \/ CreateDone(t) \/ CreateMapErr(t) \/ CreateHwFail(t)
  \/ ModifyLock(t) \/ ModifyDone(t)
  \/ DestroyLock(t) \/ DestroySqLock(t) \/ DestroyTable(t) \/ DestroyFree(t)
  \/ PollFind(t) \/ PollDone(t)

Next ==
  \E t \in Threads :
    \/ Continue(t)
    \/ \E q \in Qps : Modify(t, q) \/ Destroy(t, q)
    \/ \E q \in Qps, sc, rc \in Cqs : CreateAlloc(t, q, sc, rc) \/ CreateGsi(t, q, sc, rc)
    \/ \E c \in Cqs : Poll(t, c)

Spec == Init /\ [][Next]_vars

\* A call under way goes on; both kinds of lock queue their waiters, so one that
\* becomes free again and again is eventually given to each of them.
FairSpec == Spec /\ \A t \in Threads : SF_vars(Continue(t))
-----------------------------------------------------------------------------
(* Properties.                                                             *)

\* Every variable has its type.
TypeOK ==
  /\ allocated_qps \subseteq Ids /\ next_qp \in Ids /\ qp1 \in BOOLEAN
  /\ mem \in {"intact", "hit"}
  /\ qp_table \in [Ids -> Qps \cup {None}]
  /\ st \in [Qps -> {"none", "made", "live", "dying", "gone"}]
  /\ id \in [Qps -> Ids]
  /\ sq_cq \in [Qps -> Cqs \cup {None}] /\ rq_cq \in [Qps -> Cqs \cup {None}]
  /\ qp_id \in [Cqs -> Ids]
  /\ dev_lock \in Threads \cup {None} /\ cq_lock \in [Cqs -> Threads \cup {None}]
  /\ pc \in [Threads -> Steps] /\ arg \in [Threads -> Qps \cup Cqs \cup {None}]
  /\ got \in [Threads -> Qps \cup {None, Wild}]

\* "store the qp in dev struc": a QP handed to a consumer is found under its
\* number until it is destroyed, and the table holds no other QP; so no two QPs
\* in use have one number.
TableExact ==
  /\ \A q \in Qps : st[q] = "live" => Entry(id[q]) = {q}
  /\ \A i \in Ids : \A q \in Entry(i) \ {None} : q \in Qps /\ st[q] \in {"live", "dying"}

\* While numbers are left, the table is exact whatever calls interleave or fail, until a QP
\* is given up whose number is that of a one bit of the pointers themselves
\* (FreeCqqpResource).
TableTrue == mem = "intact" => TableExact

\* Locks, numbers and table in range, and the table exact while its pointers are
\* whole (dev->qp_table).
QpInv == TypeOK /\ TableTrue

\* poll_cq never works on a QP structure that bxroce_destroy_qp has freed, while the
\* pointers of the table are whole: it holds cq->lock from the look-up to its last
\* use, and the table entry is cleared only under the locks of both completion queues.
UsesLive ==
  mem = "intact" => \A t \in Threads : got[t] # None => st[got[t]] \in {"live", "dying"}

\* BUG_ON(qp == NULL) in bxroce_poll_hwcq.
QpFound ==
  \A t \in Threads : pc[t] = "polled" => got[t] # None

\* "for serialize accessing to the CQ": no two callers each wait for the lock the
\* other one holds.
NoCycle ==
  ~ \E t, u \in Threads :
      /\ pc[t] = "poll" /\ dev_lock = u
      /\ \/ pc[u] = "destroy_sq" /\ sq_cq[arg[u]] = arg[t]
         \/ pc[u] = "destroy_rq" /\ rq_cq[arg[u]] = arg[t]

\* "free resouce allocated": when no call is under way, the numbers in use are
\* those of the QPs.
IdsReclaimed ==
  (\A t \in Threads : pc[t] = "idle") =>
    allocated_qps = {0, 1} \cup {id[q] : q \in {p \in Qps : st[p] = "live"}}

\* A thread has died in BUG_ON or on a pointer to no QP, two threads wait for each
\* other, or dev_lock was left taken by a call that is over (CreateHwFail).
Blocked ==
  \/ \E t \in Threads : pc[t] = "polled" /\ got[t] \in {None, Wild}
  \/ ~NoCycle
  \/ \E t \in Threads :
       dev_lock = t /\ pc[t] \notin {"create_hw", "modify_hw", "destroy_sq", "destroy_rq"}

\* Every call comes to its end, or the callers are blocked in one of the three ways
\* above: apart from them, dev_lock and cq->lock are given back on every path.
CallsEnd == \A t \in Threads : pc[t] # "idle" ~> pc[t] = "idle" \/ Blocked
=============================================================================
