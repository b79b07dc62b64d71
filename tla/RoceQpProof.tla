----------------------------- MODULE RoceQpProof -----------------------------
(***************************************************************************)
(* Theorems about QP numbers, the QP table and bxroce_poll_cq, for every   *)
(* number of threads, QPs and completion queues.                           *)
(***************************************************************************)
EXTENDS RoceQp, WellFoundedInduction, TLAPS

\* A nonempty set of natural numbers has its minimum among its members.
LEMMA MinMember ==
  ASSUME NEW S \in SUBSET Nat, S # {}
  PROVE  Min(S) \in S
<1>1. PICK x \in S : \A y \in S : ~ (<<y, x>> \in OpToRel(<, Nat))
  BY NatLessThanWellFounded, WFMin, Zenon
<1>2. \A y \in S : ~(y < x)
  BY <1>1 DEF OpToRel
<1>3. \A y \in S : x =< y
  BY <1>2
<1> QED
  BY <1>3 DEF Min
-----------------------------------------------------------------------------
(* The inductive invariant.                                                *)

Creating == {"create", "create_hw"}
Destroying == {"destroy", "destroy_sq", "destroy_rq", "destroy_free"}
Polling == {"poll", "polled"}

\* Numbers: while the bitmap is where it was, what has a number has its own, 0 is
\* nobody's and 1 the GSI QP's.
Numbers ==
  /\ \A q \in Qps : st[q] # "none" => sq_cq[q] \in Cqs /\ rq_cq[q] \in Cqs
  /\ mem = "intact" =>
       /\ Reserved \subseteq allocated_qps
       /\ \A q \in Qps : st[q] # "none" =>
            /\ id[q] # 0 /\ id[q] \in allocated_qps
            /\ id[q] = 1 => qp1
       /\ \A p, q \in Qps : st[p] # "none" /\ st[q] # "none" /\ id[p] = id[q] => p = q

\* Calls: the QP a create or a destroy works on is in that state and no other
\* call of the kind works on it.
Calls ==
  /\ \A t \in Threads :
       /\ pc[t] \in Creating => arg[t] \in Qps /\ st[arg[t]] = "made"
       /\ pc[t] \in Destroying => arg[t] \in Qps /\ st[arg[t]] = "dying"
       /\ pc[t] \in Polling => arg[t] \in Cqs
  /\ \A t, u \in Threads :
       pc[t] \in Creating \cup Destroying /\ pc[u] \in Creating \cup Destroying
         /\ arg[t] = arg[u] => t = u

\* The table: an entry holds the QP with its number, until the destroy has cleared it.
Entries ==
  mem = "intact" =>
  /\ \A i \in Ids : qp_table[i] # None =>
       id[qp_table[i]] = i /\ st[qp_table[i]] \in {"live", "dying"}
  /\ \A q \in Qps : st[q] = "live" => qp_table[id[q]] = q
  /\ \A t \in Threads : pc[t] = "destroy_free" => qp_table[id[arg[t]]] # arg[t]

\* cq->qp_id names a QP that was created on the CQ.
Named ==
  mem = "intact" => \A c \in Cqs : qp_id[c] # 0 =>
    \E q \in Qps : /\ id[q] = qp_id[c] /\ st[q] \notin {"none", "made"}
                   /\ c \in {sq_cq[q], rq_cq[q]}

\* cq->lock: who polls a CQ, or is about to clear an entry, holds it.
CqLocks ==
  \A t \in Threads :
    /\ pc[t] \in Polling => cq_lock[arg[t]] = t
    /\ pc[t] = "destroy_rq" => cq_lock[sq_cq[arg[t]]] = t

\* What bxroce_poll_hwcq has found is in the table and uses the CQ that is polled.
Found ==
  mem = "intact" => \A t \in Threads : got[t] # None =>
    /\ pc[t] = "polled" /\ got[t] \in Qps
    /\ qp_table[id[got[t]]] = got[t]
    /\ arg[t] \in {sq_cq[got[t]], rq_cq[got[t]]}

QpIndInv == TypeOK /\ Numbers /\ Calls /\ Entries /\ Named /\ CqLocks /\ Found

USE DEF qps, ids, dev, locks, FreeCqqpResource, Bitmaps, Entry

\* A number that is handed out was free.
LEMMA AllocFree ==
  ASSUME NEW taken \in SUBSET Ids, taken # Ids
  PROVE  AllocQpn(taken) \in Ids \ taken /\ NextQpn(taken) \in Ids
<1> DEFINE free == Ids \ taken
           rest == {i \in free : i >= next_qp}
           S == IF rest # {} THEN rest ELSE free
<1>1. S \in SUBSET Nat /\ S # {} /\ S \subseteq free
  <2>1. \E x \in Ids : x \notin taken
    OBVIOUS
  <2>2. free # {} /\ free \subseteq Nat
    BY <2>1, QpConstants DEF Ids
  <2> QED
    BY <2>2
<1>2. AllocQpn(taken) \in free
  BY <1>1, MinMember DEF AllocQpn
<1>3. AllocQpn(taken) \in Nat /\ MaxQp \in Nat /\ MaxQp > 0
  BY <1>2, QpConstants DEF Ids
<1> QED
  BY <1>2, <1>3 DEF NextQpn, Ids

\* Types.
LEMMA QpTypeStep ==
  ASSUME ~Exhaust, QpIndInv, [Next]_vars
  PROVE  TypeOK'
<1> USE QpConstants
<1>1. ASSUME NEW t \in Threads, Continue(t) PROVE TypeOK'
  <2>1. CASE CreateLock(t)
    BY AllocFree, <2>1 DEF CreateLock, Go, TakeDevLock, QpIndInv, TypeOK, Steps, Calls, Creating, Destroying, Polling
  <2>2. CASE CreateDone(t)
    BY AllocFree, <2>2 DEF CreateDone, End, Go, HwCreateQp, TableFree, QpIndInv, TypeOK, Steps, Calls, Creating, Destroying, Polling
  <2>3. CASE CreateMapErr(t)
    BY AllocFree, <2>3 DEF CreateMapErr, End, Go, HwCreateQp, QpIndInv, TypeOK, Steps, Calls, Creating, Destroying, Polling
  <2>4. CASE CreateHwFail(t)
    BY AllocFree, <2>4 DEF CreateHwFail, End, Go, QpIndInv, TypeOK, Steps, Calls, Creating, Destroying, Polling
  <2>5. CASE ModifyLock(t)
    BY AllocFree, <2>5 DEF ModifyLock, Go, TakeDevLock, QpIndInv, TypeOK, Steps, Calls, Creating, Destroying, Polling
  <2>6. CASE ModifyDone(t)
    BY AllocFree, <2>6 DEF ModifyDone, End, Go, QpIndInv, TypeOK, Steps, Calls, Creating, Destroying, Polling
  <2>7. CASE DestroyLock(t)
    BY AllocFree, <2>7 DEF DestroyLock, Go, TakeDevLock, QpIndInv, TypeOK, Steps, Calls, Creating, Destroying, Polling
  <2>8. CASE DestroySqLock(t)
    BY AllocFree, <2>8 DEF DestroySqLock, Go, QpIndInv, TypeOK, Steps, Calls, Creating, Destroying, Polling
  <2>9. CASE DestroyTable(t)
    BY AllocFree, <2>9 DEF DestroyTable, Go, QpIndInv, TypeOK, Steps, Calls, Creating, Destroying, Polling
  <2>10. CASE DestroyFree(t)
    BY AllocFree, <2>10 DEF DestroyFree, End, Go, QpIndInv, TypeOK, Steps, Calls, Creating, Destroying, Polling
  <2>11. CASE PollFind(t)
    BY AllocFree, <2>11 DEF PollFind, Go, QpIndInv, TypeOK, Steps, Calls, Creating, Destroying, Polling
  <2>12. CASE PollDone(t)
    BY AllocFree, <2>12 DEF PollDone, End, Go, QpIndInv, TypeOK, Steps, Calls, Creating, Destroying, Polling
  <2> QED
    BY <1>1, <2>1, <2>2, <2>3, <2>4, <2>5, <2>6, <2>7, <2>8, <2>9, <2>10, <2>11, <2>12 DEF Continue
<1>2. ASSUME NEW t \in Threads, NEW q \in Qps, Modify(t, q) PROVE TypeOK'
  BY AllocFree, <1>2 DEF Modify, Begin, QpIndInv, TypeOK, Steps, Calls, Creating, Destroying, Polling
<1>3. ASSUME NEW t \in Threads, NEW q \in Qps, Destroy(t, q) PROVE TypeOK'
  BY AllocFree, <1>3 DEF Destroy, Begin, QpIndInv, TypeOK, Steps, Calls, Creating, Destroying, Polling
<1>4. ASSUME NEW t \in Threads, NEW q \in Qps, NEW sc \in Cqs, NEW rc \in Cqs, CreateAlloc(t, q, sc, rc) PROVE TypeOK'
  BY AllocFree, <1>4 DEF CreateAlloc, Begin, QpIndInv, TypeOK, Steps, Calls, Creating, Destroying, Polling
<1>5. ASSUME NEW t \in Threads, NEW q \in Qps, NEW sc \in Cqs, NEW rc \in Cqs, CreateGsi(t, q, sc, rc) PROVE TypeOK'
  <2>1. qp1' \in BOOLEAN
    BY <1>5, Zenon DEF CreateGsi
  <2>2. id' \in [Qps -> Ids]
    BY <1>5 DEF CreateGsi, QpIndInv, TypeOK, Ids
  <2> QED
    BY <1>5, <2>1, <2>2 DEF CreateGsi, Begin, QpIndInv, TypeOK, Steps
<1>6. ASSUME NEW t \in Threads, NEW c \in Cqs, Poll(t, c) PROVE TypeOK'
  BY AllocFree, <1>6 DEF Poll, Begin, QpIndInv, TypeOK, Steps, Calls, Creating, Destroying, Polling
<1>7. CASE UNCHANGED vars
  BY <1>7 DEF vars, QpIndInv, TypeOK, Steps, Calls, Creating, Destroying, Polling
<1> QED
  BY <1>1, <1>2, <1>3, <1>4, <1>5, <1>6, <1>7 DEF Next

\* Numbers are handed out once and never come back: the bitmap is not cleared.
LEMMA NumbersStep ==
  ASSUME ~Exhaust, QpIndInv, [Next]_vars
  PROVE  Numbers'
<1> USE QpConstants
<1>1. ASSUME NEW t \in Threads, Continue(t) PROVE Numbers'
  <2>1. CASE CreateLock(t)
    BY AllocFree, <2>1 DEF CreateLock, Go, TakeDevLock, QpIndInv, TypeOK, Numbers, Calls, Creating, Destroying, Reserved, Ids
  <2>2. CASE CreateDone(t)
    BY AllocFree, <2>2 DEF CreateDone, End, Go, HwCreateQp, TableFree, QpIndInv, TypeOK, Numbers, Calls, Creating, Destroying, Reserved, Ids
  <2>3. CASE CreateMapErr(t)
    BY AllocFree, <2>3 DEF CreateMapErr, End, Go, HwCreateQp, QpIndInv, TypeOK, Numbers, Calls, Creating, Destroying, Reserved, Ids
  <2>4. CASE CreateHwFail(t)
    BY AllocFree, <2>4 DEF CreateHwFail, End, Go, QpIndInv, TypeOK, Numbers, Calls, Creating, Destroying, Reserved, Ids
  <2>5. CASE ModifyLock(t)
    BY AllocFree, <2>5 DEF ModifyLock, Go, TakeDevLock, QpIndInv, TypeOK, Numbers, Calls, Creating, Destroying, Reserved, Ids
  <2>6. CASE ModifyDone(t)
    BY AllocFree, <2>6 DEF ModifyDone, End, Go, QpIndInv, TypeOK, Numbers, Calls, Creating, Destroying, Reserved, Ids
  <2>7. CASE DestroyLock(t)
    BY AllocFree, <2>7 DEF DestroyLock, Go, TakeDevLock, QpIndInv, TypeOK, Numbers, Calls, Creating, Destroying, Reserved, Ids
  <2>8. CASE DestroySqLock(t)
    BY AllocFree, <2>8 DEF DestroySqLock, Go, QpIndInv, TypeOK, Numbers, Calls, Creating, Destroying, Reserved, Ids
  <2>9. CASE DestroyTable(t)
    BY AllocFree, <2>9 DEF DestroyTable, Go, QpIndInv, TypeOK, Numbers, Calls, Creating, Destroying, Reserved, Ids
  <2>10. CASE DestroyFree(t)
    BY AllocFree, <2>10 DEF DestroyFree, End, Go, QpIndInv, TypeOK, Numbers, Calls, Creating, Destroying, Reserved, Ids
  <2>11. CASE PollFind(t)
    BY AllocFree, <2>11 DEF PollFind, Go, QpIndInv, TypeOK, Numbers, Calls, Creating, Destroying, Reserved, Ids
  <2>12. CASE PollDone(t)
    BY AllocFree, <2>12 DEF PollDone, End, Go, QpIndInv, TypeOK, Numbers, Calls, Creating, Destroying, Reserved, Ids
  <2> QED
    BY <1>1, <2>1, <2>2, <2>3, <2>4, <2>5, <2>6, <2>7, <2>8, <2>9, <2>10, <2>11, <2>12 DEF Continue
<1>2. ASSUME NEW t \in Threads, NEW q \in Qps, Modify(t, q) PROVE Numbers'
  BY AllocFree, <1>2 DEF Modify, Begin, QpIndInv, TypeOK, Numbers, Calls, Creating, Destroying, Reserved, Ids
<1>3. ASSUME NEW t \in Threads, NEW q \in Qps, Destroy(t, q) PROVE Numbers'
  BY AllocFree, <1>3 DEF Destroy, Begin, QpIndInv, TypeOK, Numbers, Calls, Creating, Destroying, Reserved, Ids
<1>4. ASSUME NEW t \in Threads, NEW q \in Qps, NEW sc \in Cqs, NEW rc \in Cqs, CreateAlloc(t, q, sc, rc) PROVE Numbers'
  BY AllocFree, <1>4 DEF CreateAlloc, Begin, QpIndInv, TypeOK, Numbers, Calls, Creating, Destroying, Reserved, Ids
<1>5. ASSUME NEW t \in Threads, NEW q \in Qps, NEW sc \in Cqs, NEW rc \in Cqs, CreateGsi(t, q, sc, rc) PROVE Numbers'
  BY AllocFree, <1>5 DEF CreateGsi, Begin, QpIndInv, TypeOK, Numbers, Calls, Creating, Destroying, Reserved, Ids
<1>6. ASSUME NEW t \in Threads, NEW c \in Cqs, Poll(t, c) PROVE Numbers'
  BY AllocFree, <1>6 DEF Poll, Begin, QpIndInv, TypeOK, Numbers, Calls, Creating, Destroying, Reserved, Ids
<1>7. CASE UNCHANGED vars
  BY <1>7 DEF vars, QpIndInv, TypeOK, Numbers, Calls, Creating, Destroying, Reserved, Ids
<1> QED
  BY <1>1, <1>2, <1>3, <1>4, <1>5, <1>6, <1>7 DEF Next

\* A QP is created once, and destroyed once.
LEMMA CallsStep ==
  ASSUME ~Exhaust, QpIndInv, [Next]_vars
  PROVE  Calls'
<1> USE QpConstants
<1>1. ASSUME NEW t \in Threads, Continue(t) PROVE Calls'
  <2>1. CASE CreateLock(t)
    BY <2>1 DEF CreateLock, Go, TakeDevLock, QpIndInv, TypeOK, Calls, Creating, Destroying, Polling, UsedBy
  <2>2. CASE CreateDone(t)
    BY <2>2 DEF CreateDone, End, Go, HwCreateQp, TableFree, QpIndInv, TypeOK, Calls, Creating, Destroying, Polling, UsedBy
  <2>3. CASE CreateMapErr(t)
    BY <2>3 DEF CreateMapErr, End, Go, HwCreateQp, QpIndInv, TypeOK, Calls, Creating, Destroying, Polling, UsedBy
  <2>4. CASE CreateHwFail(t)
    BY <2>4 DEF CreateHwFail, End, Go, QpIndInv, TypeOK, Calls, Creating, Destroying, Polling, UsedBy
  <2>5. CASE ModifyLock(t)
    BY <2>5 DEF ModifyLock, Go, TakeDevLock, QpIndInv, TypeOK, Calls, Creating, Destroying, Polling, UsedBy
  <2>6. CASE ModifyDone(t)
    BY <2>6 DEF ModifyDone, End, Go, QpIndInv, TypeOK, Calls, Creating, Destroying, Polling, UsedBy
  <2>7. CASE DestroyLock(t)
    BY <2>7 DEF DestroyLock, Go, TakeDevLock, QpIndInv, TypeOK, Calls, Creating, Destroying, Polling, UsedBy
  <2>8. CASE DestroySqLock(t)
    BY <2>8 DEF DestroySqLock, Go, QpIndInv, TypeOK, Calls, Creating, Destroying, Polling, UsedBy
  <2>9. CASE DestroyTable(t)
    BY <2>9 DEF DestroyTable, Go, QpIndInv, TypeOK, Calls, Creating, Destroying, Polling, UsedBy
  <2>10. CASE DestroyFree(t)
    BY <2>10 DEF DestroyFree, End, Go, QpIndInv, TypeOK, Calls, Creating, Destroying, Polling, UsedBy
  <2>11. CASE PollFind(t)
    BY <2>11 DEF PollFind, Go, QpIndInv, TypeOK, Calls, Creating, Destroying, Polling, UsedBy
  <2>12. CASE PollDone(t)
    BY <2>12 DEF PollDone, End, Go, QpIndInv, TypeOK, Calls, Creating, Destroying, Polling, UsedBy
  <2> QED
    BY <1>1, <2>1, <2>2, <2>3, <2>4, <2>5, <2>6, <2>7, <2>8, <2>9, <2>10, <2>11, <2>12 DEF Continue
<1>2. ASSUME NEW t \in Threads, NEW q \in Qps, Modify(t, q) PROVE Calls'
  BY <1>2 DEF Modify, Begin, QpIndInv, TypeOK, Calls, Creating, Destroying, Polling, UsedBy
<1>3. ASSUME NEW t \in Threads, NEW q \in Qps, Destroy(t, q) PROVE Calls'
  BY <1>3 DEF Destroy, Begin, QpIndInv, TypeOK, Calls, Creating, Destroying, Polling, UsedBy
<1>4. ASSUME NEW t \in Threads, NEW q \in Qps, NEW sc \in Cqs, NEW rc \in Cqs, CreateAlloc(t, q, sc, rc) PROVE Calls'
  BY <1>4 DEF CreateAlloc, Begin, QpIndInv, TypeOK, Calls, Creating, Destroying, Polling, UsedBy
<1>5. ASSUME NEW t \in Threads, NEW q \in Qps, NEW sc \in Cqs, NEW rc \in Cqs, CreateGsi(t, q, sc, rc) PROVE Calls'
  BY <1>5 DEF CreateGsi, Begin, QpIndInv, TypeOK, Calls, Creating, Destroying, Polling, UsedBy
<1>6. ASSUME NEW t \in Threads, NEW c \in Cqs, Poll(t, c) PROVE Calls'
  BY <1>6 DEF Poll, Begin, QpIndInv, TypeOK, Calls, Creating, Destroying, Polling, UsedBy
<1>7. CASE UNCHANGED vars
  BY <1>7 DEF vars, QpIndInv, TypeOK, Calls, Creating, Destroying, Polling, UsedBy
<1> QED
  BY <1>1, <1>2, <1>3, <1>4, <1>5, <1>6, <1>7 DEF Next

\* The table follows the lives of the QPs.
LEMMA EntriesStep ==
  ASSUME ~Exhaust, QpIndInv, [Next]_vars
  PROVE  Entries'
<1> USE QpConstants
<1>1. ASSUME NEW t \in Threads, Continue(t) PROVE Entries'
  <2>1. CASE CreateLock(t)
    BY <2>1 DEF CreateLock, Go, TakeDevLock, QpIndInv, TypeOK, Entries, Calls, Numbers, Creating, Destroying
  <2>2. CASE CreateDone(t)
    BY <2>2 DEF CreateDone, End, Go, HwCreateQp, TableFree, QpIndInv, TypeOK, Entries, Calls, Numbers, Creating, Destroying
  <2>3. CASE CreateMapErr(t)
    BY <2>3 DEF CreateMapErr, End, Go, HwCreateQp, QpIndInv, TypeOK, Entries, Calls, Numbers, Creating, Destroying
  <2>4. CASE CreateHwFail(t)
    BY <2>4 DEF CreateHwFail, End, Go, QpIndInv, TypeOK, Entries, Calls, Numbers, Creating, Destroying
  <2>5. CASE ModifyLock(t)
    BY <2>5 DEF ModifyLock, Go, TakeDevLock, QpIndInv, TypeOK, Entries, Calls, Numbers, Creating, Destroying
  <2>6. CASE ModifyDone(t)
    BY <2>6 DEF ModifyDone, End, Go, QpIndInv, TypeOK, Entries, Calls, Numbers, Creating, Destroying
  <2>7. CASE DestroyLock(t)
    BY <2>7 DEF DestroyLock, Go, TakeDevLock, QpIndInv, TypeOK, Entries, Calls, Numbers, Creating, Destroying
  <2>8. CASE DestroySqLock(t)
    BY <2>8 DEF DestroySqLock, Go, QpIndInv, TypeOK, Entries, Calls, Numbers, Creating, Destroying
  <2>9. CASE DestroyTable(t)
    BY <2>9 DEF DestroyTable, Go, QpIndInv, TypeOK, Entries, Calls, Numbers, Creating, Destroying
  <2>10. CASE DestroyFree(t)
    BY <2>10 DEF DestroyFree, End, Go, QpIndInv, TypeOK, Entries, Calls, Numbers, Creating, Destroying
  <2>11. CASE PollFind(t)
    BY <2>11 DEF PollFind, Go, QpIndInv, TypeOK, Entries, Calls, Numbers, Creating, Destroying
  <2>12. CASE PollDone(t)
    BY <2>12 DEF PollDone, End, Go, QpIndInv, TypeOK, Entries, Calls, Numbers, Creating, Destroying
  <2> QED
    BY <1>1, <2>1, <2>2, <2>3, <2>4, <2>5, <2>6, <2>7, <2>8, <2>9, <2>10, <2>11, <2>12 DEF Continue
<1>2. ASSUME NEW t \in Threads, NEW q \in Qps, Modify(t, q) PROVE Entries'
  BY <1>2 DEF Modify, Begin, QpIndInv, TypeOK, Entries, Calls, Numbers, Creating, Destroying
<1>3. ASSUME NEW t \in Threads, NEW q \in Qps, Destroy(t, q) PROVE Entries'
  BY <1>3 DEF Destroy, Begin, QpIndInv, TypeOK, Entries, Calls, Numbers, Creating, Destroying
<1>4. ASSUME NEW t \in Threads, NEW q \in Qps, NEW sc \in Cqs, NEW rc \in Cqs, CreateAlloc(t, q, sc, rc) PROVE Entries'
  BY <1>4 DEF CreateAlloc, Begin, QpIndInv, TypeOK, Entries, Calls, Numbers, Creating, Destroying
<1>5. ASSUME NEW t \in Threads, NEW q \in Qps, NEW sc \in Cqs, NEW rc \in Cqs, CreateGsi(t, q, sc, rc) PROVE Entries'
  BY <1>5 DEF CreateGsi, Begin, QpIndInv, TypeOK, Entries, Calls, Numbers, Creating, Destroying
<1>6. ASSUME NEW t \in Threads, NEW c \in Cqs, Poll(t, c) PROVE Entries'
  BY <1>6 DEF Poll, Begin, QpIndInv, TypeOK, Entries, Calls, Numbers, Creating, Destroying
<1>7. CASE UNCHANGED vars
  BY <1>7 DEF vars, QpIndInv, TypeOK, Entries, Calls, Numbers, Creating, Destroying
<1> QED
  BY <1>1, <1>2, <1>3, <1>4, <1>5, <1>6, <1>7 DEF Next

\* A completion queue is given the number of a QP that uses it.
LEMMA NamedStep ==
  ASSUME ~Exhaust, QpIndInv, [Next]_vars
  PROVE  Named'
<1> USE QpConstants
<1>1. ASSUME NEW t \in Threads, Continue(t) PROVE Named'
  <2>1. CASE CreateLock(t)
    BY <2>1 DEF CreateLock, Go, TakeDevLock, QpIndInv, TypeOK, Named, Calls, Creating, Destroying
  <2>2. CASE CreateDone(t)
    BY <2>2 DEF CreateDone, End, Go, HwCreateQp, TableFree, QpIndInv, TypeOK, Named, Calls, Creating, Destroying
  <2>3. CASE CreateMapErr(t)
    BY <2>3 DEF CreateMapErr, End, Go, HwCreateQp, QpIndInv, TypeOK, Named, Calls, Creating, Destroying
  <2>4. CASE CreateHwFail(t)
    BY <2>4 DEF CreateHwFail, End, Go, QpIndInv, TypeOK, Named, Calls, Creating, Destroying
  <2>5. CASE ModifyLock(t)
    BY <2>5 DEF ModifyLock, Go, TakeDevLock, QpIndInv, TypeOK, Named, Calls, Creating, Destroying
  <2>6. CASE ModifyDone(t)
    BY <2>6 DEF ModifyDone, End, Go, QpIndInv, TypeOK, Named, Calls, Creating, Destroying
  <2>7. CASE DestroyLock(t)
    BY <2>7 DEF DestroyLock, Go, TakeDevLock, QpIndInv, TypeOK, Named, Calls, Creating, Destroying
  <2>8. CASE DestroySqLock(t)
    BY <2>8 DEF DestroySqLock, Go, QpIndInv, TypeOK, Named, Calls, Creating, Destroying
  <2>9. CASE DestroyTable(t)
    BY <2>9 DEF DestroyTable, Go, QpIndInv, TypeOK, Named, Calls, Creating, Destroying
  <2>10. CASE DestroyFree(t)
    BY <2>10 DEF DestroyFree, End, Go, QpIndInv, TypeOK, Named, Calls, Creating, Destroying
  <2>11. CASE PollFind(t)
    BY <2>11 DEF PollFind, Go, QpIndInv, TypeOK, Named, Calls, Creating, Destroying
  <2>12. CASE PollDone(t)
    BY <2>12 DEF PollDone, End, Go, QpIndInv, TypeOK, Named, Calls, Creating, Destroying
  <2> QED
    BY <1>1, <2>1, <2>2, <2>3, <2>4, <2>5, <2>6, <2>7, <2>8, <2>9, <2>10, <2>11, <2>12 DEF Continue
<1>2. ASSUME NEW t \in Threads, NEW q \in Qps, Modify(t, q) PROVE Named'
  BY <1>2 DEF Modify, Begin, QpIndInv, TypeOK, Named, Calls, Creating, Destroying
<1>3. ASSUME NEW t \in Threads, NEW q \in Qps, Destroy(t, q) PROVE Named'
  BY <1>3 DEF Destroy, Begin, QpIndInv, TypeOK, Named, Calls, Creating, Destroying
<1>4. ASSUME NEW t \in Threads, NEW q \in Qps, NEW sc \in Cqs, NEW rc \in Cqs, CreateAlloc(t, q, sc, rc) PROVE Named'
  BY <1>4 DEF CreateAlloc, Begin, QpIndInv, TypeOK, Named, Calls, Creating, Destroying
<1>5. ASSUME NEW t \in Threads, NEW q \in Qps, NEW sc \in Cqs, NEW rc \in Cqs, CreateGsi(t, q, sc, rc) PROVE Named'
  BY <1>5 DEF CreateGsi, Begin, QpIndInv, TypeOK, Named, Calls, Creating, Destroying
<1>6. ASSUME NEW t \in Threads, NEW c \in Cqs, Poll(t, c) PROVE Named'
  BY <1>6 DEF Poll, Begin, QpIndInv, TypeOK, Named, Calls, Creating, Destroying
<1>7. CASE UNCHANGED vars
  BY <1>7 DEF vars, QpIndInv, TypeOK, Named, Calls, Creating, Destroying
<1> QED
  BY <1>1, <1>2, <1>3, <1>4, <1>5, <1>6, <1>7 DEF Next

\* The spin locks exclude each other.
LEMMA CqLocksStep ==
  ASSUME ~Exhaust, QpIndInv, [Next]_vars
  PROVE  CqLocks'
<1> USE QpConstants
<1>1. ASSUME NEW t \in Threads, Continue(t) PROVE CqLocks'
  <2>1. CASE CreateLock(t)
    BY <2>1 DEF CreateLock, Go, TakeDevLock, QpIndInv, TypeOK, CqLocks, Calls, Creating, Destroying, Polling, Numbers
  <2>2. CASE CreateDone(t)
    BY <2>2 DEF CreateDone, End, Go, HwCreateQp, TableFree, QpIndInv, TypeOK, CqLocks, Calls, Creating, Destroying, Polling, Numbers
  <2>3. CASE CreateMapErr(t)
    BY <2>3 DEF CreateMapErr, End, Go, HwCreateQp, QpIndInv, TypeOK, CqLocks, Calls, Creating, Destroying, Polling, Numbers
  <2>4. CASE CreateHwFail(t)
    BY <2>4 DEF CreateHwFail, End, Go, QpIndInv, TypeOK, CqLocks, Calls, Creating, Destroying, Polling, Numbers
  <2>5. CASE ModifyLock(t)
    BY <2>5 DEF ModifyLock, Go, TakeDevLock, QpIndInv, TypeOK, CqLocks, Calls, Creating, Destroying, Polling, Numbers
  <2>6. CASE ModifyDone(t)
    BY <2>6 DEF ModifyDone, End, Go, QpIndInv, TypeOK, CqLocks, Calls, Creating, Destroying, Polling, Numbers
  <2>7. CASE DestroyLock(t)
    BY <2>7 DEF DestroyLock, Go, TakeDevLock, QpIndInv, TypeOK, CqLocks, Calls, Creating, Destroying, Polling, Numbers
  <2>8. CASE DestroySqLock(t)
    BY <2>8 DEF DestroySqLock, Go, QpIndInv, TypeOK, CqLocks, Calls, Creating, Destroying, Polling, Numbers
  <2>9. CASE DestroyTable(t)
    BY <2>9 DEF DestroyTable, Go, QpIndInv, TypeOK, CqLocks, Calls, Creating, Destroying, Polling, Numbers
  <2>10. CASE DestroyFree(t)
    BY <2>10 DEF DestroyFree, End, Go, QpIndInv, TypeOK, CqLocks, Calls, Creating, Destroying, Polling, Numbers
  <2>11. CASE PollFind(t)
    BY <2>11 DEF PollFind, Go, QpIndInv, TypeOK, CqLocks, Calls, Creating, Destroying, Polling, Numbers
  <2>12. CASE PollDone(t)
    BY <2>12 DEF PollDone, End, Go, QpIndInv, TypeOK, CqLocks, Calls, Creating, Destroying, Polling, Numbers
  <2> QED
    BY <1>1, <2>1, <2>2, <2>3, <2>4, <2>5, <2>6, <2>7, <2>8, <2>9, <2>10, <2>11, <2>12 DEF Continue
<1>2. ASSUME NEW t \in Threads, NEW q \in Qps, Modify(t, q) PROVE CqLocks'
  BY <1>2 DEF Modify, Begin, QpIndInv, TypeOK, CqLocks, Calls, Creating, Destroying, Polling, Numbers
<1>3. ASSUME NEW t \in Threads, NEW q \in Qps, Destroy(t, q) PROVE CqLocks'
  BY <1>3 DEF Destroy, Begin, QpIndInv, TypeOK, CqLocks, Calls, Creating, Destroying, Polling, Numbers
<1>4. ASSUME NEW t \in Threads, NEW q \in Qps, NEW sc \in Cqs, NEW rc \in Cqs, CreateAlloc(t, q, sc, rc) PROVE CqLocks'
  BY <1>4 DEF CreateAlloc, Begin, QpIndInv, TypeOK, CqLocks, Calls, Creating, Destroying, Polling, Numbers
<1>5. ASSUME NEW t \in Threads, NEW q \in Qps, NEW sc \in Cqs, NEW rc \in Cqs, CreateGsi(t, q, sc, rc) PROVE CqLocks'
  BY <1>5 DEF CreateGsi, Begin, QpIndInv, TypeOK, CqLocks, Calls, Creating, Destroying, Polling, Numbers
<1>6. ASSUME NEW t \in Threads, NEW c \in Cqs, Poll(t, c) PROVE CqLocks'
  BY <1>6 DEF Poll, Begin, QpIndInv, TypeOK, CqLocks, Calls, Creating, Destroying, Polling, Numbers
<1>7. CASE UNCHANGED vars
  BY <1>7 DEF vars, QpIndInv, TypeOK, CqLocks, Calls, Creating, Destroying, Polling, Numbers
<1> QED
  BY <1>1, <1>2, <1>3, <1>4, <1>5, <1>6, <1>7 DEF Next

\* An entry that a poll has found is not cleared before the poll ends.
LEMMA FoundStep ==
  ASSUME ~Exhaust, QpIndInv, [Next]_vars
  PROVE  Found'
<1> USE QpConstants
<1>1. ASSUME NEW t \in Threads, Continue(t) PROVE Found'
  <2>1. CASE CreateLock(t)
    BY <2>1 DEF CreateLock, Go, TakeDevLock, QpIndInv, TypeOK, Found, Calls, Numbers, Entries, Named, CqLocks, Creating, Destroying, Polling
  <2>2. CASE CreateDone(t)
    BY <2>2 DEF CreateDone, End, Go, HwCreateQp, TableFree, QpIndInv, TypeOK, Found, Calls, Numbers, Entries, Named, CqLocks, Creating, Destroying, Polling
  <2>3. CASE CreateMapErr(t)
    BY <2>3 DEF CreateMapErr, End, Go, HwCreateQp, QpIndInv, TypeOK, Found, Calls, Numbers, Entries, Named, CqLocks, Creating, Destroying, Polling
  <2>4. CASE CreateHwFail(t)
    BY <2>4 DEF CreateHwFail, End, Go, QpIndInv, TypeOK, Found, Calls, Numbers, Entries, Named, CqLocks, Creating, Destroying, Polling
  <2>5. CASE ModifyLock(t)
    BY <2>5 DEF ModifyLock, Go, TakeDevLock, QpIndInv, TypeOK, Found, Calls, Numbers, Entries, Named, CqLocks, Creating, Destroying, Polling
  <2>6. CASE ModifyDone(t)
    BY <2>6 DEF ModifyDone, End, Go, QpIndInv, TypeOK, Found, Calls, Numbers, Entries, Named, CqLocks, Creating, Destroying, Polling
  <2>7. CASE DestroyLock(t)
    BY <2>7 DEF DestroyLock, Go, TakeDevLock, QpIndInv, TypeOK, Found, Calls, Numbers, Entries, Named, CqLocks, Creating, Destroying, Polling
  <2>8. CASE DestroySqLock(t)
    BY <2>8 DEF DestroySqLock, Go, QpIndInv, TypeOK, Found, Calls, Numbers, Entries, Named, CqLocks, Creating, Destroying, Polling
  <2>9. CASE DestroyTable(t)
    BY <2>9 DEF DestroyTable, Go, QpIndInv, TypeOK, Found, Calls, Numbers, Entries, Named, CqLocks, Creating, Destroying, Polling
  <2>10. CASE DestroyFree(t)
    BY <2>10 DEF DestroyFree, End, Go, QpIndInv, TypeOK, Found, Calls, Numbers, Entries, Named, CqLocks, Creating, Destroying, Polling
  <2>11. CASE PollFind(t)
    <3> SUFFICES ASSUME mem = "intact" PROVE Found'
      BY <2>11 DEF PollFind, Found
    <3>1. PICK c \in Cqs : arg[t] = c /\ pc[t] = "poll"
      BY <2>11 DEF PollFind, Go, QpIndInv, Calls, Polling
    <3> DEFINE p == qp_table[qp_id[c]]
    <3>2. /\ got' = [got EXCEPT ![t] = p] /\ pc' = [pc EXCEPT ![t] = "polled"]
          /\ UNCHANGED <<mem, qp_table, arg, id, sq_cq, rq_cq>>
      BY <2>11, <3>1 DEF PollFind, Go
    <3>3. ASSUME p # None
          PROVE  p \in Qps /\ qp_table[id[p]] = p /\ c \in {sq_cq[p], rq_cq[p]}
      <4>1. qp_id[c] \in Ids
        BY DEF QpIndInv, TypeOK
      <4>2. p \in Qps /\ id[p] = qp_id[c] /\ st[p] \in {"live", "dying"}
        BY <3>3, <4>1 DEF QpIndInv, TypeOK, Entries
      <4>3. qp_id[c] # 0
        BY <4>2 DEF QpIndInv, Numbers
      <4>4. PICK q \in Qps : id[q] = qp_id[c] /\ st[q] # "none" /\ c \in {sq_cq[q], rq_cq[q]}
        BY <4>3 DEF QpIndInv, Named
      <4>5. p = q
        BY <4>2, <4>4 DEF QpIndInv, Numbers
      <4> QED
        BY <4>2, <4>4, <4>5
    <3>4. got \in [Threads -> Qps \cup {None, Wild}] /\ pc \in [Threads -> Steps]
      BY DEF QpIndInv, TypeOK
    <3>5. ASSUME NEW u \in Threads, got'[u] # None
          PROVE  /\ pc'[u] = "polled" /\ got'[u] \in Qps
                 /\ qp_table[id[got'[u]]] = got'[u]
                 /\ arg[u] \in {sq_cq[got'[u]], rq_cq[got'[u]]}
      <4>1. CASE u = t
        BY <3>1, <3>2, <3>3, <3>4, <3>5, <4>1
      <4>2. CASE u # t
        BY <3>2, <3>4, <3>5, <4>2 DEF QpIndInv, Found
      <4> QED
        BY <4>1, <4>2
    <3> QED
      BY <3>2, <3>5 DEF Found
  <2>12. CASE PollDone(t)
    BY <2>12 DEF PollDone, End, Go, QpIndInv, TypeOK, Found, Calls, Numbers, Entries, Named, CqLocks, Creating, Destroying, Polling
  <2> QED
    BY <1>1, <2>1, <2>2, <2>3, <2>4, <2>5, <2>6, <2>7, <2>8, <2>9, <2>10, <2>11, <2>12 DEF Continue
<1>2. ASSUME NEW t \in Threads, NEW q \in Qps, Modify(t, q) PROVE Found'
  BY <1>2 DEF Modify, Begin, QpIndInv, TypeOK, Found, Calls, Numbers, Entries, Named, CqLocks, Creating, Destroying, Polling
<1>3. ASSUME NEW t \in Threads, NEW q \in Qps, Destroy(t, q) PROVE Found'
  BY <1>3 DEF Destroy, Begin, QpIndInv, TypeOK, Found, Calls, Numbers, Entries, Named, CqLocks, Creating, Destroying, Polling
<1>4. ASSUME NEW t \in Threads, NEW q \in Qps, NEW sc \in Cqs, NEW rc \in Cqs, CreateAlloc(t, q, sc, rc) PROVE Found'
  <2> SUFFICES ASSUME mem = "intact", NEW u \in Threads, got[u] # None
               PROVE  /\ pc'[u] = "polled" /\ got[u] \in Qps
                      /\ qp_table[id'[got[u]]] = got[u]
                      /\ arg'[u] \in {sq_cq'[got[u]], rq_cq'[got[u]]}
    BY <1>4 DEF CreateAlloc, Found
  <2>1. /\ pc[u] = "polled" /\ got[u] \in Qps
        /\ qp_table[id[got[u]]] = got[u] /\ arg[u] \in {sq_cq[got[u]], rq_cq[got[u]]}
    <3>1. pc[u] = "polled" /\ got[u] \in Qps \cup {Wild} /\ qp_table[id[got[u]]] = got[u]
      BY DEF QpIndInv, TypeOK, Found
    <3>2. got[u] \in Qps
      BY DEF QpIndInv, Found
    <3> QED
      BY <3>1, <3>2 DEF QpIndInv, Found
  <2>2. u # t /\ got[u] # q
    BY <1>4, <2>1 DEF CreateAlloc, Begin, QpIndInv, TypeOK, Entries
  <2>3. /\ pc'[u] = pc[u] /\ arg'[u] = arg[u] /\ id'[got[u]] = id[got[u]]
        /\ sq_cq'[got[u]] = sq_cq[got[u]] /\ rq_cq'[got[u]] = rq_cq[got[u]]
    BY <1>4, <2>1, <2>2 DEF CreateAlloc, Begin, QpIndInv, TypeOK
  <2> QED
    BY <2>1, <2>3
<1>5. ASSUME NEW t \in Threads, NEW q \in Qps, NEW sc \in Cqs, NEW rc \in Cqs, CreateGsi(t, q, sc, rc) PROVE Found'
  BY <1>5 DEF CreateGsi, Begin, QpIndInv, TypeOK, Found, Calls, Numbers, Entries, Named, CqLocks, Creating, Destroying, Polling
<1>6. ASSUME NEW t \in Threads, NEW c \in Cqs, Poll(t, c) PROVE Found'
  BY <1>6 DEF Poll, Begin, QpIndInv, TypeOK, Found, Calls, Numbers, Entries, Named, CqLocks, Creating, Destroying, Polling
<1>7. CASE UNCHANGED vars
  BY <1>7 DEF vars, QpIndInv, TypeOK, Found, Calls, Numbers, Entries, Named, CqLocks, Creating, Destroying, Polling
<1> QED
  BY <1>1, <1>2, <1>3, <1>4, <1>5, <1>6, <1>7 DEF Next

-----------------------------------------------------------------------------
\* The invariant is inductive while the consumer creates no QP without a number left.
LEMMA QpInductive ==
  ASSUME ~Exhaust
  PROVE  Spec => []QpIndInv
<1>1. Init => QpIndInv
  <2> SUFFICES ASSUME Init PROVE QpIndInv
    OBVIOUS
  <2>1. qp1 \in BOOLEAN
    BY Zenon DEF Init
  <2>2. TypeOK
    BY <2>1, QpConstants DEF Init, TypeOK, Steps, Ids, Reserved
  <2>3. Numbers /\ Calls /\ Entries /\ Named /\ CqLocks /\ Found
    BY QpConstants DEF Init, Numbers, Calls, Entries, Named, CqLocks, Found,
                       Creating, Destroying, Polling
  <2> QED
    BY <2>2, <2>3 DEF QpIndInv
<1>2. QpIndInv /\ [Next]_vars => QpIndInv'
  <2> SUFFICES ASSUME QpIndInv, [Next]_vars PROVE QpIndInv'
    OBVIOUS
  <2> QED
    BY QpTypeStep, NumbersStep, CallsStep, EntriesStep, NamedStep, CqLocksStep, FoundStep
       DEF QpIndInv
<1> QED
  BY <1>1, <1>2, PTL DEF Spec

\* A QP that bxroce_create_qp has handed out is found in dev->qp_table under its
\* number until bxroce_destroy_qp clears the entry, and the table holds nothing else,
\* for any number of threads, QPs and completion queues and with creations that fail
\* at any point; as long as no QP is created when the numbers have run out, and until
\* _bxroce_destroy_qp clears a one bit of the pointers instead of one of the bitmap.
THEOREM QpTable ==
  ASSUME ~Exhaust
  PROVE  Spec => []QpInv
<1>1. QpIndInv => QpInv
  <2> SUFFICES ASSUME QpIndInv, mem = "intact" PROVE TableExact
    BY DEF QpIndInv, QpInv, TableTrue
  <2>1. ASSUME NEW q \in Qps, st[q] = "live" PROVE Entry(id[q]) = {q}
    BY <2>1 DEF QpIndInv, Entries
  <2>2. ASSUME NEW i \in Ids, NEW q \in Entry(i) \ {None}
        PROVE  q \in Qps /\ st[q] \in {"live", "dying"}
    BY <2>2 DEF QpIndInv, TypeOK, Entries
  <2> QED
    BY <2>1, <2>2 DEF TableExact
<1> QED
  BY <1>1, QpInductive, PTL

\* bxroce_poll_cq works on no QP structure that bxroce_destroy_qp has freed: the
\* cq->lock it holds keeps the entry it has found, while the pointer of the table is
\* the one bxroce_init_cqqp set.
THEOREM QpUse ==
  ASSUME ~Exhaust
  PROVE  Spec => []UsesLive
<1>1. QpIndInv => UsesLive
  <2> SUFFICES ASSUME QpIndInv, mem = "intact", NEW t \in Threads, got[t] # None
               PROVE  st[got[t]] \in {"live", "dying"}
    BY DEF UsesLive
  <2>1. got[t] \in Qps /\ id[got[t]] \in Ids /\ qp_table[id[got[t]]] = got[t]
    BY DEF QpIndInv, TypeOK, Found
  <2> QED
    BY <2>1 DEF QpIndInv, Entries
<1> QED
  BY <1>1, QpInductive, PTL
=============================================================================
