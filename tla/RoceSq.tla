------------------------------- MODULE RoceSq -------------------------------
(***************************************************************************)
(* The send queue of a kernel QP (bxroce_post_send and what it calls in    *)
(* bxroce_verbs.c, bxroce_qp_state_change in bxroce_hw.c) and the device   *)
(* that reads it.  post_send and a change of state hold qp->q_lock, so     *)
(* they exclude each other; the device runs beside both.  Driver and       *)
(* device share the queue memory and the two registers wp and rp, byte     *)
(* offsets in the code and entry indices here.                             *)
(***************************************************************************)
EXTENDS Integers, Sequences

CONSTANTS
  Q,            \* sq.max_cnt: max_qp_wr * max_recv_sge, 2048
  MaxSge,       \* sq.max_sges
  Depth,        \* the consumer keeps at most this many elements unexecuted
  Reinit,       \* TRUE: the consumer may take a used, idle QP back to INIT
  RefuseImm     \* TRUE: requests without entries and with immediate data may be refused

ASSUME SqConstants ==
  /\ Q \in Nat \ {0, 1}
  /\ MaxSge \in 1..(Q - 1)
  /\ Depth \in 1..(2 * Q)
  /\ {Reinit, RefuseImm} \subseteq BOOLEAN

Idx == 0..(Q - 1)

\* Element numbers, which exist in the model only: enough of them to tell apart
\* the elements in the queue and those of the request being posted.
R == 3 * Q
Num == 0..(R - 1)
Cleared == R

VARIABLES
  qp_state,     \* qp->qp_state
  head, tail,   \* qp->sq.head, qp->sq.tail
  qp_foe,       \* qp->sq.qp_foe
  overhead,     \* qp->overhead
  wqe,          \* the queue memory: the number of the element in each entry
  wp, rp,       \* the device's registers for this queue
  pc,           \* bxroce_post_send: "idle", "wr", "ring", "update"
  next,         \* number of the next element the consumer posts
  sent          \* number of the next element the device has to execute

drv == <<head, tail, qp_foe, overhead>>
vars == <<qp_state, drv, wqe, wp, rp, pc, next, sent>>

QpStates == {"RST", "INIT", "RTR", "RTS", "SQE", "SQD", "ERR"}

Step(i) == (i + 1) % Q
Gap(a, b) == (b - a) % Q          \* entries from index a up to index b
Owed == (next - sent) % R         \* elements posted and not executed

Init ==
  /\ qp_state = "RST"
  /\ head = 0 /\ tail = 0 /\ qp_foe = "FULL" /\ overhead = 0
  /\ wqe = [i \in Idx |-> Cleared]
  /\ wp = 0 /\ rp = 0
  /\ pc = "idle" /\ next = 0 /\ sent = 0
-----------------------------------------------------------------------------
(* bxroce_post_send.                                                       *)

\* bxroce_update_sq_tail
UpdateTail ==
  /\ tail' = rp
  /\ qp_foe' = IF rp = head THEN "EMPTY" ELSE qp_foe

\* Before the loop; the tail is read whatever the state of the QP.
PostBegin ==
  /\ pc = "idle"
  /\ overhead' = 0
  /\ UpdateTail
  /\ pc' = IF qp_state \in {"RTS", "SQD"} THEN "wr" ELSE "idle"
  /\ UNCHANGED <<qp_state, head, wqe, wp, rp, next, sent>>

\* bxroce_hwq_free_cnt
hwq_free_cnt ==
  CASE head > tail -> ((Q - 1 - head) + tail) % Q
    [] head = tail -> IF qp_foe = "EMPTY" THEN Q ELSE 0
    [] head < tail -> tail - head

\* The loop's tests, bxroce_check_foe included.
Fits(num_sge) ==
  /\ hwq_free_cnt # 0
  /\ num_sge <= MaxSge
  /\ num_sge <= hwq_free_cnt

\* The head moves on; overhead notes that it ran over the end.
Advance(n) ==
  /\ overhead' = IF head + n >= Q THEN 1 ELSE overhead
  /\ head' = (head + n) % Q

\* (mutant) the next element is written behind the one before, past the end
Build_NoWrap(n) ==
  /\ wqe' = [i \in Idx |-> IF i \in head..(head + n - 1) THEN (next + i - head) % R ELSE wqe[i]]
  /\ Advance(n)

\* bxroce_build_sges and bxroce_buildwrite_sges: n elements from head on.
Build(n) ==
  /\ wqe' = [i \in Idx |-> IF Gap(head, i) < n THEN (next + Gap(head, i)) % R ELSE wqe[i]]
  /\ Advance(n)

\* A request with n scatter/gather entries (num_sge = n), or one without any
\* that carries immediate data (num_sge = 0, one element).
PostWr(n, num_sge) ==
  /\ pc = "wr"
  /\ Owed + n <= Depth
  /\ Fits(num_sge)
  /\ Build(n)
  /\ next' = (next + n) % R
  /\ pc' = "ring"
  /\ UNCHANGED <<qp_state, tail, qp_foe, wp, rp, sent>>

\* The entry at head is left alone, or cleared before the request is refused.
Touch == wqe' \in {wqe, [wqe EXCEPT ![head] = Cleared]}

\* A request whose transport is refused (GSI).  One without entries and with immediate
\* data moves the head on all the same, although nothing is built.
Refuse == Touch /\ \E n \in IF RefuseImm THEN {0, 1} ELSE {0} : Advance(n)

\* A request the driver accepts and builds nothing for: a send or write without
\* entries and without immediate data, for which bxroce_ring_sq_hw returns before
\* it writes a register, ...
PostEmpty ==
  /\ pc = "wr"
  /\ Fits(0)
  /\ Touch
  /\ pc' = "update"
  /\ UNCHANGED <<qp_state, drv, wp, rp, next, sent>>

\* ... or one whose transport and opcode bxroce_build_wqe_opcode refuses,
\* when the caller drops the status (a send on the GSI QP), and
\* IB_WR_LOCAL_INV and IB_WR_REG_MR.
PostUnsupported(num_sge) ==
  /\ pc = "wr"
  /\ Fits(num_sge)
  /\ Refuse
  /\ pc' = "ring"
  /\ UNCHANGED <<qp_state, tail, qp_foe, wp, rp, next, sent>>

\* The end of the list, or a request that does not fit or is refused.
PostEnd ==
  /\ pc = "wr"
  /\ IF Fits(0) THEN Refuse ELSE UNCHANGED <<wqe, head, overhead>>
  /\ pc' = "idle"
  /\ UNCHANGED <<qp_state, tail, qp_foe, wp, rp, next, sent>>

\* (mutant) the device is not told
Ring_Silent ==
  /\ pc = "ring"
  /\ pc' = "update"
  /\ overhead' = 0
  /\ UNCHANGED <<qp_state, head, tail, qp_foe, wqe, wp, rp, next, sent>>

\* bxroce_ring_sq_hw writes wp, twice when the elements ran over the end: the
\* size of the queue first, the new head second.
Ring ==
  /\ pc = "ring"
  /\ IF overhead = 1
     THEN wp' = Q /\ overhead' = 0 /\ pc' = "ring"
     ELSE wp' = head /\ overhead' = 0 /\ pc' = "update"
  /\ UNCHANGED <<qp_state, head, tail, qp_foe, wqe, rp, next, sent>>

\* bxroce_update_sq_head: head is read back from the device.
UpdateHead ==
  /\ pc = "update"
  /\ head' = wp
  /\ qp_foe' = IF head # wp /\ wp = tail THEN "FULL" ELSE qp_foe
  /\ pc' = "wr"
  /\ UNCHANGED <<qp_state, tail, overhead, wqe, wp, rp, next, sent>>
-----------------------------------------------------------------------------
\* bxroce_modify_qp: ib_modify_qp_is_ok is asked and its answer only printed, so
\* every state follows every other one.  The registers are not touched.
QpStateChange(s) ==
  /\ pc = "idle"
  /\ s # qp_state
  /\ s = "INIT" => head = 0 \/ (Reinit /\ Owed = 0)
  /\ qp_state' = s
  /\ IF s = "INIT"
     THEN head' = 0 /\ tail' = 0 /\ qp_foe' = "EMPTY"
     ELSE UNCHANGED <<head, tail, qp_foe>>
  /\ UNCHANGED <<overhead, wqe, wp, rp, pc, next, sent>>

\* The device executes the element at rp; at the end of the queue rp returns to
\* the start.
HwExecute ==
  /\ rp # wp % Q
  /\ rp' = Step(rp)
  /\ sent' = (sent + 1) % R
  /\ UNCHANGED <<qp_state, drv, wqe, wp, pc, next>>
-----------------------------------------------------------------------------
Post ==
  \/ PostBegin
  \/ \E n \in 1..MaxSge : PostWr(n, n)
  \/ PostWr(1, 0)
  \/ PostEmpty
  \/ \E n \in 1..MaxSge : PostUnsupported(n)
  \/ PostEnd
  \/ Ring
  \/ UpdateHead

Next == Post \/ HwExecute \/ \E s \in QpStates : QpStateChange(s)

Spec == Init /\ [][Next]_vars
-----------------------------------------------------------------------------
(* Properties.                                                             *)

\* Every variable has its type.
TypeOK ==
  /\ qp_state \in QpStates
  /\ head \in Idx /\ tail \in Idx /\ qp_foe \in {"EMPTY", "FULL"} /\ overhead \in {0, 1}
  /\ wqe \in [Idx -> Num \cup {Cleared}]
  /\ wp \in 0..Q /\ rp \in Idx
  /\ pc \in {"idle", "wr", "ring", "update"}
  /\ next \in Num /\ sent \in Num

\* entries whose element the device has still to execute
Unread == {(rp + k) % Q : k \in 0..(Owed - 1)}

\* "check if the wr can be processed with enough memory": post_send never builds an
\* element in an entry whose element has not been executed, be it for a consumer
\* that posts until it is refused.
BuildsFree == [][\A i \in Unread : wqe'[i] = wqe[i]]_vars

\* "notify hw to send wqe": between two calls the device has been told of
\* exactly the elements posted and not executed, and finds them in order from rp
\* on.
InOrder ==
  pc \in {"idle", "wr"} =>
    /\ Gap(rp, wp % Q) = Owed
    /\ \A k \in 0..(Owed - 1) : wqe[(rp + k) % Q] = (sent + k) % R

\* The send queue between two calls: indices in range, elements in order at the device.
QueueInv == TypeOK /\ InOrder

\* "notify hw to send wqe": a request that post_send goes on after, instead of
\* refusing it, has given the device an element to execute.
AcceptedIsBuilt == [][pc = "wr" /\ pc' # "idle" => next' # next]_vars

\* The registers and the memory implement a queue.
Fifo == INSTANCE SendFifo WITH
          MaxPost <- MaxSge,
          q <- [k \in 1..Gap(rp, wp % Q) |-> wqe[(rp + k - 1) % Q]],
          num <- (sent + Gap(rp, wp % Q)) % R

\* Elements are executed once each in the order posted (SendFifo).
IsFifo == Fifo!Spec
=============================================================================
