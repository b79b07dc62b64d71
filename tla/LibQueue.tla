------------------------------ MODULE LibQueue ------------------------------
(***************************************************************************)
(* The user library (libbxroce/bxroce_verbs.c): a queue pair's send and    *)
(* receive queues in memory shared with the device, the pointer registers  *)
(* of the device, which every process reaches through one register window  *)
(* under a robust mutex in shared memory, the completion queues, and the   *)
(* exchange server (rdma_exchange/exchange.c) that turns a peer's virtual  *)
(* address into a physical one.                                            *)
(* A process has one queue pair ("cq only mapped to one qp").              *)
(***************************************************************************)
EXTENDS Naturals, Sequences, FiniteSets

CONSTANTS
  Loads,        \* what behaviours are about: "all", or one side alone ("sends" without
                \* remote addresses, "remote", "receives" with one send each)
  Procs,        \* processes
  Senders,      \* those that post sends
  Once,         \* those of them that post a single send, with immediate data
  Receivers,    \* those that post receives
  Ready,        \* those whose queue pair is in RTS from the start and stays there
  Mortal,       \* those that may be killed
  Apart,        \* those that take another lock, as the kernel driver does
  N,            \* sq.max_cnt and rq.max_cnt
  Sges,         \* lengths of the gather lists of a send; 0 comes with immediate data
  MaxWqes,      \* bound on the WQEs a process builds
  MaxRqes,      \* bound on the receives a process posts
  Entries,      \* lengths of the array wc that a poll is given
  Size,         \* length of the peer's registrations
  Vas,          \* virtual addresses they may start at
  MaxRegs,      \* bound on the registrations of the peer
  MaxDeaths,    \* bound on the processes that are killed
  Allow         \* situations the code does not handle that may occur

ASSUME LibQueueConstants ==
  /\ Loads \subseteq {"all", "sends", "remote", "receives"}
  /\ IsFiniteSet(Procs) /\ "nobody" \notin Procs
  /\ Senders \cup Receivers \cup Ready \cup Mortal \cup Apart \subseteq Procs
  /\ Once \subseteq Senders
  /\ N \in Nat \ {0, 1} /\ \A k \in Sges : k \in 0..(N - 2)
  /\ Entries \subseteq Nat \ {0} /\ Size \in Nat \ {0} /\ Vas \subseteq Nat \ {0}
  /\ {MaxWqes, MaxRqes, MaxRegs, MaxDeaths} \subseteq Nat
  /\ Allow \subseteq {"map_fail", "read_fail", "remove_any", "recycle", "near", "dirty_heap",
                      "numbered", "refused"}

VARIABLES
  load,         \* what the behaviour is about
  qp,           \* state of the library's queue pair, "none" without one
  qp_tbl,       \* qp_tbl entry: "NULL", "live", or "freed" memory
  kqp,          \* processes whose queue pair the kernel has
  pc,           \* where a post is
  op,           \* the register sequence it is in: "reset", "ring" or "none"
  wr,           \* the work request being posted
  hw_lock,      \* the robust mutex: owner, and "ok", "died" or "broken"
  win,          \* the register window of the send queues: queue pair and value
  sq, rq,       \* qp->sq and qp->rq, with the entries
  dev, rdev,    \* the device's pointers
  xmit, rx,     \* completions not yet polled: how many of sends, which of receives
  left,         \* entries left in wc of the poll under way, 0 without one
  nwqe, nexec,  \* WQEs built, WQEs executed by the device
  nrqe, nrecv,  \* receives posted, receives filled by the device,
  nrep,         \* receives handed out by polls
  cache,        \* qp->addrtbl, its first entry
  ever, mr_pool,\* the peer's registrations; the table of the exchange server
  deaths

qps == <<load, qp, qp_tbl, kqp>>
post == <<pc, op, wr, hw_lock, win>>
send == <<sq, dev, nwqe, nexec, xmit>>
recv == <<rq, rdev, nrqe, nrecv, rx>>
polls == <<left, nrep>>
peer == <<ever, mr_pool>>
vars == <<qps, post, send, recv, polls, cache, peer, deaths>>

NOBODY == "nobody"
max_wqe_idx == N - 1
NoWr == [kind |-> "none", sges |-> 0, reg |-> 0, off |-> 0]
NoDma == [reg |-> 0, off |-> 0]
NoWqe == [id |-> 0, opcode |-> "none", rkey |-> 0, va |-> 0, dma |-> NoDma]
-----------------------------------------------------------------------------
(* Queue pairs.                                                            *)

\* bxroce_create_qp.  After the kernel has made the queue pair and the table points to
\* it, a failing table or mapping of the queues frees the memory and nothing else;
\* a failing mapping of the registers undoes everything.
CreateQp(p, fails) ==
  /\ qp[p] = "none" /\ pc[p] = "idle"
  /\ fails = "queues" => "map_fail" \in Allow
  /\ load' = load
  /\ qp' = [qp EXCEPT ![p] = IF fails = "no" THEN "RST" ELSE @]
  /\ qp_tbl' = [qp_tbl EXCEPT ![p] = CASE fails = "no" -> "live"
                                       [] fails = "queues" -> "freed"
                                       [] fails = "kernel" -> @
                                       [] fails = "regs" -> "NULL"]
  /\ kqp' = IF fails \in {"no", "queues"} THEN kqp \cup {p} ELSE kqp
  /\ sq' = [sq EXCEPT ![p].overhead = max_wqe_idx + 1]
  /\ UNCHANGED <<post, dev, nwqe, nexec, xmit, recv, polls, cache, peer, deaths>>

\* (mutant) the table keeps the pointer
DestroyQp_Kept(p) ==
  /\ p \notin Ready
  /\ qp[p] \notin {"none", "gone"} /\ pc[p] = "idle" /\ xmit[p] = 0 /\ rx[p] = <<>>
  /\ left[p] = 0 /\ dev[p].rp = dev[p].wp /\ rdev[p].n = 0
  /\ load' = load
  /\ qp' = [qp EXCEPT ![p] = "gone"]
  /\ qp_tbl' = [qp_tbl EXCEPT ![p] = "freed"]
  /\ kqp' = kqp \ {p}
  /\ UNCHANGED <<post, send, recv, polls, cache, peer, deaths>>

\* bxroce_destroy_qp, of a queue pair that has come to rest.
DestroyQp(p) ==
  /\ p \notin Ready
  /\ qp[p] \notin {"none", "gone"} /\ pc[p] = "idle" /\ xmit[p] = 0 /\ rx[p] = <<>>
  /\ left[p] = 0 /\ dev[p].rp = dev[p].wp /\ rdev[p].n = 0
  /\ load' = load
  /\ qp' = [qp EXCEPT ![p] = "gone"]
  /\ qp_tbl' = [qp_tbl EXCEPT ![p] = "NULL"]
  /\ kqp' = kqp \ {p}
  /\ UNCHANGED <<post, send, recv, polls, cache, peer, deaths>>

\* bxroce_qp_state_machine: what it accepts.
bxroce_qp_state_machine(old, new) ==
  \/ old = "RST" /\ new = "INIT"
  \/ old = "INIT" /\ new \in {"RTR", "ERR"}
  \/ old = "RTR" /\ new \in {"RTS", "ERR"}
  \/ old = "RTS" /\ new = "ERR"
  \/ old = "ERR" /\ new = "RST"

\* bxroce_modify_qp; the pointers are set to the start, those of the device are not.
ModifyQp(p, s) ==
  /\ p \notin Ready /\ qp[p] \notin {"none", "gone"} /\ pc[p] = "idle"
  /\ bxroce_qp_state_machine(qp[p], s)
  /\ s = "RST" => "recycle" \in Allow
  /\ load' = load
  /\ qp' = [qp EXCEPT ![p] = s]
  /\ IF s = "INIT"
     THEN /\ sq' = [sq EXCEPT ![p].head = 0, ![p].tail = 0]
          /\ rq' = [rq EXCEPT ![p].head = 0, ![p].tail = 0, ![p].foe = "EMPTY"]
     ELSE UNCHANGED <<sq, rq>>
  /\ UNCHANGED <<qp_tbl, kqp, post, dev, nwqe, nexec, xmit, rdev, nrqe, nrecv, rx, polls, cache,
                 peer, deaths>>
-----------------------------------------------------------------------------
(* Remote addresses.                                                       *)

\* bxroce_reg_mrinfo: what the server is told of a registration, which is its rkey.
bxroce_reg_mrinfo(v) == [rkey |-> Len(ever) + 1, va |-> v, phy |-> Len(ever) + 1]

\* bxroce_reg_mr of the peer, with CMD_WRITE of the server.  Two registrations less than
\* two lengths apart, or one address registered again, are what a remembered address
\* does not tell apart.
RegMr(v) ==
  /\ Len(ever) < MaxRegs /\ load \in {"all", "remote"}
  /\ "near" \in Allow \/ \A i \in DOMAIN ever : v >= ever[i] + 2 * Size \/ ever[i] >= v + 2 * Size
  /\ ever' = Append(ever, v)
  /\ mr_pool' = Append(mr_pool, bxroce_reg_mrinfo(v))
  /\ UNCHANGED <<qps, post, send, recv, polls, cache, deaths>>

\* bxroce_remove_mr moves as many bytes as there are entries behind: the entry stays,
\* with a damaged address.
bxroce_remove_mr(pool, i) ==
  IF i = Len(pool) THEN pool ELSE [pool EXCEPT ![i].phy = 0]

\* bxroce_dereg_mrinfo and CMD_REMOVE: the last entry goes.
bxroce_dereg_mrinfo(i) == SubSeq(bxroce_remove_mr(mr_pool, i), 1, Len(mr_pool) - 1)

\* bxroce_dereg_mr of the peer.
DeregMr(i) ==
  /\ i \in 1..Len(mr_pool)
  /\ i = Len(mr_pool) \/ "remove_any" \in Allow
  /\ \/ "read_fail" \in Allow
     \/ \A p \in Procs : ~(wr[p].kind = "read" /\ wr[p].reg = mr_pool[i].rkey)
  /\ mr_pool' = bxroce_dereg_mrinfo(i)
  /\ UNCHANGED <<qps, post, send, recv, polls, cache, ever, deaths>>

\* The address that a work request asks for: one of a registration.
Va(w) == ever[w.reg] + w.off

\* CMD_READ: the physical address for a key and an address, or none; the end of a
\* registration counts as part of it.
Lookup(w) ==
  {[reg |-> e.phy, off |-> Va(w) - e.va] :
     e \in {mr_pool[i] : i \in {j \in DOMAIN mr_pool :
             mr_pool[j].rkey = w.reg /\ Va(w) \in mr_pool[j].va .. (mr_pool[j].va + Size)}}}

\* addrtbl comes from malloc: zeros, or what was there before.
Fresh ==
  {[va |-> 0, len |-> 0, dma |-> NoDma]} \cup
  (IF "dirty_heap" \in Allow THEN {[va |-> v, len |-> Size, dma |-> NoDma] : v \in Vas} ELSE {})

\* bxroce_build_write, bxroce_build_read: an address in the range of the entry, its end
\* included, is taken for known, whatever key it was resolved for.
Hit(c, va) == va \in c.va .. (c.va + c.len)

\* bxroce_exchange_dmaaddrinfo: the address resolved last is remembered.
Resolved(c, w) ==
  IF Hit(c, Va(w)) \/ Lookup(w) = {} THEN c
  ELSE [va |-> Va(w), len |-> Size, dma |-> CHOOSE a \in Lookup(w) : TRUE]

Resolves(c, w) == Hit(c, Va(w)) \/ Lookup(w) # {}

\* qp->rdma_addr: what is remembered, and the distance from it if it was known.
rdma_addr(c, w) ==
  IF Hit(c, Va(w)) THEN [c.dma EXCEPT !.off = @ + (Va(w) - c.va)] ELSE Resolved(c, w).dma
-----------------------------------------------------------------------------
(* Posting a send.  q_lock is held from PostSend to the end.               *)

\* bxroce_sqhwq_free_cnt
bxroce_sqhwq_free_cnt(q) == max_wqe_idx - q.head

\* The WQEs of a work request, one for each element and one for immediate data alone.
Count(w) == IF w.sges = 0 THEN 1 ELSE w.sges

PostSend(p, w) ==
  /\ qp[p] = "RTS" /\ pc[p] = "idle"
  /\ load = "remote" => p \notin Once
  /\ p \in Once \/ load \in {"sends", "receives"} => w.kind = "imm"
  /\ IF p \in Once \/ load = "receives" THEN nwqe[p] = 0 ELSE nwqe[p] + Count(w) <= MaxWqes
  /\ w.kind \in {"write", "read"} => w.reg \in DOMAIN ever
  /\ w.kind = "read" => Resolves(cache[p], w) \/ "read_fail" \in Allow
  /\ w.sges = 0 => w.kind \in {"imm", "write"}
  /\ wr' = [wr EXCEPT ![p] = w]
  /\ pc' = [pc EXCEPT ![p] = "check"]
  /\ UNCHANGED <<qps, op, hw_lock, win, send, recv, polls, cache, peer, deaths>>

\* (mutant) the post goes on with an address that was not found
CanBuild_Ignored(p) == TRUE

\* bxroce_build_write gives up when the address is not found; bxroce_build_read does
\* not look.
CanBuild(p) == wr[p].kind = "write" => Resolves(cache[p], wr[p])

\* bxroce_build_wqe_opcode: a plain send is made one with immediate data.
bxroce_build_wqe_opcode(w) == CASE w.kind = "imm" -> "SEND_WITH_IMM"
                                [] w.kind = "write" -> "RDMA_WRITE"
                                [] w.kind = "read" -> "RDMA_READ"

\* bxroce_prepare_send_wqe
bxroce_prepare_send_wqe(w, id) ==
  [NoWqe EXCEPT !.id = id, !.opcode = bxroce_build_wqe_opcode(w)]

\* bxroce_prepare_write_wqe, of a read too.
bxroce_prepare_write_wqe(w, id, c) ==
  [id |-> id, opcode |-> bxroce_build_wqe_opcode(w), rkey |-> w.reg, va |-> Va(w),
   dma |-> rdma_addr(c, w)]

\* bxroce_build_sges, bxroce_buildwrite_sges: entries from the head on.
Filled(p) ==
  [i \in 0..max_wqe_idx |->
     LET id == nwqe[p] + i - sq[p].head + 1
     IN  IF i \notin sq[p].head .. (sq[p].head + Count(wr[p]) - 1) THEN sq[p].slot[i]
         ELSE IF wr[p].kind = "imm" THEN bxroce_prepare_send_wqe(wr[p], id)
         ELSE bxroce_prepare_write_wqe(wr[p], id, cache[p])]

\* What addrtbl holds after the address has been looked for.
Remembered(p) == IF wr[p].kind \in {"write", "read"} THEN Resolved(cache[p], wr[p]) ELSE cache[p]

EndPost(p) ==
  /\ pc' = [pc EXCEPT ![p] = "idle"] /\ op' = [op EXCEPT ![p] = "none"]
  /\ wr' = [wr EXCEPT ![p] = NoWr]

\* bxroce_ring_sq_hw comes next.
ToRing(p) ==
  /\ pc' = [pc EXCEPT ![p] = "lock"] /\ op' = [op EXCEPT ![p] = "ring"]
  /\ wr' = [wr EXCEPT ![p] = NoWr]

\* The entries are built.
Build(p) ==
  /\ sq' = [sq EXCEPT ![p].slot = Filled(p), ![p].head = (@ + Count(wr[p])) % N]
  /\ nwqe' = [nwqe EXCEPT ![p] = @ + Count(wr[p])]
  /\ cache' = [cache EXCEPT ![p] = Remembered(p)]
  /\ ToRing(p)

\* The builders refuse the work request: inline data, a queue pair type or an address
\* handle that does not fit.  The entry at the head has been cleared.  With no element
\* the head moves all the same (once prepare_send_wqe or prepare_write_wqe has failed);
\* bxroce_build_read's status is dropped, and the post goes on to ring.
Refuse(p) ==
  /\ \E k \in IF wr[p].sges = 0 /\ "refused" \in Allow THEN {0, 1} ELSE {0} :
       sq' = [sq EXCEPT ![p].slot[sq[p].head] = NoWqe, ![p].head = (@ + k) % N]
  /\ cache' = [cache EXCEPT ![p] = Remembered(p)]
  /\ IF wr[p].kind = "read" THEN ToRing(p) ELSE EndPost(p)
  /\ nwqe' = nwqe

\* The loop of bxroce_post_send: give up, wait for the device to run dry, or build.
Check(p) ==
  /\ pc[p] = "check"
  /\ LET free == bxroce_sqhwq_free_cnt(sq[p])
     IN  IF free = 0 \/ (free > wr[p].sges /\ ~CanBuild(p))
         THEN EndPost(p) /\ UNCHANGED <<sq, nwqe, cache>>
         ELSE IF free <= wr[p].sges
         THEN /\ pc' = [pc EXCEPT ![p] = "lock"] /\ op' = [op EXCEPT ![p] = "reset"]
              /\ UNCHANGED <<wr, sq, nwqe, cache>>
         ELSE Build(p) \/ Refuse(p)
  /\ UNCHANGED <<qps, hw_lock, win, dev, nexec, xmit, recv, polls, peer, deaths>>
-----------------------------------------------------------------------------
(* The register window: bxroce_init_sq_ptr ("reset") and bxroce_ring_sq_hw *)
(* ("ring").                                                               *)

Goto(p, from, to) == pc[p] = from /\ pc' = [pc EXCEPT ![p] = to]

\* (mutant) nobody waits for the lock
Lock_Taken(p) ==
  /\ Goto(p, "lock", "select")
  /\ hw_lock' = [owner |-> p, state |-> "ok"]
  /\ UNCHANGED <<qps, op, wr, win, send, recv, polls, cache, peer, deaths>>

\* pthread_mutex_lock; the lock of a process that died is made consistent, one that
\* is beyond repair ends the process.
Lock(p) ==
  /\ hw_lock.owner = NOBODY \/ p \in Apart
  /\ Goto(p, "lock", IF hw_lock.state = "broken" THEN "dead" ELSE "select")
  /\ hw_lock' = IF p \in Apart \/ hw_lock.state = "broken" THEN hw_lock
                ELSE [owner |-> p, state |-> "ok"]
  /\ UNCHANGED <<qps, op, wr, win, send, recv, polls, cache, peer, deaths>>

\* QPLISTREADQPN
Select(p) ==
  /\ Goto(p, "select", IF op[p] = "reset" THEN "read" ELSE "fill")
  /\ win' = [win EXCEPT !.sel = p]
  /\ UNCHANGED <<qps, op, wr, hw_lock, send, recv, polls, cache, peer, deaths>>

\* (mutant) the device is not asked whether it has run dry
Read_NotAsked(p) ==
  /\ Goto(p, "read", "fill")
  /\ sq' = [sq EXCEPT ![p].overhead = sq[p].head, ![p].head = 0]
  /\ UNCHANGED <<qps, op, wr, hw_lock, win, dev, nwqe, nexec, xmit, recv, polls, cache,
                 peer, deaths>>

\* READQPLISTDATA and READQPLISTDATA2: when the device has run dry, back to the start.
Read(p) ==
  /\ pc[p] = "read"
  /\ IF dev[win.sel].rp = dev[win.sel].wp
     THEN /\ Goto(p, "read", "fill")
          /\ sq' = [sq EXCEPT ![p].overhead = sq[p].head, ![p].head = 0]
     ELSE Goto(p, "read", "unlock") /\ UNCHANGED sq
  /\ UNCHANGED <<qps, op, wr, hw_lock, win, dev, nwqe, nexec, xmit, recv, polls, cache,
                 peer, deaths>>

\* WPFORQPLIST
Fill(p) ==
  /\ Goto(p, "fill", "commit")
  /\ win' = [win EXCEPT !.val = sq[p].head]
  /\ UNCHANGED <<qps, op, wr, hw_lock, send, recv, polls, cache, peer, deaths>>

\* QPLISTWRITEQPN: the device takes the value for the queue pair selected, both
\* pointers on a reset.
Commit(p) ==
  /\ Goto(p, "commit", "unlock")
  /\ dev' = [dev EXCEPT ![win.sel].wp = win.val,
                        ![win.sel].rp = IF op[p] = "reset" THEN win.val ELSE @]
  /\ UNCHANGED <<qps, op, wr, hw_lock, win, sq, nwqe, nexec, xmit, recv, polls, cache, peer,
                 deaths>>

\* (mutant) the way out of a queue that is not dry forgets the lock
Unlock_Forgot(p) ==
  /\ Goto(p, "unlock", IF op[p] = "reset" THEN "check" ELSE "idle")
  /\ hw_lock' = IF op[p] = "reset" /\ sq[p].head # 0 THEN hw_lock
                ELSE [owner |-> NOBODY, state |-> "ok"]
  /\ op' = [op EXCEPT ![p] = IF @ = "reset" THEN @ ELSE "none"]
  /\ UNCHANGED <<qps, wr, win, send, recv, polls, cache, peer, deaths>>

\* pthread_mutex_unlock: the end of the post, or the next round of its loop.
Unlock(p) ==
  /\ Goto(p, "unlock", IF op[p] = "reset" THEN "check" ELSE "idle")
  /\ hw_lock' = IF p \in Apart THEN hw_lock
                ELSE [owner |-> NOBODY, state |-> IF hw_lock.state = "died" THEN "broken" ELSE "ok"]
  /\ op' = [op EXCEPT ![p] = IF @ = "reset" THEN @ ELSE "none"]
  /\ UNCHANGED <<qps, wr, win, send, recv, polls, cache, peer, deaths>>

\* A completion that carries a number other than 0 when none has carried 0 before.
DividesByZero(p) ==
  qp_tbl[p] = "live" /\ rx[p] # <<>> /\ Head(rx[p]).lo # 0 /\ rq[p].phase = 0

\* A process is killed, or divides by 0 in bxroce_poll_hwcq, perhaps with the lock in its
\* hands.
Die(p) ==
  /\ (p \in Mortal /\ deaths < MaxDeaths) \/ DividesByZero(p)
  /\ qp[p] # "none" /\ pc[p] # "dead"
  /\ deaths' = deaths + 1
  /\ pc' = [pc EXCEPT ![p] = "dead"]
  /\ hw_lock' = IF hw_lock.owner = p THEN [owner |-> NOBODY, state |-> "died"] ELSE hw_lock
  /\ UNCHANGED <<qps, op, wr, win, send, recv, polls, cache, peer>>
-----------------------------------------------------------------------------
(* Receiving and polling.                                                  *)

\* (mutant) a queue that is full is taken for an empty one
RqFree_Empty(q) ==
  IF q.head > q.tail THEN ((max_wqe_idx - q.head) + q.tail) % N
  ELSE IF q.head = q.tail THEN N ELSE q.tail - q.head

\* bxroce_rqhwq_free_cnt
bxroce_rqhwq_free_cnt(q) ==
  IF q.head > q.tail THEN ((max_wqe_idx - q.head) + q.tail) % N
  ELSE IF q.head = q.tail THEN (IF q.foe = "EMPTY" THEN N ELSE 0)
  ELSE q.tail - q.head

\* bxroce_update_rq_head
bxroce_update_rq_head(q) ==
  LET h == (q.head + 1) % N
  IN  [q EXCEPT !.head = h, !.foe = IF h = q.tail THEN "FULL" ELSE @]

\* bxroce_ring_rq_hw: how many receives the device learns of from the new pointer.
bxroce_ring_rq_hw(q, d) ==
  [d EXCEPT !.wp = (q.head + 1) % N, !.n = @ + ((q.head + 1 + N - d.wp) % N)]

\* bxroce_post_recv with one element; its registers are its own, and written under
\* the lock.
PostRecv(p) ==
  /\ qp[p] \in {"INIT", "RTR", "RTS"} /\ pc[p] = "idle" /\ nrqe[p] < MaxRqes
  /\ load \in {"all", "receives"}
  /\ hw_lock.owner = NOBODY \/ p \in Apart
  /\ bxroce_rqhwq_free_cnt(rq[p]) > 0
  /\ rq' = [rq EXCEPT ![p] = bxroce_update_rq_head([@ EXCEPT !.slot[rq[p].head] = nrqe[p] + 1])]
  /\ rdev' = [rdev EXCEPT ![p] = bxroce_ring_rq_hw(rq[p], @)]
  /\ nrqe' = [nrqe EXCEPT ![p] = @ + 1]
  /\ hw_lock' = [hw_lock EXCEPT !.state = "ok"]
  /\ UNCHANGED <<qps, pc, op, wr, win, send, nrecv, rx, polls, cache, peer, deaths>>

\* The device executes the next WQE and reports it; the entry is spent.
DevSend(p) ==
  /\ dev[p].rp # dev[p].wp
  /\ sq' = [sq EXCEPT ![p].slot[dev[p].rp] = NoWqe]
  /\ dev' = [dev EXCEPT ![p].rp = (@ + 1) % N]
  /\ nexec' = [nexec EXCEPT ![p] = @ + 1]
  /\ xmit' = [xmit EXCEPT ![p] = @ + 1]
  /\ UNCHANGED <<qps, post, nwqe, recv, polls, cache, peer, deaths>>

\* The numbers of the completions of receives (bth_64_87_lo) that bxroce_poll_hwcq takes
\* apart: they count receives from 0, and again from 0 after one that carries 0.  A device
\* that counted on ("numbered") would be misread.
Number(p, c) ==
  IF "numbered" \in Allow THEN nrecv[p] + c - 1
  ELSE IF rdev[p].lo = 0 THEN c - 1 ELSE rdev[p].lo + c

\* Numbers of 16 bits.
Numbers == 0..65535

\* The device fills the next c receives and reports them with one completion, the very
\* first alone.
DevRecv(p, c) ==
  /\ c <= rdev[p].n /\ Number(p, c) \in Numbers
  /\ nrecv[p] = 0 => c = 1 \/ "numbered" \in Allow
  /\ rdev' = [rdev EXCEPT ![p].n = @ - c, ![p].lo = Number(p, c)]
  /\ nrecv' = [nrecv EXCEPT ![p] = @ + c]
  /\ rx' = [rx EXCEPT ![p] = Append(@, [lo |-> Number(p, c), upto |-> nrecv[p] + c])]
  /\ UNCHANGED <<qps, post, send, rq, nrqe, polls, cache, peer, deaths>>

\* num_rx_left: the receives that a completion is taken to stand for.
num_rx_left(q, lo) ==
  IF lo = 0 THEN 1 ELSE ((lo - q.overhead) \div q.phase) + (IF q.overhead = 0 THEN 1 ELSE 0)

\* bxroce_poll_scqe
bxroce_poll_scqe(q) == [q EXCEPT !.tail = (@ + 1) % q.overhead]

\* bxroce_poll_rcqe, n times; the wr_ids have been handed out.
bxroce_poll_rcqe(q, n) ==
  [q EXCEPT !.tail = (@ + n) % N,
            !.slot = [i \in 0..max_wqe_idx |-> IF (i + N - q.tail) % N < n THEN 0 ELSE q.slot[i]]]

\* What a completion leaves for the next (cq->phase is kept with its queue).
Counted(q, lo) == [q EXCEPT !.overhead = lo, !.phase = IF lo = 0 THEN 1 ELSE @]

\* What the next round of bxroce_poll_hwcq would hand out of receives.
Due(p) == IF rx[p] = <<>> THEN 0 ELSE num_rx_left(rq[p], Head(rx[p]).lo)

\* One round of the loop of bxroce_poll_hwcq, with n entries left in wc: a completion of a
\* send, which takes an entry if it was signaled, and a completion of receives.  The code
\* looks at n between rounds only; where it would write behind the array the
\* behaviour ends here, for that memory is the caller's (see WcHasRoom).
PollRound(p, n) ==
  /\ xmit[p] > 0 \/ rx[p] # <<>>
  /\ ~DividesByZero(p)
  /\ \E signaled \in IF xmit[p] > 0 THEN {0, 1} ELSE {0} :
       /\ signaled + Due(p) <= n
       /\ left' = [left EXCEPT ![p] = n - (signaled + Due(p))]
  /\ nrep' = [nrep EXCEPT ![p] = @ + Due(p)]
  /\ IF xmit[p] > 0
     THEN /\ xmit' = [xmit EXCEPT ![p] = @ - 1]
          /\ sq' = [sq EXCEPT ![p] = bxroce_poll_scqe(@)]
     ELSE UNCHANGED <<xmit, sq>>
  /\ IF rx[p] # <<>>
     THEN /\ rx' = [rx EXCEPT ![p] = Tail(@)]
          /\ rq' = [rq EXCEPT ![p] = Counted(bxroce_poll_rcqe(@, Due(p)), Head(rx[p]).lo)]
     ELSE UNCHANGED <<rx, rq>>

\* Nothing is left to poll.
PollEnd(p) ==
  /\ left[p] # 0 /\ xmit[p] = 0 /\ rx[p] = <<>>
  /\ left' = [left EXCEPT ![p] = 0]
  /\ UNCHANGED <<nrep, xmit, sq, rx, rq>>

\* bxroce_poll_hwcq: a first round or the next one, or the end.
Poll(p) ==
  /\ qp_tbl[p] = "live" /\ pc[p] # "dead"
  /\ \/ \E n \in IF left[p] = 0 THEN Entries ELSE {left[p]} : PollRound(p, n)
     \/ PollEnd(p)
  /\ UNCHANGED <<qps, post, dev, nwqe, nexec, rdev, nrqe, nrecv, cache, peer, deaths>>
-----------------------------------------------------------------------------
Init ==
  /\ load \in Loads
  /\ qp = [p \in Procs |-> IF p \in Ready THEN "RTS" ELSE "none"]
  /\ qp_tbl = [p \in Procs |-> IF p \in Ready THEN "live" ELSE "NULL"]
  /\ kqp = Ready
  /\ pc = [p \in Procs |-> "idle"] /\ op = [p \in Procs |-> "none"]
  /\ wr = [p \in Procs |-> NoWr]
  /\ hw_lock = [owner |-> NOBODY, state |-> "ok"]
  /\ win = [sel |-> NOBODY, val |-> 0]
  /\ sq = [p \in Procs |-> [head |-> 0, tail |-> 0,
                            overhead |-> IF p \in Ready THEN N ELSE 0,
                            slot |-> [i \in 0..max_wqe_idx |-> NoWqe]]]
  /\ rq = [p \in Procs |-> [head |-> 0, tail |-> 0, foe |-> "EMPTY", overhead |-> 0, phase |-> 0,
                            slot |-> [i \in 0..max_wqe_idx |-> 0]]]
  /\ dev = [p \in Procs |-> [rp |-> 0, wp |-> 0]]
  /\ rdev = [p \in Procs |-> [wp |-> 0, n |-> 0, lo |-> 0]]
  /\ nwqe = [p \in Procs |-> 0] /\ nexec = nwqe /\ nrqe = nwqe /\ nrecv = nwqe
  /\ xmit = nwqe /\ rx = [p \in Procs |-> <<>>] /\ left = nwqe /\ nrep = nwqe
  /\ cache \in [Procs -> Fresh]
  /\ ever = <<>> /\ mr_pool = <<>> /\ deaths = 0

\* The steps of a process inside a post.
Step(p) == Check(p) \/ Lock(p) \/ Select(p) \/ Read(p) \/ Fill(p) \/ Commit(p) \/ Unlock(p)

Next ==
  \/ \E p \in Procs :
       \/ Step(p) \/ Poll(p) \/ DevSend(p) \/ Die(p) \/ DestroyQp(p)
       \/ \E c \in 1..N : DevRecv(p, c)
       \/ \E f \in {"no", "kernel", "queues", "regs"} : CreateQp(p, f)
       \/ \E s \in {"RST", "INIT", "RTR", "RTS", "ERR"} : ModifyQp(p, s)
  \/ \E p \in Senders, n \in Sges :
       \/ PostSend(p, [NoWr EXCEPT !.kind = "imm", !.sges = n])
       \/ \E k \in {"write", "read"}, r \in 1..MaxRegs, o \in 0..(Size - 1) :
            PostSend(p, [kind |-> k, sges |-> n, reg |-> r, off |-> o])
  \/ \E p \in Receivers : PostRecv(p)
  \/ \E v \in Vas : RegMr(v)
  \/ \E i \in 1..MaxRegs : DeregMr(i)

\* A process that runs goes on, and so does the device with what it has been given.
Spec ==
  /\ Init /\ [][Next]_vars
  /\ \A p \in Procs : WF_vars(Step(p)) /\ WF_vars(DevSend(p))
-----------------------------------------------------------------------------
(* Properties.                                                             *)

\* Every variable has its type.
TypeOK ==
  \A p \in Procs :
    /\ qp[p] \in {"none", "RST", "INIT", "RTR", "RTS", "ERR", "gone"}
    /\ pc[p] \in {"idle", "check", "lock", "select", "read", "fill", "commit", "unlock", "dead"}
    /\ op[p] \in {"none", "reset", "ring"}
    /\ hw_lock.owner \in Procs \cup {NOBODY}
    /\ {sq[p].head, sq[p].tail, rq[p].head, rq[p].tail, dev[p].rp, dev[p].wp} \subseteq 0..max_wqe_idx

\* The device executes every WQE of a queue once and in the order they were posted:
\* what it is still to execute is in its place, although the library starts again at
\* the first entry as soon as it finds the queue dry.
InOrder ==
  \A p \in Procs : \A i \in dev[p].rp .. (dev[p].wp - 1) :
    sq[p].slot[i].id = nexec[p] + (i - dev[p].rp) + 1

\* The device's write pointer of a queue pair is the library's head whenever no post is
\* under way: no value of one process reaches the queue pair of another, although all
\* share a register window and any of them may be killed inside it.
PointersAgree ==
  \A p \in Procs : pc[p] \in {"idle", "check"} => dev[p].wp = sq[p].head

\* Receives are reported in the order they were posted, each once and with its wr_id: a
\* completion that stands for several hands out as many as the device has filled, none
\* before it is filled and none again, and no entry is overwritten before it has been
\* reported.
RecvIntact ==
  \A p \in Procs :
    /\ nrep[p] <= nrecv[p] /\ (rx[p] = <<>> => nrep[p] = nrecv[p])
    /\ \A j \in 0..(nrecv[p] - nrep[p] + rdev[p].n - 1) :
         rq[p].slot[(rq[p].tail + j) % N] = nrep[p] + j + 1

\* A WQE that writes or reads remote memory goes to the place in the very registration
\* that was asked for by its key, through failing lookups and remembered addresses: not
\* to one that had the same address before, and not to its neighbour.
RemoteRight ==
  \A p \in Procs : \A i \in dev[p].rp .. (dev[p].wp - 1) :
    LET w == sq[p].slot[i]
    IN  w.opcode \in {"RDMA_WRITE", "RDMA_READ"} =>
          w.rkey \in DOMAIN ever /\ w.dma = [reg |-> w.rkey, off |-> w.va - ever[w.rkey]]

\* The table of queue pairs never points to freed memory, and the kernel has the queue
\* pairs the library has, whichever step of bxroce_create_qp failed.
TableLive ==
  \A p \in Procs : /\ qp_tbl[p] = IF qp[p] \in {"none", "gone"} THEN "NULL" ELSE "live"
                   /\ p \in kqp <=> qp[p] \notin {"none", "gone"}

\* Indices in range, and the library's table of queue pairs true to memory and kernel.
TableInv == TypeOK /\ TableLive

\* A post that waits for room, spinning with q_lock in hand, gets out of it: the
\* device runs dry and the register window comes free, even when a process dies in it.
RoomComes == \A p \in Procs : op[p] = "reset" ~> (op[p] # "reset" \/ pc[p] = "dead")

\* bxroce_poll_cq says of sq.tail = sq.head: "means cqe 's number is right".  When
\* everything has been executed and polled they are equal.
CqeNumberRight ==
  \A p \in Procs :
    pc[p] = "idle" /\ nexec[p] = nwqe[p] /\ xmit[p] = 0 => sq[p].tail = sq[p].head

\* A queue with nothing in it has room: a post is not refused for want of memory.
EmptyHasRoom ==
  \A p \in Procs :
    /\ nexec[p] = nwqe[p] /\ xmit[p] = 0 /\ pc[p] = "idle" => bxroce_sqhwq_free_cnt(sq[p]) > 0
    /\ nrecv[p] = nrqe[p] /\ rx[p] = <<>> /\ pc[p] = "idle" => bxroce_rqhwq_free_cnt(rq[p]) > 0

\* bxroce_poll_cq is given room for num_entries completions and hands out no more.
WcHasRoom == \A p \in Procs : left[p] > 0 => Due(p) + (IF xmit[p] > 0 THEN 1 ELSE 0) <= left[p]

\* A WQE is built only for a registration that the peer has not taken back.
OnlyRegistered ==
  [][\A p \in Procs : nwqe'[p] > nwqe[p] /\ wr[p].kind \in {"write", "read"} =>
       \E i \in DOMAIN mr_pool : mr_pool[i].rkey = wr[p].reg]_vars
=============================================================================
