---------------------------- MODULE LibQueueProof ----------------------------
(***************************************************************************)
(* Theorems about the user library's queues, for every set of processes,   *)
(* every length of a queue and every number of posts.                      *)
(***************************************************************************)
EXTENDS LibQueue, Integers, TLAPS

Window == {"select", "read", "fill", "commit", "unlock"}
Waiting == {"lock", "select", "read"}
Writing == {"fill", "commit"}
Remote == {"RDMA_WRITE", "RDMA_READ"}

Wrs == [kind : {"imm", "write", "read"}, sges : 0..(N - 2), reg : Nat, off : 0..(Size - 1)]
Dmas == [reg : Nat, off : Int]
Wqes == [id : Int, opcode : {"none", "SEND_WITH_IMM"} \cup Remote, rkey : Nat, va : Nat, dma : Dmas]
Caches == [va : Nat, len : Nat, dma : Dmas]
Places == 0..max_wqe_idx
Sqs == [head : Places, tail : Places, overhead : 0..N, slot : [Places -> Wqes]]
Rqs == [head : Places, tail : Places, foe : {"EMPTY", "FULL"}, overhead : Nat, phase : {0, 1},
        slot : [Places -> Nat]]
Devs == [rp : Places, wp : Places]
Rdevs == [wp : Places, n : Nat, lo : Nat]
Rxs == [lo : Nat, upto : Nat]
Mrs == [rkey : Nat, va : Nat, phy : Nat]
-----------------------------------------------------------------------------
(* The inductive invariants.                                               *)

TypeQps ==
  /\ load \in Loads
  /\ qp \in [Procs -> {"none", "RST", "INIT", "RTR", "RTS", "ERR", "gone"}]
  /\ qp_tbl \in [Procs -> {"NULL", "live", "freed"}]
  /\ kqp \in SUBSET Procs
  /\ deaths \in Nat

TypePost ==
  /\ pc \in [Procs -> {"idle", "check", "lock", "dead"} \cup Window]
  /\ op \in [Procs -> {"none", "reset", "ring"}]
  /\ wr \in [Procs -> Wrs \cup {NoWr}]
  /\ hw_lock \in [owner : Procs \cup {NOBODY}, state : {"ok", "died", "broken"}]
  /\ win \in [sel : Procs \cup {NOBODY}, val : Places]

TypeSend ==
  /\ sq \in [Procs -> Sqs] /\ dev \in [Procs -> Devs]
  /\ xmit \in [Procs -> Nat] /\ nwqe \in [Procs -> Nat] /\ nexec \in [Procs -> Nat]

TypeRecv ==
  /\ rq \in [Procs -> Rqs] /\ rdev \in [Procs -> Rdevs]
  /\ rx \in [Procs -> Seq(Rxs)]
  /\ nrqe \in [Procs -> Nat] /\ nrecv \in [Procs -> Nat] /\ nrep \in [Procs -> Int]

TypePeer ==
  /\ cache \in [Procs -> Caches]
  /\ ever \in Seq(Nat \ {0}) /\ mr_pool \in Seq(Mrs)

Types == TypeQps /\ TypePost /\ TypeSend /\ TypeRecv /\ TypePeer

\* A post waits for the queue to run dry only after it has put something into it, so
\* that sq.overhead, the modulus of the tail, is never 0 where it is used.
Divides ==
  \A p \in Procs :
    /\ qp_tbl[p] = "live" => sq[p].overhead # 0
    /\ pc[p] = "read" => op[p] = "reset"
    /\ op[p] = "reset" /\ pc[p] \in Waiting => sq[p].head # 0

\* What is built comes from a work request, for an address that has been registered.
Asked ==
  \A p \in Procs :
    /\ pc[p] = "check" => wr[p] # NoWr
    /\ op[p] = "reset" /\ pc[p] \in {"lock"} \cup Window => wr[p] # NoWr
    /\ wr[p].kind \in {"write", "read"} => wr[p].reg \in DOMAIN ever

\* The lock is held by the process inside the window; a killed one leaves it "died".
Holder ==
  /\ \A p \in Procs : pc[p] \in Window <=> hw_lock.owner = p
  /\ hw_lock.state # "broken"
  /\ hw_lock.owner # NOBODY => hw_lock.state = "ok"

\* The window keeps what its holder has put into it.
Selected ==
  \A p \in Procs :
    /\ pc[p] \in {"read", "fill", "commit"} => win.sel = p
    /\ pc[p] = "commit" => win.val = sq[p].head
    /\ pc[p] \in {"lock"} \cup Window => op[p] \in {"reset", "ring"}

\* The device's pointers at each place of a post.
Pointers ==
  \A p \in Procs :
    /\ pc[p] \in {"idle", "check", "unlock"} => dev[p].wp = sq[p].head
    /\ op[p] = "reset" /\ pc[p] \in Waiting => dev[p].wp = sq[p].head
    /\ op[p] = "reset" /\ pc[p] \in Writing => dev[p].rp = dev[p].wp /\ sq[p].head = 0
    /\ op[p] = "ring" /\ pc[p] \in {"lock", "select"} \cup Writing => dev[p].wp <= sq[p].head
    /\ dev[p].rp <= dev[p].wp
    /\ dev[p].wp <= sq[p].head \/ dev[p].rp = dev[p].wp

\* What has been built and not executed is in its place, and the numbers agree.
Placed ==
  \A p \in Procs :
    /\ \A i \in dev[p].rp .. (sq[p].head - 1) :
         sq[p].slot[i].id = nexec[p] + (i - dev[p].rp) + 1
    /\ op[p] = "reset" /\ pc[p] \in Writing => nwqe[p] = nexec[p]
    /\ ~(op[p] = "reset" /\ pc[p] \in Writing) /\ pc[p] # "dead" =>
         nwqe[p] + dev[p].rp = nexec[p] + sq[p].head

\* A queue pair that has not been in INIT has not been used.
FreshSq ==
  \A p \in Procs : qp[p] \in {"none", "RST"} => pc[p] \in {"idle", "dead"} /\ sq[p].head = 0

FreshRq ==
  \A p \in Procs : qp[p] \in {"none", "RST"} =>
    /\ rq[p].head = 0 /\ rq[p].tail = 0 /\ rq[p].foe = "EMPTY"
    /\ rx[p] = <<>> /\ rdev[p].n = 0

\* The receives not yet handed out, filled or not.
Out(p) == nrecv[p] - nrep[p] + rdev[p].n

\* They lie between tail and head, and the flag tells N of them from none.
Outstanding ==
  \A p \in Procs :
    /\ Out(p) \in 0..N /\ (Out(p) = N => rq[p].foe = "FULL")
    /\ (rq[p].tail + Out(p)) % N = rq[p].head
    /\ rdev[p].wp = rq[p].head
    /\ nrecv[p] + rdev[p].n = nrqe[p]

\* The completions not yet polled lead from the one polled last to the device's last; each
\* says by its number how many receives lie between it and the one before.
Follows(a, b) ==
  /\ a.upto < b.upto
  /\ b.lo = 0 => b.upto = a.upto + 1
  /\ b.lo # 0 => b.lo > a.lo /\ b.upto - a.upto = (b.lo - a.lo) + IF a.lo = 0 THEN 1 ELSE 0

Entry(a, s, k) == IF k = 0 THEN a ELSE s[k]

Chain(a, s, b) ==
  /\ \A k \in 1..Len(s) : Follows(Entry(a, s, k - 1), s[k]) /\ s[k].upto <= b.upto
  /\ Entry(a, s, Len(s)) = b

Polled(p) == [lo |-> rq[p].overhead, upto |-> nrep[p]]
Done(p) == [lo |-> rdev[p].lo, upto |-> nrecv[p]]

Counting ==
  \A p \in Procs :
    /\ Chain(Polled(p), rx[p], Done(p))
    /\ nrep[p] <= nrecv[p]
    /\ rq[p].phase = 0 => /\ rq[p].overhead = 0 /\ nrep[p] = 0
                         /\ (rx[p] # <<>> => rx[p][1].lo = 0)

\* The entries of the receives not yet handed out carry their numbers.
Numbered ==
  \A p \in Procs : \A j \in 0..(Out(p) - 1) :
    rq[p].slot[(rq[p].tail + j) % N] = nrep[p] + j + 1

\* Two registrations are two lengths apart; the entries of the server, what is remembered
\* and the WQEs lead to the registration they stand for; the address of a read under way
\* can be found.
Spread ==
  \A i, j \in DOMAIN ever : i # j => ever[i] >= ever[j] + 2 * Size \/ ever[j] >= ever[i] + 2 * Size

PoolRight ==
  \A i \in DOMAIN mr_pool : /\ mr_pool[i].rkey \in DOMAIN ever
                            /\ mr_pool[i].phy = mr_pool[i].rkey
                            /\ mr_pool[i].va = ever[mr_pool[i].rkey]

Inside(c, i) ==
  /\ c.va >= ever[i] /\ c.va < ever[i] + Size /\ c.len = Size
  /\ c.dma = [reg |-> i, off |-> c.va - ever[i]]

\* An entry leads to nothing, as a fresh one, or into a registration.
Right(c) == (c.va = 0 /\ c.len = 0) \/ \E i \in DOMAIN ever : Inside(c, i)

CacheRight == \A p \in Procs : Right(cache[p])

ReadsFound == \A p \in Procs : wr[p].kind = "read" => Resolves(cache[p], wr[p])

Leads(w) ==
  w.opcode \in Remote =>
    w.rkey \in DOMAIN ever /\ w.dma = [reg |-> w.rkey, off |-> w.va - ever[w.rkey]]

WqesRight == \A p \in Procs : \A i \in Places : Leads(sq[p].slot[i])

TableInd == Types /\ Divides /\ Asked
OrderInd == TableInd /\ Holder /\ Selected /\ Pointers /\ Placed /\ FreshSq
RecvInd == TableInd /\ FreshRq /\ Outstanding /\ Counting /\ Numbered
RemoteInd == TableInd /\ Spread /\ PoolRight /\ CacheRight /\ ReadsFound /\ WqesRight

USE DEF qps, post, send, recv, polls, peer

\* What the constants are.
LEMMA Sizes ==
  /\ N \in Nat /\ N >= 2 /\ max_wqe_idx = N - 1 /\ max_wqe_idx \in Nat
  /\ Places = 0..(N - 1)
  /\ Senders \subseteq Procs /\ Receivers \subseteq Procs /\ Ready \subseteq Procs
  /\ Sges \subseteq 0..(N - 2) /\ Vas \subseteq Nat \ {0}
  /\ NOBODY \notin Procs
  /\ Size \in Nat /\ Size >= 1 /\ 0 \in 0..(Size - 1)
  /\ 0 \in Places /\ N \in 0..N /\ max_wqe_idx + 1 = N
  BY LibQueueConstants DEF max_wqe_idx, Places, NOBODY

\* A step is one of the actions.
LEMMA Cases ==
  ASSUME [Next]_vars
  PROVE  \/ \E p \in Procs :
              \/ Check(p) \/ Lock(p) \/ Select(p) \/ Read(p) \/ Fill(p) \/ Commit(p) \/ Unlock(p)
              \/ Poll(p) \/ DevSend(p) \/ Die(p) \/ DestroyQp(p) \/ PostRecv(p)
              \/ \E c \in 1..N : DevRecv(p, c)
              \/ \E f \in {"no", "kernel", "queues", "regs"} : CreateQp(p, f)
              \/ \E s \in {"RST", "INIT", "RTR", "RTS", "ERR"} : ModifyQp(p, s)
              \/ \E w \in Wrs : PostSend(p, w)
         \/ \E v \in Vas : RegMr(v)
         \/ \E i \in 1..MaxRegs : DeregMr(i)
         \/ UNCHANGED vars
<1>1. ASSUME NEW k \in {"write", "read"}, NEW n \in Sges, NEW r \in 1..MaxRegs,
             NEW o \in 0..(Size - 1)
      PROVE  [kind |-> k, sges |-> n, reg |-> r, off |-> o] \in Wrs
  BY Sizes DEF Wrs
<1>2. ASSUME NEW n \in Sges PROVE [NoWr EXCEPT !.kind = "imm", !.sges = n] \in Wrs
  BY Sizes DEF Wrs, NoWr
<1> QED
  BY <1>1, <1>2, Sizes DEF Next, Step

\* A remainder is a place, and places are numbers.
LEMMA Around ==
  /\ \A k \in Nat : k % N \in Places
  /\ \A k \in Places : k \in Nat /\ k < N /\ k \in 0..N
  BY Sizes

\* Updates of the queues.
LEMMA Updates ==
  /\ \A q \in Sqs, h \in Places, o \in 0..N :
       /\ [q EXCEPT !.head = h] \in Sqs /\ [q EXCEPT !.tail = h] \in Sqs
       /\ [q EXCEPT !.overhead = o] \in Sqs /\ [q EXCEPT !.overhead = o, !.head = h] \in Sqs
       /\ [q EXCEPT !.head = h, !.tail = h] \in Sqs
  /\ \A q \in Sqs, i \in Places, w \in Wqes : [q EXCEPT !.slot[i] = w] \in Sqs
  /\ \A q \in Sqs, i \in Places, w \in Wqes, h \in Places : [q EXCEPT !.slot[i] = w, !.head = h] \in Sqs
  /\ \A q \in Sqs, h \in Places, s \in [Places -> Wqes] : [q EXCEPT !.slot = s, !.head = h] \in Sqs
  /\ \A q \in Rqs, h \in Places, f \in {"EMPTY", "FULL"} :
       /\ [q EXCEPT !.head = h, !.tail = h, !.foe = f] \in Rqs
       /\ [q EXCEPT !.head = h, !.foe = f] \in Rqs
  /\ \A q \in Rqs, i \in Places, n \in Nat :
       [q EXCEPT !.slot[i] = n] \in Rqs
  /\ \A q \in Rqs, h \in Places, s \in [Places -> Nat] : [q EXCEPT !.tail = h, !.slot = s] \in Rqs
  /\ \A q \in Rqs, n \in Nat, f \in {0, 1} : [q EXCEPT !.overhead = n, !.phase = f] \in Rqs
  /\ \A d \in Devs, v \in Places : [d EXCEPT !.rp = v] \in Devs /\ [d EXCEPT !.wp = v] \in Devs
                                   /\ [d EXCEPT !.wp = v, !.rp = v] \in Devs
  /\ \A d \in Rdevs, n \in Nat, l \in Nat : [d EXCEPT !.n = n, !.lo = l] \in Rdevs
  /\ \A d \in Rdevs, v \in Places, n \in Nat : [d EXCEPT !.wp = v, !.n = n] \in Rdevs
  BY DEF Sqs, Rqs, Devs, Rdevs

\* Fields of the queues.
LEMMA Fields ==
  /\ \A q \in Sqs : q.head \in Places /\ q.tail \in Places /\ q.overhead \in 0..N
                    /\ q.slot \in [Places -> Wqes]
  /\ \A q \in Rqs : q.head \in Places /\ q.tail \in Places /\ q.foe \in {"EMPTY", "FULL"}
                    /\ q.slot \in [Places -> Nat] /\ q.overhead \in Nat /\ q.phase \in {0, 1}
  /\ \A d \in Devs : d.rp \in Places /\ d.wp \in Places
  /\ \A d \in Rdevs : d.wp \in Places /\ d.n \in Nat /\ d.lo \in Nat
  /\ \A w \in Wrs \cup {NoWr} :
       /\ w.kind \in {"none", "imm", "write", "read"} /\ w.sges \in 0..(N - 2)
       /\ w.reg \in Nat /\ w.off \in 0..(Size - 1)
  BY Sizes DEF Sqs, Rqs, Devs, Rdevs, Wrs, NoWr

\* What each action leaves alone.
LEMMA Frames ==
  ASSUME NEW p, NEW f, NEW s, NEW w, NEW v, NEW i, NEW c
  PROVE  /\ Check(p) => UNCHANGED <<load, qp, qp_tbl, kqp, hw_lock, win, dev, nexec, xmit,
              rq, rdev, nrqe, nrecv, rx, ever, mr_pool, deaths, nrep>>
         /\ Lock(p) => UNCHANGED <<load, qp, qp_tbl, kqp, op, wr, win, sq, dev, nwqe, nexec,
              xmit, rq, rdev, nrqe, nrecv, rx, cache, ever, mr_pool, deaths, nrep>>
         /\ Select(p) => UNCHANGED <<load, qp, qp_tbl, kqp, op, wr, hw_lock, sq, dev, nwqe,
              nexec, xmit, rq, rdev, nrqe, nrecv, rx, cache, ever, mr_pool, deaths, nrep>>
         /\ Read(p) => UNCHANGED <<load, qp, qp_tbl, kqp, op, wr, hw_lock, win, dev, nwqe,
              nexec, xmit, rq, rdev, nrqe, nrecv, rx, cache, ever, mr_pool, deaths, nrep>>
         /\ Fill(p) => UNCHANGED <<load, qp, qp_tbl, kqp, op, wr, hw_lock, sq, dev, nwqe,
              nexec, xmit, rq, rdev, nrqe, nrecv, rx, cache, ever, mr_pool, deaths, nrep>>
         /\ Commit(p) => UNCHANGED <<load, qp, qp_tbl, kqp, op, wr, hw_lock, win, sq, nwqe,
              nexec, xmit, rq, rdev, nrqe, nrecv, rx, cache, ever, mr_pool, deaths, nrep>>
         /\ Unlock(p) => UNCHANGED <<load, qp, qp_tbl, kqp, wr, win, sq, dev, nwqe, nexec,
              xmit, rq, rdev, nrqe, nrecv, rx, cache, ever, mr_pool, deaths, nrep>>
         /\ Poll(p) => UNCHANGED <<load, qp, qp_tbl, kqp, pc, op, wr, hw_lock, win, dev,
              nwqe, nexec, rdev, nrqe, nrecv, cache, ever, mr_pool, deaths>>
         /\ DevSend(p) => UNCHANGED <<load, qp, qp_tbl, kqp, pc, op, wr, hw_lock, win, nwqe,
              rq, rdev, nrqe, nrecv, rx, cache, ever, mr_pool, deaths, nrep>>
         /\ DevRecv(p, c) => UNCHANGED <<load, qp, qp_tbl, kqp, pc, op, wr, hw_lock, win,
              sq, dev, nwqe, nexec, xmit, rq, nrqe, cache, ever, mr_pool, deaths, nrep>>
         /\ Die(p) => UNCHANGED <<load, qp, qp_tbl, kqp, op, wr, win, sq, dev, nwqe, nexec,
              xmit, rq, rdev, nrqe, nrecv, rx, cache, ever, mr_pool, nrep>>
         /\ DestroyQp(p) => UNCHANGED <<load, pc, op, wr, hw_lock, win, sq, dev, nwqe,
              nexec, xmit, rq, rdev, nrqe, nrecv, rx, cache, ever, mr_pool, deaths, nrep>>
         /\ PostRecv(p) => UNCHANGED <<load, qp, qp_tbl, kqp, pc, op, wr, win, sq, dev,
              nwqe, nexec, xmit, nrecv, rx, cache, ever, mr_pool, deaths, nrep>>
         /\ CreateQp(p, f) => UNCHANGED <<load, pc, op, wr, hw_lock, win, dev, nwqe, nexec,
              xmit, rq, rdev, nrqe, nrecv, rx, cache, ever, mr_pool, deaths, nrep>>
         /\ ModifyQp(p, s) => UNCHANGED <<load, qp_tbl, kqp, pc, op, wr, hw_lock, win, dev,
              nwqe, nexec, xmit, rdev, nrqe, nrecv, rx, cache, ever, mr_pool, deaths, nrep>>
         /\ PostSend(p, w) => UNCHANGED <<load, qp, qp_tbl, kqp, op, hw_lock, win, sq, dev,
              nwqe, nexec, xmit, rq, rdev, nrqe, nrecv, rx, cache, ever, mr_pool, deaths, nrep>>
         /\ RegMr(v) => UNCHANGED <<load, qp, qp_tbl, kqp, pc, op, wr, hw_lock, win, sq,
              dev, nwqe, nexec, xmit, rq, rdev, nrqe, nrecv, rx, cache, deaths, nrep>>
         /\ DeregMr(i) => UNCHANGED <<load, qp, qp_tbl, kqp, pc, op, wr, hw_lock, win, sq,
              dev, nwqe, nexec, xmit, rq, rdev, nrqe, nrecv, rx, cache, ever, deaths, nrep>>
  BY DEF Check, Build, Refuse, EndPost, ToRing, Lock, Select, Read, Fill, Commit, Unlock,
     Poll, PollRound, PollEnd, DevSend, DevRecv, Die, DestroyQp, PostRecv, CreateQp, ModifyQp, PostSend, RegMr, DeregMr, Goto

-----------------------------------------------------------------------------
(* Types.                                                                  *)

\* Every action keeps the types: of the queue pairs,
LEMMA QpsStep ==
  ASSUME Types, [Next]_vars
  PROVE  TypeQps'
<1>1. ASSUME NEW p \in Procs, Die(p)
      PROVE  TypeQps'
  BY <1>1 DEF Die, Types, TypeQps
<1>2. ASSUME NEW p \in Procs, DestroyQp(p)
      PROVE  TypeQps'
  BY <1>2 DEF DestroyQp, Types, TypeQps
<1>3. ASSUME NEW p \in Procs, NEW f \in {"no", "kernel", "queues", "regs"}, CreateQp(p, f)
      PROVE  TypeQps'
  BY <1>3 DEF CreateQp, Types, TypeQps
<1>4. ASSUME NEW p \in Procs, NEW s \in {"RST", "INIT", "RTR", "RTS", "ERR"}, ModifyQp(p, s)
      PROVE  TypeQps'
  BY <1>4 DEF ModifyQp, Types, TypeQps
<1>5. CASE UNCHANGED <<load, qp, qp_tbl, kqp, deaths>>
  BY <1>5 DEF Types, TypeQps
<1> QED
  BY <1>1, <1>2, <1>3, <1>4, <1>5, Cases, Frames DEF vars

\* of a post and the window,
LEMMA PostStep ==
  ASSUME Types, [Next]_vars
  PROVE  TypePost'
<1>1. ASSUME NEW p \in Procs, Check(p)
      PROVE  TypePost'
  BY <1>1 DEF Check, Build, Refuse, EndPost, ToRing, Types, TypePost, Goto, Window
<1>2. ASSUME NEW p \in Procs, Lock(p)
      PROVE  TypePost'
  BY <1>2 DEF Lock, Types, TypePost, Goto, Window
<1>3. ASSUME NEW p \in Procs, Select(p)
      PROVE  TypePost'
  BY <1>3 DEF Select, Types, TypePost, Goto, Window
<1>4. ASSUME NEW p \in Procs, Read(p)
      PROVE  TypePost'
  BY <1>4 DEF Read, Types, TypePost, Goto, Window
<1>5. ASSUME NEW p \in Procs, Fill(p)
      PROVE  TypePost'
  BY <1>5 DEF Fill, Types, TypePost, Goto, Window, TypeSend, Sqs
<1>6. ASSUME NEW p \in Procs, Commit(p)
      PROVE  TypePost'
  BY <1>6 DEF Commit, Types, TypePost, Goto, Window
<1>7. ASSUME NEW p \in Procs, Unlock(p)
      PROVE  TypePost'
  BY <1>7 DEF Unlock, Types, TypePost, Goto, Window
<1>8. ASSUME NEW p \in Procs, Die(p)
      PROVE  TypePost'
  BY <1>8 DEF Die, Types, TypePost, Goto, Window
<1>9. ASSUME NEW p \in Procs, PostRecv(p)
      PROVE  TypePost'
  BY <1>9 DEF PostRecv, Types, TypePost, Goto, Window
<1>10. ASSUME NEW p \in Procs, NEW w \in Wrs, PostSend(p, w)
      PROVE  TypePost'
  BY <1>10 DEF PostSend, Types, TypePost, Goto, Window
<1>11. CASE UNCHANGED <<pc, op, wr, hw_lock, win>>
  BY <1>11 DEF Types, TypePost
<1> QED
  BY <1>1, <1>2, <1>3, <1>4, <1>5, <1>6, <1>7, <1>8, <1>9, <1>10, <1>11, Cases, Frames DEF
     vars

\* A remembered address has its type, whether it is found or not, and so has the one that
\* goes into a WQE.
LEMMA ResolvedType ==
  ASSUME TypePeer, NEW c \in Caches, NEW w \in Wrs, w.reg \in DOMAIN ever
  PROVE  Va(w) \in Nat /\ Resolved(c, w) \in Caches /\ rdma_addr(c, w) \in Dmas
<1>1. Va(w) \in Nat /\ c.va \in Nat /\ c.dma \in Dmas
  <2>1. ever[w.reg] \in Nat /\ w.off \in Nat
    BY Sizes DEF TypePeer, Wrs
  <2> QED
    BY <2>1 DEF Va, Caches
<1>2. \A a \in Lookup(w) : a \in Dmas
  <2>1. \A j \in DOMAIN mr_pool : mr_pool[j] \in Mrs
    BY DEF TypePeer
  <2>2. \A e \in Mrs : e.phy \in Nat /\ e.va \in Nat
    BY DEF Mrs
  <2>3. \A e \in Mrs : [reg |-> e.phy, off |-> Va(w) - e.va] \in Dmas
    BY <1>1, <2>2 DEF Dmas
  <2> QED
    BY <2>1, <2>3 DEF Lookup
<1>3. Lookup(w) # {} => (CHOOSE a \in Lookup(w) : TRUE) \in Dmas
  BY <1>2
<1>4. Resolved(c, w) \in Caches
  BY <1>1, <1>3, Sizes DEF Resolved, Caches
<1>5. [c.dma EXCEPT !.off = @ + (Va(w) - c.va)] \in Dmas
  BY <1>1 DEF Dmas
<1> QED
  BY <1>1, <1>4, <1>5 DEF rdma_addr, Caches

\* The work request of a post, and what addrtbl holds after its address has been looked for.
LEMMA RememberedType ==
  ASSUME Types, Asked, NEW p \in Procs, pc[p] = "check"
  PROVE  /\ wr[p] \in Wrs /\ cache[p] \in Caches /\ Remembered(p) \in Caches
         /\ wr[p].kind # "imm" =>
              Va(wr[p]) \in Nat /\ rdma_addr(cache[p], wr[p]) \in Dmas /\ wr[p].reg \in DOMAIN ever
<1>1. wr[p] \in Wrs /\ (wr[p].kind \in {"write", "read"} => wr[p].reg \in DOMAIN ever)
  BY DEF Types, TypePost, Asked
<1>2. wr[p].kind \in {"imm", "write", "read"} /\ cache[p] \in Caches
  BY <1>1 DEF Wrs, Types, TypePeer
<1> QED
  BY <1>1, <1>2, ResolvedType DEF Remembered, Types

\* The entries that a post builds have their type.
LEMMA FilledType ==
  ASSUME Types, Asked, NEW p \in Procs, pc[p] = "check"
  PROVE  Filled(p) \in [Places -> Wqes]
<1>1. wr[p] \in Wrs
  BY RememberedType
<1>2. NoWqe \in Wqes
  BY DEF NoWqe, NoDma, Wqes, Dmas
<1>3. sq[p].slot \in [Places -> Wqes] /\ sq[p].head \in Nat /\ nwqe[p] \in Nat
  BY Fields, Around DEF Types, TypeSend
<1>4. ASSUME NEW n \in Int, wr[p].kind = "imm" PROVE bxroce_prepare_send_wqe(wr[p], n) \in Wqes
  BY <1>2, <1>4 DEF bxroce_prepare_send_wqe, bxroce_build_wqe_opcode, Wqes
<1>5. ASSUME NEW n \in Int, wr[p].kind # "imm"
      PROVE  bxroce_prepare_write_wqe(wr[p], n, cache[p]) \in Wqes
  <2>1. wr[p].kind \in {"write", "read"} /\ wr[p].reg \in Nat
    BY <1>1, <1>5 DEF Wrs
  <2>2. Va(wr[p]) \in Nat /\ rdma_addr(cache[p], wr[p]) \in Dmas
    BY <1>5, RememberedType
  <2>3. bxroce_build_wqe_opcode(wr[p]) \in Remote
    BY <2>1 DEF bxroce_build_wqe_opcode, Remote
  <2> QED
    BY <2>1, <2>2, <2>3 DEF bxroce_prepare_write_wqe, Wqes
<1>6. ASSUME NEW i \in Places PROVE Filled(p)[i] \in Wqes
  <2>1. nwqe[p] + i - sq[p].head + 1 \in Int
    BY <1>3, Around
  <2>2. sq[p].slot[i] \in Wqes
    BY <1>3
  <2> QED
    BY <1>4, <1>5, <2>1, <2>2 DEF Filled, Places
<1> QED
  BY <1>6 DEF Filled, Places

\* of the send queues,
LEMMA SendStep ==
  ASSUME Types, Divides, Asked, [Next]_vars
  PROVE  TypeSend'
<1>1. ASSUME NEW p \in Procs, Check(p)
      PROVE  TypeSend'
  <2>1. Count(wr[p]) \in Nat /\ sq[p] \in Sqs /\ sq[p].head \in Places /\ sq[p].head \in Nat
    BY Fields, Around DEF Count, Types, TypePost, TypeSend
  <2>2. CASE sq' = sq /\ nwqe' = nwqe
    BY <1>1, <2>2 DEF Check, Types, TypeSend
  <2>3. CASE Build(p)
    <3> DEFINE q == [sq[p] EXCEPT !.slot = Filled(p), !.head = (sq[p].head + Count(wr[p])) % N]
    <3>1. Filled(p) \in [Places -> Wqes] /\ (sq[p].head + Count(wr[p])) % N \in Places
      BY <1>1, <2>1, FilledType, Around DEF Check
    <3>2. q \in Sqs
      BY <2>1, <3>1, Updates
    <3>3. sq' = [sq EXCEPT ![p] = q] /\ nwqe' = [nwqe EXCEPT ![p] = @ + Count(wr[p])]
      BY <2>3 DEF Build
    <3> QED
      BY <1>1, <2>1, <3>2, <3>3 DEF Check, Types, TypeSend
  <2>4. CASE Refuse(p)
    <3>1. PICK k \in {0, 1} :
            sq' = [sq EXCEPT ![p] = [sq[p] EXCEPT !.slot[sq[p].head] = NoWqe, !.head = (sq[p].head + k) % N]]
      BY <2>4 DEF Refuse
    <3>2. NoWqe \in Wqes /\ (sq[p].head + k) % N \in Places
      BY <2>1, <3>1, Around DEF NoWqe, NoDma, Wqes, Dmas
    <3>3. [sq[p] EXCEPT !.slot[sq[p].head] = NoWqe, !.head = (sq[p].head + k) % N] \in Sqs
      BY <2>1, <3>2, Updates
    <3> QED
      BY <1>1, <2>4, <3>1, <3>3 DEF Check, Refuse, Types, TypeSend
  <2> QED
    BY <1>1, <2>2, <2>3, <2>4 DEF Check
<1>2. ASSUME NEW p \in Procs, Read(p)
      PROVE  TypeSend'
  <2>1. [sq[p] EXCEPT !.overhead = sq[p].head, !.head = 0] \in Sqs
    <3>1. sq[p] \in Sqs
      BY DEF Types, TypeSend
    <3> QED
      BY <3>1, Fields, Around, Sizes, Updates
  <2>2. sq' = sq \/ sq' = [sq EXCEPT ![p] = [sq[p] EXCEPT !.overhead = sq[p].head, !.head = 0]]
    BY <1>2 DEF Read, Types, TypeSend
  <2> QED
    BY <1>2, <2>1, <2>2 DEF Read, Types, TypeSend
<1>3. ASSUME NEW p \in Procs, Commit(p)
      PROVE  TypeSend'
  <2>1. CASE win.sel \in Procs
    <3> DEFINE d == [dev[win.sel] EXCEPT !.wp = win.val,
                                        !.rp = IF op[p] = "reset" THEN win.val ELSE dev[win.sel].rp]
    <3>1. d \in Devs
      <4>1. dev[win.sel] \in Devs /\ win.val \in Places
        BY <2>1 DEF Types, TypeSend, TypePost
      <4> QED
        BY <4>1 DEF Devs
    <3>2. dev' = [dev EXCEPT ![win.sel] = d]
      BY <1>3, <2>1 DEF Commit, Types, TypeSend
    <3> QED
      BY <1>3, <2>1, <3>1, <3>2 DEF Commit, Types, TypeSend
  <2>2. CASE win.sel \notin Procs
    <3>1. dev' = dev
      BY <1>3, <2>2 DEF Commit, Types, TypeSend
    <3> QED
      BY <1>3, <3>1 DEF Commit, Types, TypeSend
  <2> QED
    BY <2>1, <2>2
<1>4. ASSUME NEW p \in Procs, Poll(p)
      PROVE  TypeSend'
  <2>1. sq[p].overhead \in 1..N
    BY <1>4, Sizes DEF Poll, Divides, Types, TypeSend, Sqs
  <2>2. bxroce_poll_scqe(sq[p]) \in Sqs
    <3>1. sq[p] \in Sqs
      BY DEF Types, TypeSend
    <3>2. (sq[p].tail + 1) % sq[p].overhead \in Places
      BY <2>1, <3>1, Fields, Sizes
    <3> QED
      BY <3>1, <3>2, Sizes, Updates DEF bxroce_poll_scqe
  <2> QED
    <3>1. \/ sq' = sq /\ xmit' = xmit
          \/ /\ xmit[p] > 0 /\ xmit' = [xmit EXCEPT ![p] = xmit[p] - 1]
             /\ sq' = [sq EXCEPT ![p] = bxroce_poll_scqe(sq[p])]
      BY <1>4 DEF Poll, PollRound, PollEnd
    <3>2. sq' \in [Procs -> Sqs] /\ xmit' \in [Procs -> Nat]
      BY <2>2, <3>1 DEF Types, TypeSend
    <3> QED
      BY <1>4, <3>2 DEF Poll, Types, TypeSend
<1>5. ASSUME NEW p \in Procs, DevSend(p)
      PROVE  TypeSend'
  <2>1. NoWqe \in Wqes
    BY DEF NoWqe, NoDma, Wqes, Dmas
  <2>2. sq[p] \in Sqs /\ dev[p] \in Devs
    BY DEF Types, TypeSend
  <2>3. (dev[p].rp + 1) % N \in Places /\ dev[p].rp \in Places
    BY <2>2, Fields, Around
  <2>4. [sq[p] EXCEPT !.slot[dev[p].rp] = NoWqe] \in Sqs
    BY <2>1, <2>2, <2>3, Updates
  <2>5. [dev[p] EXCEPT !.rp = (dev[p].rp + 1) % N] \in Devs
    BY <2>2, <2>3, Updates
  <2>6. sq' = [sq EXCEPT ![p] = [sq[p] EXCEPT !.slot[dev[p].rp] = NoWqe]]
    BY <1>5 DEF DevSend, Types, TypeSend
  <2>7. dev' = [dev EXCEPT ![p] = [dev[p] EXCEPT !.rp = (dev[p].rp + 1) % N]]
    BY <1>5 DEF DevSend, Types, TypeSend
  <2> QED
    BY <1>5, <2>4, <2>5, <2>6, <2>7 DEF DevSend, Types, TypeSend
<1>6. ASSUME NEW p \in Procs, NEW f \in {"no", "kernel", "queues", "regs"}, CreateQp(p, f)
      PROVE  TypeSend'
  <2>1. [sq[p] EXCEPT !.overhead = max_wqe_idx + 1] \in Sqs
    BY Sizes, Updates DEF Types, TypeSend
  <2> QED
    BY <1>6, <2>1 DEF CreateQp, Types, TypeSend
<1>7. ASSUME NEW p \in Procs, NEW s \in {"RST", "INIT", "RTR", "RTS", "ERR"}, ModifyQp(p, s)
      PROVE  TypeSend'
  <2>1. [sq[p] EXCEPT !.head = 0, !.tail = 0] \in Sqs
    BY Sizes, Updates DEF Types, TypeSend
  <2>2. sq' = sq \/ sq' = [sq EXCEPT ![p] = [sq[p] EXCEPT !.head = 0, !.tail = 0]]
    BY <1>7 DEF ModifyQp, Types, TypeSend
  <2> QED
    BY <1>7, <2>1, <2>2 DEF ModifyQp, Types, TypeSend
<1>8. CASE UNCHANGED <<sq, dev, xmit, nwqe, nexec>>
  BY <1>8 DEF Types, TypeSend
<1> QED
  BY <1>1, <1>2, <1>3, <1>4, <1>5, <1>6, <1>7, <1>8, Cases, Frames DEF vars

\* What a poll is to hand out is a number.
LEMMA DueType ==
  ASSUME Types, NEW p \in Procs, qp_tbl[p] = "live", ~DividesByZero(p)
  PROVE  /\ Due(p) \in Int
         /\ rx[p] # <<>> => Head(rx[p]) \in Rxs /\ Head(rx[p]).lo \in Nat /\ Tail(rx[p]) \in Seq(Rxs)
<1>1. rx[p] \in Seq(Rxs) /\ rq[p].overhead \in Nat /\ rq[p].phase \in {0, 1}
  BY Fields DEF Types, TypeRecv
<1>2. CASE rx[p] = <<>>
  BY <1>2 DEF Due
<1>3. CASE rx[p] # <<>>
  <2>1. Head(rx[p]) \in Rxs /\ Tail(rx[p]) \in Seq(Rxs)
    BY <1>1, <1>3
  <2>2. Head(rx[p]).lo \in Nat
    BY <2>1 DEF Rxs
  <2>3. Head(rx[p]).lo # 0 => rq[p].phase = 1
    BY <1>1, <1>3 DEF DividesByZero
  <2>4. ASSUME NEW l \in Nat, l # 0 => rq[p].phase = 1 PROVE num_rx_left(rq[p], l) \in Int
    <3>1. CASE l = 0
      BY <3>1 DEF num_rx_left
    <3>2. CASE l # 0
      <4>1. (l - rq[p].overhead) \div 1 \in Int
        BY <1>1
      <4> QED
        BY <2>4, <3>2, <4>1 DEF num_rx_left
    <3> QED
      BY <3>1, <3>2
  <2> QED
    BY <1>3, <2>1, <2>2, <2>3, <2>4 DEF Due
<1> QED
  BY <1>2, <1>3

\* of the receive queues,
LEMMA RecvStep ==
  ASSUME Types, [Next]_vars
  PROVE  TypeRecv'
<1>1. ASSUME NEW p \in Procs, Poll(p)
      PROVE  TypeRecv'
  <2>1. qp_tbl[p] = "live" /\ rq[p] \in Rqs
    BY <1>1 DEF Poll, Types, TypeRecv
  <2>2. CASE PollEnd(p)
    BY <1>1, <2>2 DEF Poll, PollEnd, Types, TypeRecv
  <2>3. ASSUME NEW n, PollRound(p, n)
        PROVE  TypeRecv'
    <3>1. Due(p) \in Int
      BY <2>1, <2>3, DueType DEF PollRound
    <3>2. nrep' \in [Procs -> Int]
      BY <2>3, <3>1 DEF PollRound, Types, TypeRecv
    <3>3. ASSUME rx[p] # <<>>
          PROVE  Counted(bxroce_poll_rcqe(rq[p], Due(p)), Head(rx[p]).lo) \in Rqs
      <4>1. PICK l \in Nat : l = Head(rx[p]).lo
        BY <2>1, <2>3, <3>3, DueType DEF PollRound
      <4>2. rq[p].tail + Due(p) \in Int
        BY <2>1, <3>1, Fields, Around
      <4>3. (rq[p].tail + Due(p)) % N \in Places
        BY <4>2, Sizes
      <4>4. [i \in 0..max_wqe_idx |-> IF (i + N - rq[p].tail) % N < Due(p) THEN 0 ELSE rq[p].slot[i]]
              \in [Places -> Nat]
        BY <2>1, Fields DEF Places
      <4>5. bxroce_poll_rcqe(rq[p], Due(p)) \in Rqs
        BY <2>1, <4>3, <4>4, Updates DEF bxroce_poll_rcqe
      <4>6. ASSUME NEW q \in Rqs PROVE Counted(q, l) \in Rqs
        BY <4>1, Fields, Updates DEF Counted
      <4> QED
        BY <4>1, <4>5, <4>6
    <3>4. rq' \in [Procs -> Rqs] /\ rx' \in [Procs -> Seq(Rxs)]
      BY <2>1, <2>3, <3>3, DueType DEF PollRound, Types, TypeRecv
    <3> QED
      BY <1>1, <3>2, <3>4 DEF Poll, Types, TypeRecv
  <2> QED
    BY <1>1, <2>2, <2>3 DEF Poll
<1>2. ASSUME NEW p \in Procs, NEW c \in 1..N, DevRecv(p, c)
      PROVE  TypeRecv'
  <2>0. rdev[p] \in Rdevs /\ rdev[p].n \in Nat /\ nrecv[p] \in Nat /\ c \in Nat /\ c <= rdev[p].n
    BY <1>2, Fields, Sizes DEF DevRecv, Types, TypeRecv
  <2>1. rdev[p].n - c \in Nat /\ nrecv[p] + c \in Nat /\ Number(p, c) \in Nat
    <3>1. Number(p, c) \in Numbers
      BY <1>2 DEF DevRecv
    <3>2. \A k \in Numbers : k \in Nat
      <4>1. \A k \in Numbers : k \in Int /\ k >= 0
        BY DEF Numbers
      <4> QED
        BY <4>1
    <3>3. rdev[p].n - c \in Nat /\ nrecv[p] + c \in Nat
      BY <2>0
    <3> QED
      BY <3>1, <3>2, <3>3
  <2>2. [rdev[p] EXCEPT !.n = rdev[p].n - c, !.lo = Number(p, c)] \in Rdevs
    BY <2>0, <2>1, Updates
  <2>3. [lo |-> Number(p, c), upto |-> nrecv[p] + c] \in Rxs
    BY <2>1 DEF Rxs
  <2> QED
    BY <1>2, <2>0, <2>1, <2>2, <2>3 DEF DevRecv, Types, TypeRecv
<1>3. ASSUME NEW p \in Procs, PostRecv(p)
      PROVE  TypeRecv'
  <2>1. rq[p] \in Rqs /\ rdev[p] \in Rdevs /\ nrqe[p] + 1 \in Nat
    BY DEF Types, TypeRecv
  <2>2. [rq[p] EXCEPT !.slot[rq[p].head] = nrqe[p] + 1] \in Rqs
    BY <2>1, Fields, Updates
  <2>3. ASSUME NEW q \in Rqs PROVE bxroce_update_rq_head(q) \in Rqs
    <3>1. (q.head + 1) % N \in Places
      BY Fields, Around
    <3> QED
      BY <3>1, Fields, Updates DEF bxroce_update_rq_head
  <2>4. bxroce_ring_rq_hw(rq[p], rdev[p]) \in Rdevs
    <3>1. (rq[p].head + 1) % N \in Places
      BY <2>1, Fields, Around
    <3>2. rdev[p].n + ((rq[p].head + 1 + N - rdev[p].wp) % N) \in Nat
      <4>0. rq[p].head \in Nat /\ rdev[p].wp \in Nat /\ rdev[p].wp < N
        BY <2>1, Fields, Around
      <4>1. PICK k \in Nat : k = rq[p].head + 1 + N - rdev[p].wp
        BY <4>0, Sizes
      <4>2. k % N \in Nat
        BY Around
      <4> QED
        BY <2>1, <4>1, <4>2, Fields
    <3> QED
      BY <2>1, <3>1, <3>2, Updates DEF bxroce_ring_rq_hw
  <2> QED
    BY <1>3, <2>2, <2>3, <2>4 DEF PostRecv, Types, TypeRecv
<1>4. ASSUME NEW p \in Procs, NEW s \in {"RST", "INIT", "RTR", "RTS", "ERR"}, ModifyQp(p, s)
      PROVE  TypeRecv'
  <2>1. [rq[p] EXCEPT !.head = 0, !.tail = 0, !.foe = "EMPTY"] \in Rqs
    BY Sizes, Updates DEF Types, TypeRecv
  <2>2. rq' = rq \/ rq' = [rq EXCEPT ![p] = [rq[p] EXCEPT !.head = 0, !.tail = 0, !.foe = "EMPTY"]]
    BY <1>4 DEF ModifyQp, Types, TypeRecv
  <2>3. rq' \in [Procs -> Rqs]
    BY <2>1, <2>2 DEF Types, TypeRecv
  <2> QED
    BY <1>4, <2>3 DEF ModifyQp, Types, TypeRecv
<1>5. CASE UNCHANGED <<rq, rdev, rx, nrqe, nrecv, nrep>>
  BY <1>5 DEF Types, TypeRecv
<1> QED
  BY <1>1, <1>2, <1>3, <1>4, <1>5, Cases, Frames DEF vars

\* and of addresses.
LEMMA PeerStep ==
  ASSUME Types, Asked, [Next]_vars
  PROVE  TypePeer'
<1>1. ASSUME NEW p \in Procs, Check(p)
      PROVE  TypePeer'
  <2>1. Remembered(p) \in Caches
    BY <1>1, RememberedType DEF Check
  <2> QED
    BY <1>1, <2>1 DEF Check, Build, Refuse, Types, TypePeer
<1>2. ASSUME NEW v \in Vas, RegMr(v)
      PROVE  TypePeer'
  <2>1. bxroce_reg_mrinfo(v) \in Mrs /\ v \in Nat \ {0}
    BY Sizes DEF bxroce_reg_mrinfo, Mrs, Types, TypePeer
  <2> QED
    BY <1>2, <2>1 DEF RegMr, Types, TypePeer
<1>3. ASSUME NEW i \in 1..MaxRegs, DeregMr(i)
      PROVE  TypePeer'
  <2>1. bxroce_remove_mr(mr_pool, i) \in Seq(Mrs) /\ Len(bxroce_remove_mr(mr_pool, i)) = Len(mr_pool)
    <3>1. mr_pool \in Seq(Mrs) /\ i \in DOMAIN mr_pool /\ mr_pool[i] \in Mrs
      BY <1>3 DEF DeregMr, Types, TypePeer
    <3>2. [mr_pool[i] EXCEPT !.phy = 0] \in Mrs
      BY <3>1 DEF Mrs
    <3> QED
      BY <3>1, <3>2 DEF bxroce_remove_mr
  <2>2. bxroce_dereg_mrinfo(i) \in Seq(Mrs)
    BY <1>3, <2>1 DEF DeregMr, bxroce_dereg_mrinfo, Types, TypePeer
  <2> QED
    BY <1>3, <2>2 DEF DeregMr, Types, TypePeer
<1>4. CASE UNCHANGED <<cache, ever, mr_pool>>
  BY <1>4 DEF Types, TypePeer
<1> QED
  BY <1>1, <1>2, <1>3, <1>4, Cases, Frames DEF vars

-----------------------------------------------------------------------------
(* What the actions do to a send queue.                                    *)

\* Polling moves the tail alone.
LEMMA PollKeeps ==
  ASSUME Types, NEW p \in Procs, Poll(p), NEW q \in Procs
  PROVE  sq'[q].head = sq[q].head /\ sq'[q].overhead = sq[q].overhead /\ sq'[q].slot = sq[q].slot
<1>1. ASSUME NEW x \in Sqs
      PROVE  LET y == bxroce_poll_scqe(x)
             IN  y.head = x.head /\ y.overhead = x.overhead /\ y.slot = x.slot
  BY DEF bxroce_poll_scqe, Sqs
<1>2. sq' = sq \/ sq' = [sq EXCEPT ![p] = bxroce_poll_scqe(sq[p])]
  BY DEF Poll, PollRound, PollEnd
<1>3. sq \in [Procs -> Sqs]
  BY DEF Types, TypeSend
<1> QED
  BY <1>1, <1>2, <1>3

\* Making a queue pair sets sq.overhead alone.
LEMMA CreateKeeps ==
  ASSUME Types, NEW p \in Procs, NEW f, CreateQp(p, f), NEW q \in Procs
  PROVE  /\ sq'[q].head = sq[q].head /\ sq'[q].slot = sq[q].slot
         /\ sq'[q].overhead = IF q = p THEN N ELSE sq[q].overhead
<1>1. sq' = [sq EXCEPT ![p].overhead = N] /\ sq \in [Procs -> Sqs]
  BY Sizes DEF CreateQp, Types, TypeSend
<1> QED
  BY <1>1 DEF Sqs

\* A change of state sets pointers of an idle queue alone; without recycling they are
\* at the start already.
LEMMA ModifyKeeps ==
  ASSUME Types, NEW p \in Procs, NEW s, ModifyQp(p, s), NEW q \in Procs
  PROVE  /\ sq'[q].overhead = sq[q].overhead /\ sq'[q].slot = sq[q].slot
         /\ q # p => sq'[q].head = sq[q].head
         /\ FreshSq => sq'[q].head = sq[q].head
<1>1. /\ sq' = sq \/ sq' = [sq EXCEPT ![p].head = 0, ![p].tail = 0]
      /\ sq \in [Procs -> Sqs] /\ p \in Procs
  BY DEF ModifyQp, Types, TypeSend
<1>2. FreshSq /\ s = "INIT" => sq[p].head = 0
  BY DEF ModifyQp, FreshSq, bxroce_qp_state_machine
<1>3. s # "INIT" => sq' = sq
  BY DEF ModifyQp
<1> QED
  BY <1>1, <1>2, <1>3 DEF Sqs

\* The outcomes of a round of bxroce_post_send's loop: it gives up or starts again, the
\* entries are built, or the work request is refused.
LEMMA CheckDoes ==
  ASSUME TableInd, NEW p \in Procs, Check(p)
  PROVE  /\ \A q \in Procs \ {p} :
              /\ sq'[q] = sq[q] /\ nwqe'[q] = nwqe[q] /\ pc'[q] = pc[q] /\ op'[q] = op[q]
              /\ wr'[q] = wr[q] /\ cache'[q] = cache[q]
         /\ pc[p] = "check"
         /\ \/ /\ sq' = sq /\ nwqe' = nwqe /\ cache' = cache
               /\ \/ pc'[p] = "idle" /\ op'[p] = "none" /\ wr'[p] = NoWr
                  \/ pc'[p] = "lock" /\ op'[p] = "reset" /\ wr'[p] = wr[p] /\ sq[p].head # 0
            \/ /\ pc'[p] = "lock" /\ op'[p] = "ring" /\ wr'[p] = NoWr /\ CanBuild(p)
               /\ Count(wr[p]) \in Nat \ {0} /\ sq[p].head + Count(wr[p]) < N
               /\ sq'[p].head = sq[p].head + Count(wr[p])
               /\ sq'[p].slot = Filled(p) /\ sq'[p].overhead = sq[p].overhead
               /\ nwqe'[p] = nwqe[p] + Count(wr[p])
               /\ cache'[p] = Remembered(p)
            \/ /\ (pc'[p] = "idle" /\ op'[p] = "none") \/ (pc'[p] = "lock" /\ op'[p] = "ring")
               /\ wr'[p] = NoWr /\ CanBuild(p) /\ nwqe' = nwqe /\ cache'[p] = Remembered(p)
               /\ sq'[p].overhead = sq[p].overhead
               /\ \A i \in Places : sq'[p].slot[i] = IF i = sq[p].head THEN NoWqe ELSE sq[p].slot[i]
               /\ "refused" \notin Allow => sq'[p].head = sq[p].head
<1> DEFINE free == bxroce_sqhwq_free_cnt(sq[p])
<1>1. /\ wr[p].sges \in 0..(N - 2) /\ sq[p].head \in Nat /\ sq[p].head < N /\ sq[p].head \in Places
      /\ sq \in [Procs -> Sqs] /\ nwqe \in [Procs -> Nat] /\ N \in Nat
  BY Fields, Around, Sizes DEF TableInd, Types, TypePost, TypeSend
<1>2. free = N - 1 - sq[p].head
  BY Sizes DEF bxroce_sqhwq_free_cnt
<1>3. Count(wr[p]) \in Nat \ {0} /\ (free > wr[p].sges => sq[p].head + Count(wr[p]) < N)
  BY <1>1, <1>2 DEF Count
<1>4. free > wr[p].sges => (sq[p].head + Count(wr[p])) % N = sq[p].head + Count(wr[p])
  BY <1>1, <1>3
<1>5. free \in Int
  BY <1>1, <1>2
<1>6. \A q \in Procs \ {p} :
        /\ sq'[q] = sq[q] /\ nwqe'[q] = nwqe[q] /\ pc'[q] = pc[q] /\ op'[q] = op[q]
        /\ wr'[q] = wr[q] /\ cache'[q] = cache[q]
  BY DEF Check, EndPost, ToRing, Build, Refuse, TableInd, Types, TypePost, TypeSend, TypePeer
<1>7. pc[p] = "check"
  BY DEF Check
<1>8. CASE free = 0 \/ (free > wr[p].sges /\ ~CanBuild(p))
  BY <1>6, <1>7, <1>8 DEF Check, EndPost, TableInd, Types, TypePost
<1>9. CASE ~(free = 0 \/ (free > wr[p].sges /\ ~CanBuild(p))) /\ free <= wr[p].sges
  <2>1. sq[p].head # 0
    BY <1>1, <1>2, <1>9
  <2> HIDE DEF free
  <2>2. /\ pc' = [pc EXCEPT ![p] = "lock"] /\ op' = [op EXCEPT ![p] = "reset"]
        /\ UNCHANGED <<wr, sq, nwqe, cache>>
    BY <1>9 DEF Check, free
  <2> QED
    BY <1>6, <1>7, <2>1, <2>2 DEF TableInd, Types, TypePost
<1> HIDE DEF free
<1>10. CASE ~(free = 0 \/ (free > wr[p].sges /\ ~CanBuild(p))) /\ ~(free <= wr[p].sges)
  <2>1. free > wr[p].sges /\ CanBuild(p)
    BY <1>1, <1>5, <1>10
  <2>2. Build(p) \/ Refuse(p)
    BY <1>10 DEF Check, free
  <2>3. CASE Build(p)
    <3>1. /\ sq' = [sq EXCEPT ![p].slot = Filled(p), ![p].head = (sq[p].head + Count(wr[p])) % N]
          /\ nwqe' = [nwqe EXCEPT ![p] = nwqe[p] + Count(wr[p])]
          /\ cache' = [cache EXCEPT ![p] = Remembered(p)]
          /\ pc' = [pc EXCEPT ![p] = "lock"] /\ op' = [op EXCEPT ![p] = "ring"]
          /\ wr' = [wr EXCEPT ![p] = NoWr]
      BY <2>3 DEF Build, ToRing
    <3>2. /\ sq'[p].slot = Filled(p) /\ sq'[p].overhead = sq[p].overhead
          /\ sq'[p].head = (sq[p].head + Count(wr[p])) % N
      BY <1>1, <3>1 DEF Sqs
    <3>3. nwqe'[p] = nwqe[p] + Count(wr[p]) /\ cache'[p] = Remembered(p)
      BY <1>1, <3>1 DEF TableInd, Types, TypePeer
    <3>4. pc'[p] = "lock" /\ op'[p] = "ring" /\ wr'[p] = NoWr
      BY <3>1 DEF TableInd, Types, TypePost
    <3> QED
      BY <1>3, <1>4, <1>6, <1>7, <2>1, <3>2, <3>3, <3>4
  <2>4. CASE Refuse(p)
    <3>1. PICK k \in {0, 1} :
            /\ "refused" \notin Allow => k = 0
            /\ sq' = [sq EXCEPT ![p] = [sq[p] EXCEPT !.slot[sq[p].head] = NoWqe,
                                                    !.head = (sq[p].head + k) % N]]
      BY <2>4 DEF Refuse
    <3>2. /\ sq'[p].overhead = sq[p].overhead /\ sq'[p].head = (sq[p].head + k) % N
          /\ \A i \in Places : sq'[p].slot[i] = IF i = sq[p].head THEN NoWqe ELSE sq[p].slot[i]
      BY <1>1, <3>1 DEF Sqs
    <3>3. k = 0 => (sq[p].head + k) % N = sq[p].head
      BY <1>1
    <3>4. nwqe' = nwqe /\ cache'[p] = Remembered(p)
      BY <2>4 DEF Refuse, TableInd, Types, TypePeer
    <3>5. /\ (pc'[p] = "idle" /\ op'[p] = "none") \/ (pc'[p] = "lock" /\ op'[p] = "ring")
          /\ wr'[p] = NoWr
      BY <2>4 DEF Refuse, EndPost, ToRing, TableInd, Types, TypePost
    <3> QED
      BY <1>6, <1>7, <2>1, <3>1, <3>2, <3>3, <3>4, <3>5
  <2> QED
    BY <2>2, <2>3, <2>4
<1> QED
  BY <1>8, <1>9, <1>10

\* bxroce_init_sq_ptr reads the pointers of its own queue pair.
LEMMA ReadDoes ==
  ASSUME Types, Selected, NEW p \in Procs, Read(p)
  PROVE  /\ \A q \in Procs \ {p} : sq'[q] = sq[q] /\ pc'[q] = pc[q]
         /\ pc[p] = "read" /\ sq'[p].slot = sq[p].slot
         /\ \/ dev[p].rp = dev[p].wp /\ sq'[p].head = 0 /\ sq'[p].overhead = sq[p].head
               /\ pc'[p] = "fill"
            \/ sq' = sq /\ pc'[p] = "unlock"
<1>1. win.sel = p
  BY DEF Read, Selected
<1> QED
  BY <1>1 DEF Read, Goto, Types, TypePost, TypeSend, Sqs

\* A commit reaches the queue pair of the process that makes it, with its head.
LEMMA CommitDoes ==
  ASSUME Types, Selected, NEW p \in Procs, Commit(p)
  PROVE  /\ \A q \in Procs \ {p} : dev'[q] = dev[q] /\ pc'[q] = pc[q]
         /\ pc[p] = "commit" /\ pc'[p] = "unlock"
         /\ dev'[p].wp = sq[p].head
         /\ dev'[p].rp = IF op[p] = "reset" THEN sq[p].head ELSE dev[p].rp
<1>1. win.sel = p /\ win.val = sq[p].head /\ dev \in [Procs -> Devs] /\ pc[p] = "commit"
  BY DEF Commit, Goto, Selected, Types, TypeSend
<1>2. dev' = [dev EXCEPT ![p] = [dev[p] EXCEPT !.wp = sq[p].head,
                                              !.rp = IF op[p] = "reset" THEN sq[p].head ELSE dev[p].rp]]
  BY <1>1 DEF Commit
<1>3. /\ \A q \in Procs \ {p} : dev'[q] = dev[q]
      /\ dev'[p].wp = sq[p].head
      /\ dev'[p].rp = IF op[p] = "reset" THEN sq[p].head ELSE dev[p].rp
  BY <1>1, <1>2 DEF Devs
<1> QED
  BY <1>1, <1>3 DEF Commit, Goto, Types, TypePost

\* The device executes the entry at its read pointer.
LEMMA DevSendDoes ==
  ASSUME Types, NEW p \in Procs, DevSend(p), dev[p].rp <= dev[p].wp
  PROVE  /\ \A q \in Procs \ {p} : sq'[q] = sq[q] /\ dev'[q] = dev[q] /\ nexec'[q] = nexec[q]
         /\ dev[p].rp < dev[p].wp
         /\ dev'[p].rp = dev[p].rp + 1 /\ dev'[p].wp = dev[p].wp /\ nexec'[p] = nexec[p] + 1
         /\ sq'[p].head = sq[p].head /\ sq'[p].overhead = sq[p].overhead
         /\ \A i \in Places : sq'[p].slot[i] = IF i = dev[p].rp THEN NoWqe ELSE sq[p].slot[i]
<1>1. /\ sq \in [Procs -> Sqs] /\ dev \in [Procs -> Devs] /\ nexec \in [Procs -> Nat]
      /\ dev[p].rp # dev[p].wp
  BY DEF DevSend, Types, TypeSend
<1>2. /\ dev[p].rp \in Nat /\ dev[p].wp \in Nat /\ dev[p].wp < N /\ dev[p].rp \in Places
      /\ sq[p].slot \in [Places -> Wqes]
  BY <1>1, Fields, Around
<1>3. dev[p].rp < dev[p].wp /\ (dev[p].rp + 1) % N = dev[p].rp + 1
  <2>1. dev[p].rp < dev[p].wp
    BY <1>1, <1>2
  <2>2. PICK k \in Nat : k = dev[p].rp + 1
    BY <1>2
  <2>3. k < N
    BY <1>2, <2>1, <2>2, Sizes
  <2>4. k % N = k
    BY <2>3, Sizes
  <2> QED
    BY <2>1, <2>2, <2>4
<1>4. /\ sq' = [sq EXCEPT ![p] = [sq[p] EXCEPT !.slot = [sq[p].slot EXCEPT ![dev[p].rp] = NoWqe]]]
      /\ dev' = [dev EXCEPT ![p] = [dev[p] EXCEPT !.rp = (dev[p].rp + 1) % N]]
      /\ nexec' = [nexec EXCEPT ![p] = nexec[p] + 1]
  BY DEF DevSend
<1>5. dev'[p].rp = dev[p].rp + 1 /\ dev'[p].wp = dev[p].wp
  BY <1>1, <1>3, <1>4 DEF Devs
<1>6. /\ sq'[p].slot = [sq[p].slot EXCEPT ![dev[p].rp] = NoWqe]
      /\ sq'[p].head = sq[p].head /\ sq'[p].overhead = sq[p].overhead
  BY <1>1, <1>4 DEF Sqs
<1> QED
  BY <1>1, <1>2, <1>3, <1>4, <1>5, <1>6

\* The modulus of the tail stays other than 0.
LEMMA DividesStep ==
  ASSUME TableInd, [Next]_vars
  PROVE  Divides'
<1>1. ASSUME NEW p \in Procs, Check(p)
      PROVE  Divides'
  <2>1. qp_tbl' = qp_tbl
    BY <1>1 DEF Check
  <2> QED
    BY <1>1, <2>1, CheckDoes DEF TableInd, Divides, Waiting
<1>2. ASSUME NEW p \in Procs, Lock(p)
      PROVE  Divides'
  BY <1>2 DEF Lock, TableInd, Types, TypeQps, TypePost, TypeSend, Divides, Goto, Waiting
<1>3. ASSUME NEW p \in Procs, Select(p)
      PROVE  Divides'
  BY <1>3 DEF Select, TableInd, Types, TypeQps, TypePost, TypeSend, Divides, Goto, Waiting
<1>4. ASSUME NEW p \in Procs, Read(p)
      PROVE  Divides'
  <2>1. \A q \in Procs \ {p} : sq'[q] = sq[q] /\ pc'[q] = pc[q]
    BY <1>4 DEF Read, TableInd, Types, TypeSend, TypePost, Goto
  <2>2. sq[p].head # 0 /\ op[p] = "reset"
    BY <1>4 DEF Read, TableInd, Divides, Waiting
  <2>3. pc'[p] \in {"fill", "unlock"} /\ (sq'[p].overhead = sq[p].head \/ sq' = sq)
    BY <1>4 DEF Read, TableInd, Types, TypeSend, TypePost, Goto, Sqs
  <2> QED
    BY <1>4, <2>1, <2>2, <2>3 DEF Read, TableInd, Divides, Waiting
<1>5. ASSUME NEW p \in Procs, Fill(p)
      PROVE  Divides'
  BY <1>5 DEF Fill, TableInd, Types, TypeQps, TypePost, TypeSend, Divides, Goto, Waiting
<1>6. ASSUME NEW p \in Procs, Commit(p)
      PROVE  Divides'
  BY <1>6 DEF Commit, TableInd, Types, TypeQps, TypePost, TypeSend, Divides, Goto, Waiting
<1>7. ASSUME NEW p \in Procs, Unlock(p)
      PROVE  Divides'
  BY <1>7 DEF Unlock, TableInd, Types, TypeQps, TypePost, TypeSend, Divides, Goto, Waiting
<1>8. ASSUME NEW p \in Procs, Poll(p)
      PROVE  Divides'
  BY <1>8, PollKeeps DEF TableInd, Poll, Divides
<1>9. ASSUME NEW p \in Procs, DevSend(p)
      PROVE  Divides'
  BY <1>9 DEF DevSend, TableInd, Types, TypeQps, TypePost, TypeSend, Divides, Goto, Waiting
<1>10. ASSUME NEW p \in Procs, Die(p)
      PROVE  Divides'
  BY <1>10 DEF Die, TableInd, Types, TypeQps, TypePost, TypeSend, Divides, Goto, Waiting
<1>11. ASSUME NEW p \in Procs, DestroyQp(p)
      PROVE  Divides'
  BY <1>11 DEF DestroyQp, TableInd, Types, TypeQps, TypePost, TypeSend, Divides, Goto,
     Waiting
<1>12. ASSUME NEW p \in Procs, NEW f \in {"no", "kernel", "queues", "regs"}, CreateQp(p, f)
      PROVE  Divides'
  <2>1. \A q \in Procs \ {p} : qp_tbl'[q] = qp_tbl[q]
    BY <1>12 DEF CreateQp, TableInd, Types, TypeQps
  <2>2. pc' = pc /\ op' = op
    BY <1>12 DEF CreateQp
  <2>3. \A q \in Procs : /\ sq'[q].head = sq[q].head
                       /\ sq'[q].overhead = IF q = p THEN N ELSE sq[q].overhead
    BY <1>12, CreateKeeps DEF TableInd
  <2> QED
    BY <2>1, <2>2, <2>3, Sizes DEF TableInd, Divides
<1>13. ASSUME NEW p \in Procs, NEW s \in {"RST", "INIT", "RTR", "RTS", "ERR"}, ModifyQp(p, s)
      PROVE  Divides'
  BY <1>13, ModifyKeeps DEF TableInd, ModifyQp, Divides, Waiting
<1>14. ASSUME NEW p \in Procs, NEW w \in Wrs, PostSend(p, w)
      PROVE  Divides'
  BY <1>14 DEF PostSend, TableInd, Types, TypeQps, TypePost, TypeSend, Divides, Goto,
     Waiting
<1>15. CASE UNCHANGED <<qp_tbl, pc, op, sq>>
  BY <1>15 DEF TableInd, Divides
<1> QED
  BY <1>1, <1>2, <1>3, <1>4, <1>5, <1>6, <1>7, <1>8, <1>9, <1>10, <1>11, <1>12, <1>13,
     <1>14, <1>15, Cases, Frames DEF vars

\* A post keeps its work request until it has built the entries.
LEMMA AskedStep ==
  ASSUME Types, Asked, [Next]_vars
  PROVE  Asked'
<1>1. ASSUME NEW p \in Procs, Check(p)
      PROVE  Asked'
  BY <1>1 DEF Check, Build, Refuse, EndPost, ToRing, Types, TypePost, Asked, Goto, Window, NoWr
<1>2. ASSUME NEW p \in Procs, Lock(p)
      PROVE  Asked'
  BY <1>2 DEF Lock, Types, TypePost, Asked, Goto, Window
<1>3. ASSUME NEW p \in Procs, Select(p)
      PROVE  Asked'
  BY <1>3 DEF Select, Types, TypePost, Asked, Goto, Window
<1>4. ASSUME NEW p \in Procs, Read(p)
      PROVE  Asked'
  BY <1>4 DEF Read, Types, TypePost, Asked, Goto, Window
<1>5. ASSUME NEW p \in Procs, Fill(p)
      PROVE  Asked'
  BY <1>5 DEF Fill, Types, TypePost, Asked, Goto, Window
<1>6. ASSUME NEW p \in Procs, Commit(p)
      PROVE  Asked'
  BY <1>6 DEF Commit, Types, TypePost, Asked, Goto, Window
<1>7. ASSUME NEW p \in Procs, Unlock(p)
      PROVE  Asked'
  BY <1>7 DEF Unlock, Types, TypePost, Asked, Goto, Window
<1>8. ASSUME NEW p \in Procs, Die(p)
      PROVE  Asked'
  BY <1>8 DEF Die, Types, TypePost, Asked, Goto, Window
<1>9. ASSUME NEW p \in Procs, NEW w \in Wrs, PostSend(p, w)
      PROVE  Asked'
  BY <1>9 DEF PostSend, Types, TypePost, Asked, Goto, Window, Wrs, NoWr
<1>10. ASSUME NEW v \in Vas, RegMr(v)
      PROVE  Asked'
  BY <1>10 DEF RegMr, Types, TypePost, Asked, Goto, Window, TypePeer
<1>11. CASE UNCHANGED <<pc, op, wr, ever>>
  BY <1>11 DEF Asked
<1> QED
  BY <1>1, <1>2, <1>3, <1>4, <1>5, <1>6, <1>7, <1>8, <1>9, <1>10, <1>11, Cases, Frames DEF
     vars

\* The table of queue pairs.
LEMMA TableStep ==
  ASSUME Types, TableLive, "map_fail" \notin Allow, [Next]_vars
  PROVE  TableLive'
<1>1. ASSUME NEW p \in Procs, DestroyQp(p)
      PROVE  TableLive'
  BY <1>1 DEF DestroyQp, Types, TypeQps, TableLive
<1>2. ASSUME NEW p \in Procs, NEW f \in {"no", "kernel", "queues", "regs"}, CreateQp(p, f)
      PROVE  TableLive'
  BY <1>2 DEF CreateQp, Types, TypeQps, TableLive
<1>3. ASSUME NEW p \in Procs, NEW s \in {"RST", "INIT", "RTR", "RTS", "ERR"}, ModifyQp(p, s)
      PROVE  TableLive'
  BY <1>3 DEF ModifyQp, Types, TypeQps, TableLive
<1>4. CASE UNCHANGED <<qp, qp_tbl, kqp>>
  BY <1>4 DEF TableLive
<1> QED
  BY <1>1, <1>2, <1>3, <1>4, Cases, Frames DEF vars

\* The program starts in the invariant.
LEMMA TableInit ==
  ASSUME Init
  PROVE  TableInd /\ TableLive
<1>1. NoWqe \in Wqes
  BY DEF NoWqe, NoDma, Wqes, Dmas
<1>2. TypeQps /\ TypePost
  BY Sizes DEF Init, TypeQps, TypePost, Places
<1>6. TypeRecv
  BY Sizes DEF Init, TypeRecv, Rqs, Rdevs, Places
<1>7. TypePeer
  <2>1. Fresh \subseteq Caches
    BY Sizes DEF Fresh, NoDma, Caches, Dmas
  <2> QED
    BY <2>1 DEF Init, TypePeer
<1>3. TypeSend
  BY <1>1, Sizes DEF Init, TypeSend, Sqs, Devs, Places
<1>4. Divides /\ Asked
  BY Sizes DEF Init, Divides, Asked, Waiting, NoWr, Window
<1>5. TableLive
  BY Sizes DEF Init, TableLive
<1> QED
  BY <1>2, <1>3, <1>4, <1>5, <1>6, <1>7 DEF TableInd, Types

\* Table and types: the indices stay in range, the modulus of the send queue's tail is
\* never 0, and the library's table of queue pairs points to live memory and names what
\* the kernel has, unless the queues cannot be mapped (bxroce_create_qp then frees the
\* memory and leaves the table and the kernel's queue pair).
THEOREM LibTable ==
  ASSUME "map_fail" \notin Allow
  PROVE  Spec => []TableInv
<1>1. Init => TableInd /\ TableLive
  BY TableInit
<1>2. TableInd /\ TableLive /\ [Next]_vars => (TableInd /\ TableLive)'
  BY QpsStep, PostStep, SendStep, RecvStep, PeerStep, DividesStep, AskedStep, TableStep
     DEF TableInd, Types
<1>3. TableInd /\ TableLive => TableInv
  <2>1. ASSUME TableInd PROVE TypeOK
    <3>1. ASSUME NEW p \in Procs
          PROVE  /\ sq[p].head \in Places /\ sq[p].tail \in Places
                 /\ rq[p].head \in Places /\ rq[p].tail \in Places
                 /\ dev[p].rp \in Places /\ dev[p].wp \in Places
      BY <2>1, Fields DEF TableInd, Types, TypeSend, TypeRecv
    <3>2. TypeQps /\ TypePost
      BY <2>1 DEF TableInd, Types
    <3> QED
      BY <3>1, <3>2 DEF TypeQps, TypePost, TypeOK, Places, Window
  <2> QED
    BY <2>1 DEF TableInv
<1> QED
  BY <1>1, <1>2, <1>3, PTL DEF Spec

-----------------------------------------------------------------------------
(* Order.                                                                  *)

\* One process at a time is inside the window.
LEMMA HolderStep ==
  ASSUME Types, Holder, Apart = {}, [Next]_vars
  PROVE  Holder'
<1>1. ASSUME NEW p \in Procs, Check(p)
      PROVE  Holder'
  BY <1>1, Sizes DEF Check, Build, Refuse, EndPost, ToRing, Types, TypePost, Holder, Window
<1>2. ASSUME NEW p \in Procs, Lock(p)
      PROVE  Holder'
  BY <1>2, Sizes DEF Lock, Types, TypePost, Holder, Window, Goto
<1>3. ASSUME NEW p \in Procs, Select(p)
      PROVE  Holder'
  BY <1>3, Sizes DEF Select, Types, TypePost, Holder, Window, Goto
<1>4. ASSUME NEW p \in Procs, Read(p)
      PROVE  Holder'
  BY <1>4, Sizes DEF Read, Types, TypePost, Holder, Window, Goto
<1>5. ASSUME NEW p \in Procs, Fill(p)
      PROVE  Holder'
  BY <1>5, Sizes DEF Fill, Types, TypePost, Holder, Window, Goto
<1>6. ASSUME NEW p \in Procs, Commit(p)
      PROVE  Holder'
  BY <1>6, Sizes DEF Commit, Types, TypePost, Holder, Window, Goto
<1>7. ASSUME NEW p \in Procs, Unlock(p)
      PROVE  Holder'
  BY <1>7, Sizes DEF Unlock, Types, TypePost, Holder, Window, Goto
<1>8. ASSUME NEW p \in Procs, Die(p)
      PROVE  Holder'
  BY <1>8, Sizes DEF Die, Types, TypePost, Holder, Window, Goto
<1>9. ASSUME NEW p \in Procs, PostRecv(p)
      PROVE  Holder'
  BY <1>9, Sizes DEF PostRecv, Types, TypePost, Holder, Window, Goto
<1>10. ASSUME NEW p \in Procs, NEW w \in Wrs, PostSend(p, w)
      PROVE  Holder'
  BY <1>10, Sizes DEF PostSend, Types, TypePost, Holder, Window, Goto
<1>11. CASE UNCHANGED <<pc, hw_lock>>
  BY <1>11 DEF Holder
<1> QED
  BY <1>1, <1>2, <1>3, <1>4, <1>5, <1>6, <1>7, <1>8, <1>9, <1>10, <1>11, Cases, Frames DEF
     vars

\* The window keeps what its holder has put into it.
LEMMA SelectedStep ==
  ASSUME TableInd, Holder, Selected, Apart = {}, [Next]_vars
  PROVE  Selected'
<1>1. ASSUME NEW p \in Procs, Check(p)
      PROVE  Selected'
  <2>1. win' = win
    BY <1>1 DEF Check
  <2> QED
    BY <1>1, <2>1, CheckDoes DEF Selected, Window
<1>2. ASSUME NEW p \in Procs, Lock(p)
      PROVE  Selected'
  BY <1>2 DEF Lock, Types, TypePost, TypeSend, TableInd, Selected, Holder, Window, Goto
<1>3. ASSUME NEW p \in Procs, Select(p)
      PROVE  Selected'
  BY <1>3 DEF Select, Types, TypePost, TypeSend, TableInd, Selected, Holder, Window, Goto
<1>4. ASSUME NEW p \in Procs, Read(p)
      PROVE  Selected'
  BY <1>4 DEF Read, Types, TypePost, TypeSend, TableInd, Selected, Holder, Window, Goto
<1>5. ASSUME NEW p \in Procs, Fill(p)
      PROVE  Selected'
  BY <1>5 DEF Fill, Types, TypePost, TypeSend, TableInd, Selected, Holder, Window, Goto
<1>6. ASSUME NEW p \in Procs, Commit(p)
      PROVE  Selected'
  BY <1>6 DEF Commit, Types, TypePost, TypeSend, TableInd, Selected, Holder, Window, Goto
<1>7. ASSUME NEW p \in Procs, Unlock(p)
      PROVE  Selected'
  BY <1>7 DEF Unlock, Types, TypePost, TypeSend, TableInd, Selected, Holder, Window, Goto
<1>8. ASSUME NEW p \in Procs, Poll(p)
      PROVE  Selected'
  BY <1>8, PollKeeps DEF TableInd, Poll, Selected
<1>9. ASSUME NEW p \in Procs, DevSend(p)
      PROVE  Selected'
  BY <1>9 DEF DevSend, Types, TypePost, TypeSend, TableInd, Selected, Holder, Window, Goto
<1>10. ASSUME NEW p \in Procs, Die(p)
      PROVE  Selected'
  BY <1>10 DEF Die, Types, TypePost, TypeSend, TableInd, Selected, Holder, Window, Goto
<1>11. ASSUME NEW p \in Procs, NEW f \in {"no", "kernel", "queues", "regs"}, CreateQp(p, f)
      PROVE  Selected'
  BY <1>11 DEF CreateQp, Types, TypePost, TypeSend, TableInd, Selected, Holder, Window, Goto
<1>12. ASSUME NEW p \in Procs, NEW s \in {"RST", "INIT", "RTR", "RTS", "ERR"}, ModifyQp(p, s)
      PROVE  Selected'
  BY <1>12 DEF ModifyQp, Types, TypePost, TypeSend, TableInd, Selected, Holder, Window, Goto
<1>13. ASSUME NEW p \in Procs, NEW w \in Wrs, PostSend(p, w)
      PROVE  Selected'
  BY <1>13 DEF PostSend, Types, TypePost, TypeSend, TableInd, Selected, Holder, Window, Goto
<1>14. CASE UNCHANGED <<pc, op, win, sq>>
  BY <1>14 DEF Selected
<1> QED
  BY <1>1, <1>2, <1>3, <1>4, <1>5, <1>6, <1>7, <1>8, <1>9, <1>10, <1>11, <1>12, <1>13,
     <1>14, Cases, Frames DEF vars

\* A queue pair that has not been in INIT has not been used.
LEMMA FreshSqStep ==
  ASSUME TableInd, Selected, FreshSq, "recycle" \notin Allow, [Next]_vars
  PROVE  FreshSq'
<1>1. ASSUME NEW p \in Procs, Check(p)
      PROVE  FreshSq'
  <2>1. qp' = qp
    BY <1>1 DEF Check
  <2> QED
    BY <1>1, <2>1, CheckDoes DEF TableInd, FreshSq
<1>2. ASSUME NEW p \in Procs, Lock(p)
      PROVE  FreshSq'
  BY <1>2 DEF Lock, Types, TypePost, TypeSend, TableInd, FreshSq, Goto, TypeQps, Sqs,
     bxroce_qp_state_machine
<1>3. ASSUME NEW p \in Procs, Select(p)
      PROVE  FreshSq'
  BY <1>3 DEF Select, Types, TypePost, TypeSend, TableInd, FreshSq, Goto, TypeQps, Sqs,
     bxroce_qp_state_machine
<1>4. ASSUME NEW p \in Procs, Read(p)
      PROVE  FreshSq'
  BY <1>4 DEF Read, Types, TypePost, TypeSend, TableInd, FreshSq, Goto, TypeQps, Sqs,
     bxroce_qp_state_machine
<1>5. ASSUME NEW p \in Procs, Fill(p)
      PROVE  FreshSq'
  BY <1>5 DEF Fill, Types, TypePost, TypeSend, TableInd, FreshSq, Goto, TypeQps, Sqs,
     bxroce_qp_state_machine
<1>6. ASSUME NEW p \in Procs, Commit(p)
      PROVE  FreshSq'
  BY <1>6 DEF Commit, Types, TypePost, TypeSend, TableInd, FreshSq, Goto, TypeQps, Sqs,
     bxroce_qp_state_machine
<1>7. ASSUME NEW p \in Procs, Unlock(p)
      PROVE  FreshSq'
  BY <1>7 DEF Unlock, Types, TypePost, TypeSend, TableInd, FreshSq, Goto, TypeQps, Sqs,
     bxroce_qp_state_machine
<1>8. ASSUME NEW p \in Procs, Poll(p)
      PROVE  FreshSq'
  BY <1>8, PollKeeps DEF TableInd, Poll, FreshSq
<1>9. ASSUME NEW p \in Procs, DevSend(p)
      PROVE  FreshSq'
  BY <1>9 DEF DevSend, Types, TypePost, TypeSend, TableInd, FreshSq, Goto, TypeQps, Sqs,
     bxroce_qp_state_machine
<1>10. ASSUME NEW p \in Procs, Die(p)
      PROVE  FreshSq'
  BY <1>10 DEF Die, Types, TypePost, TypeSend, TableInd, FreshSq, Goto, TypeQps, Sqs,
     bxroce_qp_state_machine
<1>11. ASSUME NEW p \in Procs, DestroyQp(p)
      PROVE  FreshSq'
  BY <1>11 DEF DestroyQp, Types, TypePost, TypeSend, TableInd, FreshSq, Goto, TypeQps, Sqs,
     bxroce_qp_state_machine
<1>12. ASSUME NEW p \in Procs, NEW f \in {"no", "kernel", "queues", "regs"}, CreateQp(p, f)
      PROVE  FreshSq'
  BY <1>12 DEF CreateQp, Types, TypePost, TypeSend, TableInd, FreshSq, Goto, TypeQps, Sqs,
     bxroce_qp_state_machine
<1>13. ASSUME NEW p \in Procs, NEW s \in {"RST", "INIT", "RTR", "RTS", "ERR"}, ModifyQp(p, s)
      PROVE  FreshSq'
  BY <1>13 DEF ModifyQp, Types, TypePost, TypeSend, TableInd, FreshSq, Goto, TypeQps, Sqs,
     bxroce_qp_state_machine
<1>14. ASSUME NEW p \in Procs, NEW w \in Wrs, PostSend(p, w)
      PROVE  FreshSq'
  BY <1>14 DEF PostSend, Types, TypePost, TypeSend, TableInd, FreshSq, Goto, TypeQps, Sqs,
     bxroce_qp_state_machine
<1>15. CASE UNCHANGED <<qp, pc, sq>>
  BY <1>15 DEF FreshSq
<1> QED
  BY <1>1, <1>2, <1>3, <1>4, <1>5, <1>6, <1>7, <1>8, <1>9, <1>10, <1>11, <1>12, <1>13,
     <1>14, <1>15, Cases, Frames DEF vars

\* The pointers at each place of a post.
LEMMA PointersStep ==
  ASSUME TableInd, Holder, Selected, FreshSq, Pointers,
         "recycle" \notin Allow, "refused" \notin Allow, [Next]_vars
  PROVE  Pointers'
<1>1. ASSUME NEW p \in Procs, Check(p)
      PROVE  Pointers'
  <2>1. dev' = dev
    BY <1>1 DEF Check
  <2>2. \A q \in Procs : dev[q].wp \in Nat /\ sq[q].head \in Nat
    BY Fields, Around DEF TableInd, Types, TypeSend
  <2> QED
    BY <1>1, <2>1, <2>2, CheckDoes DEF TableInd, Pointers, Waiting, Writing
<1>2. ASSUME NEW p \in Procs, Lock(p)
      PROVE  Pointers'
  BY <1>2 DEF Lock, Types, TypePost, TypeSend, TableInd, Pointers, Selected, Goto, Waiting,
     Writing, Window
<1>3. ASSUME NEW p \in Procs, Select(p)
      PROVE  Pointers'
  BY <1>3 DEF Select, Types, TypePost, TypeSend, TableInd, Pointers, Selected, Goto,
     Waiting, Writing, Window
<1>4. ASSUME NEW p \in Procs, Read(p)
      PROVE  Pointers'
  <2>1. dev' = dev /\ op' = op /\ op[p] = "reset"
    BY <1>4 DEF Read, TableInd, Divides
  <2> QED
    BY <1>4, <2>1, ReadDoes DEF TableInd, Pointers, Waiting, Writing
<1>5. ASSUME NEW p \in Procs, Fill(p)
      PROVE  Pointers'
  BY <1>5 DEF Fill, Types, TypePost, TypeSend, TableInd, Pointers, Selected, Goto, Waiting,
     Writing, Window
<1>6. ASSUME NEW p \in Procs, Commit(p)
      PROVE  Pointers'
  <2>1. sq' = sq /\ op' = op /\ op[p] \in {"reset", "ring"} /\ sq[p].head \in Nat
    BY <1>6, Fields, Around DEF Commit, Goto, Selected, Window, TableInd, Types, TypeSend
  <2>2. pc[p] = "commit" /\ dev[p].rp \in Nat /\ dev[p].wp \in Nat
    BY <1>6, Fields, Around DEF Commit, Goto, TableInd, Types, TypeSend
  <2> QED
    BY <1>6, <2>1, <2>2, CommitDoes DEF TableInd, Pointers, Waiting, Writing
<1>7. ASSUME NEW p \in Procs, Unlock(p)
      PROVE  Pointers'
  BY <1>7 DEF Unlock, Types, TypePost, TypeSend, TableInd, Pointers, Selected, Goto,
     Waiting, Writing, Window
<1>8. ASSUME NEW p \in Procs, Poll(p)
      PROVE  Pointers'
  BY <1>8, PollKeeps DEF TableInd, Poll, Pointers
<1>9. ASSUME NEW p \in Procs, DevSend(p)
      PROVE  Pointers'
  <2>1. pc' = pc /\ op' = op /\ dev[p].rp <= dev[p].wp
    BY <1>9 DEF DevSend, Pointers
  <2>2. \A q \in Procs : dev[q].rp \in Nat /\ dev[q].wp \in Nat /\ sq[q].head \in Nat
    BY Fields, Around DEF TableInd, Types, TypeSend
  <2> QED
    BY <1>9, <2>1, <2>2, DevSendDoes DEF TableInd, Pointers
<1>10. ASSUME NEW p \in Procs, Die(p)
      PROVE  Pointers'
  BY <1>10 DEF Die, Types, TypePost, TypeSend, TableInd, Pointers, Selected, Goto, Waiting,
     Writing, Window
<1>11. ASSUME NEW p \in Procs, NEW f \in {"no", "kernel", "queues", "regs"}, CreateQp(p, f)
      PROVE  Pointers'
  BY <1>11, CreateKeeps DEF TableInd, CreateQp, Pointers
<1>12. ASSUME NEW p \in Procs, NEW s \in {"RST", "INIT", "RTR", "RTS", "ERR"}, ModifyQp(p, s)
      PROVE  Pointers'
  BY <1>12, ModifyKeeps DEF TableInd, ModifyQp, Pointers
<1>13. ASSUME NEW p \in Procs, NEW w \in Wrs, PostSend(p, w)
      PROVE  Pointers'
  BY <1>13 DEF PostSend, Types, TypePost, TypeSend, TableInd, Pointers, Selected, Goto,
     Waiting, Writing, Window
<1>14. CASE UNCHANGED <<pc, op, sq, dev>>
  BY <1>14 DEF Pointers
<1> QED
  BY <1>1, <1>2, <1>3, <1>4, <1>5, <1>6, <1>7, <1>8, <1>9, <1>10, <1>11, <1>12, <1>13,
     <1>14, Cases, Frames DEF vars

\* The entries that a post builds carry the numbers that follow.
LEMMA FilledIds ==
  ASSUME TableInd, NEW p \in Procs, NEW i \in Places, sq[p].head + Count(wr[p]) < N
  PROVE  IF i \in sq[p].head .. (sq[p].head + Count(wr[p]) - 1)
         THEN Filled(p)[i].id = nwqe[p] + i - sq[p].head + 1
         ELSE Filled(p)[i] = sq[p].slot[i]
<1> DEFINE n == nwqe[p] + i - sq[p].head + 1
<1>1. Filled(p)[i] = IF i \notin sq[p].head .. (sq[p].head + Count(wr[p]) - 1) THEN sq[p].slot[i]
                        ELSE IF wr[p].kind = "imm" THEN bxroce_prepare_send_wqe(wr[p], n)
                        ELSE bxroce_prepare_write_wqe(wr[p], n, cache[p])
  BY DEF Filled, Places
<1> HIDE DEF n
<1>2. /\ bxroce_prepare_send_wqe(wr[p], n).id = n
      /\ bxroce_prepare_write_wqe(wr[p], n, cache[p]).id = n
  BY DEF bxroce_prepare_send_wqe, bxroce_prepare_write_wqe, NoWqe
<1>3. n = nwqe[p] + i - sq[p].head + 1
  BY DEF n
<1> QED
  BY <1>1, <1>2, <1>3

\* What has been built and not executed stays in its place.
LEMMA PlacedStep ==
  ASSUME TableInd, Holder, Selected, FreshSq, Pointers, Placed,
         "recycle" \notin Allow, "refused" \notin Allow, [Next]_vars
  PROVE  Placed'
<1>1. ASSUME NEW p \in Procs, Check(p)
      PROVE  Placed'
  <2>1. dev' = dev /\ nexec' = nexec /\ dev[p].wp = sq[p].head /\ pc[p] = "check"
    BY <1>1 DEF Check, Pointers
  <2>2. /\ dev[p].rp \in Nat /\ sq[p].head \in Nat /\ nwqe[p] \in Nat /\ nexec[p] \in Nat
        /\ dev[p].rp <= sq[p].head
    BY <2>1, Fields, Around DEF TableInd, Types, TypeSend, Pointers
  <2>3. nwqe[p] + dev[p].rp = nexec[p] + sq[p].head
    BY <2>1 DEF Placed, Writing
  <2>4. ASSUME sq[p].head + Count(wr[p]) < N, Count(wr[p]) \in Nat \ {0},
               sq'[p].head = sq[p].head + Count(wr[p]), sq'[p].slot = Filled(p),
               NEW i \in dev[p].rp .. (sq'[p].head - 1)
        PROVE  sq'[p].slot[i].id = nexec[p] + (i - dev[p].rp) + 1
    <3>1. i \in Places /\ i \in Nat
      BY <2>2, <2>4, Sizes
    <3>2. CASE i < sq[p].head
      <4>1. i \in dev[p].rp .. (sq[p].head - 1)
        BY <2>2, <3>1, <3>2
      <4>2. sq'[p].slot[i] = sq[p].slot[i]
        BY <2>2, <2>4, <3>1, <3>2, FilledIds
      <4> QED
        BY <4>1, <4>2 DEF Placed
    <3>3. CASE i >= sq[p].head
      <4>1. i \in sq[p].head .. (sq[p].head + Count(wr[p]) - 1)
        BY <2>2, <2>4, <3>1, <3>3
      <4>2. sq'[p].slot[i].id = nwqe[p] + i - sq[p].head + 1
        BY <2>4, <3>1, <4>1, FilledIds
      <4> QED
        BY <2>2, <2>3, <3>1, <4>2
    <3> QED
      BY <2>2, <3>1, <3>2, <3>3
  <2>5. \A i \in dev[p].rp .. (sq'[p].head - 1) :
           sq'[p].slot[i].id = nexec[p] + (i - dev[p].rp) + 1
    <3>1. ASSUME sq'[p].head = sq[p].head,
                 \A i \in Places : sq'[p].slot[i] = IF i = sq[p].head THEN NoWqe ELSE sq[p].slot[i],
                 NEW i \in dev[p].rp .. (sq'[p].head - 1)
          PROVE  sq'[p].slot[i].id = nexec[p] + (i - dev[p].rp) + 1
      <4>1. i \in Places /\ i # sq[p].head /\ i \in dev[p].rp .. (sq[p].head - 1)
        BY <2>2, <3>1, Fields, Around, Sizes DEF TableInd, Types, TypeSend
      <4> QED
        BY <3>1, <4>1 DEF Placed
    <3> QED
      BY <1>1, <2>4, <3>1, CheckDoes DEF Placed
  <2>6. /\ ~(op'[p] = "reset" /\ pc'[p] \in Writing)
        /\ nwqe'[p] + dev[p].rp = nexec[p] + sq'[p].head
    BY <1>1, <2>2, <2>3, CheckDoes DEF Writing
  <2>7. \A q \in Procs \ {p} : /\ sq'[q] = sq[q] /\ nwqe'[q] = nwqe[q]
                             /\ pc'[q] = pc[q] /\ op'[q] = op[q]
    BY <1>1, CheckDoes
  <2> QED
    BY <2>1, <2>5, <2>6, <2>7 DEF Placed
<1>2. ASSUME NEW p \in Procs, Lock(p)
      PROVE  Placed'
  BY <1>2 DEF Lock, Types, TypePost, TypeSend, TableInd, Placed, Selected, Goto, Writing
<1>3. ASSUME NEW p \in Procs, Select(p)
      PROVE  Placed'
  BY <1>3 DEF Select, Types, TypePost, TypeSend, TableInd, Placed, Selected, Goto, Writing
<1>4. ASSUME NEW p \in Procs, Read(p)
      PROVE  Placed'
  <2>1. dev' = dev /\ op' = op /\ op[p] = "reset" /\ nwqe' = nwqe /\ nexec' = nexec
    BY <1>4 DEF Read, TableInd, Divides
  <2>2. /\ dev[p].rp \in Nat /\ nwqe[p] \in Nat /\ nexec[p] \in Nat /\ pc[p] = "read"
        /\ dev[p].wp = sq[p].head
    BY <1>4, <2>1, Fields, Around DEF Read, TableInd, Types, TypeSend, Pointers, Waiting
  <2>3. nwqe[p] + dev[p].rp = nexec[p] + sq[p].head
    BY <2>2 DEF Placed, Writing
  <2>4. dev[p].rp = dev[p].wp => nwqe[p] = nexec[p]
    BY <2>2, <2>3
  <2>5. \A q \in Procs \ {p} : sq'[q] = sq[q] /\ pc'[q] = pc[q]
    BY <1>4, ReadDoes DEF TableInd
  <2>6. \/ sq'[p].head = 0 /\ pc'[p] = "fill" /\ dev[p].rp = dev[p].wp
        \/ sq' = sq /\ pc'[p] = "unlock"
    BY <1>4, ReadDoes DEF TableInd
  <2>7. CASE sq' = sq /\ pc'[p] = "unlock"
    BY <2>1, <2>2, <2>3, <2>5, <2>7 DEF Placed, Writing
  <2>8. CASE sq'[p].head = 0 /\ pc'[p] = "fill" /\ dev[p].rp = dev[p].wp
    <3>1. dev[p].rp .. (sq'[p].head - 1) = {}
      BY <2>2, <2>8
    <3> QED
      BY <2>1, <2>4, <2>5, <2>8, <3>1 DEF Placed, Writing
  <2> QED
    BY <2>6, <2>7, <2>8
<1>5. ASSUME NEW p \in Procs, Fill(p)
      PROVE  Placed'
  BY <1>5 DEF Fill, Types, TypePost, TypeSend, TableInd, Placed, Selected, Goto, Writing
<1>6. ASSUME NEW p \in Procs, Commit(p)
      PROVE  Placed'
  <2>1. sq' = sq /\ op' = op /\ nwqe' = nwqe /\ nexec' = nexec
    BY <1>6 DEF Commit
  <2>2. /\ dev[p].rp \in Nat /\ sq[p].head \in Nat /\ nwqe[p] \in Nat /\ nexec[p] \in Nat
        /\ pc[p] = "commit"
    BY <1>6, Fields, Around DEF Commit, Goto, TableInd, Types, TypeSend
  <2>3. op[p] = "reset" => sq[p].head = 0 /\ nwqe[p] = nexec[p]
    BY <2>2 DEF Pointers, Placed, Writing
  <2>4. /\ \A q \in Procs \ {p} : dev'[q] = dev[q] /\ pc'[q] = pc[q]
        /\ pc'[p] = "unlock" /\ dev'[p].rp = IF op[p] = "reset" THEN sq[p].head ELSE dev[p].rp
    BY <1>6, CommitDoes DEF TableInd
  <2>5. CASE op[p] = "reset"
    <3>1. dev'[p].rp .. (sq[p].head - 1) = {}
      BY <2>2, <2>3, <2>4, <2>5
    <3> QED
      BY <2>1, <2>2, <2>3, <2>4, <2>5, <3>1 DEF Placed, Writing
  <2>6. CASE op[p] # "reset"
    BY <2>1, <2>2, <2>4, <2>6 DEF Placed, Writing
  <2> QED
    BY <2>5, <2>6
<1>7. ASSUME NEW p \in Procs, Unlock(p)
      PROVE  Placed'
  BY <1>7 DEF Unlock, Types, TypePost, TypeSend, TableInd, Placed, Selected, Goto, Writing
<1>8. ASSUME NEW p \in Procs, Poll(p)
      PROVE  Placed'
  BY <1>8, PollKeeps DEF TableInd, Poll, Placed
<1>9. ASSUME NEW p \in Procs, DevSend(p)
      PROVE  Placed'
  <2>1. pc' = pc /\ op' = op /\ nwqe' = nwqe /\ dev[p].rp # dev[p].wp /\ dev[p].rp <= dev[p].wp
    BY <1>9 DEF DevSend, Pointers
  <2>2. /\ dev[p].rp \in Nat /\ dev[p].wp \in Nat /\ sq[p].head \in Nat /\ sq[p].head < N
        /\ nwqe[p] \in Nat /\ nexec[p] \in Nat
    BY Fields, Around DEF TableInd, Types, TypeSend
  <2>3. /\ \A q \in Procs \ {p} : sq'[q] = sq[q] /\ dev'[q] = dev[q] /\ nexec'[q] = nexec[q]
        /\ dev'[p].rp = dev[p].rp + 1 /\ nexec'[p] = nexec[p] + 1 /\ sq'[p].head = sq[p].head
        /\ \A i \in Places : sq'[p].slot[i] = IF i = dev[p].rp THEN NoWqe ELSE sq[p].slot[i]
    BY <1>9, <2>1, DevSendDoes DEF TableInd
  <2>4. ASSUME NEW i \in (dev[p].rp + 1) .. (sq[p].head - 1)
        PROVE  sq'[p].slot[i].id = nexec[p] + 1 + (i - (dev[p].rp + 1)) + 1
    <3>1. i \in Places /\ i # dev[p].rp /\ i \in dev[p].rp .. (sq[p].head - 1) /\ i \in Int
      BY <2>2, Sizes
    <3>2. sq[p].slot[i].id = nexec[p] + (i - dev[p].rp) + 1
      BY <3>1 DEF Placed
    <3>3. sq'[p].slot[i] = sq[p].slot[i]
      BY <2>3, <3>1
    <3> QED
      BY <2>2, <3>1, <3>2, <3>3
  <2>5. ~(op[p] = "reset" /\ pc[p] \in Writing)
    BY <2>1 DEF Pointers
  <2>6. pc[p] # "dead" => nwqe[p] + (dev[p].rp + 1) = nexec[p] + 1 + sq[p].head
    BY <2>2, <2>5 DEF Placed
  <2> QED
    BY <2>1, <2>3, <2>4, <2>5, <2>6 DEF Placed
<1>10. ASSUME NEW p \in Procs, Die(p)
      PROVE  Placed'
  BY <1>10 DEF Die, Types, TypePost, TypeSend, TableInd, Placed, Selected, Goto, Writing
<1>11. ASSUME NEW p \in Procs, NEW f \in {"no", "kernel", "queues", "regs"}, CreateQp(p, f)
      PROVE  Placed'
  BY <1>11, CreateKeeps DEF TableInd, CreateQp, Placed
<1>12. ASSUME NEW p \in Procs, NEW s \in {"RST", "INIT", "RTR", "RTS", "ERR"}, ModifyQp(p, s)
      PROVE  Placed'
  BY <1>12, ModifyKeeps DEF TableInd, ModifyQp, Placed
<1>13. ASSUME NEW p \in Procs, NEW w \in Wrs, PostSend(p, w)
      PROVE  Placed'
  BY <1>13 DEF PostSend, Types, TypePost, TypeSend, TableInd, Placed, Selected, Goto,
     Writing
<1>14. CASE UNCHANGED <<pc, op, sq, dev, nwqe, nexec>>
  BY <1>14 DEF Placed
<1> QED
  BY <1>1, <1>2, <1>3, <1>4, <1>5, <1>6, <1>7, <1>8, <1>9, <1>10, <1>11, <1>12, <1>13,
     <1>14, Cases, Frames DEF vars

\* The program starts in the invariant.
LEMMA OrderInit ==
  ASSUME Init
  PROVE  OrderInd
<1>1. \A p \in Procs : /\ sq[p].head = 0 /\ dev[p].rp = 0 /\ dev[p].wp = 0 /\ pc[p] = "idle"
                       /\ nwqe[p] = 0 /\ nexec[p] = 0
  BY DEF Init
<1>2. Holder /\ Selected
  BY <1>1, Sizes DEF Init, Holder, Selected, Window
<1>3. Pointers
  BY <1>1 DEF Pointers, Waiting, Writing
<1>4. Placed
  <2>1. 0..(0 - 1) = {}
    OBVIOUS
  <2> QED
    BY <1>1, <2>1 DEF Placed, Writing
<1>5. FreshSq
  BY <1>1 DEF FreshSq
<1> QED
  BY TableInit, <1>2, <1>3, <1>4, <1>5 DEF OrderInd

\* Every step keeps it, when all take the lock, no queue pair is recycled and a refused work
\* request leaves the head.
LEMMA OrderInvariant ==
  ASSUME Apart = {}, "recycle" \notin Allow, "refused" \notin Allow
  PROVE  Spec => []OrderInd
<1>1. OrderInd /\ [Next]_vars => OrderInd'
  <2> SUFFICES ASSUME OrderInd, [Next]_vars PROVE OrderInd'
    OBVIOUS
  <2>1. TableInd'
    BY QpsStep, PostStep, SendStep, RecvStep, PeerStep, DividesStep, AskedStep
       DEF OrderInd, TableInd, Types
  <2>2. Holder' /\ Selected'
    BY HolderStep, SelectedStep DEF OrderInd, TableInd
  <2>3. FreshSq' /\ Pointers' /\ Placed'
    BY FreshSqStep, PointersStep, PlacedStep DEF OrderInd
  <2> QED
    BY <2>1, <2>2, <2>3 DEF OrderInd
<1> QED
  BY OrderInit, <1>1, PTL DEF Spec

\* Pointers: whenever no post of a process is under way the device's write pointer of its
\* queue pair is the library's head, whichever processes share the register window and
\* wherever one of them is killed, provided all of them take the lock, no queue pair goes
\* back to RESET (bxroce_modify_qp does not reset the device's pointers) and no work request
\* without an element is refused by the builders (bxroce_build_sges moves the head for it).
THEOREM LibPointers ==
  ASSUME Apart = {}, "recycle" \notin Allow, "refused" \notin Allow
  PROVE  Spec => []PointersAgree
<1>1. OrderInd => PointersAgree
  BY DEF OrderInd, Pointers, PointersAgree
<1> QED
  BY <1>1, OrderInvariant, PTL

\* Order: the device executes every WQE once and in the order of the posts, although the
\* library starts again at the first entry whenever it finds the queue dry, under the same
\* provisos.
THEOREM LibOrder ==
  ASSUME Apart = {}, "recycle" \notin Allow, "refused" \notin Allow
  PROVE  Spec => []InOrder
<1>1. OrderInd => InOrder
  <2> SUFFICES ASSUME OrderInd, NEW p \in Procs, NEW i \in dev[p].rp .. (dev[p].wp - 1)
               PROVE  sq[p].slot[i].id = nexec[p] + (i - dev[p].rp) + 1
    BY DEF InOrder
  <2>1. dev[p].rp \in Nat /\ dev[p].wp \in Nat /\ sq[p].head \in Nat
    BY Fields, Around DEF OrderInd, TableInd, Types, TypeSend
  <2>2. dev[p].wp <= sq[p].head
    BY <2>1 DEF OrderInd, Pointers
  <2>3. i \in dev[p].rp .. (sq[p].head - 1)
    BY <2>1, <2>2
  <2> QED
    BY <2>3 DEF OrderInd, Placed
<1> QED
  BY <1>1, OrderInvariant, PTL

-----------------------------------------------------------------------------
(* Receives.                                                               *)

\* One turn at most.
LEMMA Wrap ==
  ASSUME NEW n \in Nat \ {0}, NEW k \in Nat, k < 2 * n
  PROVE  k % n = IF k < n THEN k ELSE k - n
<1>1. k < n => k % n = k
  OBVIOUS
<1>2. ASSUME k >= n PROVE k % n = k - n
  <2>1. k % n \in 0..(n - 1) /\ k \div n \in Int
    OBVIOUS
  <2>2. k = n * (k \div n) + (k % n)
    BY Z3
  <2>3. PICK s \in 0..(n - 1), d \in Int : s = k % n /\ k = n * d + s
    BY <2>1, <2>2
  <2>4. CASE d <= 0
    <3>1. n * d <= 0
      BY <2>4
    <3> QED
      BY <3>1, <2>3, <1>2
  <2>5. CASE d >= 2
    <3>1. n * d >= 2 * n
      BY <2>5
    <3> QED
      BY <3>1, <2>3
  <2>6. CASE d = 1
    BY <2>3, <2>6
  <2> QED
    BY <2>4, <2>5, <2>6
<1> QED
  BY <1>1, <1>2

\* Places from a tail on: where they start, the next one, and that N of them differ.
LEMMA FromTail ==
  ASSUME NEW t \in Places, NEW j \in Nat, j <= N
  PROVE  /\ (t + 0) % N = t
         /\ (t + j) % N \in Places
         /\ j < N => (((t + j) % N) + 1) % N = (t + (j + 1)) % N
         /\ \A i \in Nat : i < j /\ j < i + N => (t + i) % N # (t + j) % N
<1>1. t \in Nat /\ t < N /\ N \in Nat \ {0}
  BY Around, Sizes
<1>2. \A k \in Nat : k < 2 * N => k % N = IF k < N THEN k ELSE k - N
  BY <1>1, Wrap
<1>3. (t + 0) % N = t /\ (t + j) % N \in Places
  BY <1>1, <1>2, Around
<1>4. ASSUME j < N
      PROVE  (((t + j) % N) + 1) % N = (t + (j + 1)) % N
  <2>1. PICK a \in Nat : a = t + j
    BY <1>1
  <2>2. t + (j + 1) = a + 1 /\ a + 1 < 2 * N /\ a < 2 * N
    BY <1>1, <1>4, <2>1
  <2>3. a % N = (IF a < N THEN a ELSE a - N) /\ (a + 1) % N = IF a + 1 < N THEN a + 1 ELSE a + 1 - N
    <3>1. PICK b \in Nat : b = a + 1
      OBVIOUS
    <3>2. b % N = IF b < N THEN b ELSE b - N
      BY <1>2, <2>2, <3>1
    <3>3. a % N = IF a < N THEN a ELSE a - N
      BY <1>2, <2>2
    <3> QED
      BY <1>1, <3>1, <3>2, <3>3
  <2>4. ((a % N) + 1) % N = (a + 1) % N
    <3>1. CASE a < N
      BY <2>3, <3>1
    <3>2. CASE a >= N
      <4>1. PICK b \in Nat : b = a - N /\ b + 1 < N
        BY <1>1, <1>4, <2>1, <3>2
      <4>2. (b + 1) % N = b + 1
        BY <1>1, <4>1
      <4> QED
        BY <1>1, <2>3, <3>2, <4>1, <4>2
    <3> QED
      BY <1>1, <3>1, <3>2
  <2> QED
    BY <2>1, <2>2, <2>4
<1>5. ASSUME NEW i \in Nat, i < j, j < i + N
      PROVE  (t + i) % N # (t + j) % N
  <2>1. PICK a \in Nat, b \in Nat : a = t + i /\ b = t + j
    BY <1>1
  <2>2. a < b /\ b < a + N /\ b < 2 * N
    BY <1>1, <1>5, <2>1
  <2>3. a % N = (IF a < N THEN a ELSE a - N) /\ b % N = IF b < N THEN b ELSE b - N
    BY <1>1, <1>2, <2>2
  <2> QED
    BY <1>1, <2>1, <2>2, <2>3
<1> QED
  BY <1>3, <1>4, <1>5

\* Places from a tail that has moved, and how far a place is from the tail.
LEMMA FromMoved ==
  ASSUME NEW t \in Places, NEW d \in Nat, NEW j \in Nat, d + j <= N
  PROVE  /\ (t + d) % N \in Places
         /\ (((t + d) % N) + j) % N = (t + (d + j)) % N
         /\ d + j < N => (((t + (d + j)) % N) + N - t) % N = d + j
<1>1. t \in Nat /\ t < N /\ N \in Nat \ {0}
  BY Around, Sizes
<1>2. \A k \in Nat : k < 2 * N => k % N = IF k < N THEN k ELSE k - N
  BY <1>1, Wrap
<1>3. PICK a \in Nat, b \in Nat : a = t + d /\ b = t + (d + j)
  BY <1>1
<1>4. a <= b /\ b = a + j /\ b < 2 * N /\ a < 2 * N
  BY <1>1, <1>3
<1>5. a % N = (IF a < N THEN a ELSE a - N) /\ b % N = IF b < N THEN b ELSE b - N
  BY <1>2, <1>4
<1>6. a % N \in Places
  BY Around
<1>7. ((a % N) + j) % N = b % N
  <2>1. CASE a < N
    BY <1>4, <1>5, <2>1
  <2>2. CASE a >= N
    <3>1. PICK c \in Nat : c = a - N + j
      BY <1>1, <1>4, <2>2
    <3>2. c < N /\ b = c + N
      BY <1>1, <1>4, <2>2, <3>1
    <3>3. c % N = c
      BY <1>1, <3>2
    <3>4. b % N = c
      BY <1>1, <1>5, <3>2
    <3> QED
      BY <1>1, <1>5, <2>2, <3>1, <3>3, <3>4
  <2> QED
    BY <1>1, <2>1, <2>2
<1>8. ASSUME d + j < N
      PROVE  ((b % N) + N - t) % N = d + j
  <2>1. CASE b < N
    <3>1. PICK c \in Nat : c = b + N - t
      BY <1>1, <2>1
    <3>2. c = d + j + N /\ c < 2 * N /\ c >= N
      BY <1>1, <1>3, <1>8, <3>1
    <3>3. c % N = d + j
      BY <1>1, <1>2, <3>2
    <3> QED
      BY <1>5, <2>1, <3>1, <3>3
  <2>2. CASE b >= N
    <3>1. b - N + N - t = d + j
      BY <1>1, <1>3
    <3>2. PICK c \in Nat : c = d + j /\ c < N
      BY <1>8
    <3>3. c % N = c
      BY <1>1, <3>2
    <3> QED
      BY <1>1, <1>5, <2>2, <3>1, <3>2, <3>3
  <2> QED
    BY <1>1, <2>1, <2>2
<1> QED
  BY <1>3, <1>6, <1>7, <1>8

\* What the number of the next completion is taken to stand for is what lies between it and
\* the one polled last.
LEMMA DueIs ==
  ASSUME Types, Counting, NEW p \in Procs, rx[p] # <<>>, qp_tbl[p] = "live", ~DividesByZero(p)
  PROVE  /\ Due(p) = rx[p][1].upto - nrep[p] /\ Due(p) \in Nat \ {0}
         /\ Head(rx[p]) = rx[p][1] /\ rx[p][1] \in Rxs /\ 1 \in 1..Len(rx[p])
<1>1. /\ rx[p] \in Seq(Rxs) /\ rq[p].overhead \in Nat /\ rq[p].phase \in {0, 1}
      /\ nrep[p] \in Int
  BY Fields DEF Types, TypeRecv
<1>2. Head(rx[p]) = rx[p][1] /\ rx[p][1] \in Rxs /\ 1 \in 1..Len(rx[p])
  BY <1>1
<1>3. PICK l \in Nat, u \in Nat : l = rx[p][1].lo /\ u = rx[p][1].upto
  BY <1>2 DEF Rxs
<1>4. Follows(Polled(p), rx[p][1])
  <2>1. PICK k \in 1..Len(rx[p]) : k = 1
    BY <1>2
  <2>2. Follows(Entry(Polled(p), rx[p], k - 1), rx[p][k])
    BY DEF Counting, Chain
  <2>3. k - 1 = 0
    BY <2>1
  <2> QED
    BY <2>1, <2>2, <2>3 DEF Entry
<1>5. /\ nrep[p] < u
      /\ l = 0 => u = nrep[p] + 1
      /\ l # 0 => /\ l > rq[p].overhead
                 /\ u - nrep[p] = (l - rq[p].overhead) + IF rq[p].overhead = 0 THEN 1 ELSE 0
  BY <1>3, <1>4 DEF Follows, Polled
<1>6. l # 0 => rq[p].phase = 1
  BY <1>1, <1>2, <1>3 DEF DividesByZero
<1>7. num_rx_left(rq[p], l) = u - nrep[p]
  <2>1. CASE l = 0
    BY <1>1, <1>3, <1>5, <2>1 DEF num_rx_left
  <2>2. CASE l # 0
    <3>1. PICK x \in Nat : x = l - rq[p].overhead
      BY <1>1, <1>5, <2>2
    <3>2. x \div 1 = x
      BY <3>1
    <3> QED
      BY <1>1, <1>5, <1>6, <2>2, <3>1, <3>2 DEF num_rx_left
  <2> QED
    BY <2>1, <2>2
<1>8. Due(p) = u - nrep[p]
  BY <1>2, <1>3, <1>7 DEF Due
<1> QED
  BY <1>1, <1>2, <1>3, <1>5, <1>8

\* A poll hands out the receives of the next completion, if there is one.
LEMMA PollRecvDoes ==
  ASSUME Types, Counting, NEW p \in Procs, Poll(p)
  PROVE  /\ \A q \in Procs \ {p} : rq'[q] = rq[q] /\ rx'[q] = rx[q] /\ nrep'[q] = nrep[q]
         /\ \/ rq' = rq /\ rx' = rx /\ nrep' = nrep
            \/ /\ rx[p] # <<>> /\ rx'[p] = Tail(rx[p]) /\ rx[p][1] \in Rxs
               /\ nrep'[p] = rx[p][1].upto /\ Due(p) = rx[p][1].upto - nrep[p]
               /\ Due(p) \in Nat \ {0}
               /\ rq'[p].tail = (rq[p].tail + Due(p)) % N
               /\ rq'[p].head = rq[p].head /\ rq'[p].foe = rq[p].foe
               /\ rq'[p].overhead = rx[p][1].lo
               /\ rq'[p].phase = IF rx[p][1].lo = 0 THEN 1 ELSE rq[p].phase
               /\ rx[p][1].lo # 0 => rq[p].phase = 1
               /\ \A i \in Places :
                    rq'[p].slot[i] = IF (i + N - rq[p].tail) % N < Due(p) THEN 0 ELSE rq[p].slot[i]
<1>1. /\ rq \in [Procs -> Rqs] /\ rx \in [Procs -> Seq(Rxs)] /\ nrep \in [Procs -> Int]
      /\ qp_tbl[p] = "live"
  BY DEF Types, TypeRecv, Poll
<1>2. CASE PollEnd(p)
  BY <1>2 DEF PollEnd
<1>3. ASSUME NEW n, PollRound(p, n)
      PROVE  /\ ~DividesByZero(p) /\ nrep' = [nrep EXCEPT ![p] = nrep[p] + Due(p)]
             /\ rx[p] = <<>> => rx' = rx /\ rq' = rq
             /\ rx[p] # <<>> =>
                  /\ rx' = [rx EXCEPT ![p] = Tail(rx[p])]
                  /\ rq' = [rq EXCEPT ![p] = Counted(bxroce_poll_rcqe(rq[p], Due(p)), Head(rx[p]).lo)]
  BY <1>3 DEF PollRound
<1>4. ASSUME NEW q \in Rqs, NEW d, NEW l
      PROVE  LET r == Counted(bxroce_poll_rcqe(q, d), l)
             IN  /\ r.tail = (q.tail + d) % N /\ r.head = q.head /\ r.foe = q.foe
                 /\ r.overhead = l /\ r.phase = IF l = 0 THEN 1 ELSE q.phase
                 /\ \A i \in Places : r.slot[i] = IF (i + N - q.tail) % N < d THEN 0 ELSE q.slot[i]
  BY DEF Counted, bxroce_poll_rcqe, Rqs, Places
<1>5. CASE rx[p] = <<>> /\ ~PollEnd(p)
  <2>1. Due(p) = 0
    BY <1>5 DEF Due
  <2>2. nrep' = nrep /\ rx' = rx /\ rq' = rq
    BY <1>1, <1>3, <1>5, <2>1 DEF Poll
  <2> QED
    BY <2>2
<1>6. CASE rx[p] # <<>>
  <2>1. ~PollEnd(p)
    BY <1>6 DEF PollEnd
  <2>2. /\ ~DividesByZero(p) /\ nrep' = [nrep EXCEPT ![p] = nrep[p] + Due(p)]
        /\ rx' = [rx EXCEPT ![p] = Tail(rx[p])]
        /\ rq' = [rq EXCEPT ![p] = Counted(bxroce_poll_rcqe(rq[p], Due(p)), Head(rx[p]).lo)]
    BY <1>3, <1>6, <2>1 DEF Poll
  <2>3. /\ Due(p) = rx[p][1].upto - nrep[p] /\ Due(p) \in Nat \ {0}
        /\ Head(rx[p]) = rx[p][1] /\ rx[p][1] \in Rxs /\ rx[p][1].upto \in Nat
    BY <1>1, <1>6, <2>2, DueIs DEF Rxs
  <2>4. nrep'[p] = rx[p][1].upto
    BY <1>1, <2>2, <2>3
  <2>5. rx[p][1].lo # 0 => rq[p].phase = 1
    BY <1>1, <1>6, <2>2, <2>3, Fields DEF DividesByZero
  <2>6. rq'[p] = Counted(bxroce_poll_rcqe(rq[p], Due(p)), rx[p][1].lo) /\ rx'[p] = Tail(rx[p])
    BY <1>1, <2>2, <2>3
  <2>7. \A q \in Procs \ {p} : rq'[q] = rq[q] /\ rx'[q] = rx[q] /\ nrep'[q] = nrep[q]
    BY <1>1, <2>2
  <2> QED
    BY <1>1, <1>4, <1>6, <2>3, <2>4, <2>5, <2>6, <2>7
<1> QED
  BY <1>2, <1>5, <1>6

\* Posting a receive fills the entry at the head and tells the device.
LEMMA PostRecvDoes ==
  ASSUME Types, NEW p \in Procs, PostRecv(p)
  PROVE  /\ \A q \in Procs \ {p} : rq'[q] = rq[q] /\ rdev'[q] = rdev[q] /\ nrqe'[q] = nrqe[q]
         /\ rq'[p].head = (rq[p].head + 1) % N /\ rq'[p].tail = rq[p].tail
         /\ rq'[p].foe = IF (rq[p].head + 1) % N = rq[p].tail THEN "FULL" ELSE rq[p].foe
         /\ \A i \in Places : rq'[p].slot[i] = IF i = rq[p].head THEN nrqe[p] + 1 ELSE rq[p].slot[i]
         /\ rdev'[p].wp = (rq[p].head + 1) % N
         /\ rdev'[p].n = rdev[p].n + ((rq[p].head + 1 + N - rdev[p].wp) % N)
         /\ rdev'[p].lo = rdev[p].lo /\ nrqe'[p] = nrqe[p] + 1
         /\ \A q \in Procs : rq'[q].overhead = rq[q].overhead /\ rq'[q].phase = rq[q].phase
<1>1. /\ rq \in [Procs -> Rqs] /\ rdev \in [Procs -> Rdevs] /\ nrqe \in [Procs -> Nat]
      /\ rq[p] \in Rqs /\ rq[p].head \in Places /\ nrqe[p] + 1 \in Nat
  BY Fields DEF Types, TypeRecv
<1>2. PICK q \in Rqs : q = [rq[p] EXCEPT !.slot[rq[p].head] = nrqe[p] + 1]
  BY <1>1, Updates
<1>3. /\ q.head = rq[p].head /\ q.tail = rq[p].tail /\ q.foe = rq[p].foe
      /\ \A i \in Places : q.slot[i] = IF i = rq[p].head THEN nrqe[p] + 1 ELSE rq[p].slot[i]
      /\ q.overhead = rq[p].overhead /\ q.phase = rq[p].phase
  BY <1>1, <1>2 DEF Rqs
<1>4. LET r == bxroce_update_rq_head(q)
      IN  /\ r.head = (q.head + 1) % N /\ r.tail = q.tail /\ r.slot = q.slot
          /\ r.foe = IF (q.head + 1) % N = q.tail THEN "FULL" ELSE q.foe
          /\ r.overhead = q.overhead /\ r.phase = q.phase
  BY DEF bxroce_update_rq_head, Rqs
<1>5. /\ rq' = [rq EXCEPT ![p] = bxroce_update_rq_head(q)]
      /\ rdev' = [rdev EXCEPT ![p] = bxroce_ring_rq_hw(rq[p], rdev[p])]
      /\ nrqe' = [nrqe EXCEPT ![p] = nrqe[p] + 1]
  BY <1>2 DEF PostRecv
<1>6. rq'[p] = bxroce_update_rq_head(q) /\ rdev'[p] = bxroce_ring_rq_hw(rq[p], rdev[p])
  BY <1>1, <1>5
<1>7. /\ bxroce_ring_rq_hw(rq[p], rdev[p]).wp = (rq[p].head + 1) % N
      /\ bxroce_ring_rq_hw(rq[p], rdev[p]).lo = rdev[p].lo
      /\ bxroce_ring_rq_hw(rq[p], rdev[p]).n = rdev[p].n + ((rq[p].head + 1 + N - rdev[p].wp) % N)
  <2>1. rdev[p] \in Rdevs
    BY <1>1
  <2> QED
    BY <2>1 DEF bxroce_ring_rq_hw, Rdevs
<1>8. \A r \in Procs \ {p} : rq'[r] = rq[r] /\ rdev'[r] = rdev[r] /\ nrqe'[r] = nrqe[r]
  BY <1>1, <1>5
<1>9. nrqe'[p] = nrqe[p] + 1
  BY <1>1, <1>5
<1> QED
  BY <1>3, <1>4, <1>6, <1>7, <1>8, <1>9

\* A change of state leaves the receives of a queue pair, without recycling.
LEMMA ModifyRecvKeeps ==
  ASSUME Types, FreshRq, NEW p \in Procs, NEW s, ModifyQp(p, s), NEW q \in Procs
  PROVE  /\ rq'[q].head = rq[q].head /\ rq'[q].tail = rq[q].tail
         /\ rq'[q].foe = rq[q].foe /\ rq'[q].slot = rq[q].slot
         /\ rq'[q].overhead = rq[q].overhead /\ rq'[q].phase = rq[q].phase
<1>1. /\ rq' = rq \/ rq' = [rq EXCEPT ![p].head = 0, ![p].tail = 0, ![p].foe = "EMPTY"]
      /\ rq \in [Procs -> Rqs]
  BY DEF ModifyQp, Types, TypeRecv
<1>2. s = "INIT" => rq[p].head = 0 /\ rq[p].tail = 0 /\ rq[p].foe = "EMPTY"
  BY DEF ModifyQp, FreshRq, bxroce_qp_state_machine
<1>3. s # "INIT" => rq' = rq
  BY DEF ModifyQp
<1> QED
  BY <1>1, <1>2, <1>3 DEF Rqs

\* A queue pair that has not been in INIT has no receives.
LEMMA FreshRqStep ==
  ASSUME TableInd, Counting, FreshRq, "recycle" \notin Allow, [Next]_vars
  PROVE  FreshRq'
<1>1. ASSUME NEW p \in Procs, Poll(p)
      PROVE  FreshRq'
  <2>1. qp' = qp /\ rdev' = rdev
    BY <1>1 DEF Poll
  <2> QED
    BY <1>1, <2>1, PollRecvDoes DEF TableInd, FreshRq
<1>2. ASSUME NEW p \in Procs, NEW c \in 1..N, DevRecv(p, c)
      PROVE  FreshRq'
  <2>1. c <= rdev[p].n /\ qp' = qp /\ rq' = rq
    BY <1>2 DEF DevRecv
  <2>2. \A q \in Procs \ {p} : rdev'[q] = rdev[q] /\ rx'[q] = rx[q]
    BY <1>2 DEF DevRecv, TableInd, Types, TypeRecv
  <2>3. qp[p] \notin {"none", "RST"}
    BY <2>1, Sizes DEF FreshRq
  <2> QED
    BY <2>1, <2>2, <2>3 DEF FreshRq
<1>3. ASSUME NEW p \in Procs, DestroyQp(p)
      PROVE  FreshRq'
  BY <1>3 DEF DestroyQp, TableInd, Types, TypeRecv, FreshRq, TypeQps
<1>4. ASSUME NEW p \in Procs, PostRecv(p)
      PROVE  FreshRq'
  <2>1. qp' = qp /\ rx' = rx /\ qp[p] \notin {"none", "RST"}
    BY <1>4 DEF PostRecv
  <2> QED
    BY <1>4, <2>1, PostRecvDoes DEF TableInd, FreshRq
<1>5. ASSUME NEW p \in Procs, NEW f \in {"no", "kernel", "queues", "regs"}, CreateQp(p, f)
      PROVE  FreshRq'
  BY <1>5 DEF CreateQp, TableInd, Types, TypeRecv, FreshRq, TypeQps
<1>6. ASSUME NEW p \in Procs, NEW s \in {"RST", "INIT", "RTR", "RTS", "ERR"}, ModifyQp(p, s)
      PROVE  FreshRq'
  <2>1. rx' = rx /\ rdev' = rdev
    BY <1>6 DEF ModifyQp
  <2>2. \A q \in Procs : qp'[q] \in {"none", "RST"} => qp[q] \in {"none", "RST"}
    BY <1>6 DEF ModifyQp, bxroce_qp_state_machine, TableInd, Types, TypeQps
  <2> QED
    BY <1>6, <2>1, <2>2, ModifyRecvKeeps DEF TableInd, FreshRq
<1>7. CASE UNCHANGED <<qp, rq, rx, rdev>>
  BY <1>7 DEF FreshRq
<1> QED
  BY <1>1, <1>2, <1>3, <1>4, <1>5, <1>6, <1>7, Cases, Frames DEF vars

\* The device counts receives from 0, and again from 0 after a completion that carries 0.
LEMMA DevRecvDoes ==
  ASSUME TableInd, "numbered" \notin Allow, NEW p \in Procs, NEW c \in 1..N, DevRecv(p, c)
  PROVE  /\ \A q \in Procs \ {p} : rdev'[q] = rdev[q] /\ rx'[q] = rx[q] /\ nrecv'[q] = nrecv[q]
         /\ rq' = rq /\ nrep' = nrep /\ nrqe' = nrqe /\ c \in Nat /\ c <= rdev[p].n
         /\ rdev'[p].n = rdev[p].n - c /\ rdev'[p].wp = rdev[p].wp
         /\ nrecv'[p] = nrecv[p] + c
         /\ rdev'[p].lo = IF rdev[p].lo = 0 THEN c - 1 ELSE rdev[p].lo + c
         /\ rx'[p] = Append(rx[p], [lo |-> rdev'[p].lo, upto |-> nrecv'[p]])
         /\ nrecv[p] = 0 => c = 1
<1>1. /\ rdev \in [Procs -> Rdevs] /\ rx \in [Procs -> Seq(Rxs)] /\ nrecv \in [Procs -> Nat]
  BY DEF TableInd, Types, TypeRecv
<1>2. /\ rdev' = [rdev EXCEPT ![p] = [rdev[p] EXCEPT !.n = rdev[p].n - c, !.lo = Number(p, c)]]
      /\ nrecv' = [nrecv EXCEPT ![p] = nrecv[p] + c]
      /\ rx' = [rx EXCEPT ![p] = Append(rx[p], [lo |-> Number(p, c), upto |-> nrecv[p] + c])]
      /\ rq' = rq /\ nrep' = nrep /\ nrqe' = nrqe /\ c <= rdev[p].n
  BY DEF DevRecv
<1>3. Number(p, c) = IF rdev[p].lo = 0 THEN c - 1 ELSE rdev[p].lo + c
  BY DEF Number
<1>4. nrecv[p] = 0 => c = 1
  BY DEF DevRecv
<1>5. /\ rdev'[p].n = rdev[p].n - c /\ rdev'[p].wp = rdev[p].wp /\ rdev'[p].lo = Number(p, c)
  BY <1>1, <1>2 DEF Rdevs
<1>6. nrecv'[p] = nrecv[p] + c
  BY <1>1, <1>2
<1>7. rx'[p] = Append(rx[p], [lo |-> Number(p, c), upto |-> nrecv[p] + c])
  BY <1>1, <1>2
<1> QED
  BY <1>1, <1>2, <1>3, <1>4, <1>5, <1>6, <1>7, Sizes

\* A chain without its first completion, and with one more.
LEMMA ChainTail ==
  ASSUME NEW s \in Seq(Rxs), s # <<>>, NEW a, NEW b, Chain(a, s, b)
  PROVE  Chain(s[1], Tail(s), b)
<1>1. /\ Len(Tail(s)) = Len(s) - 1 /\ Len(s) \in Nat \ {0}
      /\ \A k \in 1..Len(Tail(s)) : Tail(s)[k] = s[k + 1]
  OBVIOUS
<1>2. ASSUME NEW k \in 0..Len(Tail(s)) PROVE Entry(s[1], Tail(s), k) = s[k + 1]
  BY <1>1 DEF Entry
<1>3. ASSUME NEW k \in 1..Len(Tail(s))
      PROVE  Follows(Entry(s[1], Tail(s), k - 1), Tail(s)[k]) /\ Tail(s)[k].upto <= b.upto
  <2>1. k - 1 \in 0..Len(Tail(s)) /\ k + 1 \in 1..Len(s) /\ (k - 1) + 1 = k /\ (k + 1) - 1 = k /\ k # 0
    BY <1>1
  <2>2. Entry(s[1], Tail(s), k - 1) = s[k]
    BY <1>2, <2>1
  <2>3. Follows(Entry(a, s, (k + 1) - 1), s[k + 1]) /\ s[k + 1].upto <= b.upto
    BY <2>1 DEF Chain
  <2> QED
    BY <1>1, <2>1, <2>2, <2>3 DEF Entry
<1>4. Entry(s[1], Tail(s), Len(Tail(s))) = b
  <2>1. Len(Tail(s)) \in 0..Len(Tail(s)) /\ Len(Tail(s)) + 1 = Len(s) /\ Len(s) # 0
    BY <1>1
  <2> QED
    BY <1>2, <2>1 DEF Chain, Entry
<1> QED
  BY <1>3, <1>4 DEF Chain

LEMMA ChainAppend ==
  ASSUME NEW s \in Seq(Rxs), NEW a, NEW b \in Rxs, NEW e \in Rxs, Chain(a, s, b), Follows(b, e)
  PROVE  Chain(a, Append(s, e), e)
<1> DEFINE t == Append(s, e)
<1>1. /\ Len(t) = Len(s) + 1 /\ Len(s) \in Nat /\ t[Len(s) + 1] = e
      /\ \A k \in 1..Len(s) : t[k] = s[k] /\ s[k] \in Rxs
  OBVIOUS
<1> HIDE DEF t
<1>2. ASSUME NEW k \in 0..Len(s) PROVE Entry(a, t, k) = Entry(a, s, k)
  BY <1>1 DEF Entry
<1>3. ASSUME NEW k \in 1..Len(t)
      PROVE  Follows(Entry(a, t, k - 1), t[k]) /\ t[k].upto <= e.upto
  <2>1. CASE k = Len(s) + 1
    <3>1. k - 1 = Len(s) /\ Len(s) \in 0..Len(s)
      BY <1>1, <2>1
    <3>2. Entry(a, t, k - 1) = b
      BY <1>2, <3>1 DEF Chain
    <3>3. e.upto \in Nat
      BY DEF Rxs
    <3> QED
      BY <1>1, <2>1, <3>2, <3>3
  <2>2. CASE k # Len(s) + 1
    <3>1. k \in 1..Len(s) /\ k - 1 \in 0..Len(s)
      BY <1>1, <2>2
    <3>2. Follows(Entry(a, s, k - 1), s[k]) /\ s[k].upto <= b.upto /\ s[k] \in Rxs
      BY <1>1, <3>1 DEF Chain
    <3>3. s[k].upto <= e.upto
      BY <3>2 DEF Follows, Rxs
    <3> QED
      BY <1>1, <1>2, <3>1, <3>2, <3>3
  <2> QED
    BY <2>1, <2>2
<1>4. Entry(a, t, Len(t)) = e
  BY <1>1 DEF Entry
<1> QED
  BY <1>3, <1>4 DEF Chain, t

\* The numbers of the completions tell how many receives each stands for.
LEMMA CountingStep ==
  ASSUME TableInd, FreshRq, Counting, "recycle" \notin Allow, "numbered" \notin Allow, [Next]_vars
  PROVE  Counting'
<1>0. \A p \in Procs : /\ rx[p] \in Seq(Rxs) /\ nrecv[p] \in Nat /\ nrep[p] \in Int
                       /\ rdev[p].lo \in Nat /\ rdev[p].n \in Nat /\ rq[p].overhead \in Nat
                       /\ rq[p].phase \in {0, 1}
  BY Fields DEF TableInd, Types, TypeRecv
<1>1. ASSUME NEW p \in Procs, Poll(p)
      PROVE  Counting'
  <2>1. nrecv' = nrecv /\ rdev' = rdev
    BY <1>1 DEF Poll
  <2>2. CASE rq' = rq /\ rx' = rx /\ nrep' = nrep
    BY <2>1, <2>2 DEF Counting, Polled, Done
  <2>3. CASE /\ rx[p] # <<>> /\ rx'[p] = Tail(rx[p]) /\ rx[p][1] \in Rxs
             /\ nrep'[p] = rx[p][1].upto
             /\ rq'[p].overhead = rx[p][1].lo
             /\ rq'[p].phase = IF rx[p][1].lo = 0 THEN 1 ELSE rq[p].phase
             /\ rx[p][1].lo # 0 => rq[p].phase = 1
             /\ \A q \in Procs \ {p} : rq'[q] = rq[q] /\ rx'[q] = rx[q] /\ nrep'[q] = nrep[q]
    <3>1. Polled(p)' = rx[p][1]
      BY <2>3 DEF Polled, Rxs
    <3>2. Chain(rx[p][1], rx'[p], Done(p))
      BY <1>0, <2>3, ChainTail DEF Counting
    <3>3. nrep'[p] <= nrecv[p] /\ rq'[p].phase = 1
      <4>1. 1 \in 1..Len(rx[p])
        BY <1>0, <2>3
      <4> QED
        BY <1>0, <2>3, <4>1 DEF Counting, Chain, Done
    <3>4. \A q \in Procs : Done(q)' = Done(q)
      BY <2>1 DEF Done
    <3>5. \A q \in Procs \ {p} : Polled(q)' = Polled(q)
      BY <2>3 DEF Polled
    <3> QED
      BY <2>1, <2>3, <3>1, <3>2, <3>3, <3>4, <3>5 DEF Counting
  <2> QED
    BY <1>1, <2>2, <2>3, PollRecvDoes DEF TableInd
<1>2. ASSUME NEW p \in Procs, NEW c \in 1..N, DevRecv(p, c)
      PROVE  Counting'
  <2>1. /\ \A q \in Procs \ {p} : rdev'[q] = rdev[q] /\ rx'[q] = rx[q] /\ nrecv'[q] = nrecv[q]
        /\ rq' = rq /\ nrep' = nrep /\ c \in Nat \ {0}
        /\ nrecv'[p] = nrecv[p] + c
        /\ rx'[p] = Append(rx[p], [lo |-> rdev'[p].lo, upto |-> nrecv'[p]])
        /\ rdev'[p].lo = IF rdev[p].lo = 0 THEN c - 1 ELSE rdev[p].lo + c
        /\ nrecv[p] = 0 => c = 1
    BY <1>2, DevRecvDoes
  <2>2. PICK a \in Nat, b \in Nat : a = rdev[p].lo /\ b = nrecv[p]
    BY <1>0
  <2>3. PICK l \in Nat : l = rdev'[p].lo /\ l = IF a = 0 THEN c - 1 ELSE a + c
    BY <2>1, <2>2
  <2>4. PICK e \in Rxs : e = [lo |-> l, upto |-> b + c]
    <3>1. b + c \in Nat
      BY <2>1
    <3> QED
      BY <3>1 DEF Rxs
  <2>5. /\ Done(p) \in Rxs /\ Done(p).lo = a /\ Done(p).upto = b
        /\ e.lo = l /\ e.upto = b + c
    BY <2>2, <2>4 DEF Done, Rxs
  <2>6. Follows(Done(p), e)
    BY <2>1, <2>3, <2>5 DEF Follows
  <2>7. Done(p)' = e /\ rx'[p] = Append(rx[p], e)
    BY <2>1, <2>2, <2>3, <2>4 DEF Done
  <2>8. Chain(Polled(p), rx'[p], e)
    BY <1>0, <2>5, <2>6, <2>7, ChainAppend DEF Counting
  <2>9. nrep[p] <= nrecv'[p]
    BY <1>0, <2>1 DEF Counting
  <2>10. rq[p].phase = 0 => /\ rq[p].overhead = 0 /\ nrep[p] = 0
                            /\ (rx'[p] # <<>> => rx'[p][1].lo = 0)
    <3>1. CASE rx[p] = <<>>
      <4>1. Polled(p) = Done(p)
        BY <3>1 DEF Counting, Chain, Entry
      <4>2. rq[p].overhead = a /\ nrep[p] = b
        BY <2>2, <4>1 DEF Polled, Done
      <4>3. rx'[p][1] = e
        BY <2>7, <3>1
      <4> QED
        BY <2>1, <2>2, <2>3, <2>5, <4>2, <4>3 DEF Counting
    <3>2. CASE rx[p] # <<>>
      <4>1. rx'[p][1] = rx[p][1]
        BY <1>0, <2>7, <3>2
      <4> QED
        BY <3>2, <4>1 DEF Counting
    <3> QED
      BY <3>1, <3>2
  <2>11. /\ \A q \in Procs : Polled(q)' = Polled(q)
         /\ \A q \in Procs \ {p} : Done(q)' = Done(q)
    BY <2>1 DEF Polled, Done
  <2>12. ASSUME NEW q \in Procs
         PROVE  /\ Chain(Polled(q)', rx'[q], Done(q)') /\ nrep[q] <= nrecv'[q]
                /\ rq[q].phase = 0 => /\ rq[q].overhead = 0 /\ nrep[q] = 0
                                     /\ (rx'[q] # <<>> => rx'[q][1].lo = 0)
    <3>1. CASE q = p
      BY <2>7, <2>8, <2>9, <2>10, <2>11, <3>1
    <3>2. CASE q # p
      BY <2>1, <2>11, <3>2 DEF Counting
    <3> QED
      BY <3>1, <3>2
  <2> QED
    BY <2>1, <2>12 DEF Counting
<1>3. ASSUME NEW p \in Procs, PostRecv(p)
      PROVE  Counting'
  <2>1. rx' = rx /\ nrep' = nrep /\ nrecv' = nrecv
    BY <1>3 DEF PostRecv
  <2>2. \A q \in Procs : /\ rq'[q].overhead = rq[q].overhead /\ rq'[q].phase = rq[q].phase
                         /\ rdev'[q].lo = rdev[q].lo
    BY <1>3, PostRecvDoes DEF TableInd
  <2> QED
    BY <2>1, <2>2 DEF Counting, Polled, Done
<1>4. ASSUME NEW p \in Procs, NEW s \in {"RST", "INIT", "RTR", "RTS", "ERR"}, ModifyQp(p, s)
      PROVE  Counting'
  <2>1. rx' = rx /\ nrep' = nrep /\ nrecv' = nrecv /\ rdev' = rdev
    BY <1>4 DEF ModifyQp
  <2>2. \A q \in Procs : rq'[q].overhead = rq[q].overhead /\ rq'[q].phase = rq[q].phase
    BY <1>4, ModifyRecvKeeps DEF TableInd
  <2> QED
    BY <2>1, <2>2 DEF Counting, Polled, Done
<1>5. CASE UNCHANGED <<rq, rdev, rx, nrecv, nrep>>
  BY <1>5 DEF Counting, Polled, Done
<1> QED
  BY <1>1, <1>2, <1>3, <1>4, <1>5, Cases, Frames DEF vars

\* A queue with room has fewer than N receives outstanding.
LEMMA RoomMeans ==
  ASSUME TableInd, Outstanding, NEW p \in Procs, bxroce_rqhwq_free_cnt(rq[p]) > 0
  PROVE  Out(p) \in Nat /\ Out(p) < N
<1>1. rq[p].head \in Nat /\ rq[p].tail \in Places /\ rq[p].tail \in Nat /\ rq[p].tail < N
  BY Fields, Around DEF TableInd, Types, TypeRecv
<1>2. Out(p) \in Nat /\ Out(p) <= N /\ (rq[p].tail + Out(p)) % N = rq[p].head
  BY Sizes DEF Outstanding
<1>3. ASSUME Out(p) = N PROVE FALSE
  <2>1. rq[p].foe = "FULL"
    BY <1>3 DEF Outstanding
  <2>2. PICK k \in Nat : k = rq[p].tail + N
    BY <1>1, Sizes
  <2>3. N \in Nat \ {0} /\ k < 2 * N /\ ~(k < N)
    BY <1>1, <2>2, Sizes
  <2>4. k % N = k - N
    BY <2>3, Wrap
  <2>5. rq[p].head = rq[p].tail
    BY <1>1, <1>2, <1>3, <2>2, <2>3, <2>4
  <2> QED
    BY <1>1, <2>1, <2>5 DEF bxroce_rqhwq_free_cnt
<1> QED
  BY <1>2, <1>3, Sizes

\* A poll takes some of the receives outstanding, the ones at the tail.
LEMMA PollTakes ==
  ASSUME TableInd, Counting, Outstanding, NEW p \in Procs, Poll(p), ~(rq' = rq /\ nrep' = nrep)
  PROVE  \E d \in Nat \ {0} :
           /\ d <= Out(p) /\ Out(p)' = Out(p) - d /\ nrep'[p] = nrep[p] + d
           /\ rq'[p].tail = (rq[p].tail + d) % N
           /\ rq'[p].head = rq[p].head /\ rq'[p].foe = rq[p].foe
           /\ \A i \in Places :
                rq'[p].slot[i] = IF (i + N - rq[p].tail) % N < d THEN 0 ELSE rq[p].slot[i]
           /\ \A q \in Procs \ {p} : rq'[q] = rq[q] /\ Out(q)' = Out(q) /\ nrep'[q] = nrep[q]
<1>1. rdev' = rdev /\ nrecv' = nrecv
  BY DEF Poll
<1>2. /\ rx[p] \in Seq(Rxs) /\ nrecv[p] \in Nat /\ nrep[p] \in Int /\ rdev[p].n \in Nat
  BY Fields DEF TableInd, Types, TypeRecv
<1>3. /\ rx[p] # <<>> /\ rx[p][1] \in Rxs
      /\ nrep'[p] = rx[p][1].upto /\ Due(p) = rx[p][1].upto - nrep[p]
      /\ Due(p) \in Nat \ {0}
      /\ rq'[p].tail = (rq[p].tail + Due(p)) % N
      /\ rq'[p].head = rq[p].head /\ rq'[p].foe = rq[p].foe
      /\ \A i \in Places :
           rq'[p].slot[i] = IF (i + N - rq[p].tail) % N < Due(p) THEN 0 ELSE rq[p].slot[i]
      /\ \A q \in Procs \ {p} : rq'[q] = rq[q] /\ nrep'[q] = nrep[q]
  BY PollRecvDoes DEF TableInd
<1>4. PICK u \in Nat : u = rx[p][1].upto
  BY <1>3 DEF Rxs
<1>5. u <= nrecv[p]
  <2>1. 1 \in 1..Len(rx[p])
    BY <1>2, <1>3
  <2> QED
    BY <1>4, <2>1 DEF Counting, Chain, Done
<1>6. PICK d \in Nat \ {0} : d = Due(p)
  BY <1>3
<1>7. d = u - nrep[p] /\ nrep'[p] = u
  BY <1>3, <1>4, <1>6
<1>8. d <= Out(p) /\ Out(p)' = Out(p) - d /\ nrep'[p] = nrep[p] + d
  <2>1. PICK x \in Nat, n \in Nat, r \in Int : x = nrecv[p] /\ n = rdev[p].n /\ r = nrep[p]
    BY <1>2
  <2>2. Out(p) = x - r + n
    BY <2>1 DEF Out
  <2>3. Out(p)' = x - u + n
    BY <1>1, <1>7, <2>1 DEF Out
  <2>4. d = u - r /\ u <= x
    BY <1>5, <1>7, <2>1
  <2> QED
    BY <1>7, <2>1, <2>2, <2>3, <2>4
<1>9. \A q \in Procs \ {p} : Out(q)' = Out(q)
  BY <1>1, <1>3 DEF Out
<1> QED
  BY <1>3, <1>6, <1>8, <1>9

\* The receives outstanding lie between tail and head.
LEMMA OutstandingStep ==
  ASSUME TableInd, FreshRq, Outstanding, Counting, "recycle" \notin Allow,
         "numbered" \notin Allow, [Next]_vars
  PROVE  Outstanding'
<1>1. ASSUME NEW p \in Procs, Poll(p)
      PROVE  Outstanding'
  <2>1. rdev' = rdev /\ nrecv' = nrecv /\ nrqe' = nrqe
    BY <1>1 DEF Poll
  <2>2. rq[p].tail \in Places /\ Out(p) \in Nat /\ Out(p) <= N /\ N \in Nat
    BY Fields, Sizes DEF TableInd, Types, TypeRecv, Outstanding
  <2>3. CASE rq' = rq /\ nrep' = nrep
    BY <2>1, <2>3 DEF Outstanding, Out
  <2>4. CASE ~(rq' = rq /\ nrep' = nrep)
    <3>1. PICK d \in Nat \ {0} :
            /\ d <= Out(p) /\ Out(p)' = Out(p) - d
            /\ rq'[p].tail = (rq[p].tail + d) % N
            /\ rq'[p].head = rq[p].head /\ rq'[p].foe = rq[p].foe
            /\ \A q \in Procs \ {p} : rq'[q] = rq[q] /\ Out(q)' = Out(q)
      BY <1>1, <2>4, PollTakes
    <3>2. PICK j \in Nat : j = Out(p) - d
      BY <2>2, <3>1
    <3>3. d + j = Out(p) /\ j < N /\ j \in 0..N /\ d \in Nat
      BY <2>2, <3>1, <3>2
    <3>4. (((rq[p].tail + d) % N) + j) % N = (rq[p].tail + Out(p)) % N
      BY <2>2, <3>3, FromMoved
    <3>5. Out(p)' = j
      BY <3>1, <3>2
    <3> QED
      BY <2>1, <2>2, <3>1, <3>3, <3>4, <3>5 DEF Outstanding
  <2> QED
    BY <2>3, <2>4
<1>2. ASSUME NEW p \in Procs, NEW c \in 1..N, DevRecv(p, c)
      PROVE  Outstanding'
  <2>1. /\ \A q \in Procs \ {p} : rdev'[q] = rdev[q] /\ nrecv'[q] = nrecv[q]
        /\ rq' = rq /\ nrep' = nrep /\ nrqe' = nrqe /\ c \in Nat
        /\ rdev'[p].n = rdev[p].n - c /\ rdev'[p].wp = rdev[p].wp
        /\ nrecv'[p] = nrecv[p] + c
    BY <1>2, DevRecvDoes
  <2>2. rdev[p].n \in Nat /\ nrecv[p] \in Nat /\ nrqe[p] \in Nat /\ nrep[p] \in Int
    BY Fields DEF TableInd, Types, TypeRecv
  <2>3. \A q \in Procs : Out(q)' = Out(q)
    BY <2>1, <2>2 DEF Out
  <2>4. nrecv'[p] + rdev'[p].n = nrqe[p]
    BY <2>1, <2>2 DEF Outstanding
  <2> QED
    BY <2>1, <2>3, <2>4 DEF Outstanding
<1>3. ASSUME NEW p \in Procs, PostRecv(p)
      PROVE  Outstanding'
  <2>1. nrep' = nrep /\ nrecv' = nrecv /\ bxroce_rqhwq_free_cnt(rq[p]) > 0
    BY <1>3 DEF PostRecv
  <2>2. /\ rdev[p].n \in Nat /\ rq[p].tail \in Places /\ rq[p].head \in Nat
        /\ nrecv[p] \in Nat /\ nrqe[p] \in Nat /\ nrep[p] \in Int
    BY Fields, Around DEF TableInd, Types, TypeRecv
  <2>3. Out(p) \in Nat /\ Out(p) < N /\ Out(p) <= N
    BY <2>1, RoomMeans, Sizes
  <2>4. rdev'[p].n = rdev[p].n + 1
    <3>1. rdev[p].wp = rq[p].head
      BY DEF Outstanding
    <3>2. rq[p].head + 1 + N - rq[p].head = N + 1
      BY <2>2, Sizes
    <3>3. (N + 1) % N = 1
      BY Sizes, Wrap, N + 1 \in Nat
    <3> QED
      BY <1>3, <3>1, <3>2, <3>3, PostRecvDoes DEF TableInd
  <2>5. Out(p)' = Out(p) + 1
    BY <2>1, <2>2, <2>4 DEF Out
  <2>6. (rq[p].tail + (Out(p) + 1)) % N = (rq[p].head + 1) % N
    BY <2>2, <2>3, FromTail DEF Outstanding
  <2>7. Out(p) + 1 = N => (rq[p].head + 1) % N = rq[p].tail
    <3>1. ASSUME Out(p) + 1 = N PROVE (rq[p].tail + N) % N = rq[p].tail
      <4>1. rq[p].tail \in Nat /\ rq[p].tail < N /\ N \in Nat \ {0}
        <5>1. N \in Nat /\ N >= 2
          BY Sizes
        <5>2. rq[p].tail \in Nat /\ rq[p].tail < N
          BY <2>2, Around
        <5> QED
          BY <5>1, <5>2
      <4>2. PICK k \in Nat : k = rq[p].tail + N
        BY <4>1
      <4>3. k < 2 * N /\ ~(k < N)
        BY <4>1, <4>2
      <4>4. k % N = k - N
        BY <4>1, <4>3, Wrap
      <4> QED
        BY <4>1, <4>2, <4>4
    <3> QED
      BY <2>6, <3>1
  <2>8. \A q \in Procs \ {p} : Out(q)' = Out(q)
    BY <1>3, <2>1, PostRecvDoes DEF TableInd, Out
  <2>9. /\ \A q \in Procs \ {p} : rq'[q] = rq[q] /\ rdev'[q] = rdev[q] /\ nrqe'[q] = nrqe[q]
        /\ rq'[p].head = (rq[p].head + 1) % N /\ rq'[p].tail = rq[p].tail
        /\ rq'[p].foe = IF (rq[p].head + 1) % N = rq[p].tail THEN "FULL" ELSE rq[p].foe
        /\ rdev'[p].wp = (rq[p].head + 1) % N /\ nrqe'[p] = nrqe[p] + 1
    BY <1>3, PostRecvDoes DEF TableInd
  <2>10. nrecv[p] + rdev'[p].n = nrqe[p] + 1
    BY <2>2, <2>4 DEF Outstanding
  <2>11. Out(p) + 1 \in 0..N
    BY <2>3, Sizes
  <2> QED
    BY <2>1, <2>5, <2>6, <2>7, <2>8, <2>9, <2>10, <2>11 DEF Outstanding
<1>4. ASSUME NEW p \in Procs, NEW s \in {"RST", "INIT", "RTR", "RTS", "ERR"}, ModifyQp(p, s)
      PROVE  Outstanding'
  <2>1. nrep' = nrep /\ rdev' = rdev /\ nrqe' = nrqe /\ nrecv' = nrecv
    BY <1>4 DEF ModifyQp
  <2> QED
    BY <1>4, <2>1, ModifyRecvKeeps DEF TableInd, Outstanding, Out
<1>5. CASE UNCHANGED <<rq, rdev, nrep, nrqe, nrecv>>
  BY <1>5 DEF Outstanding, Out
<1> QED
  BY <1>1, <1>2, <1>3, <1>4, <1>5, Cases, Frames DEF vars

\* The entries of the receives outstanding carry their numbers.
LEMMA NumberedStep ==
  ASSUME TableInd, FreshRq, Outstanding, Counting, Numbered, "recycle" \notin Allow,
         "numbered" \notin Allow, [Next]_vars
  PROVE  Numbered'
<1>1. ASSUME NEW p \in Procs, Poll(p)
      PROVE  Numbered'
  <2>1. rdev' = rdev /\ nrecv' = nrecv
    BY <1>1 DEF Poll
  <2>2. /\ rq[p].tail \in Places /\ Out(p) \in Nat /\ Out(p) <= N /\ N \in Nat
        /\ nrep[p] \in Int
    BY Fields, Sizes DEF TableInd, Types, TypeRecv, Outstanding
  <2>3. CASE rq' = rq /\ nrep' = nrep
    BY <2>1, <2>3 DEF Numbered, Out
  <2>4. CASE ~(rq' = rq /\ nrep' = nrep)
    <3>1. PICK d \in Nat \ {0} :
            /\ d <= Out(p) /\ Out(p)' = Out(p) - d /\ nrep'[p] = nrep[p] + d
            /\ rq'[p].tail = (rq[p].tail + d) % N
            /\ \A i \in Places :
                 rq'[p].slot[i] = IF (i + N - rq[p].tail) % N < d THEN 0 ELSE rq[p].slot[i]
            /\ \A q \in Procs \ {p} : rq'[q] = rq[q] /\ Out(q)' = Out(q) /\ nrep'[q] = nrep[q]
      BY <1>1, <2>4, PollTakes
    <3>2. PICK o \in Nat : o = Out(p)
      BY <2>2
    <3>3. ASSUME NEW j \in Nat, j < o - d
          PROVE  rq'[p].slot[(rq'[p].tail + j) % N] = nrep'[p] + j + 1
      <4>1. d \in Nat /\ d + j < o /\ d + j < N /\ d + j <= N
        BY <2>2, <3>1, <3>2, <3>3
      <4>2. PICK k \in Nat : k = d + j
        BY <4>1
      <4>3. (rq'[p].tail + j) % N = (rq[p].tail + k) % N
        BY <2>2, <3>1, <4>1, <4>2, FromMoved
      <4>4. (((rq[p].tail + k) % N) + N - rq[p].tail) % N = k
        <5>1. (((rq[p].tail + (d + j)) % N) + N - rq[p].tail) % N = d + j
          BY <2>2, <4>1, FromMoved
        <5> QED
          BY <4>2, <5>1
      <4>5. (rq[p].tail + k) % N \in Places
        BY <2>2, <4>1, <4>2, FromTail
      <4>6. k \in 0..(Out(p) - 1)
        BY <3>2, <4>1, <4>2
      <4>7. rq[p].slot[(rq[p].tail + k) % N] = nrep[p] + k + 1
        BY <4>6 DEF Numbered
      <4>8. rq'[p].slot[(rq[p].tail + k) % N] = rq[p].slot[(rq[p].tail + k) % N]
        <5>1. PICK i \in Places : i = (rq[p].tail + k) % N
          BY <4>5
        <5>2. (i + N - rq[p].tail) % N = k
          BY <4>4, <5>1
        <5>3. ~(k < d)
          BY <3>1, <4>2
        <5> QED
          BY <3>1, <5>1, <5>2, <5>3
      <4>9. nrep'[p] + j + 1 = nrep[p] + k + 1
        BY <2>2, <3>1, <4>2
      <4> QED
        BY <4>3, <4>7, <4>8, <4>9
    <3>4. ASSUME NEW q \in Procs, NEW j \in 0..(Out(q)' - 1)
          PROVE  rq'[q].slot[(rq'[q].tail + j) % N] = nrep'[q] + j + 1
      <4>1. CASE q = p
        <5>1. j \in Nat /\ j < o - d
          BY <3>1, <3>2, <3>4, <4>1
        <5> QED
          BY <3>3, <4>1, <5>1
      <4>2. CASE q # p
        BY <3>1, <3>4, <4>2 DEF Numbered
      <4> QED
        BY <4>1, <4>2
    <3> QED
      BY <3>4 DEF Numbered
  <2> QED
    BY <2>3, <2>4
<1>2. ASSUME NEW p \in Procs, NEW c \in 1..N, DevRecv(p, c)
      PROVE  Numbered'
  <2>1. /\ \A q \in Procs \ {p} : rdev'[q] = rdev[q] /\ nrecv'[q] = nrecv[q]
        /\ rq' = rq /\ nrep' = nrep /\ c \in Nat
        /\ rdev'[p].n = rdev[p].n - c /\ nrecv'[p] = nrecv[p] + c
    BY <1>2, DevRecvDoes
  <2>2. rdev[p].n \in Nat /\ nrecv[p] \in Nat /\ nrep[p] \in Int
    BY Fields DEF TableInd, Types, TypeRecv
  <2>3. \A q \in Procs : Out(q)' = Out(q)
    BY <2>1, <2>2 DEF Out
  <2> QED
    BY <2>1, <2>3 DEF Numbered
<1>3. ASSUME NEW p \in Procs, PostRecv(p)
      PROVE  Numbered'
  <2>1. nrep' = nrep /\ nrecv' = nrecv /\ bxroce_rqhwq_free_cnt(rq[p]) > 0
    BY <1>3 DEF PostRecv
  <2>2. /\ rdev[p].n \in Nat /\ rq[p].tail \in Places
        /\ nrecv[p] \in Nat /\ nrqe[p] \in Nat /\ nrep[p] \in Int /\ N \in Nat
    BY Fields, Sizes DEF TableInd, Types, TypeRecv
  <2>3. PICK o \in Nat : o = Out(p)
    BY <2>1, RoomMeans
  <2>4. /\ o < N /\ o <= N /\ (rq[p].tail + o) % N = rq[p].head
        /\ nrecv[p] + rdev[p].n = nrqe[p]
    BY <2>1, <2>2, <2>3, RoomMeans DEF Outstanding
  <2>5. Out(p)' = o + 1
    <3>1. Outstanding'
      BY OutstandingStep
    <3>2. nrecv[p] + rdev'[p].n = nrqe'[p] /\ nrqe'[p] = nrqe[p] + 1
      BY <1>3, <2>1, <3>1, PostRecvDoes DEF Outstanding, TableInd
    <3>3. rdev'[p].n \in Nat
      BY RecvStep, Fields DEF TableInd, TypeRecv
    <3> QED
      BY <2>1, <2>2, <2>3, <2>4, <3>2, <3>3 DEF Out
  <2>6. /\ \A q \in Procs \ {p} : rq'[q] = rq[q] /\ rdev'[q] = rdev[q]
        /\ rq'[p].tail = rq[p].tail
        /\ \A i \in Places : rq'[p].slot[i] = IF i = rq[p].head THEN nrqe[p] + 1 ELSE rq[p].slot[i]
    BY <1>3, PostRecvDoes DEF TableInd
  <2>7. ASSUME NEW j \in 0..o
        PROVE  rq'[p].slot[(rq[p].tail + j) % N] = nrep[p] + j + 1
    <3>1. j \in Nat /\ j <= o /\ j <= N
      BY <2>2, <2>4
    <3>2. (rq[p].tail + j) % N \in Places
      BY <2>2, <3>1, FromTail
    <3>3. CASE j = o
      <4>1. rq'[p].slot[(rq[p].tail + j) % N] = nrqe[p] + 1
        BY <2>4, <2>6, <3>2, <3>3
      <4>2. nrqe[p] + 1 = nrep[p] + j + 1
        BY <2>2, <2>3, <2>4, <3>3 DEF Out
      <4> QED
        BY <4>1, <4>2
    <3>4. CASE j # o
      <4>1. j < o /\ o < j + N /\ j \in 0..(Out(p) - 1)
        BY <2>2, <2>3, <2>4, <3>1, <3>4
      <4>2. (rq[p].tail + j) % N # (rq[p].tail + o) % N
        BY <2>2, <2>4, <3>1, <4>1, FromTail
      <4>3. rq[p].slot[(rq[p].tail + j) % N] = nrep[p] + j + 1
        BY <4>1 DEF Numbered
      <4> QED
        BY <2>4, <2>6, <3>2, <4>2, <4>3
    <3> QED
      BY <3>3, <3>4
  <2>8. 0..(Out(p)' - 1) = 0..o
    BY <2>5
  <2>9. \A q \in Procs \ {p} : Out(q)' = Out(q)
    BY <2>1, <2>6 DEF Out
  <2>10. ASSUME NEW q \in Procs, NEW j \in 0..(Out(q)' - 1)
         PROVE  rq'[q].slot[(rq'[q].tail + j) % N] = nrep[q] + j + 1
    <3>1. CASE q = p
      BY <2>6, <2>7, <2>8, <3>1
    <3>2. CASE q # p
      BY <2>6, <2>9, <3>2 DEF Numbered
    <3> QED
      BY <3>1, <3>2
  <2> QED
    BY <2>1, <2>10 DEF Numbered
<1>4. ASSUME NEW p \in Procs, NEW s \in {"RST", "INIT", "RTR", "RTS", "ERR"}, ModifyQp(p, s)
      PROVE  Numbered'
  <2>1. nrep' = nrep /\ rdev' = rdev /\ nrecv' = nrecv
    BY <1>4 DEF ModifyQp
  <2> QED
    BY <1>4, <2>1, ModifyRecvKeeps DEF TableInd, Numbered, Out
<1>5. CASE UNCHANGED <<rq, rdev, nrep, nrecv>>
  BY <1>5 DEF Numbered, Out
<1> QED
  BY <1>1, <1>2, <1>3, <1>4, <1>5, Cases, Frames DEF vars

\* Receives: they are filled and reported in the order of the posts, a poll hands out for a
\* completion as many as the device has filled for it, none is overwritten before it has been
\* reported, and the flag of bxroce_update_rq_head tells a full queue from an empty one,
\* for every length of the queue and whatever the lock does, provided no queue pair goes
\* back to RESET and the device numbers its completions as bxroce_poll_hwcq takes them
\* apart.
THEOREM LibReceive ==
  ASSUME "recycle" \notin Allow, "numbered" \notin Allow
  PROVE  Spec => []RecvIntact
<1>1. Init => RecvInd
  <2> SUFFICES ASSUME Init PROVE RecvInd
    OBVIOUS
  <2>1. \A p \in Procs : /\ rq[p].head = 0 /\ rq[p].tail = 0 /\ rq[p].foe = "EMPTY"
                         /\ rq[p].overhead = 0 /\ rq[p].phase = 0
                         /\ rx[p] = <<>> /\ rdev[p].n = 0 /\ rdev[p].wp = 0 /\ rdev[p].lo = 0
                         /\ nrecv[p] = 0 /\ nrqe[p] = 0 /\ nrep[p] = 0
    BY DEF Init
  <2>2. FreshRq
    BY <2>1 DEF FreshRq
  <2>3. Outstanding
    <3>1. (0 + 0) % N = 0
      BY Sizes, FromTail
    <3>2. \A p \in Procs : Out(p) = 0
      BY <2>1 DEF Out
    <3>3. 0 \in 0..N /\ 0 # N
      BY Sizes
    <3>4. ASSUME NEW p \in Procs
          PROVE  /\ (rq[p].tail + Out(p)) % N = rq[p].head /\ rdev[p].wp = rq[p].head
                 /\ nrecv[p] + rdev[p].n = nrqe[p]
      BY <2>1, <3>1, <3>2
    <3> QED
      BY <3>2, <3>3, <3>4 DEF Outstanding
  <2>4. Numbered
    <3>1. 0..(0 - 0 + 0 - 1) = {}
      OBVIOUS
    <3> QED
      BY <2>1, <3>1 DEF Numbered, Out
  <2>5. Counting
    <3>1. ASSUME NEW a PROVE Chain(a, <<>>, a)
      BY DEF Chain, Entry
    <3>2. \A p \in Procs : Polled(p) = Done(p)
      BY <2>1 DEF Polled, Done
    <3> QED
      BY <2>1, <3>1, <3>2 DEF Counting
  <2> QED
    BY <2>2, <2>3, <2>4, <2>5, TableInit DEF RecvInd
<1>2. RecvInd /\ [Next]_vars => RecvInd'
  <2> SUFFICES ASSUME RecvInd, [Next]_vars PROVE RecvInd'
    OBVIOUS
  <2>1. TableInd'
    BY QpsStep, PostStep, SendStep, RecvStep, PeerStep, DividesStep, AskedStep
       DEF RecvInd, TableInd, Types
  <2>2. FreshRq' /\ Outstanding' /\ Counting' /\ Numbered'
    BY FreshRqStep, OutstandingStep, CountingStep, NumberedStep DEF RecvInd
  <2> QED
    BY <2>1, <2>2 DEF RecvInd
<1>3. RecvInd => RecvIntact
  <2> SUFFICES ASSUME RecvInd, NEW p \in Procs
               PROVE  /\ nrep[p] <= nrecv[p] /\ (rx[p] = <<>> => nrep[p] = nrecv[p])
                      /\ \A j \in 0..(nrecv[p] - nrep[p] + rdev[p].n - 1) :
                           rq[p].slot[(rq[p].tail + j) % N] = nrep[p] + j + 1
    BY DEF RecvIntact
  <2>1. rx[p] = <<>> => nrep[p] = nrecv[p]
    BY DEF RecvInd, Counting, Chain, Entry, Polled, Done
  <2>2. nrep[p] <= nrecv[p]
    BY DEF RecvInd, Counting
  <2>3. ASSUME NEW j \in 0..(nrecv[p] - nrep[p] + rdev[p].n - 1)
        PROVE  rq[p].slot[(rq[p].tail + j) % N] = nrep[p] + j + 1
    <3>0. nrecv[p] \in Nat /\ nrep[p] \in Int /\ rdev[p].n \in Nat
      BY Fields DEF RecvInd, TableInd, Types, TypeRecv
    <3>1. j \in 0..(Out(p) - 1)
      BY <3>0 DEF Out
    <3>2. Numbered
      BY DEF RecvInd
    <3> QED
      BY <3>1, <3>2 DEF Numbered
  <2> QED
    BY <2>1, <2>2, <2>3
<1> QED
  BY <1>1, <1>2, <1>3, PTL DEF Spec

-----------------------------------------------------------------------------
(* Remote addresses.                                                       *)

\* The address of a work request lies in the registration of its key.
LEMMA VaIs ==
  ASSUME Types, NEW w \in Wrs, w.reg \in DOMAIN ever
  PROVE  /\ ever[w.reg] \in Nat \ {0} /\ Va(w) \in Nat \ {0}
         /\ Va(w) >= ever[w.reg] /\ Va(w) < ever[w.reg] + Size
<1>1. ever[w.reg] \in Nat \ {0}
  BY DEF Types, TypePeer
<1>2. w.off \in Nat /\ w.off < Size
  BY Sizes DEF Wrs
<1> QED
  BY <1>1, <1>2, Sizes DEF Va

\* A lookup of the server finds the place in the registration with the key.
LEMMA LookupIs ==
  ASSUME NEW w
  PROVE  /\ Lookup(w) # {} <=>
              \E j \in DOMAIN mr_pool : /\ mr_pool[j].rkey = w.reg
                                        /\ Va(w) \in mr_pool[j].va .. (mr_pool[j].va + Size)
         /\ PoolRight => \A a \in Lookup(w) : a = [reg |-> w.reg, off |-> Va(w) - ever[w.reg]]
<1>1. Lookup(w) # {} <=>
        \E j \in DOMAIN mr_pool : /\ mr_pool[j].rkey = w.reg
                                  /\ Va(w) \in mr_pool[j].va .. (mr_pool[j].va + Size)
  BY DEF Lookup
<1>2. PoolRight => \A a \in Lookup(w) : a = [reg |-> w.reg, off |-> Va(w) - ever[w.reg]]
  BY DEF Lookup, PoolRight
<1> QED
  BY <1>1, <1>2

\* An address in the range of a remembered one is of the same registration.
LEMMA HitRight ==
  ASSUME Types, Spread, NEW c \in Caches, Right(c), NEW w \in Wrs, w.reg \in DOMAIN ever,
         Hit(c, Va(w))
  PROVE  Inside(c, w.reg)
<1>1. /\ ever[w.reg] \in Nat \ {0} /\ Va(w) \in Nat \ {0}
      /\ Va(w) >= ever[w.reg] /\ Va(w) < ever[w.reg] + Size /\ Size \in Nat
  BY VaIs, Sizes
<1>2. Va(w) >= c.va /\ Va(w) <= c.va + c.len /\ c.va \in Nat /\ c.len \in Nat
  BY <1>1 DEF Hit, Caches
<1>3. PICK i \in DOMAIN ever : Inside(c, i)
  BY <1>1, <1>2 DEF Right
<1>4. ever[i] \in Nat /\ c.va >= ever[i] /\ c.va < ever[i] + Size /\ c.len = Size
  BY <1>3 DEF Inside, Types, TypePeer
<1>5. ASSUME i # w.reg PROVE FALSE
  <2>1. ever[i] >= ever[w.reg] + 2 * Size \/ ever[w.reg] >= ever[i] + 2 * Size
    BY <1>5 DEF Spread
  <2> QED
    BY <1>1, <1>2, <1>4, <2>1
<1> QED
  BY <1>3, <1>5

\* What is found is the place that was asked for, and what is remembered stays right.
LEMMA RdmaRight ==
  ASSUME Types, Spread, PoolRight, NEW c \in Caches, Right(c), NEW w \in Wrs, w.reg \in DOMAIN ever
  PROVE  /\ Right(Resolved(c, w))
         /\ Resolves(c, w) => rdma_addr(c, w) = [reg |-> w.reg, off |-> Va(w) - ever[w.reg]]
<1>1. /\ ever[w.reg] \in Nat /\ Va(w) \in Nat
      /\ Va(w) >= ever[w.reg] /\ Va(w) < ever[w.reg] + Size /\ c.va \in Nat
  BY VaIs DEF Caches
<1>2. CASE Hit(c, Va(w))
  <2>1. c.dma = [reg |-> w.reg, off |-> c.va - ever[w.reg]]
    BY <1>2, HitRight DEF Inside
  <2>2. (c.va - ever[w.reg]) + (Va(w) - c.va) = Va(w) - ever[w.reg]
    BY <1>1
  <2> QED
    BY <1>2, <2>1, <2>2 DEF Resolved, rdma_addr
<1>3. CASE ~Hit(c, Va(w)) /\ Lookup(w) # {}
  <2>1. (CHOOSE a \in Lookup(w) : TRUE) = [reg |-> w.reg, off |-> Va(w) - ever[w.reg]]
    BY <1>3, LookupIs
  <2>2. Resolved(c, w) = [va |-> Va(w), len |-> Size,
                          dma |-> [reg |-> w.reg, off |-> Va(w) - ever[w.reg]]]
    BY <1>3, <2>1 DEF Resolved
  <2>3. Inside(Resolved(c, w), w.reg)
    BY <1>1, <2>2 DEF Inside
  <2> QED
    BY <1>3, <2>2, <2>3 DEF Right, rdma_addr
<1>4. CASE ~Hit(c, Va(w)) /\ Lookup(w) = {}
  BY <1>4 DEF Resolved, Resolves
<1> QED
  BY <1>2, <1>3, <1>4

\* Two registrations stay two lengths apart.
LEMMA SpreadStep ==
  ASSUME TableInd, Spread, "near" \notin Allow, [Next]_vars
  PROVE  Spread'
<1>1. ASSUME NEW v \in Vas, RegMr(v)
      PROVE  Spread'
  <2>1. /\ ever' = Append(ever, v) /\ ever \in Seq(Nat \ {0})
        /\ \A i \in DOMAIN ever : v >= ever[i] + 2 * Size \/ ever[i] >= v + 2 * Size
    BY <1>1 DEF RegMr, TableInd, Types, TypePeer
  <2>2. PICK n \in Nat : n = Len(ever) + 1
    BY <2>1
  <2>3. /\ DOMAIN ever' = DOMAIN ever \cup {n} /\ n \notin DOMAIN ever /\ ever'[n] = v
        /\ \A i \in DOMAIN ever : ever'[i] = ever[i]
    BY <2>1, <2>2
  <2>4. ASSUME NEW i \in DOMAIN ever', NEW j \in DOMAIN ever', i # j
        PROVE  ever'[i] >= ever'[j] + 2 * Size \/ ever'[j] >= ever'[i] + 2 * Size
    BY <2>1, <2>3, <2>4 DEF Spread
  <2> QED
    BY <2>4 DEF Spread
<1>2. CASE ever' = ever
  BY <1>2 DEF Spread
<1> QED
  BY <1>1, <1>2, Cases, Frames DEF vars

\* A registration adds to the sequence and changes nothing of it.
LEMMA RegMrDoes ==
  ASSUME Types, NEW v \in Vas, RegMr(v)
  PROVE  /\ DOMAIN ever \subseteq DOMAIN ever' /\ \A r \in DOMAIN ever : ever'[r] = ever[r]
         /\ DOMAIN mr_pool \subseteq DOMAIN mr_pool'
         /\ \A i \in DOMAIN mr_pool : mr_pool'[i] = mr_pool[i]
         /\ \A i \in DOMAIN mr_pool' \ DOMAIN mr_pool :
              /\ mr_pool'[i].rkey \in DOMAIN ever' /\ mr_pool'[i].phy = mr_pool'[i].rkey
              /\ mr_pool'[i].va = ever'[mr_pool'[i].rkey]
<1>1. ever \in Seq(Nat \ {0}) /\ mr_pool \in Seq(Mrs) /\ v \in Nat \ {0}
  BY Sizes DEF Types, TypePeer
<1>2. PICK n \in Nat : n = Len(ever) + 1
  BY <1>1
<1>3. PICK e \in Mrs : e = bxroce_reg_mrinfo(v)
  BY <1>1, <1>2 DEF bxroce_reg_mrinfo, Mrs
<1>4. e.rkey = n /\ e.va = v /\ e.phy = n
  BY <1>2, <1>3 DEF bxroce_reg_mrinfo
<1>5. ever' = Append(ever, v) /\ mr_pool' = Append(mr_pool, e)
  BY <1>3 DEF RegMr
<1>6. /\ DOMAIN ever \subseteq DOMAIN ever' /\ \A r \in DOMAIN ever : ever'[r] = ever[r]
      /\ n \in DOMAIN ever' /\ ever'[n] = v
  BY <1>1, <1>2, <1>5
<1>7. /\ DOMAIN mr_pool \subseteq DOMAIN mr_pool'
      /\ \A i \in DOMAIN mr_pool : mr_pool'[i] = mr_pool[i]
      /\ \A i \in DOMAIN mr_pool' \ DOMAIN mr_pool : mr_pool'[i] = e
  BY <1>1, <1>5
<1> QED
  BY <1>4, <1>6, <1>7

\* The last entry goes, and no read under way needs it.
LEMMA DeregMrDoes ==
  ASSUME Types, NEW i, DeregMr(i), "remove_any" \notin Allow, "read_fail" \notin Allow
  PROVE  /\ \A j \in DOMAIN mr_pool' : j \in DOMAIN mr_pool /\ mr_pool'[j] = mr_pool[j]
         /\ \A j \in DOMAIN mr_pool \ DOMAIN mr_pool' : \A p \in Procs :
              wr[p].kind = "read" => wr[p].reg # mr_pool[j].rkey
<1>1. mr_pool \in Seq(Mrs) /\ i = Len(mr_pool) /\ i \in 1..Len(mr_pool)
  BY DEF DeregMr, Types, TypePeer
<1>2. mr_pool' = SubSeq(mr_pool, 1, i - 1)
  BY <1>1 DEF DeregMr, bxroce_dereg_mrinfo, bxroce_remove_mr
<1>3. /\ \A j \in DOMAIN mr_pool' : j \in DOMAIN mr_pool /\ mr_pool'[j] = mr_pool[j]
      /\ \A j \in DOMAIN mr_pool \ DOMAIN mr_pool' : j = i
  BY <1>1, <1>2
<1> QED
  BY <1>3 DEF DeregMr

\* The server's table stays right.
LEMMA PoolRightStep ==
  ASSUME TableInd, PoolRight, "remove_any" \notin Allow, "read_fail" \notin Allow, [Next]_vars
  PROVE  PoolRight'
<1>1. ASSUME NEW v \in Vas, RegMr(v)
      PROVE  PoolRight'
  BY <1>1, RegMrDoes DEF TableInd, PoolRight
<1>2. ASSUME NEW i \in 1..MaxRegs, DeregMr(i)
      PROVE  PoolRight'
  <2>1. ever' = ever
    BY <1>2 DEF DeregMr
  <2> QED
    BY <1>2, <2>1, DeregMrDoes DEF TableInd, PoolRight
<1>3. CASE UNCHANGED <<ever, mr_pool>>
  BY <1>3 DEF PoolRight
<1> QED
  BY <1>1, <1>2, <1>3, Cases, Frames DEF vars

\* A remembered address stays right.
LEMMA CacheRightStep ==
  ASSUME TableInd, Spread, PoolRight, CacheRight, [Next]_vars
  PROVE  CacheRight'
<1>0. \A p \in Procs : Right(cache[p])
  BY DEF CacheRight, Right
<1>1. ASSUME NEW p \in Procs, Check(p)
      PROVE  CacheRight'
  <2>1. ever' = ever /\ pc[p] = "check"
    BY <1>1 DEF Check
  <2>2. wr[p] \in Wrs /\ cache[p] \in Caches /\ (wr[p].kind # "imm" => wr[p].reg \in DOMAIN ever)
    BY <2>1, RememberedType DEF TableInd
  <2>3. Right(Remembered(p))
    BY <1>0, <2>2, RdmaRight DEF TableInd, Remembered
  <2>4. \A q \in Procs : Right(cache'[q])
    BY <1>0, <1>1, <2>3, CheckDoes
  <2> QED
    BY <2>1, <2>4 DEF CacheRight, Right, Inside
<1>2. ASSUME NEW v \in Vas, RegMr(v)
      PROVE  CacheRight'
  <2>1. cache' = cache
    BY <1>2 DEF RegMr
  <2> QED
    BY <1>2, <2>1, RegMrDoes DEF TableInd, CacheRight, Right, Inside
<1>3. CASE UNCHANGED <<cache, ever>>
  BY <1>3 DEF CacheRight, Right, Inside
<1> QED
  BY <1>1, <1>2, <1>3, Cases, Frames DEF vars

\* The address of a read under way stays to be found.
LEMMA ReadsFoundStep ==
  ASSUME TableInd, ReadsFound, "remove_any" \notin Allow, "read_fail" \notin Allow, [Next]_vars
  PROVE  ReadsFound'
<1>1. ASSUME NEW p \in Procs, Check(p)
      PROVE  ReadsFound'
  <2>1. ever' = ever /\ mr_pool' = mr_pool
    BY <1>1 DEF Check
  <2>2. NoWr.kind # "read"
    BY DEF NoWr
  <2>3. ASSUME NEW q \in Procs, wr'[q].kind = "read"
        PROVE  wr'[q] = wr[q] /\ cache'[q] = cache[q]
    BY <1>1, <2>2, <2>3, CheckDoes
  <2> QED
    BY <2>1, <2>3 DEF ReadsFound, Resolves, Lookup, Va, Hit
<1>2. ASSUME NEW p \in Procs, NEW w \in Wrs, PostSend(p, w)
      PROVE  ReadsFound'
  <2>1. ever' = ever /\ cache' = cache /\ mr_pool' = mr_pool
    BY <1>2 DEF PostSend
  <2>2. w.kind = "read" => Resolves(cache[p], w)
    BY <1>2 DEF PostSend
  <2>3. wr' = [wr EXCEPT ![p] = w] /\ wr \in [Procs -> Wrs \cup {NoWr}]
    BY <1>2 DEF PostSend, TableInd, Types, TypePost
  <2>4. ASSUME NEW q \in Procs, wr'[q].kind = "read" PROVE Resolves(cache[q], wr'[q])
    BY <2>2, <2>3, <2>4 DEF ReadsFound
  <2> QED
    BY <2>1, <2>4 DEF ReadsFound, Resolves, Lookup, Va, Hit
<1>3. ASSUME NEW v \in Vas, RegMr(v)
      PROVE  ReadsFound'
  <2>1. cache' = cache /\ wr' = wr
    BY <1>3 DEF RegMr
  <2>2. ASSUME NEW p \in Procs, wr[p].kind = "read" PROVE Resolves(cache[p], wr[p])'
    <3>1. wr[p].reg \in DOMAIN ever /\ Resolves(cache[p], wr[p])
      BY <2>2 DEF TableInd, Asked, ReadsFound
    <3>2. Va(wr[p])' = Va(wr[p])
      BY <1>3, <2>1, <3>1, RegMrDoes DEF TableInd, Va
    <3>3. Lookup(wr[p]) # {} => (Lookup(wr[p]) # {})'
      BY <1>3, <2>1, <3>2, LookupIs, RegMrDoes DEF TableInd, Lookup
    <3> QED
      BY <2>1, <3>1, <3>2, <3>3 DEF Resolves, Hit
  <2> QED
    BY <2>1, <2>2 DEF ReadsFound
<1>4. ASSUME NEW i \in 1..MaxRegs, DeregMr(i)
      PROVE  ReadsFound'
  <2>1. ever' = ever /\ cache' = cache /\ wr' = wr
    BY <1>4 DEF DeregMr
  <2>2. ASSUME NEW p \in Procs, wr[p].kind = "read" PROVE Resolves(cache[p], wr[p])'
    <3>1. Resolves(cache[p], wr[p])
      BY <2>2 DEF ReadsFound
    <3>2. Va(wr[p])' = Va(wr[p])
      BY <2>1 DEF Va
    <3>3. Lookup(wr[p]) # {} => (Lookup(wr[p]) # {})'
      BY <1>4, <2>1, <2>2, <3>2, LookupIs, DeregMrDoes DEF TableInd, Lookup
    <3> QED
      BY <2>1, <3>1, <3>2, <3>3 DEF Resolves, Hit
  <2> QED
    BY <2>1, <2>2 DEF ReadsFound
<1>5. CASE UNCHANGED <<wr, cache, ever, mr_pool>>
  BY <1>5 DEF ReadsFound, Resolves, Lookup, Va, Hit
<1> QED
  BY <1>1, <1>2, <1>3, <1>4, <1>5, Cases, Frames DEF vars

\* The entries of the send queues stay right.
LEMMA WqesRightStep ==
  ASSUME TableInd, Spread, PoolRight, CacheRight, ReadsFound, WqesRight, [Next]_vars
  PROVE  WqesRight'
<1>1. ASSUME NEW p \in Procs, Check(p)
      PROVE  WqesRight'
  <2>1. ever' = ever /\ pc[p] = "check"
    BY <1>1 DEF Check
  <2>2. ASSUME CanBuild(p), NEW n
        PROVE  /\ wr[p].kind = "imm" => Leads(bxroce_prepare_send_wqe(wr[p], n))
               /\ wr[p].kind # "imm" => Leads(bxroce_prepare_write_wqe(wr[p], n, cache[p]))
    <3>1. wr[p] \in Wrs /\ cache[p] \in Caches
      BY <2>1, RememberedType DEF TableInd
    <3>2. CASE wr[p].kind = "imm"
      BY <3>2 DEF Leads, Remote, bxroce_prepare_send_wqe, bxroce_build_wqe_opcode, NoWqe
    <3>3. CASE wr[p].kind # "imm"
      <4>1. wr[p].kind \in {"write", "read"} /\ wr[p].reg \in DOMAIN ever
        BY <2>1, <3>1, <3>3, RememberedType DEF TableInd, Wrs
      <4>2. Resolves(cache[p], wr[p]) /\ Right(cache[p])
        BY <2>2, <4>1 DEF CanBuild, ReadsFound, CacheRight, Right
      <4>3. rdma_addr(cache[p], wr[p]) = [reg |-> wr[p].reg, off |-> Va(wr[p]) - ever[wr[p].reg]]
        BY <3>1, <4>1, <4>2, RdmaRight DEF TableInd
      <4> QED
        BY <3>3, <4>1, <4>3 DEF Leads, bxroce_prepare_write_wqe
    <3> QED
      BY <3>2, <3>3
  <2>3. ASSUME CanBuild(p), NEW i \in Places PROVE Leads(Filled(p)[i])
    BY <2>2, <2>3 DEF Filled, Places, WqesRight
  <2>4. \/ sq'[p] = sq[p]
        \/ CanBuild(p) /\ sq'[p].slot = Filled(p)
        \/ \A i \in Places : sq'[p].slot[i] = IF i = sq[p].head THEN NoWqe ELSE sq[p].slot[i]
    BY <1>1, CheckDoes
  <2>5. \A q \in Procs \ {p} : sq'[q] = sq[q]
    BY <1>1, CheckDoes
  <2>6. Leads(NoWqe)
    BY DEF Leads, NoWqe, Remote
  <2>7. \A q \in Procs, i \in Places : Leads(sq'[q].slot[i])
    BY <2>3, <2>4, <2>5, <2>6 DEF WqesRight
  <2> QED
    BY <2>1, <2>7 DEF WqesRight, Leads
<1>2. ASSUME NEW p \in Procs, Read(p)
      PROVE  WqesRight'
  <2>1. ever' = ever
    BY <1>2 DEF Read
  <2>2. \A q \in Procs : sq'[q].slot = sq[q].slot
    <3>1. sq' = sq \/ sq' = [sq EXCEPT ![p].overhead = sq[p].head, ![p].head = 0]
      BY <1>2 DEF Read
    <3>2. sq \in [Procs -> Sqs]
      BY DEF TableInd, Types, TypeSend
    <3> QED
      BY <3>1, <3>2 DEF Sqs
  <2> QED
    BY <2>1, <2>2 DEF WqesRight, Leads
<1>3. ASSUME NEW p \in Procs, Poll(p)
      PROVE  WqesRight'
  <2>1. ever' = ever
    BY <1>3 DEF Poll
  <2> QED
    BY <1>3, <2>1, PollKeeps DEF TableInd, WqesRight, Leads
<1>4. ASSUME NEW p \in Procs, DevSend(p)
      PROVE  WqesRight'
  <2>1. ever' = ever /\ Leads(NoWqe)
    BY <1>4 DEF DevSend, Leads, NoWqe, Remote
  <2>2. \A q \in Procs, i \in Places : sq'[q].slot[i] \in {NoWqe, sq[q].slot[i]}
    <3>1. /\ sq' = [sq EXCEPT ![p] = [sq[p] EXCEPT !.slot = [sq[p].slot EXCEPT ![dev[p].rp] = NoWqe]]]
          /\ sq \in [Procs -> Sqs] /\ sq[p].slot \in [Places -> Wqes]
      BY <1>4, Fields DEF DevSend, TableInd, Types, TypeSend
    <3>2. sq'[p].slot = [sq[p].slot EXCEPT ![dev[p].rp] = NoWqe]
      BY <3>1 DEF Sqs
    <3> QED
      BY <3>1, <3>2
  <2> QED
    BY <2>1, <2>2 DEF WqesRight, Leads
<1>5. ASSUME NEW p \in Procs, NEW f \in {"no", "kernel", "queues", "regs"}, CreateQp(p, f)
      PROVE  WqesRight'
  <2>1. ever' = ever
    BY <1>5 DEF CreateQp
  <2> QED
    BY <1>5, <2>1, CreateKeeps DEF TableInd, WqesRight, Leads
<1>6. ASSUME NEW p \in Procs, NEW s \in {"RST", "INIT", "RTR", "RTS", "ERR"}, ModifyQp(p, s)
      PROVE  WqesRight'
  <2>1. ever' = ever
    BY <1>6 DEF ModifyQp
  <2> QED
    BY <1>6, <2>1, ModifyKeeps DEF TableInd, WqesRight, Leads
<1>7. ASSUME NEW v \in Vas, RegMr(v)
      PROVE  WqesRight'
  <2>1. sq' = sq
    BY <1>7 DEF RegMr
  <2> QED
    BY <1>7, <2>1, RegMrDoes DEF TableInd, WqesRight, Leads
<1>8. CASE UNCHANGED <<sq, ever>>
  BY <1>8 DEF WqesRight, Leads
<1> QED
  BY <1>1, <1>2, <1>3, <1>4, <1>5, <1>6, <1>7, <1>8, Cases, Frames DEF vars

\* Remote addresses: every WQE that writes or reads remote memory leads to the place in the
\* registration of its key that was asked for, through the address remembered in the queue
\* pair and the removals of the server, as long as a removal takes the last entry of the
\* server's table (bxroce_remove_mr damages any other), a read's address is found
\* (bxroce_build_read does not look whether it was), no two registrations ever made are
\* within two lengths of each other, the same address registered again included (a
\* remembered address is taken whatever key it was resolved for), and what is remembered
\* is 0 at first (addrtbl comes from malloc).
THEOREM LibRemote ==
  ASSUME "remove_any" \notin Allow, "read_fail" \notin Allow, "near" \notin Allow,
         "dirty_heap" \notin Allow
  PROVE  Spec => []RemoteRight
<1>1. Init => RemoteInd
  <2> SUFFICES ASSUME Init PROVE RemoteInd
    OBVIOUS
  <2>1. PoolRight /\ Spread
    BY DEF Init, PoolRight, Spread
  <2>2. ReadsFound
    BY DEF Init, ReadsFound, NoWr
  <2>3. WqesRight
    BY DEF Init, WqesRight, Leads, NoWqe, Remote, Places
  <2>4. CacheRight
    <3>1. cache \in [Procs -> {[va |-> 0, len |-> 0, dma |-> NoDma]}]
      BY DEF Init, Fresh
    <3>2. \A p \in Procs : cache[p] = [va |-> 0, len |-> 0, dma |-> NoDma]
      BY <3>1
    <3> QED
      BY <3>2 DEF CacheRight, Right
  <2> QED
    BY <2>1, <2>2, <2>3, <2>4, TableInit DEF RemoteInd
<1>2. RemoteInd /\ [Next]_vars => RemoteInd'
  <2> SUFFICES ASSUME RemoteInd, [Next]_vars PROVE RemoteInd'
    OBVIOUS
  <2>1. TableInd'
    BY QpsStep, PostStep, SendStep, RecvStep, PeerStep, DividesStep, AskedStep
       DEF RemoteInd, TableInd, Types
  <2>2. Spread' /\ PoolRight' /\ CacheRight' /\ ReadsFound' /\ WqesRight'
    BY SpreadStep, PoolRightStep, CacheRightStep, ReadsFoundStep, WqesRightStep DEF RemoteInd
  <2> QED
    BY <2>1, <2>2 DEF RemoteInd
<1>3. RemoteInd => RemoteRight
  <2> SUFFICES ASSUME RemoteInd, NEW p \in Procs, NEW i \in dev[p].rp .. (dev[p].wp - 1)
               PROVE  Leads(sq[p].slot[i])
    BY DEF RemoteRight, Leads, Remote
  <2>1. dev[p].rp \in Nat /\ dev[p].wp \in Nat /\ dev[p].wp < N
    BY Fields, Around DEF RemoteInd, TableInd, Types, TypeSend
  <2>2. i \in Places
    BY <2>1, Sizes
  <2> QED
    BY <2>2 DEF RemoteInd, WqesRight
<1> QED
  BY <1>1, <1>2, <1>3, PTL DEF Spec
=============================================================================
