----------------------------- MODULE RoceDevProof -----------------------------
(***************************************************************************)
(* Theorems about the RoCE device and its objects, for every number of     *)
(* threads and NICs, every size of the pools and tables and any number of  *)
(* calls.                                                                  *)
(***************************************************************************)
EXTENDS RoceDev, FiniteSetTheorems, SequenceTheorems, TLAPS

USE DEF life, elems, cqres, ahres

-----------------------------------------------------------------------------
(* Where a call may be.                                                    *)

AllocAts == {"get", "inc", "undo", "elem"}                 \* inside bxroce_alloc
RefAts == {"key", "init", "fill", "drop_pd"}               \* has a reference of its PD
IndexAts == {"ref", "drop_index"} \cup RefAts              \* its region has an index
ElAts == {"index", "drop_mr"} \cup IndexAts                \* has a region
MemAts == {"none", "made"} \cup AllocAts \cup ElAts
BitAts == {"cq_mem", "cq_map", "cq_put", "cq_free"}        \* has the number of a CQ
CqAts == {"mmap", "cq_unmap"} \cup BitAts
AhAts == {"ah_set", "ah_free"}                             \* has an address vector

CqOps == {"create_cq", "destroy_cq"}
AhOps == {"create_ah", "destroy_ah"}
RegOps == MrOps \cup {"dereg"}
Calls == [op : {"none"} \cup PdOps \cup RegOps \cup CqOps \cup AhOps,
          at : MemAts \cup CqAts \cup AhAts, pd : Nat, el : Nat, k : Nat]

CallOK(c) ==
  /\ c.at = "none" => c = Idle
  /\ c.at \in AllocAts => c.op \in PdOps \cup MrOps
  /\ c.at = "made" => c.op \in PdOps
  /\ c.at \in ElAts => c.op \in RegOps
  /\ c.at \in CqAts => c.op \in CqOps
  /\ c.at \in AhAts => c.op \in AhOps

\* The calls have their shape.
CallInv == call \in [Threads -> Calls] /\ \A t \in Threads : CallOK(call[t])

\* No more calls are under way than have been made.
NumInv == ncalls \in 0..MaxCalls /\ Cardinality({t \in Threads : call[t] # Idle}) <= ncalls

-----------------------------------------------------------------------------
(* The device.                                                             *)

\* Nobody uses the device.
Quiet ==
  /\ \A t \in Threads : call[t] = Idle
  /\ ctx = Closed /\ held = {} /\ cqs = {} /\ ahs = {}
  /\ \A m \in DOMAIN mrs : ~mrs[m].up

\* A device that is not there is not used, nor is one of a behaviour about NICs.
LifeInv ==
  /\ rocedev \subseteq dev_list /\ list \subseteq Nics
  /\ rocedev # {} => drv
  /\ Main \notin rocedev \/ topic = "life" => Quiet

ChipType ==
  /\ nic \in [up : BOOLEAN, ip : Nat, mac : Nat]
  /\ chip \in [rqec : SUBSET {"mac", "rdma"}, ip : Nat, mac : Nat, blocks : SUBSET Blocks]

\* What mac_enable_rx and bx_add have left in the registers.
ChipInv ==
  /\ ChipType
  /\ nic.up => "mac" \in chip.rqec
  /\ Main \in rocedev => drv

-----------------------------------------------------------------------------
(* Protection domains.                                                     *)

CtxInv ==
  /\ ctx \in [st : {"closed", "opening", "open"}, ctx_pd : Nat, pd_in_use : BOOLEAN,
              mm_head : Seq([page : Nat, len : Nat])]
  /\ ctx.st = "closed" => ctx = Closed
  /\ ctx.st # "open" => ctx.ctx_pd = 0 /\ ~ctx.pd_in_use
  /\ \A t \in Threads : call[t].op = "open" => t \in Users /\ ctx.st = "opening"
  /\ \A t, u \in Threads : call[t].op = "open" /\ call[u].op = "open" => t = u

PdShape ==
  /\ IsFiniteSet(DOMAIN pds) /\ DOMAIN pds \subseteq Nat \ {0}
  /\ \A p \in DOMAIN pds : pds[p] \in [ref : Int]
  /\ IsFiniteSet(held) /\ held \subseteq [pd : Nat, own : Threads]

Makes(t) == call[t].at = "made"

\* A PD that someone has, or is about to have, is live and no one else's; the one
\* of the context is a user's while it is given out.
OwnerInv ==
  /\ ctx.st = "open" => ctx.ctx_pd \in DOMAIN pds
  /\ \A h \in held : /\ h.pd \in DOMAIN pds
                     /\ h.pd = ctx.ctx_pd => h.own \in Users /\ ctx.pd_in_use
  /\ \A g, h \in held : g.pd = h.pd => g = h
  /\ \A t \in Threads : Makes(t) =>
       /\ call[t].pd \in DOMAIN pds
       /\ call[t].pd = ctx.ctx_pd => t \in Users /\ ctx.pd_in_use
       /\ \A h \in held : h.pd # call[t].pd
  /\ \A t, u \in Threads : Makes(t) /\ Makes(u) /\ call[t].pd = call[u].pd => t = u

\* Whoever works on a region has, or shares, its PD.
UseInv ==
  /\ \A m \in DOMAIN mrs : mrs[m].up =>
       mrs[m].pd = mrs[m].ibpd /\ \E h \in held : h.pd = mrs[m].ibpd
  /\ \A t \in Threads : call[t].op \in RegOps => \E h \in held : h.pd = call[t].pd
  /\ \A t \in Threads : call[t].op # "fast"

Refs(p) == {t \in Threads : call[t].pd = p /\ call[t].at \in RefAts}

RefInv ==
  \A p \in DOMAIN pds : pds[p].ref = 1 + Cardinality(Uses(p)) + Cardinality(Refs(p))

-----------------------------------------------------------------------------
(* Pools and memory regions.                                               *)

MrShape ==
  /\ IsFiniteSet(DOMAIN mrs) /\ DOMAIN mrs \subseteq Nat \ {0}
  /\ \A m \in DOMAIN mrs :
       mrs[m] \in [ref : Nat, index : Nat, lkey : Nat, pd : Nat, ibpd : Nat,
                   whole : BOOLEAN, up : BOOLEAN]

Pools == [state : {"VALID", "INVALID"}, num_elem : Int, max_elem : Nat, ref_cnt : Int,
          min_index : Nat, range : Nat, table : SUBSET Nat, last : Nat]

PoolShape ==
  /\ pd_pool \in Pools /\ mr_pool \in Pools /\ key \in 0..255
  /\ Main \in rocedev =>
       /\ pd_pool.state = "VALID" /\ mr_pool.state = "VALID"
       /\ pd_pool.max_elem = MaxPd /\ mr_pool.max_elem = MaxMr
       /\ mr_pool.min_index = MinIndex /\ mr_pool.range = MaxMr

\* The calls with one of these operations at one of these places.
Where(ops, ats) == {t \in Threads : call[t].op \in ops /\ call[t].at \in ats}

\* The count and the references of a pool with these elements; room for an element
\* is left for every call that is about to make one.
Exact(pool, n, ops) ==
  /\ n + Cardinality(Where(ops, {"elem"})) <= pool.max_elem
  /\ pool.num_elem = n + Cardinality(Where(ops, {"undo", "elem"}))
  /\ pool.ref_cnt = (IF pool.state = "VALID" THEN 1 ELSE 0) + n
                      + Cardinality(Where(ops, {"inc", "undo", "elem"}))

CountInv ==
  /\ Exact(pd_pool, Cardinality(DOMAIN pds), PdOps)
  /\ Exact(mr_pool, Cardinality(DOMAIN mrs), MrOps)

\* A call works on a region of its own, which nobody else knows.
ElInv ==
  /\ \A t \in Threads : call[t].at \in ElAts => call[t].el \in DOMAIN mrs /\ ~mrs[call[t].el].up
  /\ \A t, u \in Threads :
       call[t].at \in ElAts /\ call[u].at \in ElAts /\ call[t].el = call[u].el => t = u

\* The regions that have an index.
Indexed ==
  {m \in DOMAIN mrs : mrs[m].up}
  \cup {call[t].el : t \in {t \in Threads : call[t].at \in IndexAts}}

KeyOf(r) == \E k \in 0..255 : r.lkey = lkey(r.index, k)

IndexInv ==
  /\ mr_pool.table = {mrs[m].index - mr_pool.min_index : m \in Indexed}
  /\ \A m \in Indexed : mrs[m].index \in MinIndex..(MinIndex + MaxMr - 1)
  /\ \A m \in DOMAIN mrs : mrs[m].index \in 0..(MinIndex + MaxMr - 1)
  /\ \A m, n \in Indexed : mrs[m].index = mrs[n].index => m = n
  /\ \A m \in DOMAIN mrs : mrs[m].up => KeyOf(mrs[m])
  /\ \A t \in Threads : /\ call[t].at = "init" => call[t].k \in 0..255
                        /\ call[t].at = "fill" => KeyOf(mrs[call[t].el])

-----------------------------------------------------------------------------
(* Completion queues and address vectors.                                  *)

CqShape ==
  /\ cq_bits \subseteq 0..(MaxCq - 1) /\ next_cq \in 0..(MaxCq - 1)
  /\ IsFiniteSet(pages) /\ pages \subseteq Nat \ {0}
  /\ IsFiniteSet(cqs) /\ cqs \subseteq [id : Nat, page : Nat \ {0}, own : Threads]
  /\ \A t \in Threads : call[t].at \in CqAts \ {"cq_mem"} => call[t].k # 0

\* A number belongs to one queue or to one call.
BitInv ==
  /\ \A q \in cqs : q.id \in cq_bits /\ q.id \in DOMAIN cq_table /\ cq_table[q.id] = q.page
  /\ \A p, q \in cqs : p.id = q.id => p = q
  /\ \A t \in Threads : call[t].at \in BitAts => call[t].el \in cq_bits /\ \A q \in cqs : q.id # call[t].el
  /\ \A t, u \in Threads :
       call[t].at \in BitAts /\ call[u].at \in BitAts /\ call[t].el = call[u].el => t = u

UserCqs == {q \in cqs : q.own \in Users}
Maps(t) == call[t].at = "cq_put" \/ (call[t].op = "destroy_cq" /\ call[t].at \in {"cq_free", "cq_unmap"})
Mapping == {t \in Users : Maps(t)}

\* The list has the address vector table first and then one entry of three pages for
\* each queue of the process that is mapped: which one is removed does not matter.
ListInv ==
  /\ ctx.st # "open" => UserCqs = {} /\ \A t \in Users : call[t].at \notin CqAts
  /\ ctx.st # "closed" =>
       /\ Len(ctx.mm_head) = 1 + Cardinality(UserCqs) + Cardinality(Mapping)
       /\ ctx.mm_head[1] = AhTable
       /\ \A i \in 2..Len(ctx.mm_head) : ctx.mm_head[i].len = CqLen
  /\ \A t \in Threads :
       /\ call[t].at \in {"cq_map", "cq_unmap", "mmap"} => t \in Users
       /\ call[t].at = "cq_unmap" => call[t].op = "destroy_cq"
       /\ call[t].at = "mmap" => \E q \in cqs : q.page = call[t].k /\ q.own = t

Creating == {t \in Threads : call[t].at \in AhAts}

AvInv ==
  /\ av \subseteq 1..MaxAv /\ IsFiniteSet(ahs) /\ ahs \subseteq [av : 1..MaxAv, own : Threads]
  /\ \A t \in Creating : call[t].el \in 1..MaxAv /\ \A a \in ahs : a.av # call[t].el
  /\ \A a, b \in ahs : a.av = b.av => a = b
  /\ \A t, u \in Creating : call[t].el = call[u].el => t = u
  /\ AvUnique

-----------------------------------------------------------------------------
(* What is left behind, and room in the pool of PDs.                       *)

\* Every PD is had by someone, or is about to be.
LeftPds ==
  \A p \in DOMAIN pds : \/ p = ctx.ctx_pd
                        \/ \E h \in held : h.pd = p
                        \/ \E t \in Threads : Makes(t) /\ call[t].pd = p

\* Every region is in use or in the hands of a call.
LeftMrs ==
  \A m \in DOMAIN mrs : mrs[m].up \/ \E t \in Threads : call[t].at \in ElAts /\ call[t].el = m

Held(t) == {h \in held : h.own = t}

\* A thread has no more PDs than it may have, with the one it is about to get.
RoomInv ==
  \A t \in Threads :
    /\ call[t].op = "alloc_pd" => Cardinality(Held(t)) < MaxHeld
    /\ Cardinality(Held(t)) <= MaxHeld

\* A call for a PD always finds room in the pool.
UndoInv == \A t \in Threads : call[t].op \in PdOps => call[t].at # "undo"

\* A device that is not there has no pools.
GoneInv ==
  Main \notin rocedev =>
    /\ pd_pool.state = "INVALID" /\ pd_pool.ref_cnt = 0
    /\ mr_pool.state = "INVALID" /\ mr_pool.ref_cnt = 0

\* While the module is loaded every NIC has a device.
ListedInv == drv => list \subseteq rocedev

-----------------------------------------------------------------------------
(* Numbers and sets.                                                       *)

\* A set of naturals has a least element, and Least finds it.
LEMMA LeastIs ==
  ASSUME NEW s, s \subseteq Nat, s # {}
  PROVE  Least(s) \in s /\ \A y \in s : Least(s) <= y
<1> DEFINE R == OpToRel(<, Nat)
<1>1. R = {ss \in Nat \X Nat : ss[1] < ss[2]}
  BY DEF OpToRel
<1>2. IsWellFoundedOn(R, Nat)
  BY NatLessThanWellFounded
<1> HIDE DEF R
<1>3. \E x \in s : \A y \in s : <<y, x>> \notin R
  BY <1>2, WFMin, Zenon
<1>4. PICK x \in s : \A y \in s : <<y, x>> \notin R
  BY <1>3
<1>5. ASSUME NEW y \in s PROVE x <= y
  <2>1. y \in Nat /\ x \in Nat /\ <<y, x>> \in Nat \X Nat
    OBVIOUS
  <2>2. <<y, x>>[1] = y /\ <<y, x>>[2] = x
    OBVIOUS
  <2>3. ~ (y < x)
    <3> SUFFICES ASSUME y < x PROVE <<y, x>> \in R
      BY <1>4
    <3>1. <<y, x>>[1] < <<y, x>>[2]
      BY <2>2
    <3> QED
      BY <1>1, <2>1, <3>1, Zenon
  <2> QED
    BY <2>1, <2>3
<1>6. \E z \in s : \A y \in s : z <= y
  BY <1>5
<1> QED
  BY <1>6, Zenon DEF Least

\* The name of a new element is not in use.
LEMMA UnusedIs ==
  ASSUME NEW s, IsFiniteSet(s)
  PROVE  Unused(s) \in Nat \ {0} /\ Unused(s) \notin s
<1> DEFINE c == Cardinality(s)
           free == (1..(c + 1)) \ s
<1>1. c \in Nat
  BY FS_CardinalityType
<1>2. IsFiniteSet(1..(c + 1)) /\ Cardinality(1..(c + 1)) = c + 1
  <2>1. /\ IsFiniteSet(1..(c + 1))
        /\ Cardinality(1..(c + 1)) = IF 1 > c + 1 THEN 0 ELSE (c + 1) - 1 + 1
    BY <1>1, 1 \in Int, c + 1 \in Int, FS_Interval
  <2> QED
    BY <1>1, <2>1
<1>3. free # {}
  <2> SUFFICES ASSUME 1..(c + 1) \subseteq s PROVE FALSE
    OBVIOUS
  <2>1. Cardinality(1..(c + 1)) <= c
    BY FS_Subset, 1..(c + 1) \in SUBSET s
  <2> QED
    BY <1>1, <1>2, <2>1
<1>4. free \subseteq Nat
  BY <1>1
<1>5. Least(free) \in free
  BY <1>3, <1>4, LeastIs
<1> QED
  BY <1>5, <1>1 DEF Unused

\* Two sets that differ at most in one element.
LEMMA Differ ==
  ASSUME NEW A, NEW B, NEW x, IsFiniteSet(A), A \ {x} = B \ {x}
  PROVE  /\ IsFiniteSet(B) /\ Cardinality(A) \in Nat /\ Cardinality(B) \in Nat
         /\ Cardinality(B) + (IF x \in A THEN 1 ELSE 0)
              = Cardinality(A) + (IF x \in B THEN 1 ELSE 0)
<1> DEFINE C == A \ {x}
<1>1. IsFiniteSet(C) /\ Cardinality(C) = IF x \in A THEN Cardinality(A) - 1 ELSE Cardinality(A)
  BY FS_RemoveElement
<1>2. B = IF x \in B THEN C \cup {x} ELSE C
  OBVIOUS
<1>3. IsFiniteSet(B)
  BY <1>1, <1>2, FS_AddElement
<1>4. Cardinality(A) \in Nat /\ Cardinality(B) \in Nat
  BY <1>3, FS_CardinalityType
<1>5. IsFiniteSet(B \ {x}) /\ Cardinality(B \ {x}) = IF x \in B THEN Cardinality(B) - 1 ELSE Cardinality(B)
  BY <1>3, FS_RemoveElement
<1> QED
  BY <1>1, <1>3, <1>4, <1>5

\* bxroce_get_key keeps to a byte.
LEMMA KeyByte == ASSUME NEW x \in Nat PROVE bxroce_get_key(x) \in 0..255
BY DEF bxroce_get_key, Bit

\* What the constants are.
LEMMA Sizes ==
  /\ {MaxPd, MaxMr, MaxAv, MinIndex, MaxCalls, MaxHeld} \subseteq Nat \ {0}
  /\ MaxCq \in Nat /\ MaxCq > 3 /\ Addrs \subseteq Nat /\ Main \in Nics
  /\ IsFiniteSet(Threads) /\ Threads = Users \cup Clients /\ Users \cap Clients = {}
BY RoceDevConstants DEF Threads
-----------------------------------------------------------------------------
(* Steps.                                                                  *)

MemStep(t) == Alloc(t) \/ Pds(t) \/ Mrs(t)

\* A step is one of a thread, or one of the NICs and the module, which come alone.
LEMMA Cases ==
  ASSUME [Next]_vars
  PROVE  \/ \E t \in Threads : MemStep(t) \/ Cqs(t) \/ Ahs(t)
         \/ Life
         \/ UNCHANGED vars
BY DEF Next, MemStep

-----------------------------------------------------------------------------
(* The registers.                                                          *)

\* A thread does not touch the NIC and the device.
LEMMA LifeFrame ==
  ASSUME NEW t \in Threads, Alloc(t) \/ Pds(t) \/ Mrs(t) \/ Cqs(t) \/ Ahs(t)
  PROVE  UNCHANGED life
<1>1. CASE Alloc(t)
  BY <1>1, Zenon DEF Alloc, AllocGet, AllocInc, AllocUndo, AllocElem, Others
<1>2. CASE Pds(t)
  BY <1>2, Zenon
     DEF Pds, bxroce_alloc_ucontext, OpenDone, bxroce_dealloc_ucontext,
     bxroce_get_ucontext_pd, bxroce_alloc_pd, AllocPdDone, bxroce_dealloc_pd, Others
<1>3. CASE Mrs(t)
  BY <1>3, Zenon
     DEF Mrs, RegMr, AddIndex, AddRef, UmemFails, KeyRead, bxroce_mem_init,
     bxroce_reg_user_mr, KernelMr, bxroce_dereg_mr, DropPdOf, DropIndex, DropMr, Others
<1>4. CASE Cqs(t)
  BY <1>4, Zenon
     DEF Cqs, bxroce_create_cq, bxroce_hw_create_cq, bxroce_copy_cq_uresp, CqFault,
     CqStored, bxroce_mmap, bxroce_destroy_cq, bxroce_free_cqresource, CqUnmap, CqRest
<1>5. CASE Ahs(t)
  BY <1>5, Zenon
     DEF Ahs, bxroce_alloc_av, bxroce_create_ah, bxroce_free_av, bxroce_destroy_ah, AhRest
<1> QED
  BY <1>1, <1>2, <1>3, <1>4, <1>5

\* What bx_add does to the registers.
LEMMA HwInit ==
  ASSUME nic \in [up : BOOLEAN, ip : Nat, mac : Nat],
         chip \in [rqec : SUBSET {"mac", "rdma"}, ip : Nat, mac : Nat, blocks : SUBSET Blocks],
         chip' = bxroce_init_hw(chip)
  PROVE  /\ chip' \in [rqec : SUBSET {"mac", "rdma"}, ip : Nat, mac : Nat, blocks : SUBSET Blocks]
         /\ chip'.rqec = chip.rqec \cup {"rdma"} /\ chip'.blocks = Blocks
         /\ chip'.mac = nic.mac /\ (nic.ip # 0 => chip'.ip = nic.ip)
<1> DEFINE C == [rqec : SUBSET {"mac", "rdma"}, ip : Nat, mac : Nat, blocks : SUBSET Blocks]
           c1 == bxroce_init_mac_channel(chip)
           c2 == bxroce_init_cm(c1)
           c3 == phd_mac_init(Initialised(c2, "phd"))
           c4 == phd_ipv4_init(c3)
           c5 == bxroce_init_pbu(c4)
           c6 == bxroce_init_pgu_wqe(c5)
<1>1. /\ c1 \in C /\ c1.rqec = chip.rqec \cup {"rdma"}
      /\ c1.blocks = chip.blocks \cup {"mac_channel"}
  BY DEF bxroce_init_mac_channel, mac_rdma_enable_rx, Initialised, Blocks
<1>2. c2 \in C /\ c2.rqec = c1.rqec /\ c2.blocks = c1.blocks \cup {"cm"}
  BY <1>1 DEF bxroce_init_cm, Initialised, Blocks
<1>3. /\ c3 \in C /\ c3.rqec = c2.rqec /\ c3.blocks = c2.blocks \cup {"phd"}
      /\ c3.mac = nic.mac
  BY <1>2 DEF phd_mac_init, Initialised, Blocks
<1>4. /\ c4 \in C /\ c4.rqec = c3.rqec /\ c4.blocks = c3.blocks
      /\ c4.mac = c3.mac /\ (nic.ip # 0 => c4.ip = nic.ip)
  BY <1>3 DEF phd_ipv4_init
<1>5. /\ c5 \in C /\ c5.rqec = c4.rqec /\ c5.ip = c4.ip /\ c5.mac = c4.mac
      /\ c5.blocks = c4.blocks \cup {"pbu"}
  BY <1>4 DEF bxroce_init_pbu, Initialised, Blocks
<1>6. /\ c6 \in C /\ c6.rqec = c5.rqec /\ c6.ip = c5.ip /\ c6.mac = c5.mac
      /\ c6.blocks = c5.blocks \cup {"pgu_wqe"}
  BY <1>5 DEF bxroce_init_pgu_wqe, Initialised, Blocks
<1>7. chip' = bxroce_init_pgu_cq(c6)
  BY DEF bxroce_init_hw, bxroce_init_phd
<1> HIDE DEF c1, c2, c3, c4, c5, c6
<1>8. /\ chip' \in C /\ chip'.rqec = c6.rqec /\ chip'.ip = c6.ip /\ chip'.mac = c6.mac
      /\ chip'.blocks = c6.blocks \cup {"pgu_cq"}
  BY <1>6, <1>7 DEF bxroce_init_pgu_cq, Initialised, Blocks
<1> QED
  BY <1>1, <1>2, <1>3, <1>4, <1>5, <1>6, <1>8 DEF Blocks

\* What mac_enable_rx and bx_add leave in the registers stays there.
LEMMA ReadyStep ==
  ASSUME "ifdown" \notin Allow, "new_addr" \notin Allow, ChipInv, RdmaReady, [Next]_vars
  PROVE  ChipInv' /\ RdmaReady'
<1> USE DEF ChipType, ChipInv, RdmaReady
<1>1. CASE UNCHANGED life
  BY <1>1
<1>2. ASSUME NEW n \in Nics, mac_register_dev(n)
      PROVE  ChipInv' /\ RdmaReady'
  BY <1>2 DEF mac_register_dev, NicRest
<1>3. ASSUME NEW n \in Nics, mac_unregister_dev(n)
      PROVE  ChipInv' /\ RdmaReady'
  <2>1. CASE n = Main
    BY <1>3, <2>1 DEF mac_unregister_dev, NicRest, mac_disable_rx
  <2>2. CASE n # Main
    BY <1>3, <2>2 DEF mac_unregister_dev, NicRest
  <2> QED
    BY <2>1, <2>2
<1>4. ASSUME UpDown
      PROVE  ChipInv' /\ RdmaReady'
  BY <1>4 DEF UpDown, NicRest, mac_disable_rx, mac_enable_rx
<1>5. ASSUME NEW x \in {"ip", "mac"}, NEW a \in Addrs, bxroce_inetaddr_event(x, a)
      PROVE  ChipInv' /\ RdmaReady'
  BY <1>5, Sizes DEF bxroce_inetaddr_event, NicRest
<1>6. ASSUME NEW f \in SUBSET list, bx_init_module(f)
      PROVE  ChipInv' /\ RdmaReady'
  <2>1. nic' = nic /\ drv' /\ rocedev' = list \ f /\ ~drv
    BY <1>6 DEF bx_init_module, bx_roce_register_driver
  <2>2. CASE Main \notin list \ f
    BY <1>6, <2>1, <2>2 DEF bx_init_module, bx_roce_register_driver, bx_add
  <2>3. CASE Main \in list \ f
    <3>1. chip' = bxroce_init_hw(chip)
      BY <1>6, <2>3 DEF bx_init_module, bx_roce_register_driver, bx_add
    <3>2. /\ chip' \in [rqec : SUBSET {"mac", "rdma"}, ip : Nat, mac : Nat, blocks : SUBSET Blocks]
          /\ chip'.rqec = chip.rqec \cup {"rdma"} /\ chip'.blocks = Blocks
          /\ chip'.mac = nic.mac /\ (nic.ip # 0 => chip'.ip = nic.ip)
      BY <3>1, HwInit
    <3> QED
      BY <2>1, <3>2
  <2> QED
    BY <2>2, <2>3
<1>7. ASSUME bx_exit_module
      PROVE  ChipInv' /\ RdmaReady'
  BY <1>7 DEF bx_exit_module, Oops
<1>8. CASE Life
  BY <1>2, <1>3, <1>4, <1>5, <1>6, <1>7, <1>8 DEF Life
<1> QED
  BY <1>1, <1>8, Cases, LifeFrame DEF MemStep, vars

(* A registered device can receive.  bx_add initialises every block of the *)
(* chip, gives it the addresses of the interface and adds the queue of RDMA *)
(* to the enabled ones without taking away that of the NIC, and nothing     *)
(* undoes this while the interface does not go down under the driver or     *)
(* change its address, which no notifier handles.                           *)
THEOREM RoceReady ==
  ASSUME "ifdown" \notin Allow, "new_addr" \notin Allow
  PROVE  Spec => []RdmaReady
<1>1. Init => ChipInv /\ RdmaReady
  <2> SUFFICES ASSUME Init PROVE ChipInv /\ RdmaReady
    OBVIOUS
  <2>1. nic.up \in BOOLEAN /\ nic \in [up : BOOLEAN, ip : Nat, mac : Nat]
    <3>1. (topic # "life") \in BOOLEAN
      OBVIOUS
    <3> QED
      BY <3>1 DEF Init
  <2>2. chip \in [rqec : SUBSET {"mac", "rdma"}, ip : Nat, mac : Nat, blocks : SUBSET Blocks]
    BY DEF Init
  <2>3. (nic.up => "mac" \in chip.rqec) /\ Main \notin rocedev
    BY DEF Init
  <2> QED
    BY <2>1, <2>2, <2>3 DEF ChipType, ChipInv, RdmaReady
<1>2. ChipInv /\ RdmaReady /\ [Next]_vars => ChipInv' /\ RdmaReady'
  BY ReadyStep
<1> QED
  BY <1>1, <1>2, PTL DEF Spec

-----------------------------------------------------------------------------
(* What a step of a thread leaves alone.                                   *)

Moves(t, ats) ==
  /\ call[t].at \in ats /\ call'[t].at \in ats
  /\ \A u \in Threads : u # t => call'[u] = call[u]

\* The fields of a call.
LEMMA AtIs ==
  ASSUME NEW t \in Threads, CallInv
  PROVE  /\ \A a : At(t, a) = [op |-> call[t].op, at |-> a, pd |-> call[t].pd,
                               el |-> call[t].el, k |-> call[t].k]
         /\ call[t] \in Calls /\ CallOK(call[t])
         /\ \A r : Go(t, r) => call'[t] = r /\ \A u \in Threads : u # t => call'[u] = call[u]
BY DEF CallInv, Calls, At, Go

\* A thread goes on in its call.
LEMMA Goes ==
  ASSUME NEW t \in Threads, NEW r \in Calls, NEW ats, CallInv, CallOK(r), Go(t, r),
         call[t].at \in ats, r.at \in ats
  PROVE  CallInv' /\ call'[t] = r /\ Moves(t, ats)
<1>1. call' = [call EXCEPT ![t] = r] /\ call \in [Threads -> Calls]
  BY DEF Go, CallInv
<1>2. call' \in [Threads -> Calls] /\ call'[t] = r /\ \A u \in Threads : u # t => call'[u] = call[u]
  BY <1>1
<1>3. \A u \in Threads : CallOK(call'[u])
  BY <1>2 DEF CallInv
<1> QED
  BY <1>2, <1>3 DEF CallInv, Moves

\* A thread stays where it is.
LEMMA Stays ==
  ASSUME NEW t \in Threads, NEW ats, CallInv, call' = call, call[t].at \in ats
  PROVE  CallInv' /\ Moves(t, ats)
BY DEF CallInv, Moves

\* A new call.
LEMMA Begins ==
  ASSUME NEW t \in Threads, NEW kinds, NEW op, NEW at, NEW pd, NEW el, NEW k, NEW ats,
         CallInv, Begin(t, kinds, op, at, pd, el, k),
         [op |-> op, at |-> at, pd |-> pd, el |-> el, k |-> k] \in Calls,
         CallOK([op |-> op, at |-> at, pd |-> pd, el |-> el, k |-> k]),
         {at, "none"} \subseteq ats
  PROVE  /\ CallInv' /\ call'[t] = [op |-> op, at |-> at, pd |-> pd, el |-> el, k |-> k]
         /\ call[t] = Idle /\ Moves(t, ats)
<1> DEFINE r == [op |-> op, at |-> at, pd |-> pd, el |-> el, k |-> k]
<1>1. call[t] = Idle /\ Go(t, r) /\ r.at = at /\ Idle.at = "none"
  BY DEF Begin, Idle
<1>2. call[t].at \in ats /\ r.at \in ats
  BY <1>1
<1> HIDE DEF r
<1>3. CallInv' /\ call'[t] = r /\ Moves(t, ats)
  BY <1>1, <1>2, Goes DEF r
<1> QED
  BY <1>1, <1>3 DEF r

\* Calls on memory regions, PDs and contexts.
LEMMA MemFrame ==
  ASSUME NEW t \in Threads, MemStep(t), CallInv, CtxInv, PdShape, MrShape, PoolShape
  PROVE  CallInv' /\ Moves(t, MemAts) /\ UNCHANGED <<life, cqres, ahres>>
<1> USE DEF CallOK, Idle, Calls, AllocAts, RefAts, IndexAts, ElAts, MemAts, BitAts, CqAts, AhAts, CqOps, AhOps, RegOps, PdOps, MrOps
<1>1. /\ call[t] \in Calls /\ CallOK(call[t]) /\ Idle \in Calls /\ CallOK(Idle)
      /\ \A a \in MemAts \cup CqAts \cup AhAts : At(t, a) = [call[t] EXCEPT !.at = a]
  BY DEF CallInv, At
<1>2. CASE AllocGet(t)
  BY <1>1, <1>2, Goes, Stays DEF AllocGet, Runs, Others, Null, At
<1>3. CASE AllocInc(t)
  BY <1>1, <1>3, Goes, Stays DEF AllocInc, Runs, Others, At
<1>4. CASE AllocUndo(t)
  BY <1>1, <1>4, Goes, Stays DEF AllocUndo, Runs, Others, Null, At
<1>5. CASE AllocElem(t)
  <2>1. Runs(t, "elem") /\ UNCHANGED <<life, cqres, ahres>>
    BY <1>5 DEF AllocElem, Others
  <2>2. Unused(DOMAIN pds) \in Nat /\ Unused(DOMAIN mrs) \in Nat
    BY UnusedIs DEF PdShape, MrShape
  <2>3. CASE call[t].op \in PdOps
    <3> DEFINE r == [At(t, "made") EXCEPT !.pd = Unused(DOMAIN pds)]
    <3>1. r \in Calls /\ CallOK(r) /\ r.at = "made"
      BY <1>1, <2>2, <2>3, SMTT(30)
    <3>2. Go(t, r)
      BY <1>5, <2>3 DEF AllocElem
    <3> QED
      BY <2>1, <3>1, <3>2, Goes DEF Runs
  <2>4. CASE call[t].op \notin PdOps
    <3> DEFINE r == [At(t, "index") EXCEPT !.el = Unused(DOMAIN mrs)]
    <3>1. r \in Calls /\ CallOK(r) /\ r.at = "index"
      BY <1>1, <2>1, <2>2, <2>4, SMTT(30) DEF Runs
    <3>2. Go(t, r)
      BY <1>5, <2>4 DEF AllocElem
    <3> QED
      BY <2>1, <3>1, <3>2, Goes DEF Runs
  <2> QED
    BY <2>3, <2>4
<1>6. CASE bxroce_alloc_ucontext(t)
  <2>1. UNCHANGED <<life, cqres, ahres>> /\ Begin(t, {"mem", "cq"}, "open", "get", 0, 0, 0)
    BY <1>6 DEF bxroce_alloc_ucontext
  <2>2. [op |-> "open", at |-> "get", pd |-> 0, el |-> 0, k |-> 0] \in Calls
    OBVIOUS
  <2>3. {"get", "none"} \subseteq MemAts
    OBVIOUS
  <2>4. CallOK([op |-> "open", at |-> "get", pd |-> 0, el |-> 0, k |-> 0])
    OBVIOUS
  <2> QED
    BY <2>1, <2>2, <2>3, <2>4, Begins, ZenonT(30)
<1>7. ASSUME NEW f \in BOOLEAN, OpenDone(t, f)
      PROVE  CallInv' /\ Moves(t, MemAts) /\ UNCHANGED <<life, cqres, ahres>>
  BY <1>1, <1>7, Goes, Stays DEF OpenDone, Runs, Others, At
<1>8. CASE bxroce_dealloc_ucontext(t)
  BY <1>1, <1>8, Goes, Stays DEF bxroce_dealloc_ucontext, At
<1>9. CASE bxroce_get_ucontext_pd(t)
  BY <1>9, Begins, ZenonT(30) DEF bxroce_get_ucontext_pd, CtxInv, PdShape, MrShape
<1>10. CASE bxroce_alloc_pd(t)
  BY <1>10, Begins DEF bxroce_alloc_pd, CtxInv, PdShape, MrShape
<1>11. CASE AllocPdDone(t)
  BY <1>1, <1>11, Goes, Stays DEF AllocPdDone, Runs, Others, At
<1>12. ASSUME NEW h \in held, bxroce_dealloc_pd(t, h)
      PROVE  CallInv' /\ Moves(t, MemAts) /\ UNCHANGED <<life, cqres, ahres>>
  BY <1>1, <1>12, Goes, Stays DEF bxroce_dealloc_pd, At
<1>13. ASSUME NEW h \in held, NEW op \in MrOps, RegMr(t, h, op)
      PROVE  CallInv' /\ Moves(t, MemAts) /\ UNCHANGED <<life, cqres, ahres>>
  BY <1>13, Begins, ZenonT(30) DEF RegMr, CtxInv, PdShape, MrShape
<1>14. ASSUME NEW f \in BOOLEAN, AddIndex(t, f)
      PROVE  CallInv' /\ Moves(t, MemAts) /\ UNCHANGED <<life, cqres, ahres>>
  BY <1>1, <1>14, Goes, Stays DEF AddIndex, Runs, Others, At
<1>15. CASE AddRef(t)
  BY <1>1, <1>15, Goes, Stays DEF AddRef, Runs, Others, At
<1>16. CASE UmemFails(t)
  BY <1>1, <1>16, Goes, Stays DEF UmemFails, Runs, Others, At
<1>17. CASE KeyRead(t)
  <2> DEFINE r == [At(t, "init") EXCEPT !.k = bxroce_get_key(key)]
  <2>1. bxroce_get_key(key) \in Nat
    BY KeyByte DEF PoolShape
  <2>2. r \in Calls /\ CallOK(r) /\ r.at = "init"
    BY <1>1, <2>1, <1>17, SMTT(30) DEF KeyRead, Runs
  <2>3. Go(t, r) /\ UNCHANGED <<life, cqres, ahres>>
    BY <1>17 DEF KeyRead, Others
  <2> QED
    BY <2>2, <2>3, <1>17, Goes DEF KeyRead, Runs
<1>18. CASE bxroce_mem_init(t)
  BY <1>1, <1>18, Goes, Stays, ZenonT(30) DEF bxroce_mem_init, Runs, Others, At
<1>19. ASSUME NEW s \in Starts, NEW l \in Lens, NEW b \in BOOLEAN, NEW n \in BOOLEAN,
             NEW f \in BOOLEAN, bxroce_reg_user_mr(t, s, l, b, n, f)
      PROVE  CallInv' /\ Moves(t, MemAts) /\ UNCHANGED <<life, cqres, ahres>>
  BY <1>1, <1>19, Goes, Stays DEF bxroce_reg_user_mr, Runs, Others, Filled, At
<1>20. ASSUME NEW f \in BOOLEAN, KernelMr(t, f)
      PROVE  CallInv' /\ Moves(t, MemAts) /\ UNCHANGED <<life, cqres, ahres>>
  BY <1>1, <1>20, Goes, Stays DEF KernelMr, Runs, Others, Filled, At
<1>21. ASSUME NEW m \in DOMAIN mrs, bxroce_dereg_mr(t, m)
      PROVE  CallInv' /\ Moves(t, MemAts) /\ UNCHANGED <<life, cqres, ahres>>
  BY <1>21, Begins DEF bxroce_dereg_mr, CtxInv, PdShape, MrShape
<1>22. CASE DropPdOf(t)
  BY <1>1, <1>22, Goes, Stays DEF DropPdOf, Runs, Others, At
<1>23. CASE DropIndex(t)
  BY <1>1, <1>23, Goes, Stays DEF DropIndex, Runs, Others, At
<1>24. CASE DropMr(t)
  BY <1>1, <1>24, Goes, Stays DEF DropMr, Runs, Others, At
<1> QED
  BY <1>2, <1>3, <1>4, <1>5, <1>6, <1>7, <1>8, <1>9, <1>10, <1>11, <1>12, <1>13, <1>14, <1>15,
     <1>16, <1>17, <1>18, <1>19, <1>20, <1>21, <1>22, <1>23, <1>24
     DEF MemStep, Alloc, Pds, Mrs

\* Calls on completion queues.
LEMMA CqFrame ==
  ASSUME NEW t \in Threads, Cqs(t), CallInv, CtxInv, CqShape
  PROVE  /\ CallInv' /\ Moves(t, {"none"} \cup CqAts) /\ UNCHANGED <<life, elems, held, ahres>>
         /\ ctx'.st = ctx.st /\ ctx'.ctx_pd = ctx.ctx_pd /\ ctx'.pd_in_use = ctx.pd_in_use
<1> USE DEF CallOK, Idle, Calls, AllocAts, RefAts, IndexAts, ElAts, MemAts, BitAts, CqAts, AhAts, CqOps, AhOps, RegOps, PdOps, MrOps
<1>1. /\ call[t] \in Calls /\ CallOK(call[t]) /\ Idle \in Calls /\ CallOK(Idle)
      /\ \A a \in MemAts \cup CqAts \cup AhAts : At(t, a) = [call[t] EXCEPT !.at = a]
  BY DEF CallInv, At
<1>2. FindCq(0) # {} => bxroce_alloc_cqqpresource \in Nat
  <2>1. FindCq(0) \subseteq Nat /\ FindCq(next_cq) \subseteq Nat
    BY Sizes DEF FindCq, CqShape
  <2> QED
    BY <2>1, LeastIs DEF bxroce_alloc_cqqpresource
<1>3. CASE bxroce_create_cq(t)
  BY <1>2, <1>3, Begins DEF bxroce_create_cq, CqRest, CtxInv, CqShape
<1>4. ASSUME NEW n \in BOOLEAN, bxroce_hw_create_cq(t, n)
      PROVE  /\ CallInv' /\ Moves(t, {"none"} \cup CqAts) /\ UNCHANGED <<life, elems, held, ahres>>
             /\ ctx'.st = ctx.st /\ ctx'.ctx_pd = ctx.ctx_pd /\ ctx'.pd_in_use = ctx.pd_in_use
  <2>1. UNCHANGED <<life, elems, held, ahres, ctx>> /\ Runs(t, "cq_mem")
    BY <1>4 DEF bxroce_hw_create_cq, CqRest
  <2>2. Unused(pages) \in Nat
    BY UnusedIs DEF CqShape
  <2>3. CASE n
    BY <1>1, <2>1, <2>3, <1>4, Goes DEF bxroce_hw_create_cq, Runs
  <2>4. CASE ~n
    <3> DEFINE r == [At(t, IF t \in Users THEN "cq_map" ELSE "cq_put") EXCEPT !.k = Unused(pages)]
    <3>1. r \in Calls /\ CallOK(r) /\ r.at \in CqAts
      BY <1>1, <2>1, <2>2, SMTT(30) DEF Runs
    <3>2. Go(t, r)
      BY <2>4, <1>4 DEF bxroce_hw_create_cq
    <3> HIDE DEF r
    <3> QED
      BY <2>1, <3>1, <3>2, Goes DEF Runs
  <2> QED
    BY <2>3, <2>4
<1>5. CASE bxroce_copy_cq_uresp(t)
  <2>1. Go(t, At(t, "cq_put")) /\ UNCHANGED <<life, elems, held, ahres>>
    BY <1>5 DEF bxroce_copy_cq_uresp, CqRest
  <2>2. ctx'.st = ctx.st /\ ctx'.ctx_pd = ctx.ctx_pd /\ ctx'.pd_in_use = ctx.pd_in_use
    BY <1>5 DEF bxroce_copy_cq_uresp, CtxInv
  <2> QED
    <3>1. call[t].at = "cq_map"
      BY <1>5 DEF bxroce_copy_cq_uresp, Runs
    <3>2. At(t, "cq_put") \in Calls /\ CallOK(At(t, "cq_put")) /\ At(t, "cq_put").at = "cq_put"
      BY <1>1, <3>1, SMTT(30)
    <3> QED
      BY <2>1, <2>2, <3>1, <3>2, Goes
<1>6. CASE CqFault(t)
  BY <1>1, <1>6, Goes, Stays, ZenonT(30) DEF CqFault, Runs, CqRest, At, CtxInv
<1>7. CASE CqStored(t)
  BY <1>1, <1>7, Goes, Stays, ZenonT(30) DEF CqStored, Runs, CqRest, At, CtxInv
<1>8. CASE bxroce_mmap(t)
  BY <1>1, <1>8, Goes, Stays DEF bxroce_mmap, Runs, CqRest, At, CtxInv
<1>9. ASSUME NEW q \in cqs, bxroce_destroy_cq(t, q)
      PROVE  /\ CallInv' /\ Moves(t, {"none"} \cup CqAts) /\ UNCHANGED <<life, elems, held, ahres>>
             /\ ctx'.st = ctx.st /\ ctx'.ctx_pd = ctx.ctx_pd /\ ctx'.pd_in_use = ctx.pd_in_use
  BY <1>2, <1>9, Begins, ZenonT(30) DEF bxroce_destroy_cq, CqRest, CtxInv, CqShape
<1>10. CASE bxroce_free_cqresource(t)
  BY <1>1, <1>10, Goes, Stays, ZenonT(30) DEF bxroce_free_cqresource, Runs, CqRest, At, CtxInv
<1>11. CASE CqUnmap(t)
  <2>1. Go(t, Idle) /\ UNCHANGED <<life, elems, held, ahres>>
    BY <1>11 DEF CqUnmap, CqRest
  <2>2. ctx'.st = ctx.st /\ ctx'.ctx_pd = ctx.ctx_pd /\ ctx'.pd_in_use = ctx.pd_in_use
    BY <1>11 DEF CqUnmap, CtxInv
  <2> QED
    BY <1>1, <2>1, <2>2, <1>11, Goes DEF CqUnmap, Runs
<1> QED
  BY <1>3, <1>4, <1>5, <1>6, <1>7, <1>8, <1>9, <1>10, <1>11 DEF Cqs

\* Calls on address handles.
LEMMA AhFrame ==
  ASSUME NEW t \in Threads, Ahs(t), CallInv, AvInv
  PROVE  CallInv' /\ Moves(t, {"none"} \cup AhAts) /\ UNCHANGED <<life, elems, ctx, held, cqres>>
<1> USE DEF CallOK, Idle, Calls, AllocAts, RefAts, IndexAts, ElAts, MemAts, BitAts, CqAts, AhAts, CqOps, AhOps, RegOps, PdOps, MrOps
<1>1. /\ call[t] \in Calls /\ CallOK(call[t]) /\ Idle \in Calls /\ CallOK(Idle)
      /\ \A a \in MemAts \cup CqAts \cup AhAts : At(t, a) = [call[t] EXCEPT !.at = a]
  BY DEF CallInv, At
<1>2. FreeAvs # {} => Least(FreeAvs) \in Nat
  <2>1. FreeAvs \subseteq Nat
    BY Sizes DEF FreeAvs
  <2> QED
    BY <2>1, LeastIs
<1>3. CASE bxroce_alloc_av(t)
  BY <1>2, <1>3, Begins DEF bxroce_alloc_av, AhRest, AvInv
<1>4. ASSUME NEW y \in {"IPV4", "other"}, NEW v \in BOOLEAN, bxroce_create_ah(t, y, v)
      PROVE  CallInv' /\ Moves(t, {"none"} \cup AhAts) /\ UNCHANGED <<life, elems, ctx, held, cqres>>
  BY <1>1, <1>4, Goes, Stays DEF bxroce_create_ah, Runs, AhRest, At
<1>5. CASE bxroce_free_av(t)
  BY <1>1, <1>5, Goes, Stays DEF bxroce_free_av, Runs, AhRest, At
<1>6. ASSUME NEW a \in ahs, bxroce_destroy_ah(t, a)
      PROVE  CallInv' /\ Moves(t, {"none"} \cup AhAts) /\ UNCHANGED <<life, elems, ctx, held, cqres>>
  <2>1. a.av \in Nat
    BY Sizes DEF AvInv
  <2> QED
    BY <2>1, <1>6, Begins, ZenonT(30) DEF bxroce_destroy_ah, AhRest
<1> QED
  BY <1>3, <1>4, <1>5, <1>6 DEF Ahs

\* The NICs and the module come when no call is under way.
LEMMA LifeRest ==
  ASSUME Life
  PROVE  (\A t \in Threads : call[t] = Idle) /\ UNCHANGED <<call, ncalls, ctx, held, key>>
<1>1. ASSUME NEW n \in Nics, mac_register_dev(n) \/ mac_unregister_dev(n)
      PROVE  (\A t \in Threads : call[t] = Idle) /\ UNCHANGED <<call, ncalls, ctx, held, key>>
  BY <1>1 DEF mac_register_dev, mac_unregister_dev, NicRest, Rest, Alone
<1>2. CASE UpDown
  BY <1>2 DEF UpDown, NicRest, Rest, Alone
<1>3. ASSUME NEW x, NEW a, bxroce_inetaddr_event(x, a)
      PROVE  (\A t \in Threads : call[t] = Idle) /\ UNCHANGED <<call, ncalls, ctx, held, key>>
  BY <1>3 DEF bxroce_inetaddr_event, NicRest, Rest, Alone
<1>4. ASSUME NEW f, bx_init_module(f)
      PROVE  (\A t \in Threads : call[t] = Idle) /\ UNCHANGED <<call, ncalls, ctx, held, key>>
  BY <1>4 DEF bx_init_module, Rest, Alone
<1>5. CASE bx_exit_module
  BY <1>5 DEF bx_exit_module, Oops, Rest, Alone
<1> QED
  BY <1>1, <1>2, <1>3, <1>4, <1>5 DEF Life

\* What becomes of the objects when the device is brought up or removed.
LEMMA LifeObjects ==
  ASSUME Life
  PROVE  \/ /\ UNCHANGED <<pds, mrs, cqres, ahres>>
            /\ UNCHANGED <<pd_pool, mr_pool>> \/ (bx_exit_module /\ bx_remove /\ Main \in rocedev)
         \/ /\ bxroce_init_pools /\ bxroce_init_cqqp /\ bxroce_create_ah_tbl
            /\ Main \in rocedev' /\ ~drv /\ drv'
<1> DEFINE P == \/ /\ UNCHANGED <<pds, mrs, cqres, ahres>>
                   /\ UNCHANGED <<pd_pool, mr_pool>> \/ (bx_exit_module /\ bx_remove /\ Main \in rocedev)
                \/ /\ bxroce_init_pools /\ bxroce_init_cqqp /\ bxroce_create_ah_tbl
                   /\ Main \in rocedev' /\ ~drv /\ drv'
<1>1. ASSUME NEW n \in Nics, mac_register_dev(n) \/ mac_unregister_dev(n)
      PROVE  P
  BY <1>1 DEF mac_register_dev, mac_unregister_dev, NicRest
<1>2. CASE UpDown
  BY <1>2 DEF UpDown, NicRest
<1>3. ASSUME NEW x, NEW a, bxroce_inetaddr_event(x, a)
      PROVE  P
  BY <1>3 DEF bxroce_inetaddr_event, NicRest
<1>4. ASSUME NEW f, bx_init_module(f)
      PROVE  P
  BY <1>4 DEF bx_init_module, bx_add
<1>5. CASE bx_exit_module
  BY <1>5 DEF bx_exit_module, Oops
<1> QED
  BY <1>1, <1>2, <1>3, <1>4, <1>5 DEF Life

\* What is left of a list without its entry x.
LEMMA Cut ==
  ASSUME NEW S, NEW l \in Seq(S), NEW x \in 1..Len(l)
  PROVE  LET r == SubSeq(l, 1, x - 1) \o SubSeq(l, x + 1, Len(l))
         IN /\ r \in Seq(S) /\ Len(r) = Len(l) - 1
            /\ \A i \in 1..Len(r) : r[i] = IF i < x THEN l[i] ELSE l[i + 1]
<1> DEFINE p == SubSeq(l, 1, x - 1)
           q == SubSeq(l, x + 1, Len(l))
<1>1. Len(l) \in Nat /\ x \in Nat /\ 1 <= x /\ x <= Len(l) /\ \A i \in 1..Len(l) : l[i] \in S
  BY LenProperties, ElementOfSeq
<1>2. p \in Seq(S) /\ Len(p) = x - 1 /\ \A i \in 1..(x - 1) : p[i] = l[i]
  <2>1. \A i \in 1..(x - 1) : l[i] \in S
    BY <1>1
  <2>2. 1 \in Int /\ x - 1 \in Int
    BY <1>1
  <2>3. /\ p \in Seq(S) /\ Len(p) = (IF 1 <= x - 1 THEN x - 1 - 1 + 1 ELSE 0)
        /\ \A i \in 1..(x - 1 - 1 + 1) : p[i] = l[1 + i - 1]
    BY <2>1, <2>2, SubSeqProperties
  <2> QED
    BY <1>1, <2>3
<1>3. /\ q \in Seq(S) /\ Len(q) = Len(l) - x /\ \A i \in 1..(Len(l) - x) : q[i] = l[x + i]
  <2>1. \A i \in (x + 1)..Len(l) : l[i] \in S
    BY <1>1
  <2>2. x + 1 \in Int /\ Len(l) \in Int
    BY <1>1
  <2>3. /\ q \in Seq(S) /\ Len(q) = (IF x + 1 <= Len(l) THEN Len(l) - (x + 1) + 1 ELSE 0)
        /\ \A i \in 1..(Len(l) - (x + 1) + 1) : q[i] = l[x + 1 + i - 1]
    BY <2>1, <2>2, SubSeqProperties
  <2> QED
    BY <1>1, <2>3
<1> HIDE DEF p, q
<1>4. /\ p \o q \in Seq(S) /\ Len(p \o q) = Len(p) + Len(q)
      /\ \A i \in 1..(Len(p) + Len(q)) : (p \o q)[i] = IF i <= Len(p) THEN p[i] ELSE q[i - Len(p)]
  BY <1>2, <1>3, ConcatProperties
<1>5. \A i \in 1..(Len(l) - 1) : (p \o q)[i] = IF i < x THEN l[i] ELSE l[i + 1]
  <2> SUFFICES ASSUME NEW i \in 1..(Len(l) - 1)
               PROVE  (p \o q)[i] = IF i < x THEN l[i] ELSE l[i + 1]
    OBVIOUS
  <2>1. i \in Nat /\ 1 <= i /\ i <= Len(l) - 1 /\ i \in 1..(Len(p) + Len(q))
    BY <1>1, <1>2, <1>3
  <2>2. CASE i < x
    BY <1>1, <1>2, <1>4, <2>1, <2>2
  <2>3. CASE ~ (i < x)
    <3>1. i - Len(p) \in 1..(Len(l) - x) /\ ~ (i <= Len(p)) /\ x + (i - Len(p)) = i + 1
      BY <1>1, <1>2, <2>1, <2>3
    <3>2. (p \o q)[i] = q[i - Len(p)]
      BY <1>4, <2>1, <3>1
    <3>3. q[i - Len(p)] = l[x + (i - Len(p))]
      BY <1>3, <3>1
    <3> QED
      BY <2>3, <3>1, <3>2, <3>3
  <2> QED
    BY <2>2, <2>3
<1>6. p \o q \in Seq(S) /\ Len(p \o q) = Len(l) - 1
  BY <1>1, <1>2, <1>3, <1>4
<1> QED
  BY <1>5, <1>6 DEF p, q

\* A list of mappings stays one.
LEMMA Mmaps ==
  ASSUME NEW l \in Seq([page : Nat, len : Nat]), NEW p \in Nat, NEW n \in Nat
  PROVE  /\ bxroce_add_mmap(l, p, n) \in Seq([page : Nat, len : Nat])
         /\ bxroce_del_mmap(l, p, n) \in Seq([page : Nat, len : Nat])
<1>1. bxroce_add_mmap(l, p, n) \in Seq([page : Nat, len : Nat])
  BY DEF bxroce_add_mmap
<1>2. bxroce_del_mmap(l, p, n) \in Seq([page : Nat, len : Nat])
  <2> DEFINE hits == {i \in DOMAIN l : Matches(l[i], p, n)}
             x == Least(hits)
  <2>1. CASE hits = {}
    BY <2>1 DEF bxroce_del_mmap
  <2>2. CASE hits # {}
    <3>1. DOMAIN l = 1..Len(l) /\ Len(l) \in Nat
      BY LenProperties
    <3>2. hits \subseteq Nat /\ hits \subseteq 1..Len(l)
      BY <3>1
    <3> HIDE DEF hits
    <3>3. x \in 1..Len(l)
      BY <2>2, <3>2, LeastIs
    <3>4. bxroce_del_mmap(l, p, n) = SubSeq(l, 1, x - 1) \o SubSeq(l, x + 1, Len(l))
      BY <2>2 DEF bxroce_del_mmap, hits
    <3> HIDE DEF x
    <3> QED
      BY <3>3, <3>4, Cut
  <2> QED
    BY <2>1, <2>2
<1> QED
  BY <1>1, <1>2

\* The empty context.
LEMMA ClosedType ==
  Closed \in [st : {"closed", "opening", "open"}, ctx_pd : Nat, pd_in_use : BOOLEAN,
              mm_head : Seq([page : Nat, len : Nat])]
BY DEF Closed

\* A call that goes on or ends without touching the context.
LEMMA MemKeeps ==
  ASSUME NEW t \in Threads, MemStep(t), CallInv, CtxInv, PdShape, MrShape, PoolShape,
         ctx' = ctx, call'[t].op \in {call[t].op, "none"}
  PROVE  CtxInv'
<1>1. \A u \in Threads : u # t => call'[u] = call[u]
  BY MemFrame DEF Moves
<1> QED
  BY <1>1 DEF CtxInv, Closed

\* The context opens and closes for one call at a time.
LEMMA CtxStep ==
  ASSUME CallInv, CtxInv, ListInv, PdShape, MrShape, PoolShape, CqShape, AvInv, OwnerInv, [Next]_vars
  PROVE  CtxInv'
<1>1. ASSUME NEW t \in Threads, Alloc(t)
      PROVE  CtxInv'
  <2>1. CASE AllocGet(t)
    <3>1. ctx' = ctx /\ call'[t].op \in {call[t].op, "none"}
      BY <2>1, AtIs DEF AllocGet, Null, Idle
    <3> QED
      BY <3>1, <1>1, MemKeeps DEF MemStep
  <2>2. CASE AllocInc(t)
    <3>1. ctx' = ctx /\ call'[t].op \in {call[t].op, "none"}
      BY <2>2, AtIs DEF AllocInc, Idle
    <3> QED
      BY <3>1, <1>1, MemKeeps DEF MemStep
  <2>3. CASE AllocUndo(t)
    <3>1. ctx' = ctx /\ call'[t].op \in {call[t].op, "none"}
      BY <2>3, AtIs DEF AllocUndo, Null, Idle
    <3> QED
      BY <3>1, <1>1, MemKeeps DEF MemStep
  <2>4. CASE AllocElem(t)
    <3>1. ctx' = ctx /\ call'[t].op \in {call[t].op, "none"}
      BY <2>4, AtIs DEF AllocElem, Idle
    <3> QED
      BY <3>1, <1>1, MemKeeps DEF MemStep
  <2> QED
    BY <1>1, <2>1, <2>2, <2>3, <2>4 DEF Alloc
<1>2. ASSUME NEW t \in Threads, Pds(t)
      PROVE  CtxInv'
  <2>1. CASE bxroce_alloc_ucontext(t)
    <3>0. ctx' = [st |-> "opening", ctx_pd |-> 0, pd_in_use |-> FALSE, mm_head |-> <<AhTable>>]
      <4>1. bxroce_add_mmap(<<>>, AhTable.page, AhTable.len) = <<AhTable>>
        BY DEF bxroce_add_mmap, AhTable
      <4>2. ctx' = [Closed EXCEPT !.st = "opening", !.mm_head = <<AhTable>>]
        BY <2>1, <4>1 DEF bxroce_alloc_ucontext
      <4> QED
        BY <4>2 DEF Closed
    <3>1. ctx.st = "closed" /\ call'[t].op = "open" /\ t \in Users
      BY <2>1 DEF bxroce_alloc_ucontext, Begin, Go, CallInv
    <3>2. \A u \in Threads : u # t => call'[u] = call[u] /\ call[u].op # "open"
      BY <2>1 DEF bxroce_alloc_ucontext, Begin, Go, CallInv, CtxInv
    <3>3. <<AhTable>> \in Seq([page : Nat, len : Nat])
      BY DEF AhTable
    <3> QED
      BY <3>0, <3>1, <3>2, <3>3 DEF CtxInv, Closed
  <2>2. ASSUME NEW f \in BOOLEAN, OpenDone(t, f)
        PROVE  CtxInv'
    <3>1. call[t].op = "open" /\ ctx.st = "opening" /\ call[t].pd \in Nat
      BY <2>2 DEF OpenDone, CtxInv, CallInv, Calls
    <3>2. /\ call'[t].op = "none"
          /\ \A u \in Threads : u # t => call'[u] = call[u] /\ call[u].op # "open"
      BY <2>2 DEF OpenDone, Go, CallInv, CtxInv, Idle
    <3>3. CASE f
      <4>1. ctx' = Closed
        BY <2>2, <3>3 DEF OpenDone
      <4> QED
        BY <3>2, <4>1, ClosedType DEF CtxInv, Closed
    <3>4. CASE ~f
      <4>1. ctx' = [ctx EXCEPT !.st = "open", !.ctx_pd = call[t].pd]
        BY <2>2, <3>4 DEF OpenDone
      <4> QED
        BY <3>1, <3>2, <4>1 DEF CtxInv
    <3> QED
      BY <3>3, <3>4
  <2>3. CASE bxroce_dealloc_ucontext(t)
    <3>1. ctx' = Closed /\ call' = call /\ ctx.st = "open"
      BY <2>3 DEF bxroce_dealloc_ucontext
    <3> QED
      BY <3>1, ClosedType DEF CtxInv, Closed
  <2>4. CASE bxroce_get_ucontext_pd(t)
    BY <2>4
       DEF bxroce_get_ucontext_pd, Begin, Go, MayHold, CtxInv, CallInv, CallOK, Idle,
       Closed, PdOps, MrOps, ElAts, IndexAts, RefAts
  <2>5. CASE bxroce_alloc_pd(t)
    BY <2>5
       DEF bxroce_alloc_pd, Begin, Go, MayHold, CtxInv, CallInv, CallOK, Idle, Closed,
       PdOps, MrOps, ElAts, IndexAts, RefAts
  <2>6. CASE AllocPdDone(t)
    <3>1. ctx' = ctx /\ call'[t].op \in {call[t].op, "none"}
      BY <2>6, AtIs DEF AllocPdDone, Idle
    <3> QED
      BY <3>1, <1>2, MemKeeps DEF MemStep
  <2>7. ASSUME NEW h \in held, bxroce_dealloc_pd(t, h)
        PROVE  CtxInv'
    <3>1. call' = call /\ (ctx' = ctx \/ (h.own \in Users /\ ctx.ctx_pd = h.pd /\ ctx' = [ctx EXCEPT !.pd_in_use = FALSE]))
      BY <2>7 DEF bxroce_dealloc_pd
    <3>2. h.pd # 0
      BY DEF OwnerInv, PdShape
    <3> QED
      BY <3>1, <3>2 DEF CtxInv, Closed
  <2> QED
    BY <1>2, <2>1, <2>2, <2>3, <2>4, <2>5, <2>6, <2>7 DEF Pds
<1>3. ASSUME NEW t \in Threads, Mrs(t)
      PROVE  CtxInv'
  <2>1. ASSUME NEW h \in held, NEW op \in MrOps, RegMr(t, h, op)
        PROVE  CtxInv'
    BY <2>1
       DEF RegMr, Begin, Go, Together, CtxInv, CallInv, CallOK, Idle, Closed, PdOps, MrOps,
       ElAts, IndexAts, RefAts
  <2>2. ASSUME NEW f \in BOOLEAN, AddIndex(t, f)
        PROVE  CtxInv'
    <3>1. ctx' = ctx /\ call'[t].op \in {call[t].op, "none"}
      BY <2>2, AtIs DEF AddIndex, Idle
    <3> QED
      BY <3>1, <1>3, MemKeeps DEF MemStep
  <2>3. CASE AddRef(t)
    <3>1. ctx' = ctx /\ call'[t].op \in {call[t].op, "none"}
      BY <2>3, AtIs DEF AddRef, Idle
    <3> QED
      BY <3>1, <1>3, MemKeeps DEF MemStep
  <2>4. CASE UmemFails(t)
    <3>1. ctx' = ctx /\ call'[t].op \in {call[t].op, "none"}
      BY <2>4, AtIs DEF UmemFails, Idle
    <3> QED
      BY <3>1, <1>3, MemKeeps DEF MemStep
  <2>5. CASE KeyRead(t)
    <3>1. ctx' = ctx /\ call'[t].op \in {call[t].op, "none"}
      BY <2>5, AtIs DEF KeyRead, Idle
    <3> QED
      BY <3>1, <1>3, MemKeeps DEF MemStep
  <2>6. CASE bxroce_mem_init(t)
    <3>1. ctx' = ctx /\ call'[t].op \in {call[t].op, "none"}
      BY <2>6, AtIs DEF bxroce_mem_init, Idle
    <3> QED
      BY <3>1, <1>3, MemKeeps DEF MemStep
  <2>7. ASSUME NEW s \in Starts, NEW l \in Lens, NEW b \in BOOLEAN, NEW n \in BOOLEAN,
             NEW f \in BOOLEAN, bxroce_reg_user_mr(t, s, l, b, n, f)
        PROVE  CtxInv'
    <3>1. ctx' = ctx /\ call'[t].op \in {call[t].op, "none"}
      BY <2>7, AtIs DEF bxroce_reg_user_mr, Idle
    <3> QED
      BY <3>1, <1>3, MemKeeps DEF MemStep
  <2>8. ASSUME NEW f \in BOOLEAN, KernelMr(t, f)
        PROVE  CtxInv'
    <3>1. ctx' = ctx /\ call'[t].op \in {call[t].op, "none"}
      BY <2>8, AtIs DEF KernelMr, Idle
    <3> QED
      BY <3>1, <1>3, MemKeeps DEF MemStep
  <2>9. ASSUME NEW m \in DOMAIN mrs, bxroce_dereg_mr(t, m)
        PROVE  CtxInv'
    BY <2>9
       DEF bxroce_dereg_mr, Begin, Go, Together, CtxInv, CallInv, CallOK, Idle, Closed,
       PdOps, MrOps, ElAts, IndexAts, RefAts
  <2>10. CASE DropPdOf(t)
    <3>1. ctx' = ctx /\ call'[t].op \in {call[t].op, "none"}
      BY <2>10, AtIs DEF DropPdOf, Idle
    <3> QED
      BY <3>1, <1>3, MemKeeps DEF MemStep
  <2>11. CASE DropIndex(t)
    <3>1. ctx' = ctx /\ call'[t].op \in {call[t].op, "none"}
      BY <2>11, AtIs DEF DropIndex, Idle
    <3> QED
      BY <3>1, <1>3, MemKeeps DEF MemStep
  <2>12. CASE DropMr(t)
    <3>1. ctx' = ctx /\ call'[t].op \in {call[t].op, "none"}
      BY <2>12, AtIs DEF DropMr, Idle
    <3> QED
      BY <3>1, <1>3, MemKeeps DEF MemStep
  <2> QED
    BY <1>3, <2>1, <2>2, <2>3, <2>4, <2>5, <2>6, <2>7, <2>8, <2>9, <2>10, <2>11, <2>12 DEF Mrs
<1>4. ASSUME NEW t \in Threads, Cqs(t)
      PROVE  CtxInv'
  <2>1. CallInv' /\ Moves(t, {"none"} \cup CqAts) /\ ctx'.st = ctx.st
        /\ ctx'.ctx_pd = ctx.ctx_pd /\ ctx'.pd_in_use = ctx.pd_in_use
    BY <1>4, CqFrame
  <2>2. ctx' = ctx \/ \E l \in Seq([page : Nat, len : Nat]) : ctx' = [ctx EXCEPT !.mm_head = l]
    <3>1. CASE bxroce_copy_cq_uresp(t) \/ CqUnmap(t)
      <4>1. ctx.mm_head \in Seq([page : Nat, len : Nat]) /\ call[t].k \in Nat /\ CqLen \in Nat
        BY DEF CtxInv, CallInv, Calls, CqLen
      <4>2. /\ bxroce_add_mmap(ctx.mm_head, call[t].k, CqLen) \in Seq([page : Nat, len : Nat])
            /\ bxroce_del_mmap(ctx.mm_head, call[t].k, CqLen) \in Seq([page : Nat, len : Nat])
        BY <4>1, Mmaps
      <4> QED
        BY <3>1, <4>2 DEF bxroce_copy_cq_uresp, CqUnmap
    <3>2. CASE ~ (bxroce_copy_cq_uresp(t) \/ CqUnmap(t))
      BY <1>4, <3>2 DEF Cqs, bxroce_create_cq, bxroce_hw_create_cq, CqFault, CqStored, bxroce_mmap,
                     bxroce_destroy_cq, bxroce_free_cqresource
    <3> QED
      BY <3>1, <3>2
  <2>3. ctx' \in [st : {"closed", "opening", "open"}, ctx_pd : Nat, pd_in_use : BOOLEAN,
                  mm_head : Seq([page : Nat, len : Nat])]
    BY <2>2 DEF CtxInv
  <2>4. call[t].op # "open" /\ call'[t].op # "open" /\ \A u \in Threads : u # t => call'[u] = call[u]
    BY <2>1 DEF Moves, CallInv, CallOK, Idle, CqAts, BitAts, CqOps
  <2>5. ctx.st = "closed" => ctx' = ctx
    BY <1>4 DEF Cqs, bxroce_create_cq, bxroce_hw_create_cq, CqFault, CqStored, bxroce_mmap,
             bxroce_destroy_cq, bxroce_free_cqresource, bxroce_copy_cq_uresp, CqUnmap,
             Runs, ListInv, CqAts, BitAts
  <2> QED
    BY <2>1, <2>3, <2>4, <2>5, ZenonT(30) DEF CtxInv, Closed
<1>5. ASSUME NEW t \in Threads, Ahs(t)
      PROVE  CtxInv'
  <2>1. CallInv' /\ Moves(t, {"none"} \cup AhAts) /\ ctx' = ctx
    BY <1>5, AhFrame
  <2>2. call[t].op # "open" /\ call'[t].op # "open" /\ \A u \in Threads : u # t => call'[u] = call[u]
    BY <2>1 DEF Moves, CallInv, CallOK, Idle, AhAts, AhOps
  <2> QED
    BY <2>1, <2>2, SMTT(30) DEF CtxInv, Closed
<1>6. ASSUME Life
      PROVE  CtxInv'
  BY <1>6, LifeRest DEF CtxInv, Closed
<1>7. CASE UNCHANGED vars
  BY <1>7 DEF vars, CtxInv, Closed
<1> QED
  BY <1>1, <1>2, <1>3, <1>4, <1>5, <1>6, <1>7 DEF Next

\* A function with one argument less.
LEMMA WithoutIs ==
  ASSUME NEW f, NEW x
  PROVE  /\ DOMAIN Without(f, x) = DOMAIN f \ {x}
         /\ \A y \in DOMAIN f : y # x => Without(f, x)[y] = f[y]
         /\ IsFiniteSet(DOMAIN f) => IsFiniteSet(DOMAIN Without(f, x))
<1>1. DOMAIN Without(f, x) = DOMAIN f \ {x}
  BY DEF Without
<1> QED
  BY <1>1, FS_RemoveElement DEF Without

\* The function of nothing.
LEMMA NoElems == DOMAIN <<>> = {} /\ IsFiniteSet(DOMAIN <<>>) /\ Cardinality(DOMAIN <<>>) = 0
<1>1. DOMAIN <<>> = {}
  OBVIOUS
<1> QED
  BY <1>1, FS_EmptySet

\* The three things that happen to a PD.
LEMMA PdDrop ==
  ASSUME NEW p, DropPd(p), PdShape
  PROVE  /\ IsFiniteSet(DOMAIN pds') /\ DOMAIN pds' \subseteq Nat \ {0}
         /\ \A q \in DOMAIN pds' : pds'[q] \in [ref : Int]
         /\ \A q \in DOMAIN pds : q # p => q \in DOMAIN pds' /\ pds'[q] = pds[q]
         /\ pds[p].ref # 1 => /\ DOMAIN pds' = DOMAIN pds /\ UNCHANGED pd_pool
                              /\ p \in DOMAIN pds => pds'[p].ref = pds[p].ref - 1
         /\ pds[p].ref = 1 => /\ DOMAIN pds' = DOMAIN pds \ {p}
                              /\ pd_pool' = bxroce_elem_release(pd_pool)
<1>1. CASE pds[p].ref = 1
  <2>1. pds' = Without(pds, p) /\ pd_pool' = bxroce_elem_release(pd_pool)
    BY <1>1 DEF DropPd
  <2>2. /\ DOMAIN Without(pds, p) = DOMAIN pds \ {p} /\ IsFiniteSet(DOMAIN Without(pds, p))
        /\ \A y \in DOMAIN pds : y # p => Without(pds, p)[y] = pds[y]
    BY WithoutIs, Zenon DEF PdShape
  <2>3. /\ DOMAIN pds' = DOMAIN pds \ {p} /\ IsFiniteSet(DOMAIN pds')
        /\ \A y \in DOMAIN pds : y # p => pds'[y] = pds[y]
    BY <2>1, <2>2
  <2> QED
    BY <1>1, <2>1, <2>3 DEF PdShape
<1>2. CASE pds[p].ref # 1
  BY <1>2 DEF DropPd, PdShape
<1> QED
  BY <1>1, <1>2

LEMMA PdMade ==
  ASSUME NEW p, p = Unused(DOMAIN pds), pds' = With(pds, p, [ref |-> 1]), PdShape
  PROVE  /\ p \in Nat \ {0} /\ p \notin DOMAIN pds /\ DOMAIN pds' = DOMAIN pds \cup {p}
         /\ IsFiniteSet(DOMAIN pds') /\ pds'[p].ref = 1
         /\ \A q \in DOMAIN pds' : pds'[q] \in [ref : Int]
         /\ \A q \in DOMAIN pds : pds'[q] = pds[q]
<1>1. p \in Nat \ {0} /\ p \notin DOMAIN pds
  BY UnusedIs DEF PdShape
<1>2. /\ DOMAIN pds' = DOMAIN pds \cup {p} /\ IsFiniteSet(DOMAIN pds') /\ pds'[p] = [ref |-> 1]
      /\ \A q \in DOMAIN pds : q # p => pds'[q] = pds[q]
  <2>1. LET g == With(pds, p, [ref |-> 1])
        IN /\ DOMAIN g = DOMAIN pds \cup {p} /\ IsFiniteSet(DOMAIN g) /\ g[p] = [ref |-> 1]
           /\ \A q \in DOMAIN pds : q # p => g[q] = pds[q]
    <3> DEFINE v == [ref |-> 1]
    <3> HIDE DEF v
    <3>1. IsFiniteSet(DOMAIN pds)
      BY DEF PdShape
    <3>2. /\ DOMAIN With(pds, p, v) = DOMAIN pds \cup {p}
          /\ IsFiniteSet(DOMAIN With(pds, p, v)) /\ With(pds, p, v)[p] = v
          /\ \A q \in DOMAIN pds : q # p => With(pds, p, v)[q] = pds[q]
      <4>1. /\ DOMAIN With(pds, p, v) = DOMAIN pds \cup {p} /\ With(pds, p, v)[p] = v
            /\ \A q \in DOMAIN pds : q # p => With(pds, p, v)[q] = pds[q]
        BY DEF With
      <4> QED
        BY <3>1, <4>1, FS_AddElement
    <3> QED
      BY <3>2 DEF v
  <2> QED
    BY <2>1
<1>3. [ref |-> 1] \in [ref : Int] /\ [ref |-> 1].ref = 1
  OBVIOUS
<1> QED
  BY <1>1, <1>2, <1>3 DEF PdShape

\* PDs keep their shape.
LEMMA PdShapeStep ==
  ASSUME CallInv, CtxInv, PdShape, CqShape, AvInv, [Next]_vars
  PROVE  PdShape'
<1>1. ASSUME NEW t \in Threads, Alloc(t)
      PROVE  PdShape'
  <2>1. CASE AllocGet(t)
    BY <2>1 DEF AllocGet, PdShape
  <2>2. CASE AllocInc(t)
    BY <2>2 DEF AllocInc, PdShape
  <2>3. CASE AllocUndo(t)
    BY <2>3 DEF AllocUndo, PdShape
  <2>4. CASE AllocElem(t)
    <3>1. held' = held
      BY <2>4 DEF AllocElem
    <3>2. pds' = pds \/ pds' = With(pds, Unused(DOMAIN pds), [ref |-> 1])
      BY <2>4 DEF AllocElem
    <3>3. CASE pds' = pds
      BY <3>1, <3>3 DEF PdShape
    <3>4. CASE pds' = With(pds, Unused(DOMAIN pds), [ref |-> 1])
      <4>1. /\ Unused(DOMAIN pds) \in Nat \ {0} /\ IsFiniteSet(DOMAIN pds')
            /\ DOMAIN pds' = DOMAIN pds \cup {Unused(DOMAIN pds)}
            /\ \A q \in DOMAIN pds' : pds'[q] \in [ref : Int]
        BY <3>4, PdMade, Zenon
      <4> QED
        BY <3>1, <4>1 DEF PdShape
    <3> QED
      BY <3>2, <3>3, <3>4
  <2> QED
    BY <1>1, <2>1, <2>2, <2>3, <2>4 DEF Alloc
<1>2. ASSUME NEW t \in Threads, Pds(t)
      PROVE  PdShape'
  <2>1. CASE bxroce_alloc_ucontext(t)
    BY <2>1 DEF bxroce_alloc_ucontext, PdShape
  <2>2. ASSUME NEW f \in BOOLEAN, OpenDone(t, f)
        PROVE  PdShape'
    BY <2>2 DEF OpenDone, PdShape
  <2>3. CASE bxroce_dealloc_ucontext(t)
    BY <2>3, PdDrop DEF bxroce_dealloc_ucontext, PdShape
  <2>4. CASE bxroce_get_ucontext_pd(t)
    BY <2>4 DEF bxroce_get_ucontext_pd, PdShape
  <2>5. CASE bxroce_alloc_pd(t)
    BY <2>5 DEF bxroce_alloc_pd, PdShape
  <2>6. CASE AllocPdDone(t)
    <3>1. call[t].pd \in Nat /\ pds' = pds /\ held' = held \cup {[pd |-> call[t].pd, own |-> t]}
      BY <2>6, AtIs DEF AllocPdDone, Calls
    <3>2. IsFiniteSet(held')
      BY <3>1, FS_AddElement DEF PdShape
    <3> QED
      BY <3>1, <3>2 DEF PdShape
  <2>7. ASSUME NEW h \in held, bxroce_dealloc_pd(t, h)
        PROVE  PdShape'
    BY <2>7, PdDrop, FS_RemoveElement DEF bxroce_dealloc_pd, PdShape
  <2> QED
    BY <1>2, <2>1, <2>2, <2>3, <2>4, <2>5, <2>6, <2>7 DEF Pds
<1>3. ASSUME NEW t \in Threads, Mrs(t)
      PROVE  PdShape'
  <2>1. ASSUME NEW h \in held, NEW op \in MrOps, RegMr(t, h, op)
        PROVE  PdShape'
    BY <2>1 DEF RegMr, PdShape
  <2>2. ASSUME NEW f \in BOOLEAN, AddIndex(t, f)
        PROVE  PdShape'
    BY <2>2 DEF AddIndex, PdShape
  <2>3. CASE AddRef(t)
    BY <2>3 DEF AddRef, PdShape
  <2>4. CASE UmemFails(t)
    BY <2>4 DEF UmemFails, PdShape
  <2>5. CASE KeyRead(t)
    BY <2>5 DEF KeyRead, PdShape
  <2>6. CASE bxroce_mem_init(t)
    BY <2>6 DEF bxroce_mem_init, PdShape
  <2>7. ASSUME NEW s \in Starts, NEW l \in Lens, NEW b \in BOOLEAN, NEW n \in BOOLEAN,
             NEW f \in BOOLEAN, bxroce_reg_user_mr(t, s, l, b, n, f)
        PROVE  PdShape'
    BY <2>7 DEF bxroce_reg_user_mr, PdShape
  <2>8. ASSUME NEW f \in BOOLEAN, KernelMr(t, f)
        PROVE  PdShape'
    BY <2>8 DEF KernelMr, PdShape
  <2>9. ASSUME NEW m \in DOMAIN mrs, bxroce_dereg_mr(t, m)
        PROVE  PdShape'
    BY <2>9 DEF bxroce_dereg_mr, PdShape
  <2>10. CASE DropPdOf(t)
    BY <2>10, PdDrop DEF DropPdOf, PdShape
  <2>11. CASE DropIndex(t)
    BY <2>11 DEF DropIndex, PdShape
  <2>12. CASE DropMr(t)
    BY <2>12 DEF DropMr, PdShape
  <2> QED
    BY <1>3, <2>1, <2>2, <2>3, <2>4, <2>5, <2>6, <2>7, <2>8, <2>9, <2>10, <2>11, <2>12 DEF Mrs
<1>4. ASSUME NEW t \in Threads, Cqs(t)
      PROVE  PdShape'
  BY <1>4, CqFrame DEF PdShape
<1>5. ASSUME NEW t \in Threads, Ahs(t)
      PROVE  PdShape'
  BY <1>5, AhFrame DEF PdShape
<1>6. ASSUME Life
      PROVE  PdShape'
  BY <1>6, LifeRest, LifeObjects, NoElems DEF PdShape, bxroce_init_pools
<1>7. CASE UNCHANGED vars
  BY <1>7 DEF vars, PdShape
<1> QED
  BY <1>1, <1>2, <1>3, <1>4, <1>5, <1>6, <1>7 DEF Next

-----------------------------------------------------------------------------
(* Counting the elements of the pools.                                     *)

\* The calls at a place before and after a step of t.
LEMMA WhereStep ==
  ASSUME NEW t \in Threads, NEW ops, NEW ats, \A u \in Threads : u # t => call'[u] = call[u]
  PROVE  /\ Cardinality(Where(ops, ats)) \in Nat /\ Cardinality(Where(ops, ats)') \in Nat
         /\ Cardinality(Where(ops, ats)') + (IF call[t].op \in ops /\ call[t].at \in ats THEN 1 ELSE 0)
              = Cardinality(Where(ops, ats)) + (IF call'[t].op \in ops /\ call'[t].at \in ats THEN 1 ELSE 0)
<1> DEFINE A == Where(ops, ats)
           B == Where(ops, ats)'
<1>1. A \subseteq Threads /\ IsFiniteSet(Threads)
  BY Sizes DEF Where
<1>2. IsFiniteSet(A)
  BY <1>1, FS_Subset
<1>3. A \ {t} = B \ {t}
  BY DEF Where
<1>4. /\ t \in A <=> (call[t].op \in ops /\ call[t].at \in ats)
      /\ t \in B <=> (call'[t].op \in ops /\ call'[t].at \in ats)
  BY DEF Where
<1> HIDE DEF A, B
<1>5. /\ Cardinality(A) \in Nat /\ Cardinality(B) \in Nat
      /\ Cardinality(B) + (IF t \in A THEN 1 ELSE 0) = Cardinality(A) + (IF t \in B THEN 1 ELSE 0)
  BY <1>2, <1>3, Differ
<1> QED
  BY <1>4, <1>5 DEF A, B

\* Fewer places, fewer calls; a call is counted.
LEMMA WhereIs ==
  ASSUME NEW ops
  PROVE  /\ \A ats : Cardinality(Where(ops, ats)) \in Nat /\ IsFiniteSet(Where(ops, ats))
         /\ Cardinality(Where(ops, {"elem"})) <= Cardinality(Where(ops, {"undo", "elem"}))
         /\ Cardinality(Where(ops, {"undo", "elem"})) <= Cardinality(Where(ops, {"inc", "undo", "elem"}))
         /\ \A ats : \A t \in Threads : call[t].op \in ops /\ call[t].at \in ats
                       => Cardinality(Where(ops, ats)) >= 1
<1>1. \A ats : Where(ops, ats) \subseteq Threads
  BY DEF Where
<1>2. \A ats : IsFiniteSet(Where(ops, ats))
  BY <1>1, Sizes, FS_Subset
<1>3. \A ats : Cardinality(Where(ops, ats)) \in Nat
  BY <1>2, FS_CardinalityType
<1>4. /\ Where(ops, {"elem"}) \subseteq Where(ops, {"undo", "elem"})
      /\ Where(ops, {"undo", "elem"}) \subseteq Where(ops, {"inc", "undo", "elem"})
  BY DEF Where
<1>5. /\ Cardinality(Where(ops, {"elem"})) <= Cardinality(Where(ops, {"undo", "elem"}))
      /\ Cardinality(Where(ops, {"undo", "elem"})) <= Cardinality(Where(ops, {"inc", "undo", "elem"}))
  BY <1>2, <1>4, FS_Subset
<1>6. ASSUME NEW ats, NEW t \in Threads, call[t].op \in ops, call[t].at \in ats
      PROVE  Cardinality(Where(ops, ats)) >= 1
  <2>1. Where(ops, ats) # {}
    BY <1>6 DEF Where
  <2>2. Cardinality(Where(ops, ats)) # 0
    BY <1>2, <2>1, FS_EmptySet
  <2> QED
    BY <1>3, <2>2
<1> QED
  BY <1>2, <1>3, <1>5, <1>6

\* The parts of Exact.
LEMMA ExactIs ==
  ASSUME NEW pool \in Pools, NEW n \in Nat, NEW ops, Exact(pool, n, ops)
  PROVE  /\ n <= pool.max_elem /\ pool.num_elem >= n /\ pool.ref_cnt >= n
         /\ pool.state = "VALID" => pool.ref_cnt >= 1 + n
         /\ \A t \in Threads : call[t].op \in ops /\ call[t].at \in {"undo", "elem"}
              => pool.ref_cnt >= 1 /\ (pool.state = "VALID" => pool.ref_cnt >= 2 + n)
<1>1. /\ Cardinality(Where(ops, {"elem"})) \in Nat
      /\ Cardinality(Where(ops, {"undo", "elem"})) \in Nat
      /\ Cardinality(Where(ops, {"inc", "undo", "elem"})) \in Nat
      /\ \A t \in Threads : call[t].op \in ops /\ call[t].at \in {"undo", "elem"}
           => Cardinality(Where(ops, {"inc", "undo", "elem"})) >= 1
  BY WhereIs
<1> QED
  BY <1>1 DEF Exact, Pools

\* The put of a reference that is not the last.
LEMMA PutIs ==
  ASSUME NEW pool \in Pools
  PROVE  /\ bxroce_pool_put(pool) \in Pools
         /\ bxroce_pool_put(pool).num_elem = pool.num_elem
         /\ bxroce_pool_put(pool).max_elem = pool.max_elem
         /\ bxroce_pool_put(pool).min_index = pool.min_index
         /\ bxroce_pool_put(pool).range = pool.range
         /\ bxroce_pool_put(pool).ref_cnt = pool.ref_cnt - 1
         /\ pool.ref_cnt # 1 => /\ bxroce_pool_put(pool).state = pool.state
                                /\ bxroce_pool_put(pool).table = pool.table
         /\ pool.ref_cnt = 1 => bxroce_pool_put(pool).state = "INVALID"
<1>1. CASE pool.ref_cnt = 1
  <2>1. bxroce_pool_put(pool) = [pool EXCEPT !.ref_cnt = 0, !.state = "INVALID", !.table = {}]
    BY <1>1 DEF bxroce_pool_put, bxroce_pool_release
  <2>2. {} \subseteq Nat /\ 1 - 1 = 0
    OBVIOUS
  <2>3. bxroce_pool_put(pool) =
          [state |-> "INVALID", num_elem |-> pool.num_elem, max_elem |-> pool.max_elem, ref_cnt |-> 0,
           min_index |-> pool.min_index, range |-> pool.range, table |-> {}, last |-> pool.last]
    BY <2>1 DEF Pools
  <2> QED
    BY <1>1, <2>2, <2>3 DEF Pools
<1>2. CASE pool.ref_cnt # 1
  <2>1. bxroce_pool_put(pool) = [pool EXCEPT !.ref_cnt = @ - 1]
    BY <1>2 DEF bxroce_pool_put
  <2> QED
    BY <1>2, <2>1 DEF Pools
<1> QED
  BY <1>1, <1>2

\* An element is released.
LEMMA ReleaseIs ==
  ASSUME NEW pool \in Pools
  PROVE  /\ bxroce_elem_release(pool) \in Pools
         /\ bxroce_elem_release(pool).num_elem = pool.num_elem - 1
         /\ bxroce_elem_release(pool).max_elem = pool.max_elem
         /\ bxroce_elem_release(pool).min_index = pool.min_index
         /\ bxroce_elem_release(pool).range = pool.range
         /\ bxroce_elem_release(pool).ref_cnt = pool.ref_cnt - 1
         /\ pool.ref_cnt # 1 => /\ bxroce_elem_release(pool).state = pool.state
                                /\ bxroce_elem_release(pool).table = pool.table
         /\ pool.ref_cnt = 1 => bxroce_elem_release(pool).state = "INVALID"
<1> DEFINE p == [pool EXCEPT !.num_elem = @ - 1]
<1>1. /\ p \in Pools /\ p.num_elem = pool.num_elem - 1 /\ p.ref_cnt = pool.ref_cnt
      /\ p.max_elem = pool.max_elem /\ p.min_index = pool.min_index /\ p.range = pool.range
      /\ p.state = pool.state /\ p.table = pool.table
  BY DEF Pools
<1>2. bxroce_elem_release(pool) = bxroce_pool_put(p)
  BY DEF bxroce_elem_release
<1> HIDE DEF p
<1> QED
  BY <1>1, <1>2, PutIs

\* Every call is on the device, whose pools are there.
LEMMA Served ==
  ASSUME NEW t \in Threads, LifeInv, PoolShape, call[t] # Idle
  PROVE  /\ Main \in rocedev /\ topic # "life" /\ drv
         /\ pd_pool.state = "VALID" /\ mr_pool.state = "VALID"
         /\ pd_pool.max_elem = MaxPd /\ mr_pool.max_elem = MaxMr
         /\ mr_pool.min_index = MinIndex /\ mr_pool.range = MaxMr
BY DEF LifeInv, Quiet, PoolShape

\* Where a call on a pool is.
Place(t, ops) == IF call[t].op \in ops THEN call[t].at ELSE "none"

\* The steps on a pool: p and q are the pool, n and m the number of its elements before
\* and after it, a and b the place of the call.
PoolStep(p, q, n, m, a, b) ==
  /\ q \in Pools /\ q.state = p.state /\ q.max_elem = p.max_elem
  /\ \/ /\ n = m /\ a \notin {"inc", "undo", "elem"} /\ b \notin {"inc", "undo", "elem"}
        /\ q.num_elem = p.num_elem /\ q.ref_cnt = p.ref_cnt
     \/ /\ n = m /\ a = "get" /\ b = "inc"
        /\ q.num_elem = p.num_elem /\ q.ref_cnt = p.ref_cnt + 1
     \/ /\ n = m /\ a = "inc" /\ b = (IF p.num_elem + 1 > p.max_elem THEN "undo" ELSE "elem")
        /\ q.num_elem = p.num_elem + 1 /\ q.ref_cnt = p.ref_cnt
     \/ /\ n = m /\ a \in {"undo", "elem"} /\ b = "none"
        /\ q.num_elem = p.num_elem - 1 /\ q.ref_cnt = p.ref_cnt - 1
     \/ /\ m = n + 1 /\ a = "elem" /\ b \in {"made", "index"}
        /\ q.num_elem = p.num_elem /\ q.ref_cnt = p.ref_cnt
     \/ /\ m = n - 1 /\ a \notin {"inc", "undo", "elem"} /\ b \notin {"inc", "undo", "elem"}
        /\ q.num_elem = p.num_elem - 1 /\ q.ref_cnt = p.ref_cnt - 1

LEMMA ExactStep ==
  ASSUME NEW t \in Threads, NEW ops, \A u \in Threads : u # t => call'[u] = call[u],
         NEW p \in Pools, NEW q, NEW n \in Nat, NEW m \in Nat, NEW a, NEW b,
         Exact(p, n, ops), PoolStep(p, q, n, m, a, b), a = Place(t, ops), b = Place(t, ops)'
  PROVE  /\ m + Cardinality(Where(ops, {"elem"})') <= q.max_elem
         /\ q.num_elem = m + Cardinality(Where(ops, {"undo", "elem"})')
         /\ q.ref_cnt = (IF q.state = "VALID" THEN 1 ELSE 0) + m
                          + Cardinality(Where(ops, {"inc", "undo", "elem"})')
<1> DEFINE c1 == Cardinality(Where(ops, {"elem"}))
           c2 == Cardinality(Where(ops, {"undo", "elem"}))
           c3 == Cardinality(Where(ops, {"inc", "undo", "elem"}))
           d1 == Cardinality(Where(ops, {"elem"})')
           d2 == Cardinality(Where(ops, {"undo", "elem"})')
           d3 == Cardinality(Where(ops, {"inc", "undo", "elem"})')
<1>1. /\ c1 \in Nat /\ d1 \in Nat
      /\ d1 + (IF a \in {"elem"} THEN 1 ELSE 0) = c1 + (IF b \in {"elem"} THEN 1 ELSE 0)
  BY WhereStep DEF Place
<1>2. /\ c2 \in Nat /\ d2 \in Nat
      /\ d2 + (IF a \in {"undo", "elem"} THEN 1 ELSE 0) = c2 + (IF b \in {"undo", "elem"} THEN 1 ELSE 0)
  BY WhereStep DEF Place
<1>3. /\ c3 \in Nat /\ d3 \in Nat
      /\ d3 + (IF a \in {"inc", "undo", "elem"} THEN 1 ELSE 0)
           = c3 + (IF b \in {"inc", "undo", "elem"} THEN 1 ELSE 0)
  BY WhereStep DEF Place
<1>4. c1 <= c2
  BY WhereIs
<1>5. /\ n + c1 <= p.max_elem /\ p.num_elem = n + c2
      /\ p.ref_cnt = (IF p.state = "VALID" THEN 1 ELSE 0) + n + c3
  BY DEF Exact
<1>6. p.max_elem \in Nat /\ p.num_elem \in Int /\ p.ref_cnt \in Int
  BY DEF Pools
<1> HIDE DEF c1, c2, c3, d1, d2, d3
<1> SUFFICES /\ m + d1 <= q.max_elem /\ q.num_elem = m + d2
             /\ q.ref_cnt = (IF q.state = "VALID" THEN 1 ELSE 0) + m + d3
  BY DEF d1, d2, d3
<1> QED
  BY <1>1, <1>2, <1>3, <1>4, <1>5, <1>6 DEF PoolStep

\* An element of a finite set is counted.
LEMMA Counted ==
  ASSUME NEW A, IsFiniteSet(A)
  PROVE  Cardinality(A) \in Nat /\ \A x \in A : Cardinality(A) >= 1
<1>1. Cardinality(A) \in Nat /\ (A # {} => Cardinality(A) # 0)
  BY FS_CardinalityType, FS_EmptySet
<1> QED
  BY <1>1

\* A call that drops its PD does not drop the last reference.
LEMMA NotLast ==
  ASSUME NEW t \in Threads, call[t].at \in RefAts, CallInv, PdShape, MrShape, OwnerInv, UseInv, RefInv
  PROVE  call[t].pd \in DOMAIN pds /\ call[t].pd # 0 /\ pds[call[t].pd].ref >= 2
<1> DEFINE p == call[t].pd
<1>1. call[t].op \in RegOps
  BY AtIs DEF CallOK, ElAts, IndexAts, RefAts
<1>2. p \in DOMAIN pds /\ p # 0
  BY <1>1 DEF UseInv, OwnerInv, PdShape
<1>3. pds[p].ref = 1 + Cardinality(Uses(p)) + Cardinality(Refs(p))
  BY <1>2 DEF RefInv
<1>4. IsFiniteSet(Uses(p)) /\ IsFiniteSet(Refs(p))
  <2>1. Uses(p) \subseteq DOMAIN mrs /\ Refs(p) \subseteq Threads
    BY DEF Uses, Refs
  <2> QED
    BY <2>1, FS_Subset, Sizes DEF MrShape
<1>5. t \in Refs(p)
  BY DEF Refs
<1>6. Cardinality(Uses(p)) \in Nat /\ Cardinality(Refs(p)) \in Nat /\ Cardinality(Refs(p)) >= 1
  BY <1>4, <1>5, Counted
<1> QED
  BY <1>2, <1>3, <1>6

\* The sizes of the pools.
LEMMA PoolSizes ==
  ASSUME PoolShape, CountInv, PdShape, MrShape
  PROVE  /\ Cardinality(DOMAIN pds) \in Nat /\ Cardinality(DOMAIN mrs) \in Nat
         /\ pd_pool \in Pools /\ mr_pool \in Pools
         /\ Exact(pd_pool, Cardinality(DOMAIN pds), PdOps)
         /\ Exact(mr_pool, Cardinality(DOMAIN mrs), MrOps)
BY FS_CardinalityType DEF PoolShape, CountInv, PdShape, MrShape

\* The counts stay those of the elements and of the calls inside bxroce_alloc.
LEMMA CountStep ==
  ASSUME NEW t \in Threads, \A u \in Threads : u # t => call'[u] = call[u],
         PoolShape, CountInv, PdShape, MrShape, PdShape', MrShape',
         PoolStep(pd_pool, pd_pool', Cardinality(DOMAIN pds), Cardinality(DOMAIN pds'),
                  Place(t, PdOps), Place(t, PdOps)'),
         PoolStep(mr_pool, mr_pool', Cardinality(DOMAIN mrs), Cardinality(DOMAIN mrs'),
                  Place(t, MrOps), Place(t, MrOps)')
  PROVE  CountInv'
<1>1. /\ Cardinality(DOMAIN pds) \in Nat /\ Cardinality(DOMAIN mrs) \in Nat
      /\ pd_pool \in Pools /\ mr_pool \in Pools
      /\ Exact(pd_pool, Cardinality(DOMAIN pds), PdOps)
      /\ Exact(mr_pool, Cardinality(DOMAIN mrs), MrOps)
  BY PoolSizes
<1>2. Cardinality(DOMAIN pds') \in Nat /\ Cardinality(DOMAIN mrs') \in Nat
  BY FS_CardinalityType DEF PdShape, MrShape
<1>3. Exact(pd_pool, Cardinality(DOMAIN pds), PdOps)'
  <2> DEFINE n == Cardinality(DOMAIN pds)
             m == Cardinality(DOMAIN pds')
             a == Place(t, PdOps)
             b == Place(t, PdOps)'
             q == pd_pool'
  <2>1. /\ m + Cardinality(Where(PdOps, {"elem"})') <= q.max_elem
        /\ q.num_elem = m + Cardinality(Where(PdOps, {"undo", "elem"})')
        /\ q.ref_cnt = (IF q.state = "VALID" THEN 1 ELSE 0) + m
                         + Cardinality(Where(PdOps, {"inc", "undo", "elem"})')
    <3>1. /\ n \in Nat /\ m \in Nat /\ Exact(pd_pool, n, PdOps) /\ pd_pool \in Pools
          /\ PoolStep(pd_pool, q, n, m, a, b) /\ a = Place(t, PdOps) /\ b = Place(t, PdOps)'
      BY <1>1, <1>2
    <3> HIDE DEF n, m, a, b, q
    <3> QED
      BY <3>1, ExactStep
  <2> QED
    BY <2>1 DEF Exact
<1>4. Exact(mr_pool, Cardinality(DOMAIN mrs), MrOps)'
  <2> DEFINE n == Cardinality(DOMAIN mrs)
             m == Cardinality(DOMAIN mrs')
             a == Place(t, MrOps)
             b == Place(t, MrOps)'
             q == mr_pool'
  <2>1. /\ m + Cardinality(Where(MrOps, {"elem"})') <= q.max_elem
        /\ q.num_elem = m + Cardinality(Where(MrOps, {"undo", "elem"})')
        /\ q.ref_cnt = (IF q.state = "VALID" THEN 1 ELSE 0) + m
                         + Cardinality(Where(MrOps, {"inc", "undo", "elem"})')
    <3>1. /\ n \in Nat /\ m \in Nat /\ Exact(mr_pool, n, MrOps) /\ mr_pool \in Pools
          /\ PoolStep(mr_pool, q, n, m, a, b) /\ a = Place(t, MrOps) /\ b = Place(t, MrOps)'
      BY <1>1, <1>2
    <3> HIDE DEF n, m, a, b, q
    <3> QED
      BY <3>1, ExactStep
  <2> QED
    BY <2>1 DEF Exact
<1> QED
  BY <1>3, <1>4 DEF CountInv

Inside == {"inc", "undo", "elem"}

\* A step outside of bxroce_alloc that keeps the elements keeps the counts.
LEMMA CountKeeps ==
  ASSUME NEW t \in Threads, \A u \in Threads : u # t => call'[u] = call[u],
         PoolShape, CountInv, PdShape, MrShape, PdShape', MrShape',
         call[t].at \notin Inside, call'[t].at \notin Inside,
         pd_pool' = pd_pool, DOMAIN pds' = DOMAIN pds, DOMAIN mrs' = DOMAIN mrs,
         mr_pool' \in Pools, mr_pool'.state = mr_pool.state, mr_pool'.max_elem = mr_pool.max_elem,
         mr_pool'.num_elem = mr_pool.num_elem, mr_pool'.ref_cnt = mr_pool.ref_cnt
  PROVE  CountInv'
<1>1. \A ops : Place(t, ops) \notin {"inc", "undo", "elem"} /\ Place(t, ops)' \notin {"inc", "undo", "elem"}
  BY DEF Inside, Place
<1>2. pd_pool \in Pools
  BY DEF PoolShape
<1> QED
  BY <1>1, <1>2, CountStep DEF PoolStep

\* A region that is still without an index is one more than those that have one: a bit
\* is clear, and alloc_index finds one.
LEMMA IndexFree ==
  ASSUME NEW t \in Threads, call[t].at = "index",
         CallInv, MrShape, PdShape, PoolShape, CountInv, IndexInv, ElInv, LifeInv
  PROVE  alloc_index(mr_pool) \in (0..(MaxMr - 1)) \ mr_pool.table
<1> DEFINE T == 0..(MaxMr - 1)
           e == call[t].el
<1>1. /\ MaxMr \in Nat /\ MaxMr # 0
      /\ mr_pool.max_elem = MaxMr /\ mr_pool.range = MaxMr /\ mr_pool.min_index = MinIndex
  BY Served, Sizes DEF Idle
<1>2. e \in DOMAIN mrs /\ e \notin Indexed
  BY DEF ElInv, ElAts, IndexAts, RefAts, Indexed
<1>3. Indexed \subseteq DOMAIN mrs
  BY DEF Indexed, ElInv, ElAts
<1>4. IsFiniteSet(Indexed) /\ Cardinality(Indexed) \in Nat /\ Cardinality(Indexed) < MaxMr
  <2>1. Cardinality(DOMAIN mrs) \in Nat /\ Cardinality(DOMAIN mrs) <= MaxMr
    BY <1>1, PoolSizes, ExactIs
  <2>2. IsFiniteSet(DOMAIN mrs \ {e}) /\ Cardinality(DOMAIN mrs \ {e}) = Cardinality(DOMAIN mrs) - 1
    BY <1>2, FS_RemoveElement DEF MrShape
  <2>3. Indexed \in SUBSET (DOMAIN mrs \ {e})
    BY <1>2, <1>3
  <2>4. IsFiniteSet(Indexed) /\ Cardinality(Indexed) <= Cardinality(DOMAIN mrs \ {e})
    BY <2>2, <2>3, FS_Subset
  <2>5. Cardinality(Indexed) \in Nat
    BY <2>4, FS_CardinalityType
  <2> QED
    BY <1>1, <2>1, <2>2, <2>4, <2>5
<1>5. IsFiniteSet(T) /\ Cardinality(T) = MaxMr
  <2>1. 0 \in Int /\ MaxMr - 1 \in Int
    BY <1>1
  <2>2. IsFiniteSet(T) /\ Cardinality(T) = IF 0 > MaxMr - 1 THEN 0 ELSE (MaxMr - 1) - 0 + 1
    BY <2>1, FS_Interval
  <2> QED
    BY <1>1, <2>2
<1>6. T \ mr_pool.table # {}
  <2> SUFFICES ASSUME T \subseteq mr_pool.table PROVE FALSE
    OBVIOUS
  <2> DEFINE f == [b \in T |-> CHOOSE m \in Indexed : mrs[m].index - mr_pool.min_index = b]
  <2>1. \A b \in T : \E m \in Indexed : mrs[m].index - mr_pool.min_index = b
    BY DEF IndexInv
  <2>2. \A b \in T : f[b] \in Indexed /\ mrs[f[b]].index - mr_pool.min_index = b
    BY <2>1
  <2>3. f \in [T -> Indexed]
    BY <2>2
  <2> HIDE DEF f, T
  <2>4. \E x, y \in T : x # y /\ f[x] = f[y]
    BY <1>4, <1>5, <2>3, FS_PigeonHole
  <2> QED
    BY <2>2, <2>4
<1> DEFINE zero == (0..(mr_pool.range - 1)) \ mr_pool.table
           next == {b \in zero : b >= mr_pool.last}
<1>7. zero = T \ mr_pool.table /\ zero # {} /\ zero \subseteq Nat /\ next \subseteq zero
  BY <1>1, <1>6
<1>8. alloc_index(mr_pool) = IF next # {} THEN Least(next) ELSE Least(zero)
  BY DEF alloc_index
<1> HIDE DEF zero, next
<1>9. Least(zero) \in zero /\ (next # {} => Least(next) \in next)
  BY <1>7, LeastIs
<1> QED
  BY <1>7, <1>8, <1>9

\* A region is changed in place, is made and is freed.
MrType == [ref : Nat, index : Nat, lkey : Nat, pd : Nat, ibpd : Nat, whole : BOOLEAN, up : BOOLEAN]

LEMMA MrMade ==
  ASSUME NEW m, m = Unused(DOMAIN mrs), MrShape,
         mrs' = With(mrs, m, [ref |-> 1, index |-> 0, lkey |-> 0, pd |-> 0, ibpd |-> 0,
                              whole |-> TRUE, up |-> FALSE])
  PROVE  /\ m \in Nat \ {0} /\ m \notin DOMAIN mrs /\ DOMAIN mrs' = DOMAIN mrs \cup {m}
         /\ IsFiniteSet(DOMAIN mrs') /\ mrs'[m] \in MrType
         /\ ~mrs'[m].up /\ mrs'[m].index = 0
         /\ \A n \in DOMAIN mrs : mrs'[n] = mrs[n]
<1> DEFINE r == [ref |-> 1, index |-> 0, lkey |-> 0, pd |-> 0, ibpd |-> 0, whole |-> TRUE, up |-> FALSE]
<1>1. m \in Nat \ {0} /\ m \notin DOMAIN mrs
  BY UnusedIs DEF MrShape
<1>2. r \in MrType /\ ~r.up /\ r.index = 0
  BY DEF MrType
<1> HIDE DEF r
<1>3. /\ DOMAIN mrs' = DOMAIN mrs \cup {m} /\ IsFiniteSet(DOMAIN mrs') /\ mrs'[m] = r
      /\ \A n \in DOMAIN mrs : n # m => mrs'[n] = mrs[n]
  <2>1. LET g == With(mrs, m, r)
        IN /\ DOMAIN g = DOMAIN mrs \cup {m} /\ IsFiniteSet(DOMAIN g) /\ g[m] = r
           /\ \A n \in DOMAIN mrs : n # m => g[n] = mrs[n]
    <3>1. IsFiniteSet(DOMAIN mrs)
      BY DEF MrShape
    <3>2. /\ DOMAIN With(mrs, m, r) = DOMAIN mrs \cup {m} /\ With(mrs, m, r)[m] = r
          /\ \A n \in DOMAIN mrs : n # m => With(mrs, m, r)[n] = mrs[n]
      BY DEF With
    <3> QED
      BY <3>1, <3>2, FS_AddElement
  <2>2. mrs' = With(mrs, m, r)
    BY DEF r
  <2> QED
    BY <2>1, <2>2
<1> QED
  BY <1>1, <1>2, <1>3

\* The fields of a region are filled in.
LEMMA FilledType ==
  ASSUME NEW t \in Threads, NEW pd \in Nat, NEW up \in BOOLEAN, NEW whole \in BOOLEAN,
         CallInv, MrShape, Filled(t, pd, up, whole)
  PROVE  MrShape'
<1> DEFINE e == call[t].el
           r == [mrs[e] EXCEPT !.pd = pd, !.ibpd = call[t].pd, !.up = up, !.whole = whole]
<1>1. mrs' = [mrs EXCEPT ![e] = r]
  BY DEF Filled
<1>2. call[t].pd \in Nat
  BY AtIs DEF Calls
<1>3. e \in DOMAIN mrs => r \in MrType
  BY <1>2 DEF MrShape, MrType
<1> HIDE DEF r
<1> QED
  BY <1>1, <1>3 DEF MrShape, MrType

\* Regions keep their shape.
LEMMA MrShapeStep ==
  ASSUME CallInv, CtxInv, PdShape, MrShape, PoolShape, CqShape, AvInv, ElInv, IndexInv, CountInv, LifeInv, [Next]_vars
  PROVE  MrShape'
<1>1. ASSUME NEW t \in Threads, Alloc(t)
      PROVE  MrShape'
  <2>1. CASE AllocGet(t)
    BY <2>1 DEF AllocGet, MrShape
  <2>2. CASE AllocInc(t)
    BY <2>2 DEF AllocInc, MrShape
  <2>3. CASE AllocUndo(t)
    BY <2>3 DEF AllocUndo, MrShape
  <2>4. CASE AllocElem(t)
    <3>1. CASE mrs' = mrs
      BY <3>1 DEF MrShape
    <3>2. CASE call[t].op \notin PdOps
      <4> DEFINE m == Unused(DOMAIN mrs)
      <4>1. mrs' = With(mrs, m, [ref |-> 1, index |-> 0, lkey |-> 0, pd |-> 0, ibpd |-> 0,
                                 whole |-> TRUE, up |-> FALSE])
        BY <2>4, <3>2 DEF AllocElem
      <4>2. /\ m \in Nat \ {0} /\ DOMAIN mrs' = DOMAIN mrs \cup {m}
            /\ IsFiniteSet(DOMAIN mrs') /\ mrs'[m] \in MrType
            /\ \A n \in DOMAIN mrs : n # m => mrs'[n] = mrs[n]
        BY <4>1, MrMade, Zenon
      <4> QED
        BY <4>2 DEF MrShape, MrType
    <3> QED
      BY <2>4, <3>1, <3>2 DEF AllocElem
  <2> QED
    BY <1>1, <2>1, <2>2, <2>3, <2>4 DEF Alloc
<1>2. ASSUME NEW t \in Threads, Pds(t)
      PROVE  MrShape'
  <2>1. CASE bxroce_alloc_ucontext(t)
    BY <2>1 DEF bxroce_alloc_ucontext, MrShape
  <2>2. ASSUME NEW f \in BOOLEAN, OpenDone(t, f)
        PROVE  MrShape'
    BY <2>2 DEF OpenDone, MrShape
  <2>3. CASE bxroce_dealloc_ucontext(t)
    BY <2>3 DEF bxroce_dealloc_ucontext, MrShape
  <2>4. CASE bxroce_get_ucontext_pd(t)
    BY <2>4 DEF bxroce_get_ucontext_pd, MrShape
  <2>5. CASE bxroce_alloc_pd(t)
    BY <2>5 DEF bxroce_alloc_pd, MrShape
  <2>6. CASE AllocPdDone(t)
    BY <2>6 DEF AllocPdDone, MrShape
  <2>7. ASSUME NEW h \in held, bxroce_dealloc_pd(t, h)
        PROVE  MrShape'
    BY <2>7 DEF bxroce_dealloc_pd, MrShape
  <2> QED
    BY <1>2, <2>1, <2>2, <2>3, <2>4, <2>5, <2>6, <2>7 DEF Pds
<1>3. ASSUME NEW t \in Threads, Mrs(t)
      PROVE  MrShape'
  <2>1. ASSUME NEW h \in held, NEW op \in MrOps, RegMr(t, h, op)
        PROVE  MrShape'
    BY <2>1 DEF RegMr, MrShape
  <2>2. ASSUME NEW f \in BOOLEAN, AddIndex(t, f)
        PROVE  MrShape'
    <3>1. CASE f
      BY <2>2, <3>1 DEF AddIndex, MrShape
    <3>2. CASE ~f
      <4>1. mrs' = [mrs EXCEPT ![call[t].el].index = alloc_index(mr_pool) + mr_pool.min_index]
        BY <2>2, <3>2 DEF AddIndex
      <4>2. alloc_index(mr_pool) + mr_pool.min_index \in Nat
        <5>1. call[t].at = "index"
          BY <2>2 DEF AddIndex, Runs
        <5> QED
          BY <5>1, IndexFree DEF PoolShape, Pools
      <4> QED
        BY <4>1, <4>2 DEF MrShape
    <3> QED
      BY <3>1, <3>2
  <2>3. CASE AddRef(t)
    BY <2>3 DEF AddRef, MrShape
  <2>4. CASE UmemFails(t)
    BY <2>4 DEF UmemFails, MrShape
  <2>5. CASE KeyRead(t)
    BY <2>5 DEF KeyRead, MrShape
  <2>6. CASE bxroce_mem_init(t)
    <3>1. call[t].k \in Nat /\ call[t].el \in DOMAIN mrs
      BY <2>6, AtIs DEF bxroce_mem_init, Runs, ElInv, Calls, ElAts, IndexAts, RefAts
    <3>2. lkey(mrs[call[t].el].index, call[t].k) \in Nat
      BY <3>1 DEF MrShape, lkey
    <3>3. mrs' = [mrs EXCEPT ![call[t].el].lkey = lkey(mrs[call[t].el].index, call[t].k)]
      BY <2>6 DEF bxroce_mem_init
    <3> HIDE DEF lkey
    <3> QED
      BY <3>1, <3>2, <3>3 DEF MrShape
  <2>7. ASSUME NEW s \in Starts, NEW l \in Lens, NEW b \in BOOLEAN, NEW n \in BOOLEAN,
             NEW f \in BOOLEAN, bxroce_reg_user_mr(t, s, l, b, n, f)
        PROVE  MrShape'
    <3>1. CASE n
      BY <2>7, <3>1 DEF bxroce_reg_user_mr, MrShape
    <3>2. CASE ~n
      <4> DEFINE w == Covers(bxroce_mem_init_user(Page, Huge, s, l, b, MaxSg), Page, Huge, s, l, b)
      <4>1. w \in BOOLEAN
        BY Zenon DEF Covers
      <4>2. Filled(t, call[t].pd, ~f, w)
        BY <2>7, <3>2 DEF bxroce_reg_user_mr
      <4> HIDE DEF w
      <4>3. call[t].pd \in Nat
        BY AtIs DEF Calls
      <4>4. (~f) \in BOOLEAN
        OBVIOUS
      <4> QED
        BY <4>1, <4>2, <4>3, <4>4, FilledType, Zenon
    <3> QED
      BY <3>1, <3>2
  <2>8. ASSUME NEW f \in BOOLEAN, KernelMr(t, f)
        PROVE  MrShape'
    <3>1. call[t].pd \in Nat /\ 0 \in Nat /\ TRUE \in BOOLEAN
      BY AtIs DEF Calls
    <3>2. mrs' = mrs \/ Filled(t, call[t].pd, TRUE, TRUE) \/ Filled(t, 0, TRUE, TRUE)
      BY <2>8 DEF KernelMr, bxroce_get_dma_mr, bxroce_alloc_mr
    <3>3. CASE mrs' = mrs
      BY <3>3 DEF MrShape
    <3> QED
      BY <3>1, <3>2, <3>3, FilledType
  <2>9. ASSUME NEW m \in DOMAIN mrs, bxroce_dereg_mr(t, m)
        PROVE  MrShape'
    BY <2>9, ZenonT(30) DEF bxroce_dereg_mr, MrShape
  <2>10. CASE DropPdOf(t)
    BY <2>10 DEF DropPdOf, MrShape
  <2>11. CASE DropIndex(t)
    BY <2>11 DEF DropIndex, MrShape
  <2>12. CASE DropMr(t)
    <3>1. mrs' = Without(mrs, call[t].el)
      BY <2>12 DEF DropMr
    <3>2. LET g == Without(mrs, call[t].el)
          IN /\ DOMAIN g = DOMAIN mrs \ {call[t].el} /\ IsFiniteSet(DOMAIN g)
             /\ \A n \in DOMAIN mrs : n # call[t].el => g[n] = mrs[n]
      BY WithoutIs, Zenon DEF MrShape
    <3> QED
      BY <3>1, <3>2 DEF MrShape
  <2> QED
    BY <1>3, <2>1, <2>2, <2>3, <2>4, <2>5, <2>6, <2>7, <2>8, <2>9, <2>10, <2>11, <2>12 DEF Mrs
<1>4. ASSUME NEW t \in Threads, Cqs(t)
      PROVE  MrShape'
  BY <1>4, CqFrame DEF MrShape
<1>5. ASSUME NEW t \in Threads, Ahs(t)
      PROVE  MrShape'
  BY <1>5, AhFrame DEF MrShape
<1>6. ASSUME Life
      PROVE  MrShape'
  BY <1>6, LifeObjects, NoElems DEF MrShape, bxroce_init_pools
<1>7. CASE UNCHANGED vars
  BY <1>7 DEF vars, MrShape
<1> QED
  BY <1>1, <1>2, <1>3, <1>4, <1>5, <1>6, <1>7 DEF Next

\* The same, for the calls.
LEMMA PoolsKeep ==
  ASSUME NEW t \in Threads, MemStep(t), CallInv, CtxInv, PdShape, MrShape, PoolShape, CountInv,
         PdShape', MrShape', call[t].at \notin Inside, call'[t].at \notin Inside,
         UNCHANGED <<pd_pool, mr_pool>>, key' \in 0..255,
         DOMAIN pds' = DOMAIN pds, DOMAIN mrs' = DOMAIN mrs
  PROVE  PoolShape' /\ CountInv'
<1>1. rocedev' = rocedev /\ \A u \in Threads : u # t => call'[u] = call[u]
  BY MemFrame DEF Moves
<1>2. PoolShape'
  BY <1>1 DEF PoolShape
<1> QED
  BY <1>1, <1>2, CountKeeps DEF PoolShape

\* A step on the pool of the call.
LEMMA PoolsMove ==
  ASSUME NEW t \in Threads, MemStep(t), CallInv, CtxInv, PdShape, MrShape, PoolShape, CountInv,
         PdShape', MrShape', key' = key,
         mr_pool'.min_index = mr_pool.min_index, mr_pool'.range = mr_pool.range,
         PoolStep(pd_pool, pd_pool', Cardinality(DOMAIN pds), Cardinality(DOMAIN pds'),
                  Place(t, PdOps), Place(t, PdOps)'),
         PoolStep(mr_pool, mr_pool', Cardinality(DOMAIN mrs), Cardinality(DOMAIN mrs'),
                  Place(t, MrOps), Place(t, MrOps)')
  PROVE  PoolShape' /\ CountInv'
<1>1. rocedev' = rocedev /\ \A u \in Threads : u # t => call'[u] = call[u]
  BY MemFrame DEF Moves
<1>2. /\ pd_pool' \in Pools /\ pd_pool'.state = pd_pool.state /\ pd_pool'.max_elem = pd_pool.max_elem
      /\ mr_pool' \in Pools /\ mr_pool'.state = mr_pool.state /\ mr_pool'.max_elem = mr_pool.max_elem
  BY DEF PoolStep
<1>3. PoolShape'
  BY <1>1, <1>2 DEF PoolShape
<1> QED
  BY <1>1, <1>3, CountStep

\* Of the two pools, a call inside bxroce_alloc is on one.
LEMMA OneOp == PdOps \cap MrOps = {} /\ "none" \notin PdOps \cup MrOps
BY DEF PdOps, MrOps

\* The last reference of a PD is dropped.
LEMMA PdFreed ==
  ASSUME NEW p \in DOMAIN pds, DropPd(p), PdShape, MrShape, PoolShape, CountInv, PdShape',
         pd_pool.state = "VALID", NEW a, NEW b, a \notin Inside, b \notin Inside
  PROVE  PoolStep(pd_pool, pd_pool', Cardinality(DOMAIN pds), Cardinality(DOMAIN pds'), a, b)
<1>1. /\ Cardinality(DOMAIN pds) \in Nat /\ pd_pool \in Pools
      /\ Exact(pd_pool, Cardinality(DOMAIN pds), PdOps)
  BY PoolSizes
<1>2. pd_pool.ref_cnt \in Int /\ pd_pool.ref_cnt >= 1 + Cardinality(DOMAIN pds)
  BY <1>1, ExactIs DEF Pools
<1>3. Cardinality(DOMAIN pds) >= 1
  BY Counted DEF PdShape
<1>4. CASE pds[p].ref = 1
  <2>1. DOMAIN pds' = DOMAIN pds \ {p} /\ pd_pool' = bxroce_elem_release(pd_pool)
    BY <1>4, PdDrop
  <2>2. Cardinality(DOMAIN pds') = Cardinality(DOMAIN pds) - 1
    BY <2>1, FS_RemoveElement DEF PdShape
  <2>3. pd_pool.ref_cnt # 1
    BY <1>1, <1>2, <1>3
  <2> QED
    BY <1>1, <2>1, <2>2, <2>3, ReleaseIs DEF PoolStep, Inside
<1>5. CASE pds[p].ref # 1
  BY <1>1, <1>5, PdDrop DEF PoolStep, Inside
<1> QED
  BY <1>4, <1>5

\* New pools.
LEMMA InitPools ==
  ASSUME bxroce_init_pools
  PROVE  /\ pd_pool' \in Pools /\ mr_pool' \in Pools
         /\ pd_pool'.state = "VALID" /\ mr_pool'.state = "VALID"
         /\ pd_pool'.max_elem = MaxPd /\ mr_pool'.max_elem = MaxMr
         /\ pd_pool'.num_elem = 0 /\ mr_pool'.num_elem = 0
         /\ pd_pool'.ref_cnt = 1 /\ mr_pool'.ref_cnt = 1
         /\ mr_pool'.min_index = MinIndex /\ mr_pool'.range = MaxMr /\ mr_pool'.table = {}
<1>1. MaxPd \in Nat /\ MaxMr \in Nat /\ MinIndex \in Nat /\ {} \subseteq Nat
  BY Sizes
<1>2. pd_pool' = [state |-> "VALID", num_elem |-> 0, max_elem |-> MaxPd, ref_cnt |-> 1,
                  min_index |-> 0, range |-> 0, table |-> {}, last |-> 0]
  BY DEF bxroce_init_pools, bxroce_pool_init
<1>3. mr_pool' = [state |-> "VALID", num_elem |-> 0, max_elem |-> MaxMr, ref_cnt |-> 1,
                  min_index |-> MinIndex, range |-> (MinIndex + MaxMr - 1) - MinIndex + 1,
                  table |-> {}, last |-> 0]
  BY DEF bxroce_init_pools, bxroce_pool_init, bxroce_pool_init_index
<1>4. (MinIndex + MaxMr - 1) - MinIndex + 1 = MaxMr
  BY <1>1
<1> QED
  BY <1>1, <1>2, <1>3, <1>4 DEF Pools

\* A pool loses the reference of its own.
LEMMA CleanupIs ==
  ASSUME NEW pool \in Pools
  PROVE  /\ bxroce_pool_cleanup(pool) \in Pools
         /\ bxroce_pool_cleanup(pool).num_elem = pool.num_elem
         /\ bxroce_pool_cleanup(pool).max_elem = pool.max_elem
         /\ bxroce_pool_cleanup(pool).ref_cnt = pool.ref_cnt - 1
         /\ bxroce_pool_cleanup(pool).min_index = pool.min_index
         /\ bxroce_pool_cleanup(pool).state = "INVALID"
         /\ pool.ref_cnt # 1 => bxroce_pool_cleanup(pool).table = pool.table
         /\ pool.ref_cnt = 1 => bxroce_pool_cleanup(pool).table = {}
<1> DEFINE p == [pool EXCEPT !.state = "INVALID"]
<1>1. /\ p \in Pools /\ p.num_elem = pool.num_elem /\ p.max_elem = pool.max_elem
      /\ p.ref_cnt = pool.ref_cnt /\ p.state = "INVALID" /\ p.table = pool.table
      /\ p.min_index = pool.min_index
  BY DEF Pools
<1>2. bxroce_pool_cleanup(pool) = bxroce_pool_put(p)
  BY DEF bxroce_pool_cleanup
<1>3. p.ref_cnt = 1 => bxroce_pool_put(p).table = {}
  BY <1>1 DEF bxroce_pool_put, bxroce_pool_release, Pools
<1> HIDE DEF p
<1> QED
  BY <1>1, <1>2, <1>3, PutIs

\* A device that comes up has new pools.
LEMMA Brought ==
  ASSUME Life, Main \in rocedev', Main \notin rocedev
  PROVE  bxroce_init_pools /\ bxroce_init_cqqp /\ bxroce_create_ah_tbl
<1>1. ASSUME NEW n \in Nics, mac_register_dev(n) \/ mac_unregister_dev(n)
      PROVE  FALSE
  BY <1>1 DEF mac_register_dev, mac_unregister_dev
<1>2. ASSUME UpDown
      PROVE  FALSE
  BY <1>2 DEF UpDown
<1>3. ASSUME NEW x, NEW a, bxroce_inetaddr_event(x, a)
      PROVE  FALSE
  BY <1>3 DEF bxroce_inetaddr_event
<1>4. ASSUME NEW f, bx_init_module(f)
      PROVE  bxroce_init_pools /\ bxroce_init_cqqp /\ bxroce_create_ah_tbl
  BY <1>4 DEF bx_init_module, bx_add
<1>5. ASSUME bx_exit_module
      PROVE  FALSE
  BY <1>5 DEF bx_exit_module, Oops
<1> QED
  BY <1>1, <1>2, <1>3, <1>4, <1>5 DEF Life

\* Pools keep their counts.
LEMMA PoolsStep ==
  ASSUME CallInv, CtxInv, PdShape, MrShape, PoolShape, CountInv, LifeInv,
         CqShape, AvInv, ElInv, IndexInv, OwnerInv, UseInv, RefInv, PdShape', MrShape', [Next]_vars
  PROVE  PoolShape' /\ CountInv'
<1>1. ASSUME NEW t \in Threads, Alloc(t)
      PROVE  PoolShape' /\ CountInv'
  <2>1. CASE AllocGet(t)
    <3>1. /\ call[t].at = "get" /\ UNCHANGED <<pds, mrs, key>>
          /\ call[t].op \in PdOps \cup MrOps
      BY <2>1, AtIs DEF AllocGet, Runs, CallOK, AllocAts
    <3>2. pd_pool.state = "VALID" /\ mr_pool.state = "VALID" /\ pd_pool \in Pools /\ mr_pool \in Pools
      BY <3>1, Served DEF PoolShape, Idle
    <3>3. call'[t] = At(t, "inc") /\ SetPool(t, [Pool(t) EXCEPT !.ref_cnt = @ + 1])
      BY <2>1, <3>2, AtIs DEF AllocGet, Pool
    <3>4. call'[t].op = call[t].op /\ call'[t].at = "inc"
      BY <3>3, AtIs
    <3>5. CASE call[t].op \in PdOps
      BY <1>1, <3>1, <3>2, <3>3, <3>4, <3>5, OneOp, PoolsMove
         DEF MemStep, PoolStep, Place, SetPool, Pool, Pools
    <3>6. CASE call[t].op \in MrOps
      BY <1>1, <3>1, <3>2, <3>3, <3>4, <3>6, OneOp, PoolsMove
         DEF MemStep, PoolStep, Place, SetPool, Pool, Pools
    <3> QED
      BY <3>1, <3>5, <3>6
  <2>2. CASE AllocInc(t)
    <3>1. /\ call[t].at = "inc" /\ UNCHANGED <<pds, mrs, key>>
          /\ call[t].op \in PdOps \cup MrOps
      BY <2>2, AtIs DEF AllocInc, Runs, CallOK, AllocAts
    <3>2. pd_pool \in Pools /\ mr_pool \in Pools
      BY DEF PoolShape
    <3>3. /\ SetPool(t, [Pool(t) EXCEPT !.num_elem = @ + 1]) /\ call'[t].op = call[t].op
          /\ call'[t].at = IF Pool(t).num_elem + 1 > Pool(t).max_elem THEN "undo" ELSE "elem"
      BY <2>2, AtIs DEF AllocInc
    <3>4. CASE call[t].op \in PdOps
      BY <1>1, <3>1, <3>2, <3>3, <3>4, OneOp, PoolsMove
         DEF MemStep, PoolStep, Place, SetPool, Pool, Pools
    <3>5. CASE call[t].op \in MrOps
      BY <1>1, <3>1, <3>2, <3>3, <3>5, OneOp, PoolsMove
         DEF MemStep, PoolStep, Place, SetPool, Pool, Pools
    <3> QED
      BY <3>1, <3>4, <3>5
  <2>3. CASE AllocUndo(t)
    <3>1. /\ call[t].at \in {"undo", "elem"} /\ UNCHANGED <<pds, mrs, key>>
          /\ call[t].op \in PdOps \cup MrOps
      BY <2>3, AtIs DEF AllocUndo, Runs, CallOK, AllocAts
    <3>2. /\ pd_pool.state = "VALID" /\ mr_pool.state = "VALID" /\ pd_pool \in Pools /\ mr_pool \in Pools
          /\ Cardinality(DOMAIN pds) \in Nat /\ Cardinality(DOMAIN mrs) \in Nat
          /\ Exact(pd_pool, Cardinality(DOMAIN pds), PdOps)
          /\ Exact(mr_pool, Cardinality(DOMAIN mrs), MrOps)
      BY <3>1, Served, PoolSizes DEF Idle
    <3>3. SetPool(t, bxroce_elem_release(Pool(t))) /\ call'[t] = Idle
      BY <2>3, AtIs DEF AllocUndo, Null, bxroce_elem_release
    <3>4. CASE call[t].op \in PdOps
      <4>1. pd_pool.ref_cnt >= 2 + Cardinality(DOMAIN pds) /\ pd_pool.ref_cnt \in Int
        BY <3>1, <3>2, <3>4, ExactIs DEF Pools
      <4>2. pd_pool.ref_cnt # 1
        BY <3>2, <4>1
      <4>3. pd_pool' = bxroce_elem_release(pd_pool) /\ mr_pool' = mr_pool
        BY <3>3, <3>4 DEF SetPool, Pool
      <4>4. PoolStep(pd_pool, pd_pool', Cardinality(DOMAIN pds), Cardinality(DOMAIN pds'),
                     Place(t, PdOps), Place(t, PdOps)')
        BY <3>1, <3>2, <3>3, <3>4, <4>2, <4>3, OneOp, ReleaseIs DEF PoolStep, Place, Idle
      <4>5. PoolStep(mr_pool, mr_pool', Cardinality(DOMAIN mrs), Cardinality(DOMAIN mrs'),
                     Place(t, MrOps), Place(t, MrOps)')
        BY <3>1, <3>2, <3>3, <3>4, <4>3, OneOp DEF PoolStep, Place, Idle
      <4> QED
        BY <1>1, <3>1, <4>3, <4>4, <4>5, PoolsMove DEF MemStep
    <3>5. CASE call[t].op \in MrOps
      <4>1. mr_pool.ref_cnt >= 2 + Cardinality(DOMAIN mrs) /\ mr_pool.ref_cnt \in Int
        BY <3>1, <3>2, <3>5, ExactIs DEF Pools
      <4>2. mr_pool.ref_cnt # 1
        BY <3>2, <4>1
      <4>3. mr_pool' = bxroce_elem_release(mr_pool) /\ pd_pool' = pd_pool
        BY <3>3, <3>5, OneOp DEF SetPool, Pool
      <4>4. PoolStep(mr_pool, mr_pool', Cardinality(DOMAIN mrs), Cardinality(DOMAIN mrs'),
                     Place(t, MrOps), Place(t, MrOps)')
        BY <3>1, <3>2, <3>3, <3>5, <4>2, <4>3, OneOp, ReleaseIs DEF PoolStep, Place, Idle
      <4>5. PoolStep(pd_pool, pd_pool', Cardinality(DOMAIN pds), Cardinality(DOMAIN pds'),
                     Place(t, PdOps), Place(t, PdOps)')
        BY <3>1, <3>2, <3>3, <3>5, <4>3, OneOp DEF PoolStep, Place, Idle
      <4> QED
        BY <1>1, <3>1, <3>2, <4>3, <4>4, <4>5, PoolsMove, ReleaseIs DEF MemStep
    <3> QED
      BY <3>1, <3>4, <3>5
  <2>4. CASE AllocElem(t)
    <3>1. /\ call[t].at = "elem" /\ UNCHANGED <<pd_pool, mr_pool, key>>
          /\ call[t].op \in PdOps \cup MrOps
      BY <2>4, AtIs DEF AllocElem, Runs, CallOK, AllocAts
    <3>2. pd_pool \in Pools /\ mr_pool \in Pools /\ Cardinality(DOMAIN pds) \in Nat /\ Cardinality(DOMAIN mrs) \in Nat
      BY PoolSizes
    <3>3. CASE call[t].op \in PdOps
      <4> DEFINE p == Unused(DOMAIN pds)
      <4>1. pds' = With(pds, p, [ref |-> 1]) /\ mrs' = mrs /\ call'[t] = [At(t, "made") EXCEPT !.pd = p]
        BY <2>4, <3>3, AtIs DEF AllocElem
      <4>2. p \notin DOMAIN pds /\ DOMAIN pds' = DOMAIN pds \cup {p}
        BY <4>1, PdMade, Zenon
      <4> HIDE DEF p
      <4>3. Cardinality(DOMAIN pds') = Cardinality(DOMAIN pds) + 1
        BY <4>2, FS_AddElement DEF PdShape
      <4>4. call'[t].op = call[t].op /\ call'[t].at = "made"
        BY <4>1, AtIs
      <4> QED
        BY <1>1, <3>1, <3>2, <3>3, <4>1, <4>3, <4>4, OneOp, PoolsMove DEF MemStep, PoolStep, Place
    <3>4. CASE call[t].op \in MrOps
      <4> DEFINE m == Unused(DOMAIN mrs)
      <4>1. /\ mrs' = With(mrs, m, [ref |-> 1, index |-> 0, lkey |-> 0, pd |-> 0, ibpd |-> 0,
                                    whole |-> TRUE, up |-> FALSE])
            /\ pds' = pds /\ call'[t] = [At(t, "index") EXCEPT !.el = m]
        BY <2>4, <3>4, AtIs, OneOp DEF AllocElem
      <4>2. m \notin DOMAIN mrs /\ DOMAIN mrs' = DOMAIN mrs \cup {m}
        BY <4>1, MrMade, Zenon
      <4> HIDE DEF m
      <4>3. Cardinality(DOMAIN mrs') = Cardinality(DOMAIN mrs) + 1
        BY <4>2, FS_AddElement DEF MrShape
      <4>4. call'[t].op = call[t].op /\ call'[t].at = "index"
        BY <4>1, AtIs
      <4> QED
        BY <1>1, <3>1, <3>2, <3>4, <4>1, <4>3, <4>4, OneOp, PoolsMove DEF MemStep, PoolStep, Place
    <3> QED
      BY <3>1, <3>3, <3>4
  <2> QED
    BY <1>1, <2>1, <2>2, <2>3, <2>4 DEF Alloc
<1>2. ASSUME NEW t \in Threads, Pds(t)
      PROVE  PoolShape' /\ CountInv'
  <2>1. CASE bxroce_alloc_ucontext(t)
    <3>1. call[t].at \notin Inside /\ call'[t].at \notin Inside
      BY <2>1, AtIs DEF bxroce_alloc_ucontext, Begin, Inside, Idle
    <3>2. /\ UNCHANGED <<pd_pool, mr_pool>> /\ DOMAIN pds' = DOMAIN pds /\ DOMAIN mrs' = DOMAIN mrs
      BY <2>1 DEF bxroce_alloc_ucontext, Begin
    <3>3. key' \in 0..255
      BY <2>1 DEF bxroce_alloc_ucontext, PoolShape
    <3> QED
      BY <1>2, <3>1, <3>2, <3>3, PoolsKeep DEF MemStep
  <2>2. ASSUME NEW f \in BOOLEAN, OpenDone(t, f)
        PROVE  PoolShape' /\ CountInv'
    <3>1. call[t].at \notin Inside /\ call'[t].at \notin Inside
      BY <2>2, AtIs DEF OpenDone, Runs, Inside, Idle
    <3>2. /\ UNCHANGED <<pd_pool, mr_pool>> /\ DOMAIN pds' = DOMAIN pds /\ DOMAIN mrs' = DOMAIN mrs
      BY <2>2 DEF OpenDone, Runs
    <3>3. key' \in 0..255
      BY <2>2 DEF OpenDone, PoolShape, Others
    <3> QED
      BY <1>2, <3>1, <3>2, <3>3, PoolsKeep DEF MemStep
  <2>3. CASE bxroce_dealloc_ucontext(t)
    <3>1. call' = call /\ call[t] = Idle /\ UNCHANGED <<mr_pool, mrs, key>>
      BY <2>3 DEF bxroce_dealloc_ucontext
    <3>2. \A ops : Place(t, ops) \notin Inside /\ Place(t, ops)' \notin Inside
      BY <3>1 DEF Place, Inside, Idle
    <3>3. ctx.ctx_pd \in DOMAIN pds /\ DropPd(ctx.ctx_pd) /\ pd_pool.state = "VALID"
      <4>1. ctx.st = "open" /\ ctx # Closed
        BY <2>3 DEF bxroce_dealloc_ucontext, Closed
      <4>2. Main \in rocedev
        BY <4>1 DEF LifeInv, Quiet
      <4> QED
        BY <2>3, <4>1, <4>2 DEF bxroce_dealloc_ucontext, OwnerInv, PoolShape
    <3>4. PoolStep(pd_pool, pd_pool', Cardinality(DOMAIN pds), Cardinality(DOMAIN pds'),
                   Place(t, PdOps), Place(t, PdOps)')
      BY <3>2, <3>3, PdFreed
    <3>5. PoolStep(mr_pool, mr_pool', Cardinality(DOMAIN mrs), Cardinality(DOMAIN mrs'),
                   Place(t, MrOps), Place(t, MrOps)')
      BY <3>1, <3>2, PoolSizes DEF PoolStep, Inside
    <3> QED
      BY <1>2, <3>1, <3>4, <3>5, PoolsMove DEF MemStep
  <2>4. CASE bxroce_get_ucontext_pd(t)
    <3>1. call[t].at \notin Inside /\ call'[t].at \notin Inside
      BY <2>4, AtIs DEF bxroce_get_ucontext_pd, Begin, Inside, Idle
    <3>2. /\ UNCHANGED <<pd_pool, mr_pool>> /\ DOMAIN pds' = DOMAIN pds /\ DOMAIN mrs' = DOMAIN mrs
      BY <2>4 DEF bxroce_get_ucontext_pd, Begin
    <3>3. key' \in 0..255
      BY <2>4 DEF bxroce_get_ucontext_pd, PoolShape
    <3> QED
      BY <1>2, <3>1, <3>2, <3>3, PoolsKeep DEF MemStep
  <2>5. CASE bxroce_alloc_pd(t)
    <3>1. call[t].at \notin Inside /\ call'[t].at \notin Inside
      BY <2>5, AtIs DEF bxroce_alloc_pd, Begin, Inside, Idle
    <3>2. /\ UNCHANGED <<pd_pool, mr_pool>> /\ DOMAIN pds' = DOMAIN pds /\ DOMAIN mrs' = DOMAIN mrs
      BY <2>5 DEF bxroce_alloc_pd, Begin
    <3>3. key' \in 0..255
      BY <2>5 DEF bxroce_alloc_pd, PoolShape
    <3> QED
      BY <1>2, <3>1, <3>2, <3>3, PoolsKeep DEF MemStep
  <2>6. CASE AllocPdDone(t)
    <3>1. call[t].at \notin Inside /\ call'[t].at \notin Inside
      BY <2>6, AtIs DEF AllocPdDone, Runs, Inside, Idle
    <3>2. /\ UNCHANGED <<pd_pool, mr_pool>> /\ DOMAIN pds' = DOMAIN pds /\ DOMAIN mrs' = DOMAIN mrs
      BY <2>6 DEF AllocPdDone, Runs
    <3>3. key' \in 0..255
      BY <2>6 DEF AllocPdDone, PoolShape, Others
    <3> QED
      BY <1>2, <3>1, <3>2, <3>3, PoolsKeep DEF MemStep
  <2>7. ASSUME NEW h \in held, bxroce_dealloc_pd(t, h)
        PROVE  PoolShape' /\ CountInv'
    <3>1. call' = call /\ call[t] = Idle /\ UNCHANGED <<mr_pool, mrs, key>>
      BY <2>7 DEF bxroce_dealloc_pd
    <3>2. \A ops : Place(t, ops) \notin Inside /\ Place(t, ops)' \notin Inside
      BY <3>1 DEF Place, Inside, Idle
    <3>3. h.pd \in DOMAIN pds /\ pd_pool.state = "VALID"
      <4>1. held # {}
        OBVIOUS
      <4>2. Main \in rocedev
        BY <4>1 DEF LifeInv, Quiet
      <4> QED
        BY <4>2 DEF OwnerInv, PoolShape
    <3>4. PoolStep(pd_pool, pd_pool', Cardinality(DOMAIN pds), Cardinality(DOMAIN pds'),
                   Place(t, PdOps), Place(t, PdOps)')
      <4>1. CASE DropPd(h.pd)
        BY <3>2, <3>3, <4>1, PdFreed
      <4>2. CASE UNCHANGED <<pds, pd_pool>>
        BY <3>2, <4>2, PoolSizes DEF PoolStep, Inside
      <4> QED
        BY <2>7, <4>1, <4>2 DEF bxroce_dealloc_pd
    <3>5. PoolStep(mr_pool, mr_pool', Cardinality(DOMAIN mrs), Cardinality(DOMAIN mrs'),
                   Place(t, MrOps), Place(t, MrOps)')
      BY <3>1, <3>2, PoolSizes DEF PoolStep, Inside
    <3> QED
      BY <1>2, <3>1, <3>4, <3>5, PoolsMove DEF MemStep
  <2> QED
    BY <1>2, <2>1, <2>2, <2>3, <2>4, <2>5, <2>6, <2>7 DEF Pds
<1>3. ASSUME NEW t \in Threads, Mrs(t)
      PROVE  PoolShape' /\ CountInv'
  <2>1. ASSUME NEW h \in held, NEW op \in MrOps, RegMr(t, h, op)
        PROVE  PoolShape' /\ CountInv'
    <3>1. call[t].at \notin Inside /\ call'[t].at \notin Inside
      BY <2>1, AtIs DEF RegMr, Begin, Inside, Idle
    <3>2. /\ UNCHANGED <<pd_pool, mr_pool>> /\ DOMAIN pds' = DOMAIN pds /\ DOMAIN mrs' = DOMAIN mrs
      BY <2>1 DEF RegMr, Begin
    <3>3. key' \in 0..255
      BY <2>1 DEF RegMr, PoolShape
    <3> QED
      BY <1>3, <3>1, <3>2, <3>3, PoolsKeep DEF MemStep
  <2>2. ASSUME NEW f \in BOOLEAN, AddIndex(t, f)
        PROVE  PoolShape' /\ CountInv'
    <3>1. /\ UNCHANGED <<pd_pool, pds, key>> /\ DOMAIN mrs' = DOMAIN mrs
          /\ call[t].at \notin Inside /\ call'[t].at \notin Inside
      BY <2>2, AtIs DEF AddIndex, Runs, Inside, Idle
    <3>2. CASE f
      BY <2>2, <1>3, <3>1, <3>2, PoolsKeep DEF AddIndex, MemStep, PoolShape
    <3>3. CASE ~f
      <4> DEFINE i == alloc_index(mr_pool)
      <4>1. mr_pool' = [mr_pool EXCEPT !.table = @ \cup {i}, !.last = i]
        BY <2>2, <3>3 DEF AddIndex, bxroce_add_index
      <4>2. i \in Nat
        <5>1. call[t].at = "index"
          BY <2>2 DEF AddIndex, Runs
        <5> QED
          BY <5>1, IndexFree
      <4> HIDE DEF i
      <4>3. PoolStep(mr_pool, mr_pool', Cardinality(DOMAIN mrs), Cardinality(DOMAIN mrs'),
                     Place(t, MrOps), Place(t, MrOps)')
            /\ mr_pool'.min_index = mr_pool.min_index /\ mr_pool'.range = mr_pool.range
        BY <3>1, <4>1, <4>2, PoolSizes DEF PoolStep, Place, Inside, Pools
      <4>4. PoolStep(pd_pool, pd_pool', Cardinality(DOMAIN pds), Cardinality(DOMAIN pds'),
                     Place(t, PdOps), Place(t, PdOps)')
        BY <3>1, PoolSizes DEF PoolStep, Place, Inside
      <4> QED
        BY <1>3, <3>1, <4>3, <4>4, PoolsMove DEF MemStep
    <3> QED
      BY <3>2, <3>3
  <2>3. CASE AddRef(t)
    <3>1. call[t].at \notin Inside /\ call'[t].at \notin Inside
      BY <2>3, AtIs DEF AddRef, Runs, Inside, Idle
    <3>2. /\ UNCHANGED <<pd_pool, mr_pool>> /\ DOMAIN pds' = DOMAIN pds /\ DOMAIN mrs' = DOMAIN mrs
      BY <2>3 DEF AddRef, Runs
    <3>3. key' \in 0..255
      BY <2>3 DEF AddRef, PoolShape, Others
    <3> QED
      BY <1>3, <3>1, <3>2, <3>3, PoolsKeep DEF MemStep
  <2>4. CASE UmemFails(t)
    <3>1. call[t].at \notin Inside /\ call'[t].at \notin Inside
      BY <2>4, AtIs DEF UmemFails, Runs, Inside, Idle
    <3>2. /\ UNCHANGED <<pd_pool, mr_pool>> /\ DOMAIN pds' = DOMAIN pds /\ DOMAIN mrs' = DOMAIN mrs
      BY <2>4 DEF UmemFails, Runs
    <3>3. key' \in 0..255
      BY <2>4 DEF UmemFails, PoolShape, Others
    <3> QED
      BY <1>3, <3>1, <3>2, <3>3, PoolsKeep DEF MemStep
  <2>5. CASE KeyRead(t)
    <3>1. call[t].at \notin Inside /\ call'[t].at \notin Inside
      BY <2>5, AtIs DEF KeyRead, Runs, Inside, Idle
    <3>2. /\ UNCHANGED <<pd_pool, mr_pool>> /\ DOMAIN pds' = DOMAIN pds /\ DOMAIN mrs' = DOMAIN mrs
      BY <2>5 DEF KeyRead, Runs
    <3>3. key' \in 0..255
      BY <2>5 DEF KeyRead, PoolShape, Others
    <3> QED
      BY <1>3, <3>1, <3>2, <3>3, PoolsKeep DEF MemStep
  <2>6. CASE bxroce_mem_init(t)
    <3>1. call[t].at \notin Inside /\ call'[t].at \notin Inside
      BY <2>6, AtIs DEF bxroce_mem_init, Runs, Inside, Idle
    <3>2. /\ UNCHANGED <<pd_pool, mr_pool>> /\ DOMAIN pds' = DOMAIN pds /\ DOMAIN mrs' = DOMAIN mrs
      BY <2>6 DEF bxroce_mem_init, Runs
    <3>3. key' \in 0..255
      BY <2>6 DEF bxroce_mem_init, Runs, IndexInv
    <3> QED
      BY <1>3, <3>1, <3>2, <3>3, PoolsKeep DEF MemStep
  <2>7. ASSUME NEW s \in Starts, NEW l \in Lens, NEW b \in BOOLEAN, NEW n \in BOOLEAN,
             NEW f \in BOOLEAN, bxroce_reg_user_mr(t, s, l, b, n, f)
        PROVE  PoolShape' /\ CountInv'
    <3>1. call[t].at \notin Inside /\ call'[t].at \notin Inside
      BY <2>7, AtIs DEF bxroce_reg_user_mr, Runs, Filled, Inside, Idle
    <3>2. /\ UNCHANGED <<pd_pool, mr_pool>> /\ DOMAIN pds' = DOMAIN pds /\ DOMAIN mrs' = DOMAIN mrs
      BY <2>7 DEF bxroce_reg_user_mr, Runs, Filled
    <3>3. key' \in 0..255
      BY <2>7 DEF bxroce_reg_user_mr, PoolShape, Others
    <3> QED
      BY <1>3, <3>1, <3>2, <3>3, PoolsKeep DEF MemStep
  <2>8. ASSUME NEW f \in BOOLEAN, KernelMr(t, f)
        PROVE  PoolShape' /\ CountInv'
    <3>1. call[t].at \notin Inside /\ call'[t].at \notin Inside
      BY <2>8, AtIs DEF KernelMr, Runs, bxroce_get_dma_mr, bxroce_alloc_mr, Filled, Inside, Idle
    <3>2. /\ UNCHANGED <<pd_pool, mr_pool>> /\ DOMAIN pds' = DOMAIN pds /\ DOMAIN mrs' = DOMAIN mrs
      BY <2>8 DEF KernelMr, Runs, bxroce_get_dma_mr, bxroce_alloc_mr, Filled
    <3>3. key' \in 0..255
      BY <2>8 DEF KernelMr, PoolShape, Others
    <3> QED
      BY <1>3, <3>1, <3>2, <3>3, PoolsKeep DEF MemStep
  <2>9. ASSUME NEW m \in DOMAIN mrs, bxroce_dereg_mr(t, m)
        PROVE  PoolShape' /\ CountInv'
    <3>1. call[t].at \notin Inside /\ call'[t].at \notin Inside
      BY <2>9, AtIs DEF bxroce_dereg_mr, Begin, Inside, Idle
    <3>2. /\ UNCHANGED <<pd_pool, mr_pool>> /\ DOMAIN pds' = DOMAIN pds /\ DOMAIN mrs' = DOMAIN mrs
      BY <2>9 DEF bxroce_dereg_mr, Begin
    <3>3. key' \in 0..255
      BY <2>9 DEF bxroce_dereg_mr, PoolShape
    <3> QED
      BY <1>3, <3>1, <3>2, <3>3, PoolsKeep DEF MemStep
  <2>10. CASE DropPdOf(t)
    <3>1. call[t].at = "drop_pd" /\ call[t].at \in RefAts
      BY <2>10 DEF DropPdOf, Runs, RefAts
    <3>2. call[t].pd \in DOMAIN pds /\ call[t].pd # 0 /\ pds[call[t].pd].ref >= 2
      BY <3>1, NotLast
    <3>3. DropPd(call[t].pd) /\ call'[t] = At(t, "drop_index") /\ UNCHANGED <<mr_pool, mrs, key>>
      BY <2>10, <3>2, AtIs DEF DropPdOf
    <3>4. DOMAIN pds' = DOMAIN pds /\ pd_pool' = pd_pool
      <4>1. pds[call[t].pd].ref # 1
        BY <3>2 DEF PdShape
      <4> QED
        BY <3>3, <4>1, PdDrop
    <3>5. call[t].at \notin Inside /\ call'[t].at \notin Inside
      BY <3>1, <3>3, AtIs DEF Inside
    <3> QED
      BY <1>3, <3>3, <3>4, <3>5, PoolsKeep DEF MemStep, PoolShape
  <2>11. CASE DropIndex(t)
    <3>1. /\ UNCHANGED <<pd_pool, pds, mrs, key>>
          /\ call[t].at \notin Inside /\ call'[t].at \notin Inside
      BY <2>11, AtIs DEF DropIndex, Runs, Inside
    <3>2. mr_pool' = [mr_pool EXCEPT !.table = @ \ {mrs[call[t].el].index - mr_pool.min_index}]
      BY <2>11 DEF DropIndex, bxroce_drop_index
    <3>3. PoolStep(mr_pool, mr_pool', Cardinality(DOMAIN mrs), Cardinality(DOMAIN mrs'),
                   Place(t, MrOps), Place(t, MrOps)')
          /\ mr_pool'.min_index = mr_pool.min_index /\ mr_pool'.range = mr_pool.range
      BY <3>1, <3>2, PoolSizes DEF PoolStep, Place, Inside, Pools
    <3>4. PoolStep(pd_pool, pd_pool', Cardinality(DOMAIN pds), Cardinality(DOMAIN pds'),
                   Place(t, PdOps), Place(t, PdOps)')
      BY <3>1, PoolSizes DEF PoolStep, Place, Inside
    <3> QED
      BY <1>3, <3>1, <3>3, <3>4, PoolsMove DEF MemStep
  <2>12. CASE DropMr(t)
    <3>1. /\ call[t].at = "drop_mr" /\ call'[t] = Idle /\ mr_pool' = bxroce_elem_release(mr_pool)
          /\ mrs' = Without(mrs, call[t].el) /\ UNCHANGED <<pd_pool, pds, key>>
      BY <2>12, AtIs DEF DropMr, Runs
    <3>2. call[t].el \in DOMAIN mrs
      BY <3>1 DEF ElInv, ElAts
    <3>3. DOMAIN mrs' = DOMAIN mrs \ {call[t].el}
      <4>1. DOMAIN Without(mrs, call[t].el) = DOMAIN mrs \ {call[t].el}
        BY WithoutIs
      <4> QED
        BY <3>1, <4>1
    <3>4. /\ Cardinality(DOMAIN mrs') = Cardinality(DOMAIN mrs) - 1 /\ Cardinality(DOMAIN mrs) >= 1
          /\ Cardinality(DOMAIN mrs) \in Nat
      BY <3>2, <3>3, FS_RemoveElement, Counted DEF MrShape
    <3>5. /\ mr_pool \in Pools /\ mr_pool.state = "VALID" /\ Exact(mr_pool, Cardinality(DOMAIN mrs), MrOps)
          /\ mr_pool.ref_cnt \in Int
      BY <3>1, Served, PoolSizes DEF Idle, Pools
    <3>6. mr_pool.ref_cnt # 1
      BY <3>4, <3>5, ExactIs
    <3>7. \A ops : Place(t, ops) \notin Inside /\ Place(t, ops)' \notin Inside
      BY <3>1 DEF Place, Inside, Idle
    <3>8. PoolStep(mr_pool, mr_pool', Cardinality(DOMAIN mrs), Cardinality(DOMAIN mrs'),
                   Place(t, MrOps), Place(t, MrOps)')
          /\ mr_pool'.min_index = mr_pool.min_index /\ mr_pool'.range = mr_pool.range
      BY <3>1, <3>4, <3>5, <3>6, <3>7, ReleaseIs DEF PoolStep, Inside
    <3>9. PoolStep(pd_pool, pd_pool', Cardinality(DOMAIN pds), Cardinality(DOMAIN pds'),
                   Place(t, PdOps), Place(t, PdOps)')
      BY <3>1, <3>7, PoolSizes DEF PoolStep, Inside
    <3> QED
      BY <1>3, <3>1, <3>8, <3>9, PoolsMove DEF MemStep
  <2> QED
    BY <1>3, <2>1, <2>2, <2>3, <2>4, <2>5, <2>6, <2>7, <2>8, <2>9, <2>10, <2>11, <2>12 DEF Mrs
<1>4. ASSUME NEW t \in Threads, Cqs(t)
      PROVE  PoolShape' /\ CountInv'
  <2>1. /\ Moves(t, {"none"} \cup CqAts) /\ UNCHANGED <<life, elems>>
    BY <1>4, CqFrame
  <2>2. call[t].at \notin Inside /\ call'[t].at \notin Inside
    BY <2>1 DEF Moves, Inside, CqAts, BitAts, AhAts
  <2>3. \A u \in Threads : u # t => call'[u] = call[u]
    BY <2>1 DEF Moves
  <2>4. PoolShape'
    BY <2>1 DEF PoolShape
  <2> QED
    BY <2>1, <2>2, <2>3, <2>4, CountKeeps DEF PoolShape
<1>5. ASSUME NEW t \in Threads, Ahs(t)
      PROVE  PoolShape' /\ CountInv'
  <2>1. /\ Moves(t, {"none"} \cup AhAts) /\ UNCHANGED <<life, elems>>
    BY <1>5, AhFrame
  <2>2. call[t].at \notin Inside /\ call'[t].at \notin Inside
    BY <2>1 DEF Moves, Inside, CqAts, BitAts, AhAts
  <2>3. \A u \in Threads : u # t => call'[u] = call[u]
    BY <2>1 DEF Moves
  <2>4. PoolShape'
    BY <2>1 DEF PoolShape
  <2> QED
    BY <2>1, <2>2, <2>3, <2>4, CountKeeps DEF PoolShape
<1>6. ASSUME Life
      PROVE  PoolShape' /\ CountInv'
  <2>1. (\A t \in Threads : call[t] = Idle) /\ UNCHANGED <<call, key>>
    BY <1>6, LifeRest
  <2>2. /\ \A ats : Where(PdOps, ats) = {} /\ Where(MrOps, ats) = {}
        /\ \A ats : Where(PdOps, ats)' = {} /\ Where(MrOps, ats)' = {}
    BY <2>1, OneOp DEF Where, Idle
  <2>3. Cardinality({}) = 0
    BY FS_EmptySet
  <2>4. CASE bxroce_init_pools
    <3>1. pds' = <<>> /\ mrs' = <<>>
      BY <2>4 DEF bxroce_init_pools
    <3>2. Cardinality(DOMAIN pds') = 0 /\ Cardinality(DOMAIN mrs') = 0
      BY <3>1, NoElems
    <3>3. /\ PoolShape' /\ pd_pool'.num_elem = 0 /\ mr_pool'.num_elem = 0
          /\ pd_pool'.ref_cnt = 1 /\ mr_pool'.ref_cnt = 1
          /\ pd_pool'.state = "VALID" /\ mr_pool'.state = "VALID"
          /\ pd_pool'.max_elem \in Nat /\ mr_pool'.max_elem \in Nat
      BY <2>1, <2>4, InitPools, Sizes DEF PoolShape
    <3> QED
      BY <2>2, <2>3, <3>2, <3>3 DEF CountInv, Exact
  <2>5. CASE ~bxroce_init_pools /\ UNCHANGED <<pd_pool, mr_pool>>
    <3>1. UNCHANGED <<pds, mrs>> /\ (Main \in rocedev' => Main \in rocedev)
      BY <1>6, <2>5, LifeObjects, Brought
    <3>2. PoolShape'
      BY <2>1, <2>5, <3>1 DEF PoolShape
    <3> QED
      BY <2>2, <2>5, <3>1, <3>2 DEF CountInv, Exact
  <2>6. CASE bx_exit_module /\ bx_remove /\ Main \in rocedev /\ UNCHANGED <<pds, mrs>>
    <3>1. /\ pd_pool \in Pools /\ mr_pool \in Pools /\ pd_pool.state = "VALID" /\ mr_pool.state = "VALID"
          /\ Cardinality(DOMAIN pds) \in Nat /\ Cardinality(DOMAIN mrs) \in Nat
          /\ Exact(pd_pool, Cardinality(DOMAIN pds), PdOps)
          /\ Exact(mr_pool, Cardinality(DOMAIN mrs), MrOps)
      BY <2>6, PoolSizes DEF PoolShape
    <3>2. /\ pd_pool' = bxroce_pool_cleanup(pd_pool) /\ mr_pool' = bxroce_pool_cleanup(mr_pool)
      BY <2>6 DEF bx_remove
    <3>3. Main \notin rocedev' \/ UNCHANGED <<pd_pool, mr_pool>>
      BY <2>6 DEF bx_exit_module, Oops
    <3>4. CASE UNCHANGED <<pd_pool, mr_pool>>
      <4>1. PoolShape'
        BY <2>1, <2>6, <3>4 DEF PoolShape, bx_exit_module, Oops
      <4> QED
        BY <2>2, <2>6, <3>4, <4>1 DEF CountInv, Exact
    <3>5. CASE Main \notin rocedev'
      <4>1. PoolShape'
        BY <2>1, <3>1, <3>2, <3>5, CleanupIs DEF PoolShape
      <4>2. Exact(pd_pool, Cardinality(DOMAIN pds), PdOps)'
        BY <2>2, <2>3, <2>6, <3>1, <3>2, CleanupIs, ZenonT(30) DEF Exact, Pools
      <4>3. Exact(mr_pool, Cardinality(DOMAIN mrs), MrOps)'
        BY <2>2, <2>3, <2>6, <3>1, <3>2, CleanupIs, ZenonT(30) DEF Exact, Pools
      <4> QED
        BY <4>1, <4>2, <4>3 DEF CountInv
    <3> QED
      BY <3>3, <3>4, <3>5
  <2> QED
    BY <1>6, <2>4, <2>5, <2>6, LifeObjects
<1>7. CASE UNCHANGED vars
  <2>1. PoolShape'
    BY <1>7 DEF vars, PoolShape
  <2> QED
    BY <1>7, <2>1 DEF vars, CountInv, Exact, Where
<1> QED
  BY <1>1, <1>2, <1>3, <1>4, <1>5, <1>6, <1>7 DEF Next

-----------------------------------------------------------------------------
(* Regions in the hands of calls.                                          *)

\* A step of t that leaves the regions of the other calls to them.
LEMMA ElKeeps ==
  ASSUME NEW t \in Threads, \A u \in Threads : u # t => call'[u] = call[u], ElInv,
         \A u \in Threads : u # t /\ call[u].at \in ElAts
                              => call[u].el \in DOMAIN mrs' /\ ~mrs'[call[u].el].up,
         call'[t].at \in ElAts =>
           /\ call'[t].el \in DOMAIN mrs' /\ ~mrs'[call'[t].el].up
           /\ \A u \in Threads : u # t /\ call[u].at \in ElAts => call[u].el # call'[t].el
  PROVE  ElInv'
<1>1. \A u \in Threads : call'[u].at \in ElAts => call'[u].el \in DOMAIN mrs' /\ ~mrs'[call'[u].el].up
  OBVIOUS
<1>2. \A u, v \in Threads :
        call'[u].at \in ElAts /\ call'[v].at \in ElAts /\ call'[u].el = call'[v].el => u = v
  BY DEF ElInv
<1> QED
  BY <1>1, <1>2 DEF ElInv

\* A region is changed in place by the call that has it.
LEMMA ElOwn ==
  ASSUME NEW t \in Threads, \A u \in Threads : u # t => call'[u] = call[u], ElInv, MrShape,
         call[t].at \in ElAts, DOMAIN mrs' = DOMAIN mrs,
         \A m \in DOMAIN mrs : m # call[t].el => mrs'[m] = mrs[m],
         call'[t].at \in ElAts => call'[t].el = call[t].el /\ ~mrs'[call[t].el].up
  PROVE  ElInv'
<1>1. \A u \in Threads : u # t /\ call[u].at \in ElAts
                           => /\ call[u].el \in DOMAIN mrs' /\ ~mrs'[call[u].el].up
                              /\ call[u].el # call[t].el
  BY DEF ElInv
<1>2. call[t].el \in DOMAIN mrs'
  BY DEF ElInv
<1> QED
  BY <1>1, <1>2, ElKeeps

\* Every call keeps its region to itself.
LEMMA ElStep ==
  ASSUME CallInv, CtxInv, PdShape, MrShape, PoolShape, CqShape, AvInv, ElInv, [Next]_vars
  PROVE  ElInv'
<1>1. ASSUME NEW t \in Threads, Alloc(t)
      PROVE  ElInv'
  <2>1. CASE AllocGet(t)
    <3>0. \A u \in Threads : u # t => call'[u] = call[u]
      BY <1>1, MemFrame DEF MemStep, Moves
    <3>1. mrs' = mrs /\ call'[t].at \notin ElAts
      BY <2>1, AtIs DEF AllocGet, Runs, Null, Idle, ElAts, IndexAts, RefAts
    <3> QED
      BY <3>0, <3>1, ElKeeps DEF ElInv
  <2>2. CASE AllocInc(t)
    <3>0. \A u \in Threads : u # t => call'[u] = call[u]
      BY <1>1, MemFrame DEF MemStep, Moves
    <3>1. mrs' = mrs /\ call'[t].at \notin ElAts
      BY <2>2, AtIs DEF AllocInc, Runs, Idle, ElAts, IndexAts, RefAts
    <3> QED
      BY <3>0, <3>1, ElKeeps DEF ElInv
  <2>3. CASE AllocUndo(t)
    <3>0. \A u \in Threads : u # t => call'[u] = call[u]
      BY <1>1, MemFrame DEF MemStep, Moves
    <3>1. mrs' = mrs /\ call'[t].at \notin ElAts
      BY <2>3, AtIs DEF AllocUndo, Runs, Null, Idle, ElAts, IndexAts, RefAts
    <3> QED
      BY <3>0, <3>1, ElKeeps DEF ElInv
  <2>4. CASE AllocElem(t)
    <3>0. \A u \in Threads : u # t => call'[u] = call[u]
      BY <1>1, MemFrame DEF MemStep, Moves
    <3>1. CASE call[t].op \in PdOps
      <4>1. mrs' = mrs /\ call'[t].at = "made"
        BY <2>4, <3>1, AtIs DEF AllocElem
      <4> QED
        BY <3>0, <4>1, ElKeeps DEF ElInv, ElAts, IndexAts, RefAts
    <3>2. CASE call[t].op \notin PdOps
      <4> DEFINE m == Unused(DOMAIN mrs)
      <4>1. /\ mrs' = With(mrs, m, [ref |-> 1, index |-> 0, lkey |-> 0, pd |-> 0, ibpd |-> 0,
                                    whole |-> TRUE, up |-> FALSE])
            /\ call'[t].el = m
        BY <2>4, <3>2, AtIs DEF AllocElem
      <4>2. /\ m \notin DOMAIN mrs /\ DOMAIN mrs' = DOMAIN mrs \cup {m} /\ ~mrs'[m].up
            /\ \A i \in DOMAIN mrs : mrs'[i] = mrs[i]
        BY <4>1, MrMade, Zenon
      <4> HIDE DEF m
      <4> QED
        BY <3>0, <4>1, <4>2, ElKeeps DEF ElInv
    <3> QED
      BY <3>1, <3>2
  <2> QED
    BY <1>1, <2>1, <2>2, <2>3, <2>4 DEF Alloc
<1>2. ASSUME NEW t \in Threads, Pds(t)
      PROVE  ElInv'
  <2>1. CASE bxroce_alloc_ucontext(t)
    <3>0. \A u \in Threads : u # t => call'[u] = call[u]
      BY <1>2, MemFrame DEF MemStep, Moves
    <3>1. mrs' = mrs /\ call'[t].at \notin ElAts
      BY <2>1, AtIs DEF bxroce_alloc_ucontext, Begin, Idle, ElAts, IndexAts, RefAts
    <3> QED
      BY <3>0, <3>1, ElKeeps DEF ElInv
  <2>2. ASSUME NEW f \in BOOLEAN, OpenDone(t, f)
        PROVE  ElInv'
    <3>0. \A u \in Threads : u # t => call'[u] = call[u]
      BY <1>2, MemFrame DEF MemStep, Moves
    <3>1. mrs' = mrs /\ call'[t].at \notin ElAts
      BY <2>2, AtIs DEF OpenDone, Runs, Idle, ElAts, IndexAts, RefAts
    <3> QED
      BY <3>0, <3>1, ElKeeps DEF ElInv
  <2>3. CASE bxroce_dealloc_ucontext(t)
    <3>0. \A u \in Threads : u # t => call'[u] = call[u]
      BY <1>2, MemFrame DEF MemStep, Moves
    <3>1. mrs' = mrs /\ call'[t].at \notin ElAts
      BY <2>3, AtIs DEF bxroce_dealloc_ucontext, Idle, ElAts, IndexAts, RefAts
    <3> QED
      BY <3>0, <3>1, ElKeeps DEF ElInv
  <2>4. CASE bxroce_get_ucontext_pd(t)
    <3>0. \A u \in Threads : u # t => call'[u] = call[u]
      BY <1>2, MemFrame DEF MemStep, Moves
    <3>1. mrs' = mrs /\ call'[t].at \notin ElAts
      BY <2>4, AtIs DEF bxroce_get_ucontext_pd, Begin, Idle, ElAts, IndexAts, RefAts
    <3> QED
      BY <3>0, <3>1, ElKeeps DEF ElInv
  <2>5. CASE bxroce_alloc_pd(t)
    <3>0. \A u \in Threads : u # t => call'[u] = call[u]
      BY <1>2, MemFrame DEF MemStep, Moves
    <3>1. mrs' = mrs /\ call'[t].at \notin ElAts
      BY <2>5, AtIs DEF bxroce_alloc_pd, Begin, Idle, ElAts, IndexAts, RefAts
    <3> QED
      BY <3>0, <3>1, ElKeeps DEF ElInv
  <2>6. CASE AllocPdDone(t)
    <3>0. \A u \in Threads : u # t => call'[u] = call[u]
      BY <1>2, MemFrame DEF MemStep, Moves
    <3>1. mrs' = mrs /\ call'[t].at \notin ElAts
      BY <2>6, AtIs DEF AllocPdDone, Runs, Idle, ElAts, IndexAts, RefAts
    <3> QED
      BY <3>0, <3>1, ElKeeps DEF ElInv
  <2>7. ASSUME NEW h \in held, bxroce_dealloc_pd(t, h)
        PROVE  ElInv'
    <3>0. \A u \in Threads : u # t => call'[u] = call[u]
      BY <1>2, MemFrame DEF MemStep, Moves
    <3>1. mrs' = mrs /\ call'[t].at \notin ElAts
      BY <2>7, AtIs DEF bxroce_dealloc_pd, Idle, ElAts, IndexAts, RefAts
    <3> QED
      BY <3>0, <3>1, ElKeeps DEF ElInv
  <2> QED
    BY <1>2, <2>1, <2>2, <2>3, <2>4, <2>5, <2>6, <2>7 DEF Pds
<1>3. ASSUME NEW t \in Threads, Mrs(t)
      PROVE  ElInv'
  <2>1. ASSUME NEW h \in held, NEW op \in MrOps, RegMr(t, h, op)
        PROVE  ElInv'
    <3>0. \A u \in Threads : u # t => call'[u] = call[u]
      BY <1>3, MemFrame DEF MemStep, Moves
    <3>1. mrs' = mrs /\ call'[t].at \notin ElAts
      BY <2>1, AtIs DEF RegMr, Begin, Idle, ElAts, IndexAts, RefAts
    <3> QED
      BY <3>0, <3>1, ElKeeps DEF ElInv
  <2>2. ASSUME NEW f \in BOOLEAN, AddIndex(t, f)
        PROVE  ElInv'
    <3>0. \A u \in Threads : u # t => call'[u] = call[u]
      BY <1>3, MemFrame DEF MemStep, Moves
    <3>1. /\ call[t].at \in ElAts /\ (call'[t].at \in ElAts => call'[t].el = call[t].el)
          /\ DOMAIN mrs' = DOMAIN mrs /\ \A m \in DOMAIN mrs : m # call[t].el => mrs'[m] = mrs[m]
      BY <2>2, AtIs DEF AddIndex, Runs, Idle, ElAts, IndexAts, RefAts
    <3>2. call[t].el \in DOMAIN mrs /\ ~mrs[call[t].el].up
      BY <3>1 DEF ElInv
    <3>3. mrs'[call[t].el].up = mrs[call[t].el].up
      BY <2>2, <3>2 DEF AddIndex, MrShape
    <3> QED
      BY <3>0, <3>1, <3>2, <3>3, ElOwn
  <2>3. CASE AddRef(t)
    <3>0. \A u \in Threads : u # t => call'[u] = call[u]
      BY <1>3, MemFrame DEF MemStep, Moves
    <3>1. /\ call[t].at \in ElAts /\ (call'[t].at \in ElAts => call'[t].el = call[t].el)
          /\ DOMAIN mrs' = DOMAIN mrs /\ \A m \in DOMAIN mrs : m # call[t].el => mrs'[m] = mrs[m]
      BY <2>3, AtIs DEF AddRef, Runs, Idle, ElAts, IndexAts, RefAts
    <3>2. call[t].el \in DOMAIN mrs /\ ~mrs[call[t].el].up
      BY <3>1 DEF ElInv
    <3>3. mrs'[call[t].el].up = mrs[call[t].el].up
      BY <2>3, <3>2 DEF AddRef, MrShape
    <3> QED
      BY <3>0, <3>1, <3>2, <3>3, ElOwn
  <2>4. CASE UmemFails(t)
    <3>0. \A u \in Threads : u # t => call'[u] = call[u]
      BY <1>3, MemFrame DEF MemStep, Moves
    <3>1. /\ call[t].at \in ElAts /\ (call'[t].at \in ElAts => call'[t].el = call[t].el)
          /\ DOMAIN mrs' = DOMAIN mrs /\ \A m \in DOMAIN mrs : m # call[t].el => mrs'[m] = mrs[m]
      BY <2>4, AtIs DEF UmemFails, Runs, Idle, ElAts, IndexAts, RefAts
    <3>2. call[t].el \in DOMAIN mrs /\ ~mrs[call[t].el].up
      BY <3>1 DEF ElInv
    <3>3. mrs'[call[t].el].up = mrs[call[t].el].up
      BY <2>4, <3>2 DEF UmemFails, MrShape
    <3> QED
      BY <3>0, <3>1, <3>2, <3>3, ElOwn
  <2>5. CASE KeyRead(t)
    <3>0. \A u \in Threads : u # t => call'[u] = call[u]
      BY <1>3, MemFrame DEF MemStep, Moves
    <3>1. /\ call[t].at \in ElAts /\ (call'[t].at \in ElAts => call'[t].el = call[t].el)
          /\ DOMAIN mrs' = DOMAIN mrs /\ \A m \in DOMAIN mrs : m # call[t].el => mrs'[m] = mrs[m]
      BY <2>5, AtIs DEF KeyRead, Runs, Idle, ElAts, IndexAts, RefAts
    <3>2. call[t].el \in DOMAIN mrs /\ ~mrs[call[t].el].up
      BY <3>1 DEF ElInv
    <3>3. mrs'[call[t].el].up = mrs[call[t].el].up
      BY <2>5, <3>2 DEF KeyRead, MrShape
    <3> QED
      BY <3>0, <3>1, <3>2, <3>3, ElOwn
  <2>6. CASE bxroce_mem_init(t)
    <3>0. \A u \in Threads : u # t => call'[u] = call[u]
      BY <1>3, MemFrame DEF MemStep, Moves
    <3>1. /\ call[t].at \in ElAts /\ (call'[t].at \in ElAts => call'[t].el = call[t].el)
          /\ DOMAIN mrs' = DOMAIN mrs /\ \A m \in DOMAIN mrs : m # call[t].el => mrs'[m] = mrs[m]
      BY <2>6, AtIs DEF bxroce_mem_init, Runs, Idle, ElAts, IndexAts, RefAts
    <3>2. call[t].el \in DOMAIN mrs /\ ~mrs[call[t].el].up
      BY <3>1 DEF ElInv
    <3>3. mrs'[call[t].el].up = mrs[call[t].el].up
      BY <2>6, <3>2 DEF bxroce_mem_init, MrShape
    <3> QED
      BY <3>0, <3>1, <3>2, <3>3, ElOwn
  <2>7. ASSUME NEW s \in Starts, NEW l \in Lens, NEW b \in BOOLEAN, NEW n \in BOOLEAN,
             NEW f \in BOOLEAN, bxroce_reg_user_mr(t, s, l, b, n, f)
        PROVE  ElInv'
    <3>0. \A u \in Threads : u # t => call'[u] = call[u]
      BY <1>3, MemFrame DEF MemStep, Moves
    <3>1. /\ call[t].at = "fill" /\ DOMAIN mrs' = DOMAIN mrs
          /\ \A m \in DOMAIN mrs : m # call[t].el => mrs'[m] = mrs[m]
      BY <2>7 DEF bxroce_reg_user_mr, Runs, Filled
    <3>2. call[t].at \in ElAts /\ call[t].el \in DOMAIN mrs
      BY <3>1 DEF ElInv, ElAts, IndexAts, RefAts
    <3>3. call'[t].at \in ElAts => call'[t].el = call[t].el /\ ~mrs'[call[t].el].up
      <4>1. CASE n
        BY <2>7, <3>2, <4>1 DEF bxroce_reg_user_mr, ElInv
      <4>2. CASE ~n
        <5> DEFINE w == Covers(bxroce_mem_init_user(Page, Huge, s, l, b, MaxSg), Page, Huge, s, l, b)
        <5>1. Filled(t, call[t].pd, ~f, w) /\ Go(t, IF f THEN At(t, "drop_pd") ELSE Idle)
          BY <2>7, <4>2 DEF bxroce_reg_user_mr
        <5> HIDE DEF w
        <5>2. mrs'[call[t].el].up = ~f
          BY <3>2, <5>1 DEF Filled, MrShape
        <5>3. call'[t] = IF f THEN At(t, "drop_pd") ELSE Idle
          BY <5>1, AtIs
        <5>4. CASE f
          <6>1. ~mrs'[call[t].el].up
            BY <5>2, <5>4, Zenon
          <6>2. call'[t].el = call[t].el
            BY <5>3, <5>4, AtIs
          <6> QED
            BY <6>1, <6>2
        <5>5. CASE ~f
          BY <5>3, <5>5 DEF Idle, ElAts, IndexAts, RefAts
        <5> QED
          BY <5>4, <5>5
      <4> QED
        BY <4>1, <4>2
    <3> QED
      BY <3>0, <3>1, <3>2, <3>3, ElOwn
  <2>8. ASSUME NEW f \in BOOLEAN, KernelMr(t, f)
        PROVE  ElInv'
    <3>0. \A u \in Threads : u # t => call'[u] = call[u]
      BY <1>3, MemFrame DEF MemStep, Moves
    <3>1. /\ call[t].at = "fill" /\ DOMAIN mrs' = DOMAIN mrs
          /\ \A m \in DOMAIN mrs : m # call[t].el => mrs'[m] = mrs[m]
      BY <2>8 DEF KernelMr, Runs, Filled, bxroce_get_dma_mr, bxroce_alloc_mr
    <3>2. call[t].at \in ElAts /\ call[t].el \in DOMAIN mrs
      BY <3>1 DEF ElInv, ElAts, IndexAts, RefAts
    <3>3. call'[t].at \in ElAts => call'[t].el = call[t].el /\ ~mrs'[call[t].el].up
      <4>1. CASE f
        BY <2>8, <3>2, <4>1 DEF KernelMr, ElInv
      <4>2. CASE ~f
        BY <2>8, <4>2, AtIs DEF KernelMr, Idle, ElAts, IndexAts, RefAts
      <4> QED
        BY <4>1, <4>2
    <3> QED
      BY <3>0, <3>1, <3>2, <3>3, ElOwn
  <2>9. ASSUME NEW m \in DOMAIN mrs, bxroce_dereg_mr(t, m)
        PROVE  ElInv'
    <3>0. \A u \in Threads : u # t => call'[u] = call[u]
      BY <1>3, MemFrame DEF MemStep, Moves
    <3>1. /\ mrs[m].up /\ mrs' = [mrs EXCEPT ![m].up = FALSE]
          /\ call'[t].at \in ElAts /\ call'[t].el = m
      BY <2>9, AtIs DEF bxroce_dereg_mr, Begin, ElAts, IndexAts, RefAts
    <3>2. \A u \in Threads : call[u].at \in ElAts => call[u].el # m
      BY <3>1 DEF ElInv
    <3>3. ~mrs'[m].up /\ DOMAIN mrs' = DOMAIN mrs /\ \A i \in DOMAIN mrs : i # m => mrs'[i] = mrs[i]
      BY <3>1 DEF MrShape
    <3> QED
      BY <3>0, <3>1, <3>2, <3>3, ElKeeps DEF ElInv
  <2>10. CASE DropPdOf(t)
    <3>0. \A u \in Threads : u # t => call'[u] = call[u]
      BY <1>3, MemFrame DEF MemStep, Moves
    <3>1. /\ call[t].at \in ElAts /\ (call'[t].at \in ElAts => call'[t].el = call[t].el)
          /\ DOMAIN mrs' = DOMAIN mrs /\ \A m \in DOMAIN mrs : m # call[t].el => mrs'[m] = mrs[m]
      BY <2>10, AtIs DEF DropPdOf, Runs, Idle, ElAts, IndexAts, RefAts
    <3>2. call[t].el \in DOMAIN mrs /\ ~mrs[call[t].el].up
      BY <3>1 DEF ElInv
    <3>3. mrs'[call[t].el].up = mrs[call[t].el].up
      BY <2>10, <3>2 DEF DropPdOf, MrShape
    <3> QED
      BY <3>0, <3>1, <3>2, <3>3, ElOwn
  <2>11. CASE DropIndex(t)
    <3>0. \A u \in Threads : u # t => call'[u] = call[u]
      BY <1>3, MemFrame DEF MemStep, Moves
    <3>1. /\ call[t].at \in ElAts /\ (call'[t].at \in ElAts => call'[t].el = call[t].el)
          /\ DOMAIN mrs' = DOMAIN mrs /\ \A m \in DOMAIN mrs : m # call[t].el => mrs'[m] = mrs[m]
      BY <2>11, AtIs DEF DropIndex, Runs, Idle, ElAts, IndexAts, RefAts
    <3>2. call[t].el \in DOMAIN mrs /\ ~mrs[call[t].el].up
      BY <3>1 DEF ElInv
    <3>3. mrs'[call[t].el].up = mrs[call[t].el].up
      BY <2>11, <3>2 DEF DropIndex, MrShape
    <3> QED
      BY <3>0, <3>1, <3>2, <3>3, ElOwn
  <2>12. CASE DropMr(t)
    <3>0. \A u \in Threads : u # t => call'[u] = call[u]
      BY <1>3, MemFrame DEF MemStep, Moves
    <3>1. call[t].at \in ElAts /\ call'[t].at \notin ElAts /\ mrs' = Without(mrs, call[t].el)
      BY <2>12, AtIs DEF DropMr, Runs, Idle, ElAts, IndexAts, RefAts
    <3>2. LET g == Without(mrs, call[t].el)
          IN /\ DOMAIN g = DOMAIN mrs \ {call[t].el}
             /\ \A m \in DOMAIN mrs : m # call[t].el => g[m] = mrs[m]
      BY WithoutIs, Zenon
    <3>3. \A u \in Threads : u # t /\ call[u].at \in ElAts
                               => call[u].el \in DOMAIN mrs' /\ ~mrs'[call[u].el].up
      BY <3>1, <3>2 DEF ElInv
    <3> QED
      BY <3>0, <3>1, <3>3, ElKeeps
  <2> QED
    BY <1>3, <2>1, <2>2, <2>3, <2>4, <2>5, <2>6, <2>7, <2>8, <2>9, <2>10, <2>11, <2>12 DEF Mrs
<1>4. ASSUME NEW t \in Threads, Cqs(t)
      PROVE  ElInv'
  <2>1. Moves(t, {"none"} \cup CqAts) /\ mrs' = mrs
    BY <1>4, CqFrame
  <2>2. call[t].at \notin ElAts /\ call'[t].at \notin ElAts /\ \A u \in Threads : u # t => call'[u] = call[u]
    BY <2>1 DEF Moves, CqAts, BitAts, AhAts, ElAts, IndexAts, RefAts
  <2> QED
    BY <2>1, <2>2, ElKeeps DEF ElInv
<1>5. ASSUME NEW t \in Threads, Ahs(t)
      PROVE  ElInv'
  <2>1. Moves(t, {"none"} \cup AhAts) /\ mrs' = mrs
    BY <1>5, AhFrame
  <2>2. call[t].at \notin ElAts /\ call'[t].at \notin ElAts /\ \A u \in Threads : u # t => call'[u] = call[u]
    BY <2>1 DEF Moves, CqAts, BitAts, AhAts, ElAts, IndexAts, RefAts
  <2> QED
    BY <2>1, <2>2, ElKeeps DEF ElInv
<1>6. ASSUME Life
      PROVE  ElInv'
  BY <1>6, LifeRest DEF ElInv, Idle, ElAts, IndexAts, RefAts
<1>7. CASE UNCHANGED vars
  BY <1>7 DEF vars, ElInv
<1> QED
  BY <1>1, <1>2, <1>3, <1>4, <1>5, <1>6, <1>7 DEF Next

-----------------------------------------------------------------------------
(* Indexes and keys.                                                       *)

\* The regions with an index are regions, in use or in the hands of a call.
LEMMA IndexedIs ==
  ASSUME ElInv
  PROVE  /\ Indexed \subseteq DOMAIN mrs
         /\ \A m \in DOMAIN mrs : mrs[m].up => m \in Indexed
         /\ \A t \in Threads : call[t].at \in IndexAts => call[t].el \in Indexed
         /\ \A t \in Threads : call[t].at \in {"index", "drop_mr"} => call[t].el \notin Indexed
BY DEF Indexed, ElInv, ElAts, IndexAts, RefAts

Top == MinIndex + MaxMr - 1

\* A step that touches no more than the region e, and not the indexes in use.
LEMMA IndexKeeps ==
  ASSUME NEW t \in Threads, NEW e, \A u \in Threads : u # t => call'[u] = call[u],
         ElInv, ElInv', IndexInv, Indexed' = Indexed,
         mr_pool'.table = mr_pool.table, mr_pool'.min_index = mr_pool.min_index,
         \A u \in Threads : u # t /\ call[u].at \in ElAts => call[u].el # e,
         \A m \in DOMAIN mrs' : m # e => m \in DOMAIN mrs /\ mrs'[m] = mrs[m],
         e \in Indexed => mrs'[e].index = mrs[e].index,
         e \in DOMAIN mrs' => mrs'[e].index \in 0..Top /\ (mrs'[e].up => KeyOf(mrs'[e])),
         call'[t].at = "init" => call'[t].k \in 0..255,
         call'[t].at = "fill" => KeyOf(mrs'[call'[t].el])
  PROVE  IndexInv'
<1>1. Indexed \subseteq DOMAIN mrs /\ Indexed \subseteq DOMAIN mrs'
  BY IndexedIs DEF Indexed, ElInv, ElAts, IndexAts
<1>2. \A m \in Indexed : mrs'[m].index = mrs[m].index
  BY <1>1
<1> HIDE DEF Indexed
<1>3. mr_pool'.table = {mrs'[m].index - mr_pool'.min_index : m \in Indexed'}
  BY <1>2 DEF IndexInv
<1>4. /\ \A m \in Indexed' : mrs'[m].index \in MinIndex..(MinIndex + MaxMr - 1)
      /\ \A m, n \in Indexed' : mrs'[m].index = mrs'[n].index => m = n
  BY <1>2 DEF IndexInv
<1>5. \A m \in DOMAIN mrs' : mrs'[m].index \in 0..(MinIndex + MaxMr - 1)
  BY DEF IndexInv, Top
<1>6. \A m \in DOMAIN mrs' : mrs'[m].up => KeyOf(mrs'[m])
  BY DEF IndexInv
<1>7. \A u \in Threads : /\ call'[u].at = "init" => call'[u].k \in 0..255
                         /\ call'[u].at = "fill" => KeyOf(mrs'[call'[u].el])
  <2> SUFFICES ASSUME NEW u \in Threads, u # t
               PROVE  /\ call'[u].at = "init" => call'[u].k \in 0..255
                      /\ call'[u].at = "fill" => KeyOf(mrs'[call'[u].el])
    OBVIOUS
  <2>1. call'[u] = call[u] /\ (call[u].at = "init" => call[u].k \in 0..255)
    BY DEF IndexInv
  <2>2. ASSUME call[u].at = "fill"
        PROVE  KeyOf(mrs'[call[u].el])
    <3>1. call'[u].at \in ElAts /\ call[u].at \in ElAts
      BY <2>1, <2>2 DEF ElAts, IndexAts, RefAts
    <3>2. call'[u].el \in DOMAIN mrs' /\ call[u].el # e
      BY <3>1 DEF ElInv
    <3>3. mrs'[call[u].el] = mrs[call[u].el]
      BY <2>1, <3>2
    <3>4. KeyOf(mrs[call[u].el])
      BY <2>2 DEF IndexInv
    <3> QED
      BY <2>1, <3>3, <3>4 DEF KeyOf
  <2> QED
    BY <2>1, <2>2
<1> QED
  BY <1>3, <1>4, <1>5, <1>6, <1>7 DEF IndexInv

\* The same when the regions stay as they are.
LEMMA IndexSame ==
  ASSUME NEW t \in Threads, \A u \in Threads : u # t => call'[u] = call[u],
         MrShape, ElInv, ElInv', IndexInv, mrs' = mrs,
         mr_pool'.table = mr_pool.table, mr_pool'.min_index = mr_pool.min_index,
         \/ call[t].at \notin IndexAts /\ call'[t].at \notin IndexAts
         \/ call[t].at \in IndexAts /\ call'[t].at \in IndexAts /\ call'[t].el = call[t].el,
         call'[t].at = "init" => call'[t].k \in 0..255,
         call'[t].at # "fill"
  PROVE  IndexInv'
<1>1. Indexed' = Indexed
  BY DEF Indexed
<1>2. \A u \in Threads : call[u].at \in ElAts => call[u].el # 0
  BY DEF ElInv, MrShape
<1>3. 0 \notin DOMAIN mrs
  BY DEF MrShape
<1> QED
  BY <1>1, <1>2, <1>3, IndexKeeps, IndexedIs

\* A pool that still has elements is not freed.
LEMMA MrPoolStays ==
  ASSUME NEW t \in Threads, CallInv, PdShape, MrShape, PoolShape, CountInv, LifeInv, ElInv,
         \/ call[t].op \in MrOps /\ call[t].at \in {"undo", "elem"}
         \/ call[t].at \in ElAts
  PROVE  /\ bxroce_elem_release(mr_pool).table = mr_pool.table
         /\ bxroce_elem_release(mr_pool).min_index = mr_pool.min_index
<1>1. call[t] # Idle
  BY DEF Idle, ElAts, IndexAts, RefAts
<1>2. /\ mr_pool \in Pools /\ mr_pool.state = "VALID" /\ Exact(mr_pool, Cardinality(DOMAIN mrs), MrOps)
      /\ Cardinality(DOMAIN mrs) \in Nat /\ mr_pool.ref_cnt \in Int
  BY <1>1, Served, PoolSizes DEF Pools
<1>3. CASE call[t].op \in MrOps /\ call[t].at \in {"undo", "elem"}
  <2>1. mr_pool.ref_cnt >= 2 + Cardinality(DOMAIN mrs)
    BY <1>2, <1>3, ExactIs
  <2> QED
    BY <1>2, <2>1, ReleaseIs
<1>4. CASE call[t].at \in ElAts
  <2>1. call[t].el \in DOMAIN mrs
    BY <1>4 DEF ElInv
  <2>2. Cardinality(DOMAIN mrs) >= 1
    BY <2>1, Counted DEF MrShape
  <2>3. mr_pool.ref_cnt >= 1 + Cardinality(DOMAIN mrs)
    BY <1>2, ExactIs
  <2> QED
    BY <1>2, <2>2, <2>3, ReleaseIs
<1> QED
  BY <1>3, <1>4

\* The same, after a step.
LEMMA IndexedThen ==
  ASSUME ElInv'
  PROVE  /\ Indexed' \subseteq DOMAIN mrs'
         /\ \A t \in Threads : call'[t].at \in IndexAts => call'[t].el \in Indexed'
BY DEF Indexed, ElInv, ElAts, IndexAts, RefAts

\* The bits that are set are the indexes in use.
LEMMA IndexStep ==
  ASSUME CallInv, CtxInv, PdShape, MrShape, PoolShape, CountInv, LifeInv, CqShape, AvInv,
         ElInv, IndexInv, ElInv', CallInv', PdShape', MrShape', [Next]_vars
  PROVE  IndexInv'
<1>1. ASSUME NEW t \in Threads, Alloc(t)
      PROVE  IndexInv'
  <2>1. CASE AllocGet(t)
    <3>0. \A u \in Threads : u # t => call'[u] = call[u]
      BY <1>1, MemFrame DEF MemStep, Moves
    <3>1. mrs' = mrs /\ call[t].at \notin IndexAts /\ call'[t].at \notin IndexAts
      BY <2>1, AtIs DEF AllocGet, Runs, Null, Idle, IndexAts, RefAts
    <3>2. mr_pool'.table = mr_pool.table /\ mr_pool'.min_index = mr_pool.min_index
      BY <2>1 DEF AllocGet, SetPool, Pool, PoolShape, Pools
    <3>3. call'[t].at # "init" /\ call'[t].at # "fill"
      BY <3>1 DEF IndexAts, RefAts
    <3> QED
      BY <3>0, <3>1, <3>2, <3>3, IndexSame
  <2>2. CASE AllocInc(t)
    <3>0. \A u \in Threads : u # t => call'[u] = call[u]
      BY <1>1, MemFrame DEF MemStep, Moves
    <3>1. mrs' = mrs /\ call[t].at \notin IndexAts /\ call'[t].at \notin IndexAts
      BY <2>2, AtIs DEF AllocInc, Runs, Idle, IndexAts, RefAts
    <3>2. mr_pool'.table = mr_pool.table /\ mr_pool'.min_index = mr_pool.min_index
      BY <2>2 DEF AllocInc, SetPool, Pool, PoolShape, Pools
    <3>3. call'[t].at # "init" /\ call'[t].at # "fill"
      BY <3>1 DEF IndexAts, RefAts
    <3> QED
      BY <3>0, <3>1, <3>2, <3>3, IndexSame
  <2>3. CASE AllocUndo(t)
    <3>0. \A u \in Threads : u # t => call'[u] = call[u]
      BY <1>1, MemFrame DEF MemStep, Moves
    <3>1. mrs' = mrs /\ call[t].at \in {"undo", "elem"} /\ call'[t] = Idle
          /\ SetPool(t, bxroce_elem_release(Pool(t)))
      BY <2>3, AtIs DEF AllocUndo, Runs, Null, bxroce_elem_release
    <3>2. call[t].op \in PdOps \cup MrOps
      BY <3>1, AtIs DEF CallOK, AllocAts
    <3>3. mr_pool'.table = mr_pool.table /\ mr_pool'.min_index = mr_pool.min_index
      BY <3>1, <3>2, OneOp, MrPoolStays DEF SetPool, Pool
    <3>4. call[t].at \notin IndexAts /\ call'[t].at = "none" /\ call'[t].at \notin IndexAts
      BY <3>1 DEF Idle, IndexAts, RefAts
    <3> QED
      BY <3>0, <3>1, <3>3, <3>4, IndexSame
  <2>4. CASE AllocElem(t)
    <3>0. \A u \in Threads : u # t => call'[u] = call[u]
      BY <1>1, MemFrame DEF MemStep, Moves
    <3>1. mr_pool' = mr_pool /\ call[t].at = "elem" /\ call[t].at \notin IndexAts
      BY <2>4 DEF AllocElem, Runs, IndexAts, RefAts
    <3>2. CASE call[t].op \in PdOps
      <4>1. mrs' = mrs /\ call'[t].at = "made" /\ call'[t].at \notin IndexAts
        BY <2>4, <3>2, AtIs DEF AllocElem, IndexAts, RefAts
      <4> QED
        BY <3>0, <3>1, <4>1, IndexSame
    <3>3. CASE call[t].op \notin PdOps
      <4> DEFINE m == Unused(DOMAIN mrs)
      <4>1. /\ mrs' = With(mrs, m, [ref |-> 1, index |-> 0, lkey |-> 0, pd |-> 0, ibpd |-> 0,
                                    whole |-> TRUE, up |-> FALSE])
            /\ call'[t].el = m /\ call'[t].at = "index"
        BY <2>4, <3>3, AtIs DEF AllocElem
      <4>2. /\ m \notin DOMAIN mrs /\ DOMAIN mrs' = DOMAIN mrs \cup {m} /\ ~mrs'[m].up /\ mrs'[m].index = 0
            /\ \A i \in DOMAIN mrs : mrs'[i] = mrs[i]
        BY <4>1, MrMade, Zenon
      <4> HIDE DEF m
      <4>3. Indexed' = Indexed
        BY <3>0, <3>1, <4>1, <4>2 DEF Indexed, IndexAts, RefAts
      <4>4. m \notin Indexed /\ 0 \in 0..Top /\ \A u \in Threads : call[u].at \in ElAts => call[u].el # m
        BY <4>2, IndexedIs, Sizes DEF ElInv, Top
      <4> QED
        BY <3>0, <3>1, <4>1, <4>2, <4>3, <4>4, IndexKeeps
    <3> QED
      BY <3>2, <3>3
  <2> QED
    BY <1>1, <2>1, <2>2, <2>3, <2>4 DEF Alloc
<1>2. ASSUME NEW t \in Threads, Pds(t)
      PROVE  IndexInv'
  <2>1. CASE bxroce_alloc_ucontext(t)
    <3>0. \A u \in Threads : u # t => call'[u] = call[u]
      BY <1>2, MemFrame DEF MemStep, Moves
    <3>1. mrs' = mrs /\ call[t].at \notin IndexAts /\ call'[t].at \notin IndexAts
      BY <2>1, AtIs DEF bxroce_alloc_ucontext, Begin, Idle, IndexAts, RefAts
    <3>2. mr_pool'.table = mr_pool.table /\ mr_pool'.min_index = mr_pool.min_index
      BY <2>1 DEF bxroce_alloc_ucontext, PoolShape, Pools
    <3>3. call'[t].at # "init" /\ call'[t].at # "fill"
      BY <3>1 DEF IndexAts, RefAts
    <3> QED
      BY <3>0, <3>1, <3>2, <3>3, IndexSame
  <2>2. ASSUME NEW f \in BOOLEAN, OpenDone(t, f)
        PROVE  IndexInv'
    <3>0. \A u \in Threads : u # t => call'[u] = call[u]
      BY <1>2, MemFrame DEF MemStep, Moves
    <3>1. mrs' = mrs /\ call[t].at \notin IndexAts /\ call'[t].at \notin IndexAts
      BY <2>2, AtIs DEF OpenDone, Runs, Idle, IndexAts, RefAts
    <3>2. mr_pool'.table = mr_pool.table /\ mr_pool'.min_index = mr_pool.min_index
      BY <2>2 DEF OpenDone, PoolShape, Pools
    <3>3. call'[t].at # "init" /\ call'[t].at # "fill"
      BY <3>1 DEF IndexAts, RefAts
    <3> QED
      BY <3>0, <3>1, <3>2, <3>3, IndexSame
  <2>3. CASE bxroce_dealloc_ucontext(t)
    <3>0. \A u \in Threads : u # t => call'[u] = call[u]
      BY <1>2, MemFrame DEF MemStep, Moves
    <3>1. mrs' = mrs /\ call[t].at \notin IndexAts /\ call'[t].at \notin IndexAts
      BY <2>3, AtIs DEF bxroce_dealloc_ucontext, Idle, IndexAts, RefAts
    <3>2. mr_pool'.table = mr_pool.table /\ mr_pool'.min_index = mr_pool.min_index
      BY <2>3 DEF bxroce_dealloc_ucontext, PoolShape, Pools
    <3>3. call'[t].at # "init" /\ call'[t].at # "fill"
      BY <3>1 DEF IndexAts, RefAts
    <3> QED
      BY <3>0, <3>1, <3>2, <3>3, IndexSame
  <2>4. CASE bxroce_get_ucontext_pd(t)
    <3>0. \A u \in Threads : u # t => call'[u] = call[u]
      BY <1>2, MemFrame DEF MemStep, Moves
    <3>1. mrs' = mrs /\ call[t].at \notin IndexAts /\ call'[t].at \notin IndexAts
      BY <2>4, AtIs DEF bxroce_get_ucontext_pd, Begin, Idle, IndexAts, RefAts
    <3>2. mr_pool'.table = mr_pool.table /\ mr_pool'.min_index = mr_pool.min_index
      BY <2>4 DEF bxroce_get_ucontext_pd, PoolShape, Pools
    <3>3. call'[t].at # "init" /\ call'[t].at # "fill"
      BY <3>1 DEF IndexAts, RefAts
    <3> QED
      BY <3>0, <3>1, <3>2, <3>3, IndexSame
  <2>5. CASE bxroce_alloc_pd(t)
    <3>0. \A u \in Threads : u # t => call'[u] = call[u]
      BY <1>2, MemFrame DEF MemStep, Moves
    <3>1. mrs' = mrs /\ call[t].at \notin IndexAts /\ call'[t].at \notin IndexAts
      BY <2>5, AtIs DEF bxroce_alloc_pd, Begin, Idle, IndexAts, RefAts
    <3>2. mr_pool'.table = mr_pool.table /\ mr_pool'.min_index = mr_pool.min_index
      BY <2>5 DEF bxroce_alloc_pd, PoolShape, Pools
    <3>3. call'[t].at # "init" /\ call'[t].at # "fill"
      BY <3>1 DEF IndexAts, RefAts
    <3> QED
      BY <3>0, <3>1, <3>2, <3>3, IndexSame
  <2>6. CASE AllocPdDone(t)
    <3>0. \A u \in Threads : u # t => call'[u] = call[u]
      BY <1>2, MemFrame DEF MemStep, Moves
    <3>1. mrs' = mrs /\ call[t].at \notin IndexAts /\ call'[t].at \notin IndexAts
      BY <2>6, AtIs DEF AllocPdDone, Runs, Idle, IndexAts, RefAts
    <3>2. mr_pool'.table = mr_pool.table /\ mr_pool'.min_index = mr_pool.min_index
      BY <2>6 DEF AllocPdDone, PoolShape, Pools
    <3>3. call'[t].at # "init" /\ call'[t].at # "fill"
      BY <3>1 DEF IndexAts, RefAts
    <3> QED
      BY <3>0, <3>1, <3>2, <3>3, IndexSame
  <2>7. ASSUME NEW h \in held, bxroce_dealloc_pd(t, h)
        PROVE  IndexInv'
    <3>0. \A u \in Threads : u # t => call'[u] = call[u]
      BY <1>2, MemFrame DEF MemStep, Moves
    <3>1. mrs' = mrs /\ call[t].at \notin IndexAts /\ call'[t].at \notin IndexAts
      BY <2>7, AtIs DEF bxroce_dealloc_pd, Idle, IndexAts, RefAts
    <3>2. mr_pool'.table = mr_pool.table /\ mr_pool'.min_index = mr_pool.min_index
      BY <2>7 DEF bxroce_dealloc_pd, PoolShape, Pools
    <3>3. call'[t].at # "init" /\ call'[t].at # "fill"
      BY <3>1 DEF IndexAts, RefAts
    <3> QED
      BY <3>0, <3>1, <3>2, <3>3, IndexSame
  <2> QED
    BY <1>2, <2>1, <2>2, <2>3, <2>4, <2>5, <2>6, <2>7 DEF Pds
<1>3. ASSUME NEW t \in Threads, Mrs(t)
      PROVE  IndexInv'
  <2>1. ASSUME NEW h \in held, NEW op \in MrOps, RegMr(t, h, op)
        PROVE  IndexInv'
    <3>0. \A u \in Threads : u # t => call'[u] = call[u]
      BY <1>3, MemFrame DEF MemStep, Moves
    <3>1. mrs' = mrs /\ call[t].at \notin IndexAts /\ call'[t].at \notin IndexAts
      BY <2>1, AtIs DEF RegMr, Begin, Idle, IndexAts, RefAts
    <3>2. mr_pool'.table = mr_pool.table /\ mr_pool'.min_index = mr_pool.min_index
      BY <2>1 DEF RegMr, PoolShape, Pools
    <3>3. call'[t].at # "init" /\ call'[t].at # "fill"
      BY <3>1 DEF IndexAts, RefAts
    <3> QED
      BY <3>0, <3>1, <3>2, <3>3, IndexSame
  <2>2. ASSUME NEW f \in BOOLEAN, AddIndex(t, f)
        PROVE  IndexInv'
    <3>0. \A u \in Threads : u # t => call'[u] = call[u]
      BY <1>3, MemFrame DEF MemStep, Moves
    <3>1. call[t].at = "index"
      BY <2>2 DEF AddIndex, Runs
    <3>2. CASE f
      <4>1. mrs' = mrs /\ mr_pool' = mr_pool /\ call'[t].at = "none"
        BY <2>2, <3>2, AtIs DEF AddIndex, Idle
      <4>2. call[t].at \notin IndexAts /\ call'[t].at \notin IndexAts
        BY <3>1, <4>1 DEF IndexAts, RefAts
      <4> QED
        BY <3>0, <4>1, <4>2, IndexSame
    <3>3. CASE ~f
      <4> DEFINE e == call[t].el
                 i == alloc_index(mr_pool)
      <4>1. /\ mr_pool' = [mr_pool EXCEPT !.table = @ \cup {i}, !.last = i]
            /\ mrs' = [mrs EXCEPT ![e].index = i + mr_pool.min_index]
            /\ call'[t].at = "ref" /\ call'[t].el = e
        BY <2>2, <3>3, AtIs DEF AddIndex, bxroce_add_index
      <4>2. i \in (0..(MaxMr - 1)) \ mr_pool.table
        BY <3>1, IndexFree
      <4>3. mr_pool.min_index = MinIndex /\ MinIndex \in Nat /\ MaxMr \in Nat
        BY <3>1, Served, Sizes DEF Idle
      <4>4. e \in DOMAIN mrs /\ ~mrs[e].up /\ e \notin Indexed
            /\ \A u \in Threads : u # t /\ call[u].at \in ElAts => call[u].el # e
        BY <3>1, IndexedIs DEF ElInv, ElAts
      <4> HIDE DEF i, e
      <4>5. /\ mr_pool'.table = mr_pool.table \cup {i} /\ mr_pool'.min_index = MinIndex
            /\ DOMAIN mrs' = DOMAIN mrs /\ \A m \in DOMAIN mrs : m # e => mrs'[m] = mrs[m]
            /\ mrs'[e].index = i + MinIndex /\ ~mrs'[e].up
        BY <4>1, <4>3, <4>4 DEF PoolShape, Pools, MrShape
      <4>6. Indexed' = Indexed \cup {e}
        <5>1. \A m \in DOMAIN mrs : mrs'[m].up <=> mrs[m].up
          BY <4>4, <4>5
        <5>2. call[t].at \notin IndexAts /\ call'[t].at \in IndexAts
          BY <3>1, <4>1 DEF IndexAts, RefAts
        <5> QED
          BY <3>0, <4>1, <4>5, <5>1, <5>2 DEF Indexed
      <4>7. Indexed \subseteq DOMAIN mrs /\ \A m \in Indexed : mrs'[m].index = mrs[m].index
        BY <4>4, <4>5, IndexedIs
      <4>8. mr_pool'.table = {mrs'[m].index - mr_pool'.min_index : m \in Indexed'}
        <5>1. mr_pool.table = {mrs[m].index - MinIndex : m \in Indexed}
          BY <4>3 DEF IndexInv
        <5>2. mrs'[e].index - MinIndex = i
          BY <4>2, <4>3, <4>5
        <5> HIDE DEF Indexed
        <5> QED
          BY <4>5, <4>6, <4>7, <5>1, <5>2
      <4>9. /\ \A m \in Indexed' : mrs'[m].index \in MinIndex..(MinIndex + MaxMr - 1)
            /\ \A m \in DOMAIN mrs' : mrs'[m].index \in 0..(MinIndex + MaxMr - 1)
        <5>1. i + MinIndex \in MinIndex..(MinIndex + MaxMr - 1) /\ i + MinIndex \in 0..(MinIndex + MaxMr - 1)
          BY <4>2, <4>3
        <5> QED
          BY <4>5, <4>6, <4>7, <5>1 DEF IndexInv
      <4>10. \A m, n \in Indexed' : mrs'[m].index = mrs'[n].index => m = n
        <5>1. \A m \in Indexed : mrs[m].index # i + MinIndex
          <6> SUFFICES ASSUME NEW m \in Indexed, mrs[m].index = i + MinIndex PROVE FALSE
            OBVIOUS
          <6>1. mrs[m].index - mr_pool.min_index = i
            BY <4>2, <4>3
          <6> QED
            BY <4>2, <6>1 DEF IndexInv
        <5> QED
          BY <4>5, <4>6, <4>7, <5>1 DEF IndexInv
      <4>11. \A m \in DOMAIN mrs' : mrs'[m].up => KeyOf(mrs'[m])
        BY <4>5, ZenonT(30) DEF IndexInv, KeyOf
      <4>12. \A u \in Threads : /\ call'[u].at = "init" => call'[u].k \in 0..255
                                /\ call'[u].at = "fill" => KeyOf(mrs'[call'[u].el])
        <5> SUFFICES ASSUME NEW u \in Threads, u # t
                     PROVE  /\ call'[u].at = "init" => call'[u].k \in 0..255
                            /\ call'[u].at = "fill" => KeyOf(mrs'[call'[u].el])
          BY <4>1
        <5>1. call[u].at = "fill" => call[u].el # e /\ call[u].el \in DOMAIN mrs
          BY <4>4 DEF ElInv, ElAts, IndexAts, RefAts
        <5> QED
          BY <3>0, <4>5, <5>1 DEF IndexInv
      <4> QED
        BY <4>8, <4>9, <4>10, <4>11, <4>12 DEF IndexInv
    <3> QED
      BY <3>2, <3>3
  <2>3. CASE AddRef(t)
    <3>0. \A u \in Threads : u # t => call'[u] = call[u]
      BY <1>3, MemFrame DEF MemStep, Moves
    <3>1. mrs' = mrs /\ mr_pool' = mr_pool
      BY <2>3 DEF AddRef
    <3>2. /\ call[t].at \in IndexAts /\ call'[t].at \in IndexAts /\ call'[t].el = call[t].el
          /\ call'[t].at # "fill"
      BY <2>3, AtIs DEF AddRef, Runs, IndexAts, RefAts
    <3>3. call'[t].at = "init" => call'[t].k \in 0..255
      BY <2>3, AtIs DEF AddRef
    <3> QED
      BY <3>0, <3>1, <3>2, <3>3, IndexSame
  <2>4. CASE UmemFails(t)
    <3>0. \A u \in Threads : u # t => call'[u] = call[u]
      BY <1>3, MemFrame DEF MemStep, Moves
    <3>1. mrs' = mrs /\ mr_pool' = mr_pool
      BY <2>4 DEF UmemFails
    <3>2. /\ call[t].at \in IndexAts /\ call'[t].at \in IndexAts /\ call'[t].el = call[t].el
          /\ call'[t].at # "fill"
      BY <2>4, AtIs DEF UmemFails, Runs, IndexAts, RefAts
    <3>3. call'[t].at = "init" => call'[t].k \in 0..255
      BY <2>4, AtIs DEF UmemFails
    <3> QED
      BY <3>0, <3>1, <3>2, <3>3, IndexSame
  <2>5. CASE KeyRead(t)
    <3>0. \A u \in Threads : u # t => call'[u] = call[u]
      BY <1>3, MemFrame DEF MemStep, Moves
    <3>1. mrs' = mrs /\ mr_pool' = mr_pool
      BY <2>5 DEF KeyRead
    <3>2. /\ call[t].at \in IndexAts /\ call'[t].at \in IndexAts /\ call'[t].el = call[t].el
          /\ call'[t].at # "fill"
      BY <2>5, AtIs DEF KeyRead, Runs, IndexAts, RefAts
    <3>3. call'[t].at = "init" => call'[t].k \in 0..255
      BY <2>5, AtIs, KeyByte DEF KeyRead, PoolShape
    <3> QED
      BY <3>0, <3>1, <3>2, <3>3, IndexSame
  <2>6. CASE bxroce_mem_init(t)
    <3>0. \A u \in Threads : u # t => call'[u] = call[u]
      BY <1>3, MemFrame DEF MemStep, Moves
    <3> DEFINE e == call[t].el
    <3>1. /\ call[t].at = "init" /\ call'[t].at = "fill" /\ call'[t].el = e /\ mr_pool' = mr_pool
          /\ mrs' = [mrs EXCEPT ![e].lkey = lkey(mrs[e].index, call[t].k)]
      BY <2>6, AtIs DEF bxroce_mem_init, Runs
    <3>2. e \in DOMAIN mrs /\ ~mrs[e].up /\ \A u \in Threads : u # t /\ call[u].at \in ElAts => call[u].el # e
      BY <3>1 DEF ElInv, ElAts, IndexAts, RefAts
    <3>3. call[t].k \in 0..255
      BY <3>1 DEF IndexInv
    <3>4. /\ DOMAIN mrs' = DOMAIN mrs /\ \A m \in DOMAIN mrs : m # e => mrs'[m] = mrs[m]
          /\ mrs'[e].index = mrs[e].index /\ mrs'[e].lkey = lkey(mrs[e].index, call[t].k) /\ ~mrs'[e].up
      BY <3>1, <3>2 DEF MrShape
    <3>5. Indexed' = Indexed
      <4>1. \A m \in DOMAIN mrs : mrs'[m].up <=> mrs[m].up
        BY <3>2, <3>4
      <4> QED
        BY <3>0, <3>1, <3>4, <4>1 DEF Indexed, IndexAts, RefAts
    <3>6. KeyOf(mrs'[e])
      BY <3>3, <3>4 DEF KeyOf
    <3>7. mrs[e].index \in 0..Top
      BY <3>2 DEF IndexInv, Top
    <3> HIDE DEF e
    <3> QED
      BY <3>0, <3>1, <3>2, <3>4, <3>5, <3>6, <3>7, IndexKeeps
  <2>7. ASSUME NEW s \in Starts, NEW l \in Lens, NEW b \in BOOLEAN, NEW n \in BOOLEAN,
             NEW f \in BOOLEAN, bxroce_reg_user_mr(t, s, l, b, n, f)
        PROVE  IndexInv'
    <3>0. \A u \in Threads : u # t => call'[u] = call[u]
      BY <1>3, MemFrame DEF MemStep, Moves
    <3> DEFINE e == call[t].el
    <3>1. /\ call[t].at = "fill" /\ mr_pool' = mr_pool /\ DOMAIN mrs' = DOMAIN mrs
          /\ \A m \in DOMAIN mrs : m # e => mrs'[m] = mrs[m]
      BY <2>7 DEF bxroce_reg_user_mr, Runs, Filled
    <3>2. /\ call[t].at \in ElAts /\ e \in DOMAIN mrs /\ KeyOf(mrs[e]) /\ ~mrs[e].up
          /\ \A u \in Threads : u # t /\ call[u].at \in ElAts => call[u].el # e
      BY <3>1 DEF ElInv, IndexInv, ElAts, IndexAts, RefAts
    <3>3. mrs'[e].index = mrs[e].index /\ mrs'[e].lkey = mrs[e].lkey
      <4>1. CASE n
        BY <2>7, <4>1 DEF bxroce_reg_user_mr
      <4>2. CASE ~n
        <5> DEFINE w == Covers(bxroce_mem_init_user(Page, Huge, s, l, b, MaxSg), Page, Huge, s, l, b)
        <5>1. Filled(t, call[t].pd, ~f, w)
          BY <2>7, <4>2 DEF bxroce_reg_user_mr
        <5> HIDE DEF w
        <5> QED
          BY <3>2, <5>1 DEF Filled, MrShape
      <4> QED
        BY <4>1, <4>2
    <3>4. \/ call'[t].at = "none" /\ mrs'[e].up
          \/ call'[t].at \in {"fill", "drop_pd"} /\ call'[t].el = e /\ ~mrs'[e].up
      <4>1. CASE n
        BY <2>7, <3>1, <3>2, <4>1 DEF bxroce_reg_user_mr
      <4>2. CASE ~n
        <5> DEFINE w == Covers(bxroce_mem_init_user(Page, Huge, s, l, b, MaxSg), Page, Huge, s, l, b)
        <5>1. Filled(t, call[t].pd, ~f, w) /\ Go(t, IF f THEN At(t, "drop_pd") ELSE Idle)
          BY <2>7, <4>2 DEF bxroce_reg_user_mr
        <5> HIDE DEF w
        <5>2. mrs'[e].up = ~f
          BY <3>2, <5>1 DEF Filled, MrShape
        <5>3. call'[t] = IF f THEN At(t, "drop_pd") ELSE Idle
          BY <5>1, AtIs
        <5>4. CASE f
          <6>1. ~mrs'[e].up
            BY <5>2, <5>4, Zenon
          <6>2. call'[t].el = e /\ call'[t].at = "drop_pd"
            BY <5>3, <5>4, AtIs
          <6> QED
            BY <6>1, <6>2
        <5>5. CASE ~f
          <6>1. mrs'[e].up
            BY <5>2, <5>5, Zenon
          <6> QED
            BY <5>3, <5>5, <6>1 DEF Idle
        <5> QED
          BY <5>4, <5>5
      <4> QED
        BY <4>1, <4>2
    <3>5. Indexed' = Indexed
      <4>1. e \in Indexed /\ e \in Indexed'
        BY <3>1, <3>2, <3>4 DEF Indexed, IndexAts, RefAts
      <4>2. \A m \in DOMAIN mrs : m # e => (m \in Indexed <=> m \in Indexed')
        <5>1. call'[t].at \in IndexAts => call'[t].el = e
          BY <3>4 DEF IndexAts, RefAts
        <5> QED
          BY <3>0, <3>1, <5>1 DEF Indexed
      <4>3. Indexed \subseteq DOMAIN mrs /\ Indexed' \subseteq DOMAIN mrs
        BY <3>1, IndexedIs, IndexedThen
      <4> HIDE DEF Indexed
      <4>4. \A i : i \in Indexed <=> i \in Indexed'
        BY <4>1, <4>2, <4>3
      <4> QED
        BY <4>4
    <3>6. KeyOf(mrs'[e])
      BY <3>2, <3>3 DEF KeyOf
    <3>7. mrs[e].index \in 0..Top
      BY <3>2 DEF IndexInv, Top
    <3> HIDE DEF e
    <3>8. call'[t].at # "init" /\ (call'[t].at = "fill" => KeyOf(mrs'[call'[t].el]))
      BY <3>4, <3>6
    <3> QED
      BY <3>0, <3>1, <3>2, <3>3, <3>5, <3>6, <3>7, <3>8, IndexKeeps
  <2>8. ASSUME NEW f \in BOOLEAN, KernelMr(t, f)
        PROVE  IndexInv'
    <3>0. \A u \in Threads : u # t => call'[u] = call[u]
      BY <1>3, MemFrame DEF MemStep, Moves
    <3> DEFINE e == call[t].el
    <3>1. /\ call[t].at = "fill" /\ mr_pool' = mr_pool /\ DOMAIN mrs' = DOMAIN mrs
          /\ \A m \in DOMAIN mrs : m # e => mrs'[m] = mrs[m]
      BY <2>8 DEF KernelMr, Runs, Filled, bxroce_get_dma_mr, bxroce_alloc_mr
    <3>2. /\ call[t].at \in ElAts /\ e \in DOMAIN mrs /\ KeyOf(mrs[e]) /\ ~mrs[e].up
          /\ \A u \in Threads : u # t /\ call[u].at \in ElAts => call[u].el # e
      BY <3>1 DEF ElInv, IndexInv, ElAts, IndexAts, RefAts
    <3>3. mrs'[e].index = mrs[e].index /\ mrs'[e].lkey = mrs[e].lkey
      <4>1. CASE f
        BY <2>8, <4>1 DEF KernelMr
      <4>2. CASE ~f
        <5>1. \E p : Filled(t, p, TRUE, TRUE)
          BY <2>8, <4>2 DEF KernelMr, bxroce_get_dma_mr, bxroce_alloc_mr
        <5>2. PICK p : Filled(t, p, TRUE, TRUE)
          BY <5>1
        <5> QED
          BY <3>2, <5>2, ZenonT(30) DEF Filled, MrShape
      <4> QED
        BY <4>1, <4>2
    <3>4. \/ call'[t].at = "none" /\ mrs'[e].up
          \/ call'[t].at \in {"fill", "drop_pd"} /\ call'[t].el = e /\ ~mrs'[e].up
      <4>1. CASE f
        BY <2>8, <3>1, <3>2, <4>1 DEF KernelMr
      <4>2. CASE ~f
        <5>1. \E p : Filled(t, p, TRUE, TRUE)
          BY <2>8, <4>2 DEF KernelMr, bxroce_get_dma_mr, bxroce_alloc_mr
        <5>2. PICK p : Filled(t, p, TRUE, TRUE)
          BY <5>1
        <5>3. mrs'[e].up
          BY <3>2, <5>2 DEF Filled, MrShape
        <5> QED
          BY <2>8, <4>2, <5>3, AtIs DEF KernelMr, Idle
      <4> QED
        BY <4>1, <4>2
    <3>5. Indexed' = Indexed
      <4>1. e \in Indexed /\ e \in Indexed'
        BY <3>1, <3>2, <3>4 DEF Indexed, IndexAts, RefAts
      <4>2. \A m \in DOMAIN mrs : m # e => (m \in Indexed <=> m \in Indexed')
        <5>1. call'[t].at \in IndexAts => call'[t].el = e
          BY <3>4 DEF IndexAts, RefAts
        <5> QED
          BY <3>0, <3>1, <5>1 DEF Indexed
      <4>3. Indexed \subseteq DOMAIN mrs /\ Indexed' \subseteq DOMAIN mrs
        BY <3>1, IndexedIs, IndexedThen
      <4> HIDE DEF Indexed
      <4>4. \A i : i \in Indexed <=> i \in Indexed'
        BY <4>1, <4>2, <4>3
      <4> QED
        BY <4>4
    <3>6. KeyOf(mrs'[e])
      BY <3>2, <3>3 DEF KeyOf
    <3>7. mrs[e].index \in 0..Top
      BY <3>2 DEF IndexInv, Top
    <3> HIDE DEF e
    <3>8. call'[t].at # "init" /\ (call'[t].at = "fill" => KeyOf(mrs'[call'[t].el]))
      BY <3>4, <3>6
    <3> QED
      BY <3>0, <3>1, <3>2, <3>3, <3>5, <3>6, <3>7, <3>8, IndexKeeps
  <2>9. ASSUME NEW m \in DOMAIN mrs, bxroce_dereg_mr(t, m)
        PROVE  IndexInv'
    <3>0. \A u \in Threads : u # t => call'[u] = call[u]
      BY <1>3, MemFrame DEF MemStep, Moves
    <3>1. /\ mrs[m].up /\ mrs' = [mrs EXCEPT ![m].up = FALSE] /\ mr_pool' = mr_pool
          /\ call[t] = Idle /\ call'[t].at = "drop_pd" /\ call'[t].el = m
      BY <2>9, AtIs DEF bxroce_dereg_mr, Begin
    <3>2. \A u \in Threads : call[u].at \in ElAts => call[u].el # m
      BY <3>1 DEF ElInv
    <3>3. /\ ~mrs'[m].up /\ DOMAIN mrs' = DOMAIN mrs /\ mrs'[m].index = mrs[m].index
          /\ \A i \in DOMAIN mrs : i # m => mrs'[i] = mrs[i]
      BY <3>1 DEF MrShape
    <3>4. Indexed' = Indexed
      <4>1. m \in Indexed /\ m \in Indexed'
        BY <3>1 DEF Indexed, IndexAts, RefAts
      <4>2. \A i \in DOMAIN mrs : i # m => (i \in Indexed <=> i \in Indexed')
        BY <3>0, <3>1, <3>3 DEF Indexed, Idle, IndexAts, RefAts
      <4>3. Indexed \subseteq DOMAIN mrs /\ Indexed' \subseteq DOMAIN mrs
        BY <3>3, IndexedIs, IndexedThen
      <4> HIDE DEF Indexed
      <4>4. \A i : i \in Indexed <=> i \in Indexed'
        BY <4>1, <4>2, <4>3
      <4> QED
        BY <4>4
    <3>5. mrs[m].index \in 0..Top
      BY DEF IndexInv, Top
    <3> QED
      BY <3>0, <3>1, <3>2, <3>3, <3>4, <3>5, IndexKeeps
  <2>10. CASE DropPdOf(t)
    <3>0. \A u \in Threads : u # t => call'[u] = call[u]
      BY <1>3, MemFrame DEF MemStep, Moves
    <3>1. mrs' = mrs /\ mr_pool' = mr_pool
      BY <2>10 DEF DropPdOf
    <3>2. /\ call[t].at \in IndexAts /\ call'[t].at \in IndexAts /\ call'[t].el = call[t].el
          /\ call'[t].at # "fill"
      BY <2>10, AtIs DEF DropPdOf, Runs, IndexAts, RefAts
    <3>3. call'[t].at = "init" => call'[t].k \in 0..255
      BY <2>10, AtIs DEF DropPdOf, Runs
    <3> QED
      BY <3>0, <3>1, <3>2, <3>3, IndexSame
  <2>11. CASE DropIndex(t)
    <3>0. \A u \in Threads : u # t => call'[u] = call[u]
      BY <1>3, MemFrame DEF MemStep, Moves
    <3> DEFINE e == call[t].el
               i == mrs[e].index - mr_pool.min_index
    <3>1. /\ mr_pool' = [mr_pool EXCEPT !.table = @ \ {i}] /\ mrs' = mrs
          /\ call[t].at = "drop_index" /\ call'[t].at = "drop_mr" /\ call'[t].el = e
      BY <2>11, AtIs DEF DropIndex, Runs, bxroce_drop_index
    <3>2. mr_pool'.table = mr_pool.table \ {i} /\ mr_pool'.min_index = mr_pool.min_index
      BY <3>1 DEF PoolShape, Pools
    <3>3. /\ e \in DOMAIN mrs /\ ~mrs[e].up /\ e \in Indexed
          /\ \A u \in Threads : u # t /\ call[u].at \in ElAts => call[u].el # e
      BY <3>1, IndexedIs DEF ElInv, ElAts, IndexAts, RefAts
    <3>4. Indexed' = Indexed \ {e}
      <4>1. e \notin Indexed'
        BY <3>0, <3>1, <3>3 DEF Indexed, ElAts, IndexAts, RefAts
      <4>2. \A m : m # e => (m \in Indexed <=> m \in Indexed')
        BY <3>0, <3>1 DEF Indexed, IndexAts, RefAts
      <4> QED
        BY <4>1, <4>2
    <3>5. \A m \in Indexed : mrs[m].index \in Nat /\ mr_pool.min_index \in Nat
      BY IndexedIs DEF MrShape, PoolShape, Pools
    <3> HIDE DEF Indexed
    <3>6. mr_pool'.table = {mrs'[m].index - mr_pool'.min_index : m \in Indexed'}
      <4>1. \A m \in Indexed : mrs[m].index - mr_pool.min_index = i => m = e
        BY <3>3, <3>5 DEF IndexInv
      <4>2. mr_pool.table = {mrs[m].index - mr_pool.min_index : m \in Indexed}
        BY DEF IndexInv
      <4> HIDE DEF i, e
      <4> QED
        BY <3>1, <3>2, <3>4, <4>1, <4>2 DEF i
    <3>7. /\ \A m \in Indexed' : mrs'[m].index \in MinIndex..(MinIndex + MaxMr - 1)
          /\ \A m \in DOMAIN mrs' : mrs'[m].index \in 0..(MinIndex + MaxMr - 1)
          /\ \A m, n \in Indexed' : mrs'[m].index = mrs'[n].index => m = n
          /\ \A m \in DOMAIN mrs' : mrs'[m].up => KeyOf(mrs'[m])
      BY <3>1, <3>4, ZenonT(30) DEF IndexInv, KeyOf
    <3>8. \A u \in Threads : /\ call'[u].at = "init" => call'[u].k \in 0..255
                             /\ call'[u].at = "fill" => KeyOf(mrs'[call'[u].el])
      BY <3>0, <3>1, ZenonT(30) DEF IndexInv, KeyOf
    <3> QED
      BY <3>6, <3>7, <3>8 DEF IndexInv
  <2>12. CASE DropMr(t)
    <3>0. \A u \in Threads : u # t => call'[u] = call[u]
      BY <1>3, MemFrame DEF MemStep, Moves
    <3> DEFINE e == call[t].el
    <3>1. /\ mr_pool' = bxroce_elem_release(mr_pool) /\ mrs' = Without(mrs, e)
          /\ call[t].at = "drop_mr" /\ call'[t].at = "none"
      BY <2>12, AtIs DEF DropMr, Runs, Idle
    <3>2. mr_pool'.table = mr_pool.table /\ mr_pool'.min_index = mr_pool.min_index
      BY <3>1, MrPoolStays DEF ElAts
    <3>3. /\ e \in DOMAIN mrs /\ ~mrs[e].up /\ e \notin Indexed
          /\ \A u \in Threads : u # t /\ call[u].at \in ElAts => call[u].el # e
      BY <3>1, IndexedIs DEF ElInv, ElAts
    <3>4. DOMAIN mrs' = DOMAIN mrs \ {e} /\ \A m \in DOMAIN mrs' : mrs'[m] = mrs[m]
      <4>1. LET g == Without(mrs, e)
            IN DOMAIN g = DOMAIN mrs \ {e} /\ \A m \in DOMAIN mrs : m # e => g[m] = mrs[m]
        BY WithoutIs, Zenon
      <4> QED
        BY <3>1, <4>1
    <3>5. Indexed' = Indexed
      BY <3>0, <3>1, <3>3, <3>4 DEF Indexed, IndexAts, RefAts
    <3> HIDE DEF e
    <3> QED
      BY <3>0, <3>1, <3>2, <3>3, <3>4, <3>5, IndexKeeps
  <2> QED
    BY <1>3, <2>1, <2>2, <2>3, <2>4, <2>5, <2>6, <2>7, <2>8, <2>9, <2>10, <2>11, <2>12 DEF Mrs
<1>4. ASSUME NEW t \in Threads, Cqs(t)
      PROVE  IndexInv'
  <2>1. Moves(t, {"none"} \cup CqAts) /\ mrs' = mrs /\ mr_pool' = mr_pool
    BY <1>4, CqFrame
  <2>2. /\ call[t].at \notin IndexAts /\ call'[t].at \notin IndexAts /\ call'[t].at \notin {"init", "fill"}
        /\ \A u \in Threads : u # t => call'[u] = call[u]
    BY <2>1 DEF Moves, CqAts, BitAts, AhAts, IndexAts, RefAts
  <2> QED
    BY <2>1, <2>2, IndexSame
<1>5. ASSUME NEW t \in Threads, Ahs(t)
      PROVE  IndexInv'
  <2>1. Moves(t, {"none"} \cup AhAts) /\ mrs' = mrs /\ mr_pool' = mr_pool
    BY <1>5, AhFrame
  <2>2. /\ call[t].at \notin IndexAts /\ call'[t].at \notin IndexAts /\ call'[t].at \notin {"init", "fill"}
        /\ \A u \in Threads : u # t => call'[u] = call[u]
    BY <2>1 DEF Moves, CqAts, BitAts, AhAts, IndexAts, RefAts
  <2> QED
    BY <2>1, <2>2, IndexSame
<1>6. ASSUME Life
      PROVE  IndexInv'
  <2>1. (\A t \in Threads : call[t] = Idle) /\ call' = call
    BY <1>6, LifeRest
  <2>2. CASE bxroce_init_pools
    <3>1. mrs' = <<>> /\ DOMAIN mrs' = {} /\ mr_pool'.table = {}
      BY <2>2, InitPools, NoElems DEF bxroce_init_pools
    <3>2. Indexed' = {}
      BY <2>1, <3>1 DEF Indexed, Idle, IndexAts, RefAts
    <3> QED
      BY <2>1, <3>1, <3>2 DEF IndexInv, Idle
  <2>3. CASE UNCHANGED <<mrs, mr_pool>>
    <3>1. Indexed' = Indexed
      BY <2>1, <2>3 DEF Indexed
    <3> QED
      BY <2>1, <2>3, <3>1 DEF IndexInv
  <2>4. CASE bx_exit_module /\ bx_remove /\ UNCHANGED mrs
    <3>1. mr_pool' = bxroce_pool_cleanup(mr_pool) /\ mr_pool \in Pools
      BY <2>4 DEF bx_remove, PoolShape
    <3>2. Indexed = {} /\ Indexed' = {}
      BY <2>1, <2>4 DEF bx_exit_module, Indexed, Idle, IndexAts, RefAts
    <3>3. mr_pool'.table = {}
      BY <3>1, <3>2, CleanupIs DEF IndexInv
    <3> QED
      BY <2>1, <2>4, <3>2, <3>3, ZenonT(30) DEF IndexInv, KeyOf
  <2> QED
    BY <1>6, <2>2, <2>3, <2>4, LifeObjects
<1>7. CASE UNCHANGED vars
  <2>1. Indexed' = Indexed /\ mrs' = mrs /\ mr_pool' = mr_pool /\ call' = call
    BY <1>7 DEF vars, Indexed
  <2> QED
    BY <2>1 DEF IndexInv
<1> QED
  BY <1>1, <1>2, <1>3, <1>4, <1>5, <1>6, <1>7 DEF Next

-----------------------------------------------------------------------------
(* Who has which PD.                                                       *)

\* No call makes a PD before or after the step, and no PD goes.
LEMMA OwnerKeeps ==
  ASSUME NEW t \in Threads, \A u \in Threads : u # t => call'[u] = call[u], OwnerInv,
         ~Makes(t), call'[t].at # "made", held' = held, DOMAIN pds \subseteq DOMAIN pds',
         ctx'.ctx_pd = ctx.ctx_pd, ctx'.pd_in_use = ctx.pd_in_use, ctx'.st = "open" => ctx.st = "open"
  PROVE  OwnerInv'
<1>1. \A u \in Threads : Makes(u)' => Makes(u) /\ call'[u] = call[u]
  BY DEF Makes
<1> QED
  BY <1>1 DEF OwnerInv, Makes

\* A PD that someone has is live and no one else's.
LEMMA OwnerStep ==
  ASSUME CallInv, CtxInv, PdShape, MrShape, PoolShape, LifeInv, CqShape, AvInv, OwnerInv, UseInv, RefInv,
         CallInv', [Next]_vars
  PROVE  OwnerInv'
<1>1. ASSUME NEW t \in Threads, Alloc(t)
      PROVE  OwnerInv'
  <2>1. CASE AllocGet(t)
    <3>0. \A u \in Threads : u # t => call'[u] = call[u]
      BY <1>1, MemFrame DEF MemStep, Moves
    <3>1. /\ held' = held /\ ctx' = ctx /\ DOMAIN pds' = DOMAIN pds
          /\ call[t].at # "made" /\ call'[t].at # "made"
      BY <2>1, AtIs DEF AllocGet, Runs, Null, Idle
    <3> QED
      BY <3>0, <3>1, OwnerKeeps DEF Makes
  <2>2. CASE AllocInc(t)
    <3>0. \A u \in Threads : u # t => call'[u] = call[u]
      BY <1>1, MemFrame DEF MemStep, Moves
    <3>1. /\ held' = held /\ ctx' = ctx /\ DOMAIN pds' = DOMAIN pds
          /\ call[t].at # "made" /\ call'[t].at # "made"
      BY <2>2, AtIs DEF AllocInc, Runs, Idle
    <3> QED
      BY <3>0, <3>1, OwnerKeeps DEF Makes
  <2>3. CASE AllocUndo(t)
    <3>0. \A u \in Threads : u # t => call'[u] = call[u]
      BY <1>1, MemFrame DEF MemStep, Moves
    <3>1. /\ held' = held /\ ctx' = ctx /\ DOMAIN pds' = DOMAIN pds
          /\ call[t].at # "made" /\ call'[t].at # "made"
      BY <2>3, AtIs DEF AllocUndo, Runs, Null, Idle
    <3> QED
      BY <3>0, <3>1, OwnerKeeps DEF Makes
  <2>4. CASE AllocElem(t)
    <3>0. \A u \in Threads : u # t => call'[u] = call[u]
      BY <1>1, MemFrame DEF MemStep, Moves
    <3>1. call[t].at = "elem" /\ held' = held /\ ctx' = ctx
      BY <2>4 DEF AllocElem, Runs
    <3>2. CASE call[t].op \in PdOps
      <4> DEFINE p == Unused(DOMAIN pds)
      <4>1. pds' = With(pds, p, [ref |-> 1]) /\ call'[t].at = "made" /\ call'[t].pd = p
        BY <2>4, <3>2, AtIs DEF AllocElem
      <4>2. p \in Nat \ {0} /\ p \notin DOMAIN pds /\ DOMAIN pds' = DOMAIN pds \cup {p}
        BY <4>1, PdMade, Zenon
      <4> HIDE DEF p
      <4>3. ctx.ctx_pd # p
        BY <4>2 DEF OwnerInv, CtxInv
      <4>4. \A u \in Threads : Makes(u) => call[u].pd # p
        BY <4>2 DEF OwnerInv
      <4>5. \A u \in Threads : Makes(u)' => u = t \/ (Makes(u) /\ call'[u] = call[u])
        BY <3>0 DEF Makes
      <4> QED
        BY <3>1, <4>1, <4>2, <4>3, <4>4, <4>5 DEF OwnerInv, Makes
    <3>3. CASE call[t].op \notin PdOps
      <4>1. pds' = pds /\ call'[t].at = "index"
        BY <2>4, <3>3, AtIs DEF AllocElem
      <4> QED
        BY <3>0, <3>1, <4>1, OwnerKeeps DEF Makes
    <3> QED
      BY <3>2, <3>3
  <2> QED
    BY <1>1, <2>1, <2>2, <2>3, <2>4 DEF Alloc
<1>2. ASSUME NEW t \in Threads, Pds(t)
      PROVE  OwnerInv'
  <2>1. CASE bxroce_alloc_ucontext(t)
    <3>0. \A u \in Threads : u # t => call'[u] = call[u]
      BY <1>2, MemFrame DEF MemStep, Moves
    <3>1. /\ ctx.st = "closed" /\ held' = held /\ pds' = pds /\ call[t] = Idle /\ call'[t].at = "get"
          /\ ctx'.st = "opening" /\ ctx'.ctx_pd = 0 /\ ctx'.pd_in_use = FALSE
      BY <2>1, AtIs DEF bxroce_alloc_ucontext, Begin, Closed
    <3>2. ctx.ctx_pd = 0 /\ ctx.pd_in_use = FALSE
      BY <3>1 DEF CtxInv, Closed
    <3>3. ~Makes(t) /\ call'[t].at # "made" /\ ctx'.st # "open"
      BY <3>1 DEF Makes, Idle
    <3> QED
      BY <3>0, <3>1, <3>2, <3>3, OwnerKeeps
  <2>2. ASSUME NEW f \in BOOLEAN, OpenDone(t, f)
        PROVE  OwnerInv'
    <3>0. \A u \in Threads : u # t => call'[u] = call[u]
      BY <1>2, MemFrame DEF MemStep, Moves
    <3>1. /\ Makes(t) /\ call[t].op = "open" /\ held' = held /\ pds' = pds
          /\ ctx' = (IF f THEN Closed ELSE [ctx EXCEPT !.st = "open", !.ctx_pd = call[t].pd])
          /\ call'[t].at = "none"
      BY <2>2, AtIs DEF OpenDone, Runs, Makes, Idle
    <3>2. \A u \in Threads : Makes(u)' => u # t /\ Makes(u) /\ call'[u] = call[u]
      BY <3>0, <3>1 DEF Makes
    <3>3. CASE f
      <4>1. ctx'.st = "closed" /\ ctx'.ctx_pd = 0
        BY <3>1, <3>3 DEF Closed
      <4>2. 0 \notin DOMAIN pds
        BY DEF PdShape
      <4> QED
        BY <3>1, <3>2, <4>1, <4>2 DEF OwnerInv, Makes
    <3>4. CASE ~f
      <4>1. ctx'.ctx_pd = call[t].pd
        BY <3>1, <3>4 DEF CtxInv
      <4>2. \A u \in Threads : Makes(u)' => call'[u].pd # call[t].pd
        BY <3>1, <3>2 DEF OwnerInv
      <4>3. call[t].pd \in DOMAIN pds /\ \A h \in held : h.pd # call[t].pd
        BY <3>1 DEF OwnerInv
      <4> QED
        BY <3>1, <3>2, <4>1, <4>2, <4>3 DEF OwnerInv, Makes
    <3> QED
      BY <3>3, <3>4
  <2>3. CASE bxroce_dealloc_ucontext(t)
    <3>1. /\ ctx.st = "open" /\ DropPd(ctx.ctx_pd) /\ ctx' = Closed /\ held' = held /\ call' = call
          /\ (\A u \in Users : call[u] = Idle) /\ \A h \in held : h.own \notin Users
      BY <2>3 DEF bxroce_dealloc_ucontext
    <3>2. \A q \in DOMAIN pds : q # ctx.ctx_pd => q \in DOMAIN pds'
      BY <3>1, PdDrop
    <3>3. \A h \in held : h.pd # ctx.ctx_pd
      BY <3>1 DEF OwnerInv
    <3>4. \A u \in Threads : Makes(u) => call[u].pd # ctx.ctx_pd
      BY <3>1 DEF OwnerInv, Makes, Idle
    <3>5. ctx'.st = "closed" /\ ctx'.ctx_pd = 0 /\ 0 \notin DOMAIN pds
      BY <3>1 DEF Closed, PdShape
    <3> QED
      BY <3>1, <3>2, <3>3, <3>4, <3>5 DEF OwnerInv, Makes
  <2>4. CASE bxroce_get_ucontext_pd(t)
    <3>0. \A u \in Threads : u # t => call'[u] = call[u]
      BY <1>2, MemFrame DEF MemStep, Moves
    <3>1. /\ ctx.st = "open" /\ ~ctx.pd_in_use /\ t \in Users /\ held' = held /\ pds' = pds
          /\ ctx' = [ctx EXCEPT !.pd_in_use = TRUE] /\ call'[t].at = "made" /\ call'[t].pd = ctx.ctx_pd
      BY <2>4, AtIs DEF bxroce_get_ucontext_pd, Begin
    <3>2. ctx'.st = ctx.st /\ ctx'.ctx_pd = ctx.ctx_pd /\ ctx'.pd_in_use
      BY <3>1 DEF CtxInv
    <3>3. /\ ctx.ctx_pd \in DOMAIN pds /\ (\A h \in held : h.pd # ctx.ctx_pd)
          /\ \A u \in Threads : Makes(u) => call[u].pd # ctx.ctx_pd
      BY <3>1 DEF OwnerInv
    <3>4. \A u \in Threads : Makes(u)' => u = t \/ (Makes(u) /\ call'[u] = call[u])
      BY <3>0 DEF Makes
    <3> QED
      BY <3>1, <3>2, <3>3, <3>4 DEF OwnerInv, Makes
  <2>5. CASE bxroce_alloc_pd(t)
    <3>0. \A u \in Threads : u # t => call'[u] = call[u]
      BY <1>2, MemFrame DEF MemStep, Moves
    <3>1. /\ held' = held /\ ctx' = ctx /\ DOMAIN pds' = DOMAIN pds
          /\ call[t].at # "made" /\ call'[t].at # "made"
      BY <2>5, AtIs DEF bxroce_alloc_pd, Begin, Idle
    <3> QED
      BY <3>0, <3>1, OwnerKeeps DEF Makes
  <2>6. CASE AllocPdDone(t)
    <3>0. \A u \in Threads : u # t => call'[u] = call[u]
      BY <1>2, MemFrame DEF MemStep, Moves
    <3> DEFINE n == [pd |-> call[t].pd, own |-> t]
    <3>1. /\ Makes(t) /\ held' = held \cup {n} /\ pds' = pds /\ ctx' = ctx /\ call'[t].at = "none"
      BY <2>6, AtIs DEF AllocPdDone, Runs, Makes, Idle
    <3>2. n.pd = call[t].pd /\ n.own = t
      OBVIOUS
    <3> HIDE DEF n
    <3>3. \A u \in Threads : Makes(u)' => u # t /\ Makes(u) /\ call'[u] = call[u]
      BY <3>0, <3>1 DEF Makes
    <3>4. \A u \in Threads : Makes(u)' => call'[u].pd # n.pd
      BY <3>1, <3>2, <3>3 DEF OwnerInv
    <3>5. /\ n.pd \in DOMAIN pds /\ (n.pd = ctx.ctx_pd => n.own \in Users /\ ctx.pd_in_use)
          /\ \A h \in held : h.pd # n.pd
      BY <3>1, <3>2 DEF OwnerInv
    <3> QED
      BY <3>1, <3>3, <3>4, <3>5 DEF OwnerInv, Makes
  <2>7. ASSUME NEW h \in held, bxroce_dealloc_pd(t, h)
        PROVE  OwnerInv'
    <3>1. h.own = t /\ held' = held \ {h} /\ call' = call
      BY <2>7 DEF bxroce_dealloc_pd
    <3>2. \A g \in held' : g \in held /\ g.pd # h.pd
      BY <3>1 DEF OwnerInv
    <3>3. \A u \in Threads : Makes(u) => call[u].pd # h.pd
      BY DEF OwnerInv
    <3>4. CASE t \in Users /\ ctx.ctx_pd = h.pd
      <4>1. ctx' = [ctx EXCEPT !.pd_in_use = FALSE] /\ pds' = pds
        BY <2>7, <3>4 DEF bxroce_dealloc_pd
      <4>2. ctx'.st = ctx.st /\ ctx'.ctx_pd = h.pd
        BY <3>4, <4>1 DEF CtxInv
      <4> QED
        BY <3>1, <3>2, <3>3, <3>4, <4>1, <4>2 DEF OwnerInv, Makes
    <3>5. CASE ~ (t \in Users /\ ctx.ctx_pd = h.pd)
      <4>1. DropPd(h.pd) /\ ctx' = ctx
        BY <2>7, <3>5 DEF bxroce_dealloc_pd
      <4>2. \A q \in DOMAIN pds : q # h.pd => q \in DOMAIN pds'
        BY <4>1, PdDrop
      <4>3. ctx.ctx_pd # h.pd
        BY <3>1, <3>5 DEF OwnerInv
      <4> QED
        BY <3>1, <3>2, <3>3, <4>1, <4>2, <4>3 DEF OwnerInv, Makes
    <3> QED
      BY <3>4, <3>5
  <2> QED
    BY <1>2, <2>1, <2>2, <2>3, <2>4, <2>5, <2>6, <2>7 DEF Pds
<1>3. ASSUME NEW t \in Threads, Mrs(t)
      PROVE  OwnerInv'
  <2>1. ASSUME NEW h \in held, NEW op \in MrOps, RegMr(t, h, op)
        PROVE  OwnerInv'
    <3>0. \A u \in Threads : u # t => call'[u] = call[u]
      BY <1>3, MemFrame DEF MemStep, Moves
    <3>1. /\ held' = held /\ ctx' = ctx /\ DOMAIN pds' = DOMAIN pds
          /\ call[t].at # "made" /\ call'[t].at # "made"
      BY <2>1, AtIs DEF RegMr, Begin, Idle
    <3> QED
      BY <3>0, <3>1, OwnerKeeps DEF Makes
  <2>2. ASSUME NEW f \in BOOLEAN, AddIndex(t, f)
        PROVE  OwnerInv'
    <3>0. \A u \in Threads : u # t => call'[u] = call[u]
      BY <1>3, MemFrame DEF MemStep, Moves
    <3>1. /\ held' = held /\ ctx' = ctx /\ DOMAIN pds' = DOMAIN pds
          /\ call[t].at # "made" /\ call'[t].at # "made"
      BY <2>2, AtIs DEF AddIndex, Runs, Idle
    <3> QED
      BY <3>0, <3>1, OwnerKeeps DEF Makes
  <2>3. CASE AddRef(t)
    <3>0. \A u \in Threads : u # t => call'[u] = call[u]
      BY <1>3, MemFrame DEF MemStep, Moves
    <3>1. /\ held' = held /\ ctx' = ctx /\ DOMAIN pds' = DOMAIN pds
          /\ call[t].at # "made" /\ call'[t].at # "made"
      BY <2>3, AtIs DEF AddRef, Runs, Idle
    <3> QED
      BY <3>0, <3>1, OwnerKeeps DEF Makes
  <2>4. CASE UmemFails(t)
    <3>0. \A u \in Threads : u # t => call'[u] = call[u]
      BY <1>3, MemFrame DEF MemStep, Moves
    <3>1. /\ held' = held /\ ctx' = ctx /\ DOMAIN pds' = DOMAIN pds
          /\ call[t].at # "made" /\ call'[t].at # "made"
      BY <2>4, AtIs DEF UmemFails, Runs, Idle
    <3> QED
      BY <3>0, <3>1, OwnerKeeps DEF Makes
  <2>5. CASE KeyRead(t)
    <3>0. \A u \in Threads : u # t => call'[u] = call[u]
      BY <1>3, MemFrame DEF MemStep, Moves
    <3>1. /\ held' = held /\ ctx' = ctx /\ DOMAIN pds' = DOMAIN pds
          /\ call[t].at # "made" /\ call'[t].at # "made"
      BY <2>5, AtIs DEF KeyRead, Runs, Idle
    <3> QED
      BY <3>0, <3>1, OwnerKeeps DEF Makes
  <2>6. CASE bxroce_mem_init(t)
    <3>0. \A u \in Threads : u # t => call'[u] = call[u]
      BY <1>3, MemFrame DEF MemStep, Moves
    <3>1. /\ held' = held /\ ctx' = ctx /\ DOMAIN pds' = DOMAIN pds
          /\ call[t].at # "made" /\ call'[t].at # "made"
      BY <2>6, AtIs DEF bxroce_mem_init, Runs, Idle
    <3> QED
      BY <3>0, <3>1, OwnerKeeps DEF Makes
  <2>7. ASSUME NEW s \in Starts, NEW l \in Lens, NEW b \in BOOLEAN, NEW n \in BOOLEAN,
             NEW f \in BOOLEAN, bxroce_reg_user_mr(t, s, l, b, n, f)
        PROVE  OwnerInv'
    <3>0. \A u \in Threads : u # t => call'[u] = call[u]
      BY <1>3, MemFrame DEF MemStep, Moves
    <3>1. /\ held' = held /\ ctx' = ctx /\ DOMAIN pds' = DOMAIN pds
          /\ call[t].at # "made" /\ call'[t].at # "made"
      BY <2>7, AtIs DEF bxroce_reg_user_mr, Runs, Idle
    <3> QED
      BY <3>0, <3>1, OwnerKeeps DEF Makes
  <2>8. ASSUME NEW f \in BOOLEAN, KernelMr(t, f)
        PROVE  OwnerInv'
    <3>0. \A u \in Threads : u # t => call'[u] = call[u]
      BY <1>3, MemFrame DEF MemStep, Moves
    <3>1. /\ held' = held /\ ctx' = ctx /\ DOMAIN pds' = DOMAIN pds
          /\ call[t].at # "made" /\ call'[t].at # "made"
      BY <2>8, AtIs DEF KernelMr, Runs, Idle
    <3> QED
      BY <3>0, <3>1, OwnerKeeps DEF Makes
  <2>9. ASSUME NEW m \in DOMAIN mrs, bxroce_dereg_mr(t, m)
        PROVE  OwnerInv'
    <3>0. \A u \in Threads : u # t => call'[u] = call[u]
      BY <1>3, MemFrame DEF MemStep, Moves
    <3>1. /\ held' = held /\ ctx' = ctx /\ DOMAIN pds' = DOMAIN pds
          /\ call[t].at # "made" /\ call'[t].at # "made"
      BY <2>9, AtIs DEF bxroce_dereg_mr, Begin, Idle
    <3> QED
      BY <3>0, <3>1, OwnerKeeps DEF Makes
  <2>10. CASE DropPdOf(t)
    <3>0. \A u \in Threads : u # t => call'[u] = call[u]
      BY <1>3, MemFrame DEF MemStep, Moves
    <3>1. call[t].at = "drop_pd" /\ held' = held /\ ctx' = ctx
      BY <2>10 DEF DropPdOf, Runs
    <3>2. call[t].pd \in DOMAIN pds /\ call[t].pd # 0 /\ pds[call[t].pd].ref # 1
      BY <3>1, NotLast DEF RefAts
    <3>3. DropPd(call[t].pd) /\ Go(t, At(t, "drop_index"))
      BY <2>10, <3>2 DEF DropPdOf
    <3>4. DOMAIN pds' = DOMAIN pds
      BY <3>2, <3>3, PdDrop
    <3>5. call'[t].at = "drop_index"
      BY <3>3, AtIs
    <3> QED
      BY <3>0, <3>1, <3>4, <3>5, OwnerKeeps DEF Makes
  <2>11. CASE DropIndex(t)
    <3>0. \A u \in Threads : u # t => call'[u] = call[u]
      BY <1>3, MemFrame DEF MemStep, Moves
    <3>1. /\ held' = held /\ ctx' = ctx /\ DOMAIN pds' = DOMAIN pds
          /\ call[t].at # "made" /\ call'[t].at # "made"
      BY <2>11, AtIs DEF DropIndex, Runs, Idle
    <3> QED
      BY <3>0, <3>1, OwnerKeeps DEF Makes
  <2>12. CASE DropMr(t)
    <3>0. \A u \in Threads : u # t => call'[u] = call[u]
      BY <1>3, MemFrame DEF MemStep, Moves
    <3>1. /\ held' = held /\ ctx' = ctx /\ DOMAIN pds' = DOMAIN pds
          /\ call[t].at # "made" /\ call'[t].at # "made"
      BY <2>12, AtIs DEF DropMr, Runs, Idle
    <3> QED
      BY <3>0, <3>1, OwnerKeeps DEF Makes
  <2> QED
    BY <1>3, <2>1, <2>2, <2>3, <2>4, <2>5, <2>6, <2>7, <2>8, <2>9, <2>10, <2>11, <2>12 DEF Mrs
<1>4. ASSUME NEW t \in Threads, Cqs(t)
      PROVE  OwnerInv'
  <2>1. /\ Moves(t, {"none"} \cup CqAts) /\ held' = held /\ pds' = pds
        /\ ctx'.st = ctx.st /\ ctx'.ctx_pd = ctx.ctx_pd /\ ctx'.pd_in_use = ctx.pd_in_use
    BY <1>4, CqFrame
  <2>2. /\ call[t].at # "made" /\ call'[t].at # "made"
        /\ \A u \in Threads : u # t => call'[u] = call[u]
    BY <2>1 DEF Moves, CqAts, BitAts, AhAts
  <2> QED
    BY <2>1, <2>2, OwnerKeeps DEF Makes
<1>5. ASSUME NEW t \in Threads, Ahs(t)
      PROVE  OwnerInv'
  <2>1. /\ Moves(t, {"none"} \cup AhAts) /\ held' = held /\ pds' = pds
        /\ ctx'.st = ctx.st /\ ctx'.ctx_pd = ctx.ctx_pd /\ ctx'.pd_in_use = ctx.pd_in_use
    BY <1>5, AhFrame
  <2>2. /\ call[t].at # "made" /\ call'[t].at # "made"
        /\ \A u \in Threads : u # t => call'[u] = call[u]
    BY <2>1 DEF Moves, CqAts, BitAts, AhAts
  <2> QED
    BY <2>1, <2>2, OwnerKeeps DEF Makes
<1>6. ASSUME Life
      PROVE  OwnerInv'
  <2>1. (\A t \in Threads : call[t] = Idle) /\ call' = call /\ ctx' = ctx /\ held' = held
    BY <1>6, LifeRest
  <2>2. \A t \in Threads : ~Makes(t) /\ ~Makes(t)'
    BY <2>1 DEF Makes, Idle
  <2>3. CASE pds' = pds
    BY <2>1, <2>2, <2>3 DEF OwnerInv
  <2>4. CASE ~drv
    <3>1. ctx = Closed /\ held = {}
      BY <2>4 DEF LifeInv, Quiet
    <3> QED
      BY <2>1, <2>2, <3>1 DEF OwnerInv, Closed
  <2> QED
    BY <1>6, <2>3, <2>4, LifeObjects
<1>7. CASE UNCHANGED vars
  BY <1>7 DEF vars, OwnerInv, Makes
<1> QED
  BY <1>1, <1>2, <1>3, <1>4, <1>5, <1>6, <1>7 DEF Next

-----------------------------------------------------------------------------
(* PDs in use.                                                             *)

\* No PD is given back and no region comes into use.
LEMMA UseKeeps ==
  ASSUME NEW t \in Threads, \A u \in Threads : u # t => call'[u] = call[u], UseInv, held \subseteq held',
         \A m \in DOMAIN mrs' : mrs'[m].up => /\ m \in DOMAIN mrs /\ mrs[m].up
                                              /\ mrs'[m].pd = mrs[m].pd /\ mrs'[m].ibpd = mrs[m].ibpd,
         call'[t].op \in RegOps => \E h \in held' : h.pd = call'[t].pd, call'[t].op # "fast"
  PROVE  UseInv'
BY DEF UseInv

\* A region comes into use on the PD of the call.
LEMMA UseFills ==
  ASSUME NEW t \in Threads, \A u \in Threads : u # t => call'[u] = call[u], UseInv, held' = held,
         call[t].op \in RegOps, DOMAIN mrs' = DOMAIN mrs,
         \A m \in DOMAIN mrs : m # call[t].el => mrs'[m] = mrs[m],
         mrs'[call[t].el].pd = call[t].pd, mrs'[call[t].el].ibpd = call[t].pd,
         call'[t].op \in RegOps => call'[t].pd = call[t].pd, call'[t].op # "fast"
  PROVE  UseInv'
BY DEF UseInv

\* What a region has got when it is filled.
LEMMA FilledIs ==
  ASSUME NEW t \in Threads, NEW pd, NEW up, NEW whole, MrShape, call[t].el \in DOMAIN mrs,
         Filled(t, pd, up, whole)
  PROVE  /\ DOMAIN mrs' = DOMAIN mrs /\ \A m \in DOMAIN mrs : m # call[t].el => mrs'[m] = mrs[m]
         /\ mrs'[call[t].el].pd = pd /\ mrs'[call[t].el].ibpd = call[t].pd
         /\ mrs'[call[t].el].up = up
BY DEF Filled, MrShape

\* Whoever works on a region has its PD, as long as bxroce_alloc_mr is not called.
LEMMA UseStep ==
  ASSUME "fast_mr" \notin Allow, CallInv, CtxInv, PdShape, MrShape, PoolShape, LifeInv, CqShape, AvInv,
         ElInv, OwnerInv, UseInv, CallInv', [Next]_vars
  PROVE  UseInv'
<1>1. ASSUME NEW t \in Threads, Alloc(t)
      PROVE  UseInv'
  <2>1. CASE AllocGet(t)
    <3>0. \A u \in Threads : u # t => call'[u] = call[u]
      BY <1>1, MemFrame DEF MemStep, Moves
    <3>1. held' = held /\ mrs' = mrs
      BY <2>1 DEF AllocGet
    <3>2. call'[t].op \in RegOps \cup {"fast"} => call'[t].op = call[t].op /\ call'[t].pd = call[t].pd
      BY <2>1, AtIs DEF AllocGet, Runs, Null, Idle, RegOps, MrOps
    <3> QED
      BY <3>0, <3>1, <3>2, UseKeeps DEF UseInv
  <2>2. CASE AllocInc(t)
    <3>0. \A u \in Threads : u # t => call'[u] = call[u]
      BY <1>1, MemFrame DEF MemStep, Moves
    <3>1. held' = held /\ mrs' = mrs
      BY <2>2 DEF AllocInc
    <3>2. call'[t].op \in RegOps \cup {"fast"} => call'[t].op = call[t].op /\ call'[t].pd = call[t].pd
      BY <2>2, AtIs DEF AllocInc, Runs, Idle, RegOps, MrOps
    <3> QED
      BY <3>0, <3>1, <3>2, UseKeeps DEF UseInv
  <2>3. CASE AllocUndo(t)
    <3>0. \A u \in Threads : u # t => call'[u] = call[u]
      BY <1>1, MemFrame DEF MemStep, Moves
    <3>1. held' = held /\ mrs' = mrs
      BY <2>3 DEF AllocUndo
    <3>2. call'[t].op \in RegOps \cup {"fast"} => call'[t].op = call[t].op /\ call'[t].pd = call[t].pd
      BY <2>3, AtIs DEF AllocUndo, Runs, Null, Idle, RegOps, MrOps
    <3> QED
      BY <3>0, <3>1, <3>2, UseKeeps DEF UseInv
  <2>4. CASE AllocElem(t)
    <3>0. \A u \in Threads : u # t => call'[u] = call[u]
      BY <1>1, MemFrame DEF MemStep, Moves
    <3>1. held' = held
      BY <2>4 DEF AllocElem
    <3>2. CASE call[t].op \in PdOps
      <4>1. mrs' = mrs /\ call'[t].op = call[t].op
        BY <2>4, <3>2, AtIs DEF AllocElem
      <4>2. call'[t].op \notin RegOps \cup {"fast"}
        BY <3>2, <4>1 DEF PdOps, RegOps, MrOps
      <4> QED
        BY <3>0, <3>1, <4>1, <4>2, UseKeeps
    <3>3. CASE call[t].op \notin PdOps
      <4> DEFINE m == Unused(DOMAIN mrs)
      <4>1. /\ mrs' = With(mrs, m, [ref |-> 1, index |-> 0, lkey |-> 0, pd |-> 0, ibpd |-> 0,
                                    whole |-> TRUE, up |-> FALSE])
            /\ call'[t].op = call[t].op /\ call'[t].pd = call[t].pd
        BY <2>4, <3>3, AtIs DEF AllocElem
      <4>2. /\ DOMAIN mrs' = DOMAIN mrs \cup {m} /\ ~mrs'[m].up
            /\ \A i \in DOMAIN mrs : mrs'[i] = mrs[i]
        BY <4>1, MrMade, Zenon
      <4> HIDE DEF m
      <4> QED
        BY <3>0, <3>1, <4>1, <4>2, UseKeeps DEF UseInv
    <3> QED
      BY <3>2, <3>3
  <2> QED
    BY <1>1, <2>1, <2>2, <2>3, <2>4 DEF Alloc
<1>2. ASSUME NEW t \in Threads, Pds(t)
      PROVE  UseInv'
  <2>1. CASE bxroce_alloc_ucontext(t)
    <3>0. \A u \in Threads : u # t => call'[u] = call[u]
      BY <1>2, MemFrame DEF MemStep, Moves
    <3>1. held' = held /\ mrs' = mrs
      BY <2>1 DEF bxroce_alloc_ucontext
    <3>2. call'[t].op \in RegOps \cup {"fast"} => call'[t].op = call[t].op /\ call'[t].pd = call[t].pd
      BY <2>1, AtIs DEF bxroce_alloc_ucontext, Begin, Idle, RegOps, MrOps
    <3> QED
      BY <3>0, <3>1, <3>2, UseKeeps DEF UseInv
  <2>2. ASSUME NEW f \in BOOLEAN, OpenDone(t, f)
        PROVE  UseInv'
    <3>0. \A u \in Threads : u # t => call'[u] = call[u]
      BY <1>2, MemFrame DEF MemStep, Moves
    <3>1. held' = held /\ mrs' = mrs
      BY <2>2 DEF OpenDone
    <3>2. call'[t].op \in RegOps \cup {"fast"} => call'[t].op = call[t].op /\ call'[t].pd = call[t].pd
      BY <2>2, AtIs DEF OpenDone, Runs, Idle, RegOps, MrOps
    <3> QED
      BY <3>0, <3>1, <3>2, UseKeeps DEF UseInv
  <2>3. CASE bxroce_dealloc_ucontext(t)
    <3>0. \A u \in Threads : u # t => call'[u] = call[u]
      BY <1>2, MemFrame DEF MemStep, Moves
    <3>1. held' = held /\ mrs' = mrs
      BY <2>3 DEF bxroce_dealloc_ucontext
    <3>2. call'[t].op \in RegOps \cup {"fast"} => call'[t].op = call[t].op /\ call'[t].pd = call[t].pd
      BY <2>3, AtIs DEF bxroce_dealloc_ucontext, Idle, RegOps, MrOps
    <3> QED
      BY <3>0, <3>1, <3>2, UseKeeps DEF UseInv
  <2>4. CASE bxroce_get_ucontext_pd(t)
    <3>0. \A u \in Threads : u # t => call'[u] = call[u]
      BY <1>2, MemFrame DEF MemStep, Moves
    <3>1. held' = held /\ mrs' = mrs
      BY <2>4 DEF bxroce_get_ucontext_pd
    <3>2. call'[t].op \in RegOps \cup {"fast"} => call'[t].op = call[t].op /\ call'[t].pd = call[t].pd
      BY <2>4, AtIs DEF bxroce_get_ucontext_pd, Begin, Idle, RegOps, MrOps
    <3> QED
      BY <3>0, <3>1, <3>2, UseKeeps DEF UseInv
  <2>5. CASE bxroce_alloc_pd(t)
    <3>0. \A u \in Threads : u # t => call'[u] = call[u]
      BY <1>2, MemFrame DEF MemStep, Moves
    <3>1. held' = held /\ mrs' = mrs
      BY <2>5 DEF bxroce_alloc_pd
    <3>2. call'[t].op \in RegOps \cup {"fast"} => call'[t].op = call[t].op /\ call'[t].pd = call[t].pd
      BY <2>5, AtIs DEF bxroce_alloc_pd, Begin, Idle, RegOps, MrOps
    <3> QED
      BY <3>0, <3>1, <3>2, UseKeeps DEF UseInv
  <2>6. CASE AllocPdDone(t)
    <3>0. \A u \in Threads : u # t => call'[u] = call[u]
      BY <1>2, MemFrame DEF MemStep, Moves
    <3>1. held \subseteq held' /\ mrs' = mrs
      BY <2>6 DEF AllocPdDone
    <3>2. call'[t].op \in RegOps \cup {"fast"} => call'[t].op = call[t].op /\ call'[t].pd = call[t].pd
      BY <2>6, AtIs DEF AllocPdDone, Runs, Idle, RegOps, MrOps
    <3> QED
      BY <3>0, <3>1, <3>2, UseKeeps DEF UseInv
  <2>7. ASSUME NEW h \in held, bxroce_dealloc_pd(t, h)
        PROVE  UseInv'
    <3>1. held' = held \ {h} /\ mrs' = mrs /\ call' = call /\ Uses(h.pd) = {} /\ ~Busy(h.pd)
      BY <2>7 DEF bxroce_dealloc_pd
    <3>2. \A m \in DOMAIN mrs : mrs[m].up => mrs[m].ibpd # h.pd
      BY <3>1 DEF Uses
    <3>3. \A u \in Threads : call[u].op \in RegOps => call[u].pd # h.pd
      BY <3>1 DEF Busy, RegOps
    <3> QED
      BY <3>1, <3>2, <3>3 DEF UseInv
  <2> QED
    BY <1>2, <2>1, <2>2, <2>3, <2>4, <2>5, <2>6, <2>7 DEF Pds
<1>3. ASSUME NEW t \in Threads, Mrs(t)
      PROVE  UseInv'
  <2>1. ASSUME NEW h \in held, NEW op \in MrOps, RegMr(t, h, op)
        PROVE  UseInv'
    <3>0. \A u \in Threads : u # t => call'[u] = call[u]
      BY <1>3, MemFrame DEF MemStep, Moves
    <3>1. held' = held /\ mrs' = mrs /\ op # "fast" /\ call'[t].op = op /\ call'[t].pd = h.pd
      BY <2>1, AtIs DEF RegMr, Begin
    <3> QED
      BY <3>0, <3>1, UseKeeps
  <2>2. ASSUME NEW f \in BOOLEAN, AddIndex(t, f)
        PROVE  UseInv'
    <3>0. \A u \in Threads : u # t => call'[u] = call[u]
      BY <1>3, MemFrame DEF MemStep, Moves
    <3>1. /\ held' = held /\ call[t].at \in ElAts /\ DOMAIN mrs' = DOMAIN mrs
          /\ \A m \in DOMAIN mrs : m # call[t].el => mrs'[m] = mrs[m]
      BY <2>2 DEF AddIndex, Runs, ElAts, IndexAts, RefAts
    <3>2. call[t].el \in DOMAIN mrs /\ ~mrs[call[t].el].up
      BY <3>1 DEF ElInv
    <3>3. mrs'[call[t].el].up = mrs[call[t].el].up
      BY <2>2, <3>2 DEF AddIndex, MrShape
    <3>4. call'[t].op \in RegOps \cup {"fast"} => call'[t].op = call[t].op /\ call'[t].pd = call[t].pd
      BY <2>2, AtIs DEF AddIndex, Idle, RegOps, MrOps
    <3> QED
      BY <3>0, <3>1, <3>2, <3>3, <3>4, UseKeeps DEF UseInv
  <2>3. CASE AddRef(t)
    <3>0. \A u \in Threads : u # t => call'[u] = call[u]
      BY <1>3, MemFrame DEF MemStep, Moves
    <3>1. held' = held /\ mrs' = mrs
      BY <2>3 DEF AddRef
    <3>2. call'[t].op \in RegOps \cup {"fast"} => call'[t].op = call[t].op /\ call'[t].pd = call[t].pd
      BY <2>3, AtIs DEF AddRef, Runs, Idle, RegOps, MrOps
    <3> QED
      BY <3>0, <3>1, <3>2, UseKeeps DEF UseInv
  <2>4. CASE UmemFails(t)
    <3>0. \A u \in Threads : u # t => call'[u] = call[u]
      BY <1>3, MemFrame DEF MemStep, Moves
    <3>1. held' = held /\ mrs' = mrs
      BY <2>4 DEF UmemFails
    <3>2. call'[t].op \in RegOps \cup {"fast"} => call'[t].op = call[t].op /\ call'[t].pd = call[t].pd
      BY <2>4, AtIs DEF UmemFails, Runs, Idle, RegOps, MrOps
    <3> QED
      BY <3>0, <3>1, <3>2, UseKeeps DEF UseInv
  <2>5. CASE KeyRead(t)
    <3>0. \A u \in Threads : u # t => call'[u] = call[u]
      BY <1>3, MemFrame DEF MemStep, Moves
    <3>1. held' = held /\ mrs' = mrs
      BY <2>5 DEF KeyRead
    <3>2. call'[t].op \in RegOps \cup {"fast"} => call'[t].op = call[t].op /\ call'[t].pd = call[t].pd
      BY <2>5, AtIs DEF KeyRead, Runs, Idle, RegOps, MrOps
    <3> QED
      BY <3>0, <3>1, <3>2, UseKeeps DEF UseInv
  <2>6. CASE bxroce_mem_init(t)
    <3>0. \A u \in Threads : u # t => call'[u] = call[u]
      BY <1>3, MemFrame DEF MemStep, Moves
    <3>1. /\ held' = held /\ call[t].at \in ElAts /\ DOMAIN mrs' = DOMAIN mrs
          /\ \A m \in DOMAIN mrs : m # call[t].el => mrs'[m] = mrs[m]
      BY <2>6 DEF bxroce_mem_init, Runs, ElAts, IndexAts, RefAts
    <3>2. call[t].el \in DOMAIN mrs /\ ~mrs[call[t].el].up
      BY <3>1 DEF ElInv
    <3>3. mrs'[call[t].el].up = mrs[call[t].el].up
      BY <2>6, <3>2 DEF bxroce_mem_init, MrShape
    <3>4. call'[t].op \in RegOps \cup {"fast"} => call'[t].op = call[t].op /\ call'[t].pd = call[t].pd
      BY <2>6, AtIs DEF bxroce_mem_init, Idle, RegOps, MrOps
    <3> QED
      BY <3>0, <3>1, <3>2, <3>3, <3>4, UseKeeps DEF UseInv
  <2>7. ASSUME NEW s \in Starts, NEW l \in Lens, NEW b \in BOOLEAN, NEW n \in BOOLEAN,
             NEW f \in BOOLEAN, bxroce_reg_user_mr(t, s, l, b, n, f)
        PROVE  UseInv'
    <3>0. \A u \in Threads : u # t => call'[u] = call[u]
      BY <1>3, MemFrame DEF MemStep, Moves
    <3>1. held' = held /\ call[t].at = "fill" /\ call[t].op = "reg_user" /\ call[t].op \in RegOps
      BY <2>7 DEF bxroce_reg_user_mr, Runs, RegOps, MrOps
    <3>2. call[t].el \in DOMAIN mrs
      BY <3>1 DEF ElInv, ElAts, IndexAts, RefAts
    <3>3. CASE n
      <4>1. mrs' = mrs /\ call' = call
        BY <2>7, <3>3 DEF bxroce_reg_user_mr
      <4> QED
        BY <3>1, <4>1 DEF UseInv
    <3>4. CASE ~n
      <4> DEFINE w == Covers(bxroce_mem_init_user(Page, Huge, s, l, b, MaxSg), Page, Huge, s, l, b)
      <4>1. Filled(t, call[t].pd, ~f, w) /\ Go(t, IF f THEN At(t, "drop_pd") ELSE Idle)
        BY <2>7, <3>4 DEF bxroce_reg_user_mr
      <4> HIDE DEF w
      <4>2. /\ DOMAIN mrs' = DOMAIN mrs /\ \A m \in DOMAIN mrs : m # call[t].el => mrs'[m] = mrs[m]
            /\ mrs'[call[t].el].pd = call[t].pd /\ mrs'[call[t].el].ibpd = call[t].pd
        BY <3>2, <4>1, FilledIs
      <4>3. call'[t].op \in RegOps \cup {"fast"} => call'[t].op = call[t].op /\ call'[t].pd = call[t].pd
        BY <4>1, AtIs DEF Idle, RegOps, MrOps
      <4> QED
        BY <3>0, <3>1, <4>2, <4>3, UseFills
    <3> QED
      BY <3>3, <3>4
  <2>8. ASSUME NEW f \in BOOLEAN, KernelMr(t, f)
        PROVE  UseInv'
    <3>0. \A u \in Threads : u # t => call'[u] = call[u]
      BY <1>3, MemFrame DEF MemStep, Moves
    <3>1. /\ held' = held /\ call[t].at = "fill" /\ call[t].op = "dma" /\ call[t].op \in RegOps /\ ~f
          /\ Filled(t, call[t].pd, TRUE, TRUE) /\ Go(t, Idle)
      BY <2>8 DEF KernelMr, Runs, RegOps, MrOps, bxroce_get_dma_mr, UseInv
    <3>2. call[t].el \in DOMAIN mrs
      BY <3>1 DEF ElInv, ElAts, IndexAts, RefAts
    <3>3. /\ DOMAIN mrs' = DOMAIN mrs /\ \A m \in DOMAIN mrs : m # call[t].el => mrs'[m] = mrs[m]
          /\ mrs'[call[t].el].pd = call[t].pd /\ mrs'[call[t].el].ibpd = call[t].pd
      BY <3>1, <3>2, FilledIs
    <3>4. call'[t].op \notin RegOps \cup {"fast"}
      BY <3>1, AtIs DEF Idle, RegOps, MrOps
    <3> QED
      BY <3>0, <3>1, <3>3, <3>4, UseFills
  <2>9. ASSUME NEW m \in DOMAIN mrs, bxroce_dereg_mr(t, m)
        PROVE  UseInv'
    <3>0. \A u \in Threads : u # t => call'[u] = call[u]
      BY <1>3, MemFrame DEF MemStep, Moves
    <3>1. /\ held' = held /\ mrs[m].up /\ mrs' = [mrs EXCEPT ![m].up = FALSE]
          /\ call'[t].op = "dereg" /\ call'[t].pd = mrs[m].pd
      BY <2>9, AtIs DEF bxroce_dereg_mr, Begin
    <3>2. ~mrs'[m].up /\ DOMAIN mrs' = DOMAIN mrs /\ \A i \in DOMAIN mrs : i # m => mrs'[i] = mrs[i]
      BY <3>1 DEF MrShape
    <3>3. \E h \in held : h.pd = mrs[m].pd
      BY <3>1 DEF UseInv
    <3> QED
      BY <3>0, <3>1, <3>2, <3>3, UseKeeps
  <2>10. CASE DropPdOf(t)
    <3>0. \A u \in Threads : u # t => call'[u] = call[u]
      BY <1>3, MemFrame DEF MemStep, Moves
    <3>1. held' = held /\ mrs' = mrs
      BY <2>10 DEF DropPdOf
    <3>2. call'[t].op \in RegOps \cup {"fast"} => call'[t].op = call[t].op /\ call'[t].pd = call[t].pd
      BY <2>10, AtIs DEF DropPdOf, Runs, Idle, RegOps, MrOps
    <3> QED
      BY <3>0, <3>1, <3>2, UseKeeps DEF UseInv
  <2>11. CASE DropIndex(t)
    <3>0. \A u \in Threads : u # t => call'[u] = call[u]
      BY <1>3, MemFrame DEF MemStep, Moves
    <3>1. held' = held /\ mrs' = mrs
      BY <2>11 DEF DropIndex
    <3>2. call'[t].op \in RegOps \cup {"fast"} => call'[t].op = call[t].op /\ call'[t].pd = call[t].pd
      BY <2>11, AtIs DEF DropIndex, Runs, Idle, RegOps, MrOps
    <3> QED
      BY <3>0, <3>1, <3>2, UseKeeps DEF UseInv
  <2>12. CASE DropMr(t)
    <3>0. \A u \in Threads : u # t => call'[u] = call[u]
      BY <1>3, MemFrame DEF MemStep, Moves
    <3>1. held' = held /\ mrs' = Without(mrs, call[t].el) /\ call'[t] = Idle
      BY <2>12, AtIs DEF DropMr
    <3>2. LET g == Without(mrs, call[t].el)
          IN /\ DOMAIN g = DOMAIN mrs \ {call[t].el}
             /\ \A m \in DOMAIN mrs : m # call[t].el => g[m] = mrs[m]
      BY WithoutIs, Zenon
    <3>3. Idle.op \notin RegOps /\ Idle.op # "fast"
      BY DEF Idle, RegOps, MrOps
    <3> QED
      BY <3>0, <3>1, <3>2, <3>3, UseKeeps
  <2> QED
    BY <1>3, <2>1, <2>2, <2>3, <2>4, <2>5, <2>6, <2>7, <2>8, <2>9, <2>10, <2>11, <2>12 DEF Mrs
<1>4. ASSUME NEW t \in Threads, Cqs(t)
      PROVE  UseInv'
  <2>1. CallInv' /\ Moves(t, {"none"} \cup CqAts) /\ held' = held /\ mrs' = mrs
    BY <1>4, CqFrame
  <2>2. /\ call'[t].op \notin RegOps \cup {"fast"}
        /\ \A u \in Threads : u # t => call'[u] = call[u]
    BY <2>1 DEF Moves, CallInv, CallOK, Idle, CqAts, BitAts, AhAts, RegOps, MrOps, CqOps, AhOps
  <2> QED
    BY <2>1, <2>2, UseKeeps DEF UseInv
<1>5. ASSUME NEW t \in Threads, Ahs(t)
      PROVE  UseInv'
  <2>1. CallInv' /\ Moves(t, {"none"} \cup AhAts) /\ held' = held /\ mrs' = mrs
    BY <1>5, AhFrame
  <2>2. /\ call'[t].op \notin RegOps \cup {"fast"}
        /\ \A u \in Threads : u # t => call'[u] = call[u]
    BY <2>1 DEF Moves, CallInv, CallOK, Idle, CqAts, BitAts, AhAts, RegOps, MrOps, CqOps, AhOps
  <2> QED
    BY <2>1, <2>2, UseKeeps DEF UseInv
<1>6. ASSUME Life
      PROVE  UseInv'
  <2>1. (\A t \in Threads : call[t] = Idle) /\ call' = call /\ ctx' = ctx /\ held' = held
    BY <1>6, LifeRest
  <2>2. mrs' = mrs \/ DOMAIN mrs' = {}
    BY <1>6, LifeObjects, NoElems DEF bxroce_init_pools
  <2> QED
    BY <2>1, <2>2 DEF UseInv
<1>7. CASE UNCHANGED vars
  BY <1>7 DEF vars, UseInv
<1> QED
  BY <1>1, <1>2, <1>3, <1>4, <1>5, <1>6, <1>7 DEF Next

-----------------------------------------------------------------------------
(* References of PDs.                                                      *)

\* The sets that are counted are finite.
LEMMA RefSets ==
  ASSUME NEW p, MrShape
  PROVE  IsFiniteSet(Uses(p)) /\ IsFiniteSet(Refs(p))
<1>1. Uses(p) \subseteq DOMAIN mrs /\ Refs(p) \subseteq Threads
  BY DEF Uses, Refs
<1> QED
  BY <1>1, FS_Subset, Sizes DEF MrShape

\* One call and one region change: what they add to the references of p and take away.
LEMMA RefMoves ==
  ASSUME NEW t, NEW e, NEW p, p \in DOMAIN pds, MrShape, RefInv, PdShape,
         Uses(p) \ {e} = Uses(p)' \ {e}, Refs(p) \ {t} = Refs(p)' \ {t},
         pds'[p].ref + (IF e \in Uses(p) THEN 1 ELSE 0) + (IF t \in Refs(p) THEN 1 ELSE 0)
           = pds[p].ref + (IF e \in Uses(p)' THEN 1 ELSE 0) + (IF t \in Refs(p)' THEN 1 ELSE 0),
         pds'[p].ref \in Int
  PROVE  pds'[p].ref = 1 + Cardinality(Uses(p)') + Cardinality(Refs(p)')
<1> DEFINE A == Uses(p)
           B == Uses(p)'
           C == Refs(p)
           D == Refs(p)'
<1>1. IsFiniteSet(A) /\ IsFiniteSet(C) /\ pds[p].ref = 1 + Cardinality(A) + Cardinality(C)
  BY RefSets DEF RefInv
<1> HIDE DEF A, B, C, D
<1>2. /\ Cardinality(A) \in Nat /\ Cardinality(B) \in Nat
      /\ Cardinality(B) + (IF e \in A THEN 1 ELSE 0) = Cardinality(A) + (IF e \in B THEN 1 ELSE 0)
  BY <1>1, Differ DEF A, B
<1>3. /\ Cardinality(C) \in Nat /\ Cardinality(D) \in Nat
      /\ Cardinality(D) + (IF t \in C THEN 1 ELSE 0) = Cardinality(C) + (IF t \in D THEN 1 ELSE 0)
  BY <1>1, Differ DEF C, D
<1>4. pds'[p].ref + (IF e \in A THEN 1 ELSE 0) + (IF t \in C THEN 1 ELSE 0)
        = pds[p].ref + (IF e \in B THEN 1 ELSE 0) + (IF t \in D THEN 1 ELSE 0)
  BY DEF A, B, C, D
<1> DEFINE a == Cardinality(A)
           b == Cardinality(B)
           c == Cardinality(C)
           d == Cardinality(D)
           i == IF e \in A THEN 1 ELSE 0
           j == IF e \in B THEN 1 ELSE 0
           m == IF t \in C THEN 1 ELSE 0
           n == IF t \in D THEN 1 ELSE 0
           r == pds'[p].ref
<1>5. a \in Nat /\ b \in Nat /\ c \in Nat /\ d \in Nat /\ i \in Nat /\ j \in Nat /\ m \in Nat
      /\ n \in Nat /\ r \in Int
  BY <1>2, <1>3
<1>6. b + i = a + j /\ d + m = c + n /\ r + i + m = (1 + a + c) + j + n
  BY <1>1, <1>2, <1>3, <1>4
<1> HIDE DEF a, b, c, d, i, j, m, n, r
<1>7. r = 1 + b + d
  BY <1>5, <1>6
<1> QED
  BY <1>7 DEF r, b, d, B, D

\* PDs, the regions in use and the calls that have a reference stay the same.
LEMMA RefKeeps ==
  ASSUME NEW t \in Threads, \A u \in Threads : u # t => call'[u] = call[u], RefInv,
         \A p \in DOMAIN pds' : p \in DOMAIN pds /\ pds'[p] = pds[p],
         \A m : (m \in DOMAIN mrs' /\ mrs'[m].up) <=> (m \in DOMAIN mrs /\ mrs[m].up),
         \A m \in DOMAIN mrs : mrs[m].up => mrs'[m].ibpd = mrs[m].ibpd,
         \/ call[t].at \notin RefAts /\ call'[t].at \notin RefAts
         \/ call[t].at \in RefAts /\ call'[t].at \in RefAts /\ call'[t].pd = call[t].pd
  PROVE  RefInv'
<1> SUFFICES ASSUME NEW p, p \in DOMAIN pds'
             PROVE  pds'[p].ref = 1 + Cardinality(Uses(p)') + Cardinality(Refs(p)')
  BY DEF RefInv, Uses, Refs
<1>1. Uses(p)' = Uses(p)
  BY DEF Uses
<1>2. Refs(p)' = Refs(p)
  BY DEF Refs
<1> QED
  BY <1>1, <1>2 DEF RefInv

\* Nobody has a reference of a PD without uses but the one who made it.
LEMMA LastRef ==
  ASSUME NEW p \in DOMAIN pds, RefInv, MrShape, Uses(p) = {}, Refs(p) = {}
  PROVE  pds[p].ref = 1
BY FS_EmptySet DEF RefInv

\* It goes when it is given back.
LEMMA RefDrops ==
  ASSUME NEW p \in DOMAIN pds, RefInv, MrShape, PdShape, Uses(p) = {}, Refs(p) = {}, DropPd(p),
         call' = call, mrs' = mrs
  PROVE  RefInv'
<1>1. pds[p].ref = 1
  BY LastRef
<1>2. DOMAIN pds' = DOMAIN pds \ {p} /\ \A q \in DOMAIN pds : q # p => pds'[q] = pds[q]
  BY <1>1, PdDrop
<1>3. \A q : Uses(q)' = Uses(q) /\ Refs(q)' = Refs(q)
  BY DEF Uses, Refs
<1> QED
  BY <1>2, <1>3 DEF RefInv

\* The call hands its reference to the region it has filled.
LEMMA RefHanded ==
  ASSUME NEW t \in Threads, \A u \in Threads : u # t => call'[u] = call[u],
         MrShape, PdShape, RefInv, pds' = pds,
         call[t].at \in RefAts, call[t].el \in DOMAIN mrs, ~mrs[call[t].el].up,
         DOMAIN mrs' = DOMAIN mrs, \A m \in DOMAIN mrs : m # call[t].el => mrs'[m] = mrs[m],
         mrs'[call[t].el].ibpd = call[t].pd, mrs'[call[t].el].up, call'[t].at \notin RefAts
  PROVE  RefInv'
<1> DEFINE e == call[t].el
<1> SUFFICES ASSUME NEW p, p \in DOMAIN pds'
             PROVE  pds'[p].ref = 1 + Cardinality(Uses(p)') + Cardinality(Refs(p)')
  BY DEF RefInv, Uses, Refs
<1>1. Uses(p) \ {e} = Uses(p)' \ {e} /\ e \notin Uses(p) /\ (e \in Uses(p)' <=> p = call[t].pd)
  BY DEF Uses
<1>2. Refs(p) \ {t} = Refs(p)' \ {t} /\ t \notin Refs(p)' /\ (t \in Refs(p) <=> p = call[t].pd)
  BY DEF Refs
<1>3. pds[p].ref \in Int
  BY DEF PdShape
<1> HIDE DEF e
<1> QED
  BY <1>1, <1>2, <1>3, RefMoves

\* The references of a PD are those of its maker, of the regions on it and of the calls that have one.
LEMMA RefStep ==
  ASSUME "fast_mr" \notin Allow, CallInv, CtxInv, PdShape, MrShape, PoolShape, LifeInv, CqShape, AvInv,
         ElInv, OwnerInv, UseInv, RefInv, CallInv', [Next]_vars
  PROVE  RefInv'
<1>1. ASSUME NEW t \in Threads, Alloc(t)
      PROVE  RefInv'
  <2>1. CASE AllocGet(t)
    <3>0. \A u \in Threads : u # t => call'[u] = call[u]
      BY <1>1, MemFrame DEF MemStep, Moves
    <3>1. pds' = pds /\ mrs' = mrs
      BY <2>1 DEF AllocGet
    <3>2. call[t].at \notin RefAts /\ call'[t].at \notin RefAts
      BY <2>1, AtIs DEF AllocGet, Runs, Null, Idle, RefAts
    <3> QED
      BY <3>0, <3>1, <3>2, RefKeeps
  <2>2. CASE AllocInc(t)
    <3>0. \A u \in Threads : u # t => call'[u] = call[u]
      BY <1>1, MemFrame DEF MemStep, Moves
    <3>1. pds' = pds /\ mrs' = mrs
      BY <2>2 DEF AllocInc
    <3>2. call[t].at \notin RefAts /\ call'[t].at \notin RefAts
      BY <2>2, AtIs DEF AllocInc, Runs, Idle, RefAts
    <3> QED
      BY <3>0, <3>1, <3>2, RefKeeps
  <2>3. CASE AllocUndo(t)
    <3>0. \A u \in Threads : u # t => call'[u] = call[u]
      BY <1>1, MemFrame DEF MemStep, Moves
    <3>1. pds' = pds /\ mrs' = mrs
      BY <2>3 DEF AllocUndo
    <3>2. call[t].at \notin RefAts /\ call'[t].at \notin RefAts
      BY <2>3, AtIs DEF AllocUndo, Runs, Null, Idle, RefAts
    <3> QED
      BY <3>0, <3>1, <3>2, RefKeeps
  <2>4. CASE AllocElem(t)
    <3>0. \A u \in Threads : u # t => call'[u] = call[u]
      BY <1>1, MemFrame DEF MemStep, Moves
    <3>1. call[t].at = "elem" /\ call[t].at \notin RefAts
      BY <2>4 DEF AllocElem, Runs, RefAts
    <3>2. CASE call[t].op \in PdOps
      <4>1. /\ pds' = With(pds, Unused(DOMAIN pds), [ref |-> 1]) /\ mrs' = mrs /\ call'[t].at = "made"
        BY <2>4, <3>2, AtIs DEF AllocElem
      <4>2. PICK p : /\ p \notin DOMAIN pds /\ DOMAIN pds' = DOMAIN pds \cup {p} /\ pds'[p].ref = 1
                     /\ \A q \in DOMAIN pds : pds'[q] = pds[q]
        BY <4>1, PdMade, Zenon
      <4>3. \A q : Uses(q)' = Uses(q) /\ Refs(q)' = Refs(q)
        BY <3>0, <3>1, <4>1 DEF Uses, Refs, RefAts
      <4>4. Uses(p) = {}
        BY <4>2 DEF Uses, UseInv, OwnerInv
      <4>5. Refs(p) = {}
        <5> SUFFICES ASSUME NEW u \in Threads, call[u].pd = p, call[u].at \in RefAts PROVE FALSE
          BY DEF Refs
        <5>1. call[u].op \in RegOps
          BY AtIs DEF CallOK, ElAts, IndexAts
        <5> QED
          BY <4>2, <5>1 DEF UseInv, OwnerInv
      <4>6. pds'[p].ref = 1 + Cardinality(Uses(p)') + Cardinality(Refs(p)')
        BY <4>2, <4>3, <4>4, <4>5, FS_EmptySet
      <4> QED
        BY <4>2, <4>3, <4>6 DEF RefInv
    <3>3. CASE call[t].op \notin PdOps
      <4> DEFINE m == Unused(DOMAIN mrs)
      <4>1. /\ mrs' = With(mrs, m, [ref |-> 1, index |-> 0, lkey |-> 0, pd |-> 0, ibpd |-> 0,
                                    whole |-> TRUE, up |-> FALSE])
            /\ pds' = pds /\ call'[t].at = "index" /\ call'[t].at \notin RefAts
        BY <2>4, <3>3, AtIs DEF AllocElem, RefAts
      <4>2. /\ m \notin DOMAIN mrs /\ DOMAIN mrs' = DOMAIN mrs \cup {m} /\ ~mrs'[m].up
            /\ \A i \in DOMAIN mrs : mrs'[i] = mrs[i]
        BY <4>1, MrMade, Zenon
      <4> HIDE DEF m
      <4> QED
        BY <3>0, <3>1, <4>1, <4>2, RefKeeps
    <3> QED
      BY <3>2, <3>3
  <2> QED
    BY <1>1, <2>1, <2>2, <2>3, <2>4 DEF Alloc
<1>2. ASSUME NEW t \in Threads, Pds(t)
      PROVE  RefInv'
  <2>1. CASE bxroce_alloc_ucontext(t)
    <3>0. \A u \in Threads : u # t => call'[u] = call[u]
      BY <1>2, MemFrame DEF MemStep, Moves
    <3>1. pds' = pds /\ mrs' = mrs
      BY <2>1 DEF bxroce_alloc_ucontext
    <3>2. call[t].at \notin RefAts /\ call'[t].at \notin RefAts
      BY <2>1, AtIs DEF bxroce_alloc_ucontext, Begin, Idle, RefAts
    <3> QED
      BY <3>0, <3>1, <3>2, RefKeeps
  <2>2. ASSUME NEW f \in BOOLEAN, OpenDone(t, f)
        PROVE  RefInv'
    <3>0. \A u \in Threads : u # t => call'[u] = call[u]
      BY <1>2, MemFrame DEF MemStep, Moves
    <3>1. pds' = pds /\ mrs' = mrs
      BY <2>2 DEF OpenDone
    <3>2. call[t].at \notin RefAts /\ call'[t].at \notin RefAts
      BY <2>2, AtIs DEF OpenDone, Runs, Idle, RefAts
    <3> QED
      BY <3>0, <3>1, <3>2, RefKeeps
  <2>3. CASE bxroce_dealloc_ucontext(t)
    <3>1. /\ ctx.st = "open" /\ DropPd(ctx.ctx_pd) /\ mrs' = mrs /\ call' = call
          /\ (\A u \in Users : call[u] = Idle) /\ \A h \in held : h.own \notin Users
      BY <2>3 DEF bxroce_dealloc_ucontext
    <3>2. ctx.ctx_pd \in DOMAIN pds /\ \A h \in held : h.pd # ctx.ctx_pd
      BY <3>1 DEF OwnerInv
    <3>3. Uses(ctx.ctx_pd) = {}
      BY <3>2 DEF Uses, UseInv
    <3>4. Refs(ctx.ctx_pd) = {}
      <4> SUFFICES ASSUME NEW u \in Threads, call[u].pd = ctx.ctx_pd, call[u].at \in RefAts PROVE FALSE
        BY DEF Refs
      <4>1. call[u].op \in RegOps
        BY AtIs DEF CallOK, ElAts, IndexAts
      <4> QED
        BY <3>2, <4>1 DEF UseInv
    <3> QED
      BY <3>1, <3>2, <3>3, <3>4, RefDrops
  <2>4. CASE bxroce_get_ucontext_pd(t)
    <3>0. \A u \in Threads : u # t => call'[u] = call[u]
      BY <1>2, MemFrame DEF MemStep, Moves
    <3>1. pds' = pds /\ mrs' = mrs
      BY <2>4 DEF bxroce_get_ucontext_pd
    <3>2. call[t].at \notin RefAts /\ call'[t].at \notin RefAts
      BY <2>4, AtIs DEF bxroce_get_ucontext_pd, Begin, Idle, RefAts
    <3> QED
      BY <3>0, <3>1, <3>2, RefKeeps
  <2>5. CASE bxroce_alloc_pd(t)
    <3>0. \A u \in Threads : u # t => call'[u] = call[u]
      BY <1>2, MemFrame DEF MemStep, Moves
    <3>1. pds' = pds /\ mrs' = mrs
      BY <2>5 DEF bxroce_alloc_pd
    <3>2. call[t].at \notin RefAts /\ call'[t].at \notin RefAts
      BY <2>5, AtIs DEF bxroce_alloc_pd, Begin, Idle, RefAts
    <3> QED
      BY <3>0, <3>1, <3>2, RefKeeps
  <2>6. CASE AllocPdDone(t)
    <3>0. \A u \in Threads : u # t => call'[u] = call[u]
      BY <1>2, MemFrame DEF MemStep, Moves
    <3>1. pds' = pds /\ mrs' = mrs
      BY <2>6 DEF AllocPdDone
    <3>2. call[t].at \notin RefAts /\ call'[t].at \notin RefAts
      BY <2>6, AtIs DEF AllocPdDone, Runs, Idle, RefAts
    <3> QED
      BY <3>0, <3>1, <3>2, RefKeeps
  <2>7. ASSUME NEW h \in held, bxroce_dealloc_pd(t, h)
        PROVE  RefInv'
    <3>0. \A u \in Threads : u # t => call'[u] = call[u]
      BY <1>2, MemFrame DEF MemStep, Moves
    <3>1. mrs' = mrs /\ call' = call /\ call[t] = Idle /\ Uses(h.pd) = {} /\ ~Busy(h.pd)
      BY <2>7 DEF bxroce_dealloc_pd
    <3>2. CASE pds' = pds
      BY <3>0, <3>1, <3>2, RefKeeps DEF Idle, RefAts
    <3>3. CASE DropPd(h.pd)
      <4>1. Refs(h.pd) = {}
        <5> SUFFICES ASSUME NEW u \in Threads, call[u].pd = h.pd, call[u].at \in RefAts PROVE FALSE
          BY DEF Refs
        <5>1. call[u].op \in RegOps
          BY AtIs DEF CallOK, ElAts, IndexAts
        <5> QED
          BY <3>1, <5>1 DEF Busy, RegOps
      <4>2. h.pd \in DOMAIN pds
        BY DEF OwnerInv
      <4> QED
        BY <3>1, <3>3, <4>1, <4>2, RefDrops
    <3> QED
      BY <2>7, <3>2, <3>3 DEF bxroce_dealloc_pd
  <2> QED
    BY <1>2, <2>1, <2>2, <2>3, <2>4, <2>5, <2>6, <2>7 DEF Pds
<1>3. ASSUME NEW t \in Threads, Mrs(t)
      PROVE  RefInv'
  <2>1. ASSUME NEW h \in held, NEW op \in MrOps, RegMr(t, h, op)
        PROVE  RefInv'
    <3>0. \A u \in Threads : u # t => call'[u] = call[u]
      BY <1>3, MemFrame DEF MemStep, Moves
    <3>1. pds' = pds /\ mrs' = mrs
      BY <2>1 DEF RegMr
    <3>2. call[t].at \notin RefAts /\ call'[t].at \notin RefAts
      BY <2>1, AtIs DEF RegMr, Begin, Idle, RefAts
    <3> QED
      BY <3>0, <3>1, <3>2, RefKeeps
  <2>2. ASSUME NEW f \in BOOLEAN, AddIndex(t, f)
        PROVE  RefInv'
    <3>0. \A u \in Threads : u # t => call'[u] = call[u]
      BY <1>3, MemFrame DEF MemStep, Moves
    <3>1. /\ pds' = pds /\ call[t].at \in ElAts /\ DOMAIN mrs' = DOMAIN mrs
          /\ \A m \in DOMAIN mrs : m # call[t].el => mrs'[m] = mrs[m]
      BY <2>2 DEF AddIndex, Runs, ElAts, IndexAts, RefAts
    <3>2. call[t].el \in DOMAIN mrs /\ ~mrs[call[t].el].up
      BY <3>1 DEF ElInv
    <3>3. mrs'[call[t].el].up = mrs[call[t].el].up
      BY <2>2, <3>2 DEF AddIndex, MrShape
    <3>4. call[t].at \notin RefAts /\ call'[t].at \notin RefAts
      BY <2>2, AtIs DEF AddIndex, Runs, Idle, RefAts
    <3> QED
      BY <3>0, <3>1, <3>2, <3>3, <3>4, RefKeeps
  <2>3. CASE AddRef(t)
    <3>0. \A u \in Threads : u # t => call'[u] = call[u]
      BY <1>3, MemFrame DEF MemStep, Moves
    <3> DEFINE P == call[t].pd
    <3>1. /\ call[t].at = "ref" /\ call'[t].at = "key" /\ call'[t].pd = P /\ mrs' = mrs
          /\ pds' = [pds EXCEPT ![P].ref = @ + 1]
      BY <2>3, AtIs DEF AddRef, Runs
    <3>2. call[t].op \in RegOps
      BY <3>1, AtIs DEF CallOK, ElAts, IndexAts
    <3>3. P \in DOMAIN pds
      BY <3>2 DEF UseInv, OwnerInv
    <3>4. /\ DOMAIN pds' = DOMAIN pds /\ pds'[P].ref = pds[P].ref + 1
          /\ \A q \in DOMAIN pds : q # P => pds'[q] = pds[q]
      BY <3>1, <3>3 DEF PdShape
    <3> HIDE DEF P
    <3> SUFFICES ASSUME NEW p, p \in DOMAIN pds'
                 PROVE  pds'[p].ref = 1 + Cardinality(Uses(p)') + Cardinality(Refs(p)')
      BY DEF RefInv, Uses, Refs
    <3>5. Uses(p)' = Uses(p)
      BY <3>1 DEF Uses
    <3>6. Refs(p) \ {t} = Refs(p)' \ {t} /\ t \notin Refs(p) /\ (t \in Refs(p)' <=> p = P)
      BY <3>0, <3>1 DEF Refs, RefAts
    <3>7. pds[p].ref \in Int /\ p \in DOMAIN pds
      BY <3>4 DEF PdShape
    <3> QED
      BY <3>4, <3>5, <3>6, <3>7, RefMoves
  <2>4. CASE UmemFails(t)
    <3>0. \A u \in Threads : u # t => call'[u] = call[u]
      BY <1>3, MemFrame DEF MemStep, Moves
    <3>1. pds' = pds /\ mrs' = mrs
      BY <2>4 DEF UmemFails
    <3>2. call[t].at \in RefAts /\ call'[t].at \in RefAts /\ call'[t].pd = call[t].pd
      BY <2>4, AtIs DEF UmemFails, Runs, RefAts
    <3> QED
      BY <3>0, <3>1, <3>2, RefKeeps
  <2>5. CASE KeyRead(t)
    <3>0. \A u \in Threads : u # t => call'[u] = call[u]
      BY <1>3, MemFrame DEF MemStep, Moves
    <3>1. pds' = pds /\ mrs' = mrs
      BY <2>5 DEF KeyRead
    <3>2. call[t].at \in RefAts /\ call'[t].at \in RefAts /\ call'[t].pd = call[t].pd
      BY <2>5, AtIs DEF KeyRead, Runs, RefAts
    <3> QED
      BY <3>0, <3>1, <3>2, RefKeeps
  <2>6. CASE bxroce_mem_init(t)
    <3>0. \A u \in Threads : u # t => call'[u] = call[u]
      BY <1>3, MemFrame DEF MemStep, Moves
    <3>1. /\ pds' = pds /\ call[t].at \in ElAts /\ DOMAIN mrs' = DOMAIN mrs
          /\ \A m \in DOMAIN mrs : m # call[t].el => mrs'[m] = mrs[m]
      BY <2>6 DEF bxroce_mem_init, Runs, ElAts, IndexAts, RefAts
    <3>2. call[t].el \in DOMAIN mrs /\ ~mrs[call[t].el].up
      BY <3>1 DEF ElInv
    <3>3. mrs'[call[t].el].up = mrs[call[t].el].up
      BY <2>6, <3>2 DEF bxroce_mem_init, MrShape
    <3>4. call[t].at \in RefAts /\ call'[t].at \in RefAts /\ call'[t].pd = call[t].pd
      BY <2>6, AtIs DEF bxroce_mem_init, Runs, Idle, RefAts
    <3> QED
      BY <3>0, <3>1, <3>2, <3>3, <3>4, RefKeeps
  <2>7. ASSUME NEW s \in Starts, NEW l \in Lens, NEW b \in BOOLEAN, NEW n \in BOOLEAN,
             NEW f \in BOOLEAN, bxroce_reg_user_mr(t, s, l, b, n, f)
        PROVE  RefInv'
    <3>0. \A u \in Threads : u # t => call'[u] = call[u]
      BY <1>3, MemFrame DEF MemStep, Moves
    <3>1. /\ pds' = pds /\ call[t].at = "fill" /\ call[t].at \in RefAts /\ call[t].at \in ElAts
      BY <2>7 DEF bxroce_reg_user_mr, Runs, ElAts, IndexAts, RefAts
    <3>2. call[t].el \in DOMAIN mrs /\ ~mrs[call[t].el].up
      BY <3>1 DEF ElInv
    <3>3. CASE n
      <4>1. mrs' = mrs /\ call' = call
        BY <2>7, <3>3 DEF bxroce_reg_user_mr
      <4> QED
        BY <3>0, <3>1, <4>1, RefKeeps
    <3>4. CASE ~n
      <4> DEFINE w == Covers(bxroce_mem_init_user(Page, Huge, s, l, b, MaxSg), Page, Huge, s, l, b)
      <4>1. Filled(t, call[t].pd, ~f, w) /\ Go(t, IF f THEN At(t, "drop_pd") ELSE Idle)
        BY <2>7, <3>4 DEF bxroce_reg_user_mr
      <4> HIDE DEF w
      <4>2. /\ DOMAIN mrs' = DOMAIN mrs /\ \A m \in DOMAIN mrs : m # call[t].el => mrs'[m] = mrs[m]
            /\ mrs'[call[t].el].ibpd = call[t].pd /\ mrs'[call[t].el].up = ~f
        BY <3>2, <4>1, FilledIs
      <4>3. CASE f
        <5>1. ~mrs'[call[t].el].up
          BY <4>2, <4>3, Zenon
        <5>2. call'[t].at \in RefAts /\ call'[t].pd = call[t].pd
          BY <4>1, <4>3, AtIs DEF RefAts
        <5> QED
          BY <3>0, <3>1, <3>2, <4>2, <5>1, <5>2, RefKeeps
      <4>4. CASE ~f
        <5>1. mrs'[call[t].el].up
          BY <4>2, <4>4, Zenon
        <5>2. call'[t].at \notin RefAts
          BY <4>1, <4>4, AtIs DEF Idle, RefAts
        <5> QED
          BY <3>0, <3>1, <3>2, <4>2, <5>1, <5>2, RefHanded
      <4> QED
        BY <4>3, <4>4
    <3> QED
      BY <3>3, <3>4
  <2>8. ASSUME NEW f \in BOOLEAN, KernelMr(t, f)
        PROVE  RefInv'
    <3>0. \A u \in Threads : u # t => call'[u] = call[u]
      BY <1>3, MemFrame DEF MemStep, Moves
    <3>1. /\ pds' = pds /\ call[t].at = "fill" /\ call[t].at \in RefAts /\ call[t].at \in ElAts
      BY <2>8 DEF KernelMr, Runs, ElAts, IndexAts, RefAts
    <3>2. call[t].el \in DOMAIN mrs /\ ~mrs[call[t].el].up
      BY <3>1 DEF ElInv
    <3>3. Filled(t, call[t].pd, TRUE, TRUE) /\ Go(t, Idle)
      BY <2>8 DEF KernelMr, bxroce_get_dma_mr, UseInv
    <3>4. /\ DOMAIN mrs' = DOMAIN mrs /\ \A m \in DOMAIN mrs : m # call[t].el => mrs'[m] = mrs[m]
          /\ mrs'[call[t].el].ibpd = call[t].pd /\ mrs'[call[t].el].up
      BY <3>2, <3>3, FilledIs
    <3>5. call'[t].at \notin RefAts
      BY <3>3, AtIs DEF Idle, RefAts
    <3> QED
      BY <3>0, <3>1, <3>2, <3>4, <3>5, RefHanded
  <2>9. ASSUME NEW m \in DOMAIN mrs, bxroce_dereg_mr(t, m)
        PROVE  RefInv'
    <3>0. \A u \in Threads : u # t => call'[u] = call[u]
      BY <1>3, MemFrame DEF MemStep, Moves
    <3>1. /\ mrs[m].up /\ mrs' = [mrs EXCEPT ![m].up = FALSE] /\ pds' = pds /\ call[t] = Idle
          /\ call'[t].at = "drop_pd" /\ call'[t].pd = mrs[m].pd
      BY <2>9, AtIs DEF bxroce_dereg_mr, Begin
    <3>2. ~mrs'[m].up /\ DOMAIN mrs' = DOMAIN mrs /\ \A i \in DOMAIN mrs : i # m => mrs'[i] = mrs[i]
      BY <3>1 DEF MrShape
    <3>3. mrs[m].pd = mrs[m].ibpd
      BY <3>1 DEF UseInv
    <3> SUFFICES ASSUME NEW p, p \in DOMAIN pds'
                 PROVE  pds'[p].ref = 1 + Cardinality(Uses(p)') + Cardinality(Refs(p)')
      BY DEF RefInv, Uses, Refs
    <3>4. Uses(p) \ {m} = Uses(p)' \ {m} /\ m \notin Uses(p)' /\ (m \in Uses(p) <=> p = mrs[m].pd)
      BY <3>1, <3>2, <3>3 DEF Uses
    <3>5. Refs(p) \ {t} = Refs(p)' \ {t} /\ t \notin Refs(p) /\ (t \in Refs(p)' <=> p = mrs[m].pd)
      BY <3>0, <3>1 DEF Refs, RefAts, Idle
    <3>6. pds[p].ref \in Int /\ p \in DOMAIN pds
      BY <3>1 DEF PdShape
    <3> QED
      BY <3>1, <3>4, <3>5, <3>6, RefMoves
  <2>10. CASE DropPdOf(t)
    <3>0. \A u \in Threads : u # t => call'[u] = call[u]
      BY <1>3, MemFrame DEF MemStep, Moves
    <3> DEFINE P == call[t].pd
    <3>1. call[t].at = "drop_pd" /\ mrs' = mrs
      BY <2>10 DEF DropPdOf, Runs
    <3>2. P \in DOMAIN pds /\ P # 0 /\ pds[P].ref # 1
      BY <3>1, NotLast DEF RefAts
    <3>3. DropPd(P) /\ Go(t, At(t, "drop_index"))
      BY <2>10, <3>2 DEF DropPdOf
    <3>4. call'[t].at = "drop_index"
      BY <3>3, AtIs
    <3>5. /\ DOMAIN pds' = DOMAIN pds /\ pds'[P].ref = pds[P].ref - 1
          /\ \A q \in DOMAIN pds : q # P => pds'[q] = pds[q]
      BY <3>2, <3>3, PdDrop
    <3>6. call[t].pd = P
      OBVIOUS
    <3> HIDE DEF P
    <3> SUFFICES ASSUME NEW p, p \in DOMAIN pds'
                 PROVE  pds'[p].ref = 1 + Cardinality(Uses(p)') + Cardinality(Refs(p)')
      BY DEF RefInv, Uses, Refs
    <3>7. Uses(p)' = Uses(p)
      BY <3>1 DEF Uses
    <3>8. Refs(p) \ {t} = Refs(p)' \ {t} /\ t \notin Refs(p)' /\ (t \in Refs(p) <=> p = P)
      BY <3>0, <3>1, <3>4, <3>6 DEF Refs, RefAts
    <3>9. pds[p].ref \in Int /\ p \in DOMAIN pds
      BY <3>5 DEF PdShape
    <3> QED
      BY <3>5, <3>7, <3>8, <3>9, RefMoves
  <2>11. CASE DropIndex(t)
    <3>0. \A u \in Threads : u # t => call'[u] = call[u]
      BY <1>3, MemFrame DEF MemStep, Moves
    <3>1. pds' = pds /\ mrs' = mrs
      BY <2>11 DEF DropIndex
    <3>2. call[t].at \notin RefAts /\ call'[t].at \notin RefAts
      BY <2>11, AtIs DEF DropIndex, Runs, Idle, RefAts
    <3> QED
      BY <3>0, <3>1, <3>2, RefKeeps
  <2>12. CASE DropMr(t)
    <3>0. \A u \in Threads : u # t => call'[u] = call[u]
      BY <1>3, MemFrame DEF MemStep, Moves
    <3>1. pds' = pds /\ mrs' = Without(mrs, call[t].el) /\ call[t].at = "drop_mr" /\ call'[t].at = "none"
      BY <2>12, AtIs DEF DropMr, Runs, Idle
    <3>2. LET g == Without(mrs, call[t].el)
          IN /\ DOMAIN g = DOMAIN mrs \ {call[t].el}
             /\ \A m \in DOMAIN mrs : m # call[t].el => g[m] = mrs[m]
      BY WithoutIs, Zenon
    <3>3. ~mrs[call[t].el].up
      BY <3>1 DEF ElInv, ElAts
    <3>4. call[t].at \notin RefAts /\ call'[t].at \notin RefAts
      BY <3>1 DEF RefAts
    <3> QED
      BY <3>0, <3>1, <3>2, <3>3, <3>4, RefKeeps
  <2> QED
    BY <1>3, <2>1, <2>2, <2>3, <2>4, <2>5, <2>6, <2>7, <2>8, <2>9, <2>10, <2>11, <2>12 DEF Mrs
<1>4. ASSUME NEW t \in Threads, Cqs(t)
      PROVE  RefInv'
  <2>1. CallInv' /\ Moves(t, {"none"} \cup CqAts) /\ pds' = pds /\ mrs' = mrs
    BY <1>4, CqFrame
  <2>2. /\ call[t].at \notin RefAts /\ call'[t].at \notin RefAts
        /\ \A u \in Threads : u # t => call'[u] = call[u]
    BY <2>1 DEF Moves, CqAts, BitAts, AhAts, RefAts
  <2> QED
    BY <2>1, <2>2, RefKeeps
<1>5. ASSUME NEW t \in Threads, Ahs(t)
      PROVE  RefInv'
  <2>1. CallInv' /\ Moves(t, {"none"} \cup AhAts) /\ pds' = pds /\ mrs' = mrs
    BY <1>5, AhFrame
  <2>2. /\ call[t].at \notin RefAts /\ call'[t].at \notin RefAts
        /\ \A u \in Threads : u # t => call'[u] = call[u]
    BY <2>1 DEF Moves, CqAts, BitAts, AhAts, RefAts
  <2> QED
    BY <2>1, <2>2, RefKeeps
<1>6. ASSUME Life
      PROVE  RefInv'
  <2>1. call' = call
    BY <1>6, LifeRest
  <2>2. UNCHANGED <<pds, mrs>> \/ DOMAIN pds' = {}
    BY <1>6, LifeObjects, NoElems DEF bxroce_init_pools
  <2>3. CASE UNCHANGED <<pds, mrs>>
    <3>1. \A p : Uses(p)' = Uses(p) /\ Refs(p)' = Refs(p)
      BY <2>1, <2>3 DEF Uses, Refs
    <3> QED
      BY <2>3, <3>1 DEF RefInv
  <2> QED
    BY <2>2, <2>3 DEF RefInv
<1>7. CASE UNCHANGED vars
  <2>1. (\A p : Uses(p)' = Uses(p) /\ Refs(p)' = Refs(p)) /\ pds' = pds
    BY <1>7 DEF vars, Uses, Refs
  <2> QED
    BY <2>1 DEF RefInv
<1> QED
  BY <1>1, <1>2, <1>3, <1>4, <1>5, <1>6, <1>7 DEF Next

-----------------------------------------------------------------------------
(* The device is there while it is used.                                   *)

\* A thread that does something has a device.
LEMMA Serving ==
  ASSUME NEW t \in Threads, Alloc(t) \/ Pds(t) \/ Mrs(t) \/ Cqs(t) \/ Ahs(t), LifeInv
  PROVE  Main \in rocedev /\ topic # "life"
<1>1. Idle.at = "none" /\ Closed.st = "closed"
  BY DEF Idle, Closed
<1>2. ASSUME call[t] # Idle \/ ctx.st # "closed" \/ held # {}
      PROVE  Main \in rocedev /\ topic # "life"
  BY <1>1, <1>2 DEF LifeInv, Quiet
<1>3. CASE Alloc(t)
  BY <1>1, <1>2, <1>3 DEF Alloc, AllocGet, AllocInc, AllocUndo, AllocElem, Runs, Begin
<1>4. CASE Pds(t)
  BY <1>1, <1>2, <1>4
     DEF Pds, bxroce_alloc_ucontext, OpenDone, bxroce_dealloc_ucontext,
     bxroce_get_ucontext_pd, bxroce_alloc_pd, AllocPdDone, bxroce_dealloc_pd, Runs, Begin
<1>5. CASE Mrs(t)
  BY <1>1, <1>2, <1>5
     DEF Mrs, RegMr, AddIndex, AddRef, UmemFails, KeyRead, bxroce_mem_init,
     bxroce_reg_user_mr, KernelMr, bxroce_dereg_mr, DropPdOf, DropIndex, DropMr, Runs, Begin
<1>6. CASE Cqs(t)
  BY <1>1, <1>2, <1>6
     DEF Cqs, bxroce_create_cq, bxroce_hw_create_cq, bxroce_copy_cq_uresp, CqFault,
     CqStored, bxroce_mmap, bxroce_destroy_cq, bxroce_free_cqresource, CqUnmap, Runs, Begin
<1>7. CASE Ahs(t)
  BY <1>1, <1>2, <1>7
     DEF Ahs, bxroce_alloc_av, bxroce_create_ah, bxroce_free_av, bxroce_destroy_ah, Runs,
     Begin
<1> QED
  BY <1>3, <1>4, <1>5, <1>6, <1>7

\* A device that is not there is not used.
LEMMA LifeStep ==
  ASSUME CallInv, CtxInv, PdShape, MrShape, PoolShape, CqShape, AvInv, LifeInv, [Next]_vars
  PROVE  LifeInv'
<1>1. ASSUME NEW t \in Threads, Alloc(t)
      PROVE  LifeInv'
  <2>1. Main \in rocedev /\ topic # "life" /\ UNCHANGED <<life>>
    BY <1>1, Serving, MemFrame DEF MemStep
  <2> QED
    BY <2>1 DEF LifeInv
<1>2. ASSUME NEW t \in Threads, Pds(t)
      PROVE  LifeInv'
  <2>1. Main \in rocedev /\ topic # "life" /\ UNCHANGED <<life>>
    BY <1>2, Serving, MemFrame DEF MemStep
  <2> QED
    BY <2>1 DEF LifeInv
<1>3. ASSUME NEW t \in Threads, Mrs(t)
      PROVE  LifeInv'
  <2>1. Main \in rocedev /\ topic # "life" /\ UNCHANGED <<life>>
    BY <1>3, Serving, MemFrame DEF MemStep
  <2> QED
    BY <2>1 DEF LifeInv
<1>4. ASSUME NEW t \in Threads, Cqs(t)
      PROVE  LifeInv'
  <2>1. Main \in rocedev /\ topic # "life" /\ UNCHANGED <<life>>
    BY <1>4, Serving, CqFrame
  <2> QED
    BY <2>1 DEF LifeInv
<1>5. ASSUME NEW t \in Threads, Ahs(t)
      PROVE  LifeInv'
  <2>1. Main \in rocedev /\ topic # "life" /\ UNCHANGED <<life>>
    BY <1>5, Serving, AhFrame
  <2> QED
    BY <2>1 DEF LifeInv
<1>6. ASSUME Life
      PROVE  LifeInv'
  <2>1. ASSUME NEW n \in Nics, mac_register_dev(n)
        PROVE  LifeInv'
    <3>1. Quiet /\ Quiet'
      BY <2>1 DEF mac_register_dev, NicRest, Rest, LifeInv, Quiet
    <3> QED
      BY <2>1, <3>1 DEF mac_register_dev, NicRest, LifeInv
  <2>2. ASSUME NEW n \in Nics, mac_unregister_dev(n)
        PROVE  LifeInv'
    <3>1. Quiet /\ Quiet'
      BY <2>2 DEF mac_unregister_dev, NicRest, Rest, LifeInv, Quiet
    <3> QED
      BY <2>2, <3>1 DEF mac_unregister_dev, NicRest, LifeInv
  <2>3. CASE UpDown
    <3>1. Quiet /\ Quiet'
      BY <2>3 DEF UpDown, NicRest, Rest, LifeInv, Quiet
    <3> QED
      BY <2>3, <3>1 DEF UpDown, NicRest, LifeInv
  <2>4. ASSUME NEW x \in {"ip", "mac"}, NEW a \in Addrs, bxroce_inetaddr_event(x, a)
        PROVE  LifeInv'
    <3>1. Quiet /\ Quiet'
      BY <2>4 DEF bxroce_inetaddr_event, NicRest, Rest, LifeInv, Quiet
    <3> QED
      BY <2>4, <3>1 DEF bxroce_inetaddr_event, NicRest, LifeInv
  <2>5. ASSUME NEW f \in SUBSET list, bx_init_module(f)
        PROVE  LifeInv'
    <3>1. ~drv /\ drv' /\ list' = list /\ topic' = topic /\ rocedev' = list \ f /\ dev_list' = dev_list \cup list
      BY <2>5 DEF bx_init_module, bx_roce_register_driver
    <3>2. Quiet
      BY <3>1 DEF LifeInv
    <3>3. Quiet'
      <4>1. call' = call /\ ctx' = ctx /\ held' = held
        BY <2>5 DEF bx_init_module, Rest
      <4>2. UNCHANGED <<cqs, ahs, mrs>> \/ (cqs' = {} /\ ahs' = {} /\ DOMAIN mrs' = {})
        BY <2>5, NoElems DEF bx_init_module, bx_add, bxroce_init_pools, bxroce_init_cqqp, bxroce_create_ah_tbl
      <4> QED
        BY <3>2, <4>1, <4>2 DEF Quiet
    <3> QED
      BY <3>1, <3>3 DEF LifeInv
  <2>6. CASE bx_exit_module
    <3>1. Quiet /\ UNCHANGED <<call, ctx, held, cqs, ahs, mrs, list, topic>>
      BY <2>6 DEF bx_exit_module, Oops, Rest, Alone, Quiet, CtxInv
    <3>2. Quiet'
      BY <3>1 DEF Quiet
    <3>3. rocedev' = {} \/ UNCHANGED <<rocedev, dev_list, drv>>
      BY <2>6 DEF bx_exit_module, Oops
    <3> QED
      BY <3>1, <3>2, <3>3 DEF LifeInv
  <2> QED
    BY <1>6, <2>1, <2>2, <2>3, <2>4, <2>5, <2>6 DEF Life
<1>7. CASE UNCHANGED vars
  BY <1>7 DEF vars, LifeInv, Quiet
<1> QED
  BY <1>1, <1>2, <1>3, <1>4, <1>5, <1>6, <1>7 DEF Next

\* Calls keep their shape.
LEMMA CallStep ==
  ASSUME CallInv, CtxInv, PdShape, MrShape, PoolShape, CqShape, AvInv, [Next]_vars
  PROVE  CallInv'
<1>1. ASSUME NEW t \in Threads, Alloc(t)
      PROVE  CallInv'
  BY <1>1, MemFrame DEF MemStep
<1>2. ASSUME NEW t \in Threads, Pds(t)
      PROVE  CallInv'
  BY <1>2, MemFrame DEF MemStep
<1>3. ASSUME NEW t \in Threads, Mrs(t)
      PROVE  CallInv'
  BY <1>3, MemFrame DEF MemStep
<1>4. ASSUME NEW t \in Threads, Cqs(t)
      PROVE  CallInv'
  BY <1>4, CqFrame
<1>5. ASSUME NEW t \in Threads, Ahs(t)
      PROVE  CallInv'
  BY <1>5, AhFrame
<1>6. ASSUME Life
      PROVE  CallInv'
  BY <1>6, LifeRest DEF CallInv
<1>7. CASE UNCHANGED vars
  BY <1>7 DEF vars, CallInv
<1> QED
  BY <1>1, <1>2, <1>3, <1>4, <1>5, <1>6, <1>7 DEF Next

\* The calls under way.
Under == {t \in Threads : call[t] # Idle}

\* One thread goes on, comes or goes.
LEMMA NumMoves ==
  ASSUME NEW t \in Threads, \A u \in Threads : u # t => call'[u] = call[u], NumInv,
         \/ ncalls' = ncalls /\ (call[t] = Idle => call'[t] = Idle)
         \/ ncalls' = ncalls + 1 /\ ncalls < MaxCalls /\ call[t] = Idle
  PROVE  NumInv'
<1>1. IsFiniteSet(Under) /\ Under \ {t} = Under' \ {t}
  <2>1. Under \subseteq Threads
    BY DEF Under
  <2> QED
    BY <2>1, FS_Subset, Sizes DEF Under
<1> DEFINE A == Under
           B == Under'
<1>2. (t \in A <=> call[t] # Idle) /\ (t \in B <=> call'[t] # Idle)
  BY DEF Under, Idle
<1> HIDE DEF A, B
<1>3. /\ Cardinality(A) \in Nat /\ Cardinality(B) \in Nat
      /\ Cardinality(B) + (IF t \in A THEN 1 ELSE 0) = Cardinality(A) + (IF t \in B THEN 1 ELSE 0)
  BY <1>1, Differ DEF A, B
<1>4. ncalls \in 0..MaxCalls /\ Cardinality(A) <= ncalls /\ MaxCalls \in Nat
  BY Sizes DEF NumInv, A, Under
<1>5. Cardinality(B) <= ncalls' /\ ncalls' \in 0..MaxCalls
  BY <1>2, <1>3, <1>4
<1> QED
  BY <1>5 DEF NumInv, B, Under, Idle

\* No more calls are under way than have been made.
LEMMA NumStep ==
  ASSUME CallInv, CtxInv, PdShape, MrShape, PoolShape, CqShape, AvInv, NumInv, [Next]_vars
  PROVE  NumInv'
<1>1. ASSUME NEW t \in Threads, Alloc(t)
      PROVE  NumInv'
  <2>1. CASE AllocGet(t)
    <3>0. \A u \in Threads : u # t => call'[u] = call[u]
      BY <1>1, MemFrame DEF MemStep, Moves
    <3>1. \/ ncalls' = ncalls /\ (call[t] # Idle \/ call'[t] = call[t])
          \/ ncalls' = ncalls + 1 /\ ncalls < MaxCalls /\ call[t] = Idle
      BY <2>1 DEF AllocGet, Runs, Begin, Idle, Others
    <3> QED
      BY <3>0, <3>1, NumMoves
  <2>2. CASE AllocInc(t)
    <3>0. \A u \in Threads : u # t => call'[u] = call[u]
      BY <1>1, MemFrame DEF MemStep, Moves
    <3>1. \/ ncalls' = ncalls /\ (call[t] # Idle \/ call'[t] = call[t])
          \/ ncalls' = ncalls + 1 /\ ncalls < MaxCalls /\ call[t] = Idle
      BY <2>2 DEF AllocInc, Runs, Begin, Idle, Others
    <3> QED
      BY <3>0, <3>1, NumMoves
  <2>3. CASE AllocUndo(t)
    <3>0. \A u \in Threads : u # t => call'[u] = call[u]
      BY <1>1, MemFrame DEF MemStep, Moves
    <3>1. \/ ncalls' = ncalls /\ (call[t] # Idle \/ call'[t] = call[t])
          \/ ncalls' = ncalls + 1 /\ ncalls < MaxCalls /\ call[t] = Idle
      BY <2>3 DEF AllocUndo, Runs, Begin, Idle, Others
    <3> QED
      BY <3>0, <3>1, NumMoves
  <2>4. CASE AllocElem(t)
    <3>0. \A u \in Threads : u # t => call'[u] = call[u]
      BY <1>1, MemFrame DEF MemStep, Moves
    <3>1. \/ ncalls' = ncalls /\ (call[t] # Idle \/ call'[t] = call[t])
          \/ ncalls' = ncalls + 1 /\ ncalls < MaxCalls /\ call[t] = Idle
      BY <2>4 DEF AllocElem, Runs, Begin, Idle, Others
    <3> QED
      BY <3>0, <3>1, NumMoves
  <2> QED
    BY <1>1, <2>1, <2>2, <2>3, <2>4 DEF Alloc
<1>2. ASSUME NEW t \in Threads, Pds(t)
      PROVE  NumInv'
  <2>1. CASE bxroce_alloc_ucontext(t)
    <3>0. \A u \in Threads : u # t => call'[u] = call[u]
      BY <1>2, MemFrame DEF MemStep, Moves
    <3>1. \/ ncalls' = ncalls /\ (call[t] # Idle \/ call'[t] = call[t])
          \/ ncalls' = ncalls + 1 /\ ncalls < MaxCalls /\ call[t] = Idle
      BY <2>1 DEF bxroce_alloc_ucontext, Runs, Begin, Idle, Others
    <3> QED
      BY <3>0, <3>1, NumMoves
  <2>2. ASSUME NEW f \in BOOLEAN, OpenDone(t, f)
        PROVE  NumInv'
    <3>0. \A u \in Threads : u # t => call'[u] = call[u]
      BY <1>2, MemFrame DEF MemStep, Moves
    <3>1. \/ ncalls' = ncalls /\ (call[t] # Idle \/ call'[t] = call[t])
          \/ ncalls' = ncalls + 1 /\ ncalls < MaxCalls /\ call[t] = Idle
      BY <2>2 DEF OpenDone, Runs, Begin, Idle, Others
    <3> QED
      BY <3>0, <3>1, NumMoves
  <2>3. CASE bxroce_dealloc_ucontext(t)
    <3>0. \A u \in Threads : u # t => call'[u] = call[u]
      BY <1>2, MemFrame DEF MemStep, Moves
    <3>1. \/ ncalls' = ncalls /\ (call[t] # Idle \/ call'[t] = call[t])
          \/ ncalls' = ncalls + 1 /\ ncalls < MaxCalls /\ call[t] = Idle
      BY <2>3 DEF bxroce_dealloc_ucontext, Runs, Begin, Idle, Others
    <3> QED
      BY <3>0, <3>1, NumMoves
  <2>4. CASE bxroce_get_ucontext_pd(t)
    <3>0. \A u \in Threads : u # t => call'[u] = call[u]
      BY <1>2, MemFrame DEF MemStep, Moves
    <3>1. \/ ncalls' = ncalls /\ (call[t] # Idle \/ call'[t] = call[t])
          \/ ncalls' = ncalls + 1 /\ ncalls < MaxCalls /\ call[t] = Idle
      BY <2>4 DEF bxroce_get_ucontext_pd, Runs, Begin, Idle, Others
    <3> QED
      BY <3>0, <3>1, NumMoves
  <2>5. CASE bxroce_alloc_pd(t)
    <3>0. \A u \in Threads : u # t => call'[u] = call[u]
      BY <1>2, MemFrame DEF MemStep, Moves
    <3>1. \/ ncalls' = ncalls /\ (call[t] # Idle \/ call'[t] = call[t])
          \/ ncalls' = ncalls + 1 /\ ncalls < MaxCalls /\ call[t] = Idle
      BY <2>5 DEF bxroce_alloc_pd, Runs, Begin, Idle, Others
    <3> QED
      BY <3>0, <3>1, NumMoves
  <2>6. CASE AllocPdDone(t)
    <3>0. \A u \in Threads : u # t => call'[u] = call[u]
      BY <1>2, MemFrame DEF MemStep, Moves
    <3>1. \/ ncalls' = ncalls /\ (call[t] # Idle \/ call'[t] = call[t])
          \/ ncalls' = ncalls + 1 /\ ncalls < MaxCalls /\ call[t] = Idle
      BY <2>6 DEF AllocPdDone, Runs, Begin, Idle, Others
    <3> QED
      BY <3>0, <3>1, NumMoves
  <2>7. ASSUME NEW h \in held, bxroce_dealloc_pd(t, h)
        PROVE  NumInv'
    <3>0. \A u \in Threads : u # t => call'[u] = call[u]
      BY <1>2, MemFrame DEF MemStep, Moves
    <3>1. \/ ncalls' = ncalls /\ (call[t] # Idle \/ call'[t] = call[t])
          \/ ncalls' = ncalls + 1 /\ ncalls < MaxCalls /\ call[t] = Idle
      BY <2>7 DEF bxroce_dealloc_pd, Runs, Begin, Idle, Others
    <3> QED
      BY <3>0, <3>1, NumMoves
  <2> QED
    BY <1>2, <2>1, <2>2, <2>3, <2>4, <2>5, <2>6, <2>7 DEF Pds
<1>3. ASSUME NEW t \in Threads, Mrs(t)
      PROVE  NumInv'
  <2>1. ASSUME NEW h \in held, NEW op \in MrOps, RegMr(t, h, op)
        PROVE  NumInv'
    <3>0. \A u \in Threads : u # t => call'[u] = call[u]
      BY <1>3, MemFrame DEF MemStep, Moves
    <3>1. \/ ncalls' = ncalls /\ (call[t] # Idle \/ call'[t] = call[t])
          \/ ncalls' = ncalls + 1 /\ ncalls < MaxCalls /\ call[t] = Idle
      BY <2>1 DEF RegMr, Runs, Begin, Idle, Others
    <3> QED
      BY <3>0, <3>1, NumMoves
  <2>2. ASSUME NEW f \in BOOLEAN, AddIndex(t, f)
        PROVE  NumInv'
    <3>0. \A u \in Threads : u # t => call'[u] = call[u]
      BY <1>3, MemFrame DEF MemStep, Moves
    <3>1. \/ ncalls' = ncalls /\ (call[t] # Idle \/ call'[t] = call[t])
          \/ ncalls' = ncalls + 1 /\ ncalls < MaxCalls /\ call[t] = Idle
      BY <2>2 DEF AddIndex, Runs, Begin, Idle, Others
    <3> QED
      BY <3>0, <3>1, NumMoves
  <2>3. CASE AddRef(t)
    <3>0. \A u \in Threads : u # t => call'[u] = call[u]
      BY <1>3, MemFrame DEF MemStep, Moves
    <3>1. \/ ncalls' = ncalls /\ (call[t] # Idle \/ call'[t] = call[t])
          \/ ncalls' = ncalls + 1 /\ ncalls < MaxCalls /\ call[t] = Idle
      BY <2>3 DEF AddRef, Runs, Begin, Idle, Others
    <3> QED
      BY <3>0, <3>1, NumMoves
  <2>4. CASE UmemFails(t)
    <3>0. \A u \in Threads : u # t => call'[u] = call[u]
      BY <1>3, MemFrame DEF MemStep, Moves
    <3>1. \/ ncalls' = ncalls /\ (call[t] # Idle \/ call'[t] = call[t])
          \/ ncalls' = ncalls + 1 /\ ncalls < MaxCalls /\ call[t] = Idle
      BY <2>4 DEF UmemFails, Runs, Begin, Idle, Others
    <3> QED
      BY <3>0, <3>1, NumMoves
  <2>5. CASE KeyRead(t)
    <3>0. \A u \in Threads : u # t => call'[u] = call[u]
      BY <1>3, MemFrame DEF MemStep, Moves
    <3>1. \/ ncalls' = ncalls /\ (call[t] # Idle \/ call'[t] = call[t])
          \/ ncalls' = ncalls + 1 /\ ncalls < MaxCalls /\ call[t] = Idle
      BY <2>5 DEF KeyRead, Runs, Begin, Idle, Others
    <3> QED
      BY <3>0, <3>1, NumMoves
  <2>6. CASE bxroce_mem_init(t)
    <3>0. \A u \in Threads : u # t => call'[u] = call[u]
      BY <1>3, MemFrame DEF MemStep, Moves
    <3>1. \/ ncalls' = ncalls /\ (call[t] # Idle \/ call'[t] = call[t])
          \/ ncalls' = ncalls + 1 /\ ncalls < MaxCalls /\ call[t] = Idle
      BY <2>6 DEF bxroce_mem_init, Runs, Begin, Idle, Others
    <3> QED
      BY <3>0, <3>1, NumMoves
  <2>7. ASSUME NEW s \in Starts, NEW l \in Lens, NEW b \in BOOLEAN, NEW n \in BOOLEAN,
             NEW f \in BOOLEAN, bxroce_reg_user_mr(t, s, l, b, n, f)
        PROVE  NumInv'
    <3>0. \A u \in Threads : u # t => call'[u] = call[u]
      BY <1>3, MemFrame DEF MemStep, Moves
    <3>1. \/ ncalls' = ncalls /\ (call[t] # Idle \/ call'[t] = call[t])
          \/ ncalls' = ncalls + 1 /\ ncalls < MaxCalls /\ call[t] = Idle
      BY <2>7 DEF bxroce_reg_user_mr, Runs, Begin, Idle, Others
    <3> QED
      BY <3>0, <3>1, NumMoves
  <2>8. ASSUME NEW f \in BOOLEAN, KernelMr(t, f)
        PROVE  NumInv'
    <3>0. \A u \in Threads : u # t => call'[u] = call[u]
      BY <1>3, MemFrame DEF MemStep, Moves
    <3>1. \/ ncalls' = ncalls /\ (call[t] # Idle \/ call'[t] = call[t])
          \/ ncalls' = ncalls + 1 /\ ncalls < MaxCalls /\ call[t] = Idle
      BY <2>8 DEF KernelMr, Runs, Begin, Idle, Others
    <3> QED
      BY <3>0, <3>1, NumMoves
  <2>9. ASSUME NEW m \in DOMAIN mrs, bxroce_dereg_mr(t, m)
        PROVE  NumInv'
    <3>0. \A u \in Threads : u # t => call'[u] = call[u]
      BY <1>3, MemFrame DEF MemStep, Moves
    <3>1. \/ ncalls' = ncalls /\ (call[t] # Idle \/ call'[t] = call[t])
          \/ ncalls' = ncalls + 1 /\ ncalls < MaxCalls /\ call[t] = Idle
      BY <2>9 DEF bxroce_dereg_mr, Runs, Begin, Idle, Others
    <3> QED
      BY <3>0, <3>1, NumMoves
  <2>10. CASE DropPdOf(t)
    <3>0. \A u \in Threads : u # t => call'[u] = call[u]
      BY <1>3, MemFrame DEF MemStep, Moves
    <3>1. \/ ncalls' = ncalls /\ (call[t] # Idle \/ call'[t] = call[t])
          \/ ncalls' = ncalls + 1 /\ ncalls < MaxCalls /\ call[t] = Idle
      BY <2>10 DEF DropPdOf, Runs, Begin, Idle, Others
    <3> QED
      BY <3>0, <3>1, NumMoves
  <2>11. CASE DropIndex(t)
    <3>0. \A u \in Threads : u # t => call'[u] = call[u]
      BY <1>3, MemFrame DEF MemStep, Moves
    <3>1. \/ ncalls' = ncalls /\ (call[t] # Idle \/ call'[t] = call[t])
          \/ ncalls' = ncalls + 1 /\ ncalls < MaxCalls /\ call[t] = Idle
      BY <2>11 DEF DropIndex, Runs, Begin, Idle, Others
    <3> QED
      BY <3>0, <3>1, NumMoves
  <2>12. CASE DropMr(t)
    <3>0. \A u \in Threads : u # t => call'[u] = call[u]
      BY <1>3, MemFrame DEF MemStep, Moves
    <3>1. \/ ncalls' = ncalls /\ (call[t] # Idle \/ call'[t] = call[t])
          \/ ncalls' = ncalls + 1 /\ ncalls < MaxCalls /\ call[t] = Idle
      BY <2>12 DEF DropMr, Runs, Begin, Idle, Others
    <3> QED
      BY <3>0, <3>1, NumMoves
  <2> QED
    BY <1>3, <2>1, <2>2, <2>3, <2>4, <2>5, <2>6, <2>7, <2>8, <2>9, <2>10, <2>11, <2>12 DEF Mrs
<1>4. ASSUME NEW t \in Threads, Cqs(t)
      PROVE  NumInv'
  <2>1. CASE bxroce_create_cq(t)
    <3>0. \A u \in Threads : u # t => call'[u] = call[u]
      BY <1>4, CqFrame DEF Moves
    <3>1. \/ ncalls' = ncalls /\ (call[t] # Idle \/ call'[t] = call[t])
          \/ ncalls' = ncalls + 1 /\ ncalls < MaxCalls /\ call[t] = Idle
      BY <2>1 DEF bxroce_create_cq, Runs, Begin, Idle, CqRest
    <3> QED
      BY <3>0, <3>1, NumMoves
  <2>2. ASSUME NEW n \in BOOLEAN, bxroce_hw_create_cq(t, n)
        PROVE  NumInv'
    <3>0. \A u \in Threads : u # t => call'[u] = call[u]
      BY <1>4, CqFrame DEF Moves
    <3>1. \/ ncalls' = ncalls /\ (call[t] # Idle \/ call'[t] = call[t])
          \/ ncalls' = ncalls + 1 /\ ncalls < MaxCalls /\ call[t] = Idle
      BY <2>2 DEF bxroce_hw_create_cq, Runs, Begin, Idle, CqRest
    <3> QED
      BY <3>0, <3>1, NumMoves
  <2>3. CASE bxroce_copy_cq_uresp(t)
    <3>0. \A u \in Threads : u # t => call'[u] = call[u]
      BY <1>4, CqFrame DEF Moves
    <3>1. \/ ncalls' = ncalls /\ (call[t] # Idle \/ call'[t] = call[t])
          \/ ncalls' = ncalls + 1 /\ ncalls < MaxCalls /\ call[t] = Idle
      BY <2>3 DEF bxroce_copy_cq_uresp, Runs, Begin, Idle, CqRest
    <3> QED
      BY <3>0, <3>1, NumMoves
  <2>4. CASE CqFault(t)
    <3>0. \A u \in Threads : u # t => call'[u] = call[u]
      BY <1>4, CqFrame DEF Moves
    <3>1. \/ ncalls' = ncalls /\ (call[t] # Idle \/ call'[t] = call[t])
          \/ ncalls' = ncalls + 1 /\ ncalls < MaxCalls /\ call[t] = Idle
      BY <2>4 DEF CqFault, Runs, Begin, Idle, CqRest
    <3> QED
      BY <3>0, <3>1, NumMoves
  <2>5. CASE CqStored(t)
    <3>0. \A u \in Threads : u # t => call'[u] = call[u]
      BY <1>4, CqFrame DEF Moves
    <3>1. \/ ncalls' = ncalls /\ (call[t] # Idle \/ call'[t] = call[t])
          \/ ncalls' = ncalls + 1 /\ ncalls < MaxCalls /\ call[t] = Idle
      BY <2>5 DEF CqStored, Runs, Begin, Idle, CqRest
    <3> QED
      BY <3>0, <3>1, NumMoves
  <2>6. CASE bxroce_mmap(t)
    <3>0. \A u \in Threads : u # t => call'[u] = call[u]
      BY <1>4, CqFrame DEF Moves
    <3>1. \/ ncalls' = ncalls /\ (call[t] # Idle \/ call'[t] = call[t])
          \/ ncalls' = ncalls + 1 /\ ncalls < MaxCalls /\ call[t] = Idle
      BY <2>6 DEF bxroce_mmap, Runs, Begin, Idle, CqRest
    <3> QED
      BY <3>0, <3>1, NumMoves
  <2>7. ASSUME NEW q \in cqs, bxroce_destroy_cq(t, q)
        PROVE  NumInv'
    <3>0. \A u \in Threads : u # t => call'[u] = call[u]
      BY <1>4, CqFrame DEF Moves
    <3>1. \/ ncalls' = ncalls /\ (call[t] # Idle \/ call'[t] = call[t])
          \/ ncalls' = ncalls + 1 /\ ncalls < MaxCalls /\ call[t] = Idle
      BY <2>7 DEF bxroce_destroy_cq, Runs, Begin, Idle, CqRest
    <3> QED
      BY <3>0, <3>1, NumMoves
  <2>8. CASE bxroce_free_cqresource(t)
    <3>0. \A u \in Threads : u # t => call'[u] = call[u]
      BY <1>4, CqFrame DEF Moves
    <3>1. \/ ncalls' = ncalls /\ (call[t] # Idle \/ call'[t] = call[t])
          \/ ncalls' = ncalls + 1 /\ ncalls < MaxCalls /\ call[t] = Idle
      BY <2>8 DEF bxroce_free_cqresource, Runs, Begin, Idle, CqRest
    <3> QED
      BY <3>0, <3>1, NumMoves
  <2>9. CASE CqUnmap(t)
    <3>0. \A u \in Threads : u # t => call'[u] = call[u]
      BY <1>4, CqFrame DEF Moves
    <3>1. \/ ncalls' = ncalls /\ (call[t] # Idle \/ call'[t] = call[t])
          \/ ncalls' = ncalls + 1 /\ ncalls < MaxCalls /\ call[t] = Idle
      BY <2>9 DEF CqUnmap, Runs, Begin, Idle, CqRest
    <3> QED
      BY <3>0, <3>1, NumMoves
  <2> QED
    BY <1>4, <2>1, <2>2, <2>3, <2>4, <2>5, <2>6, <2>7, <2>8, <2>9 DEF Cqs
<1>5. ASSUME NEW t \in Threads, Ahs(t)
      PROVE  NumInv'
  <2>1. CASE bxroce_alloc_av(t)
    <3>0. \A u \in Threads : u # t => call'[u] = call[u]
      BY <1>5, AhFrame DEF Moves
    <3>1. \/ ncalls' = ncalls /\ (call[t] # Idle \/ call'[t] = call[t])
          \/ ncalls' = ncalls + 1 /\ ncalls < MaxCalls /\ call[t] = Idle
      BY <2>1 DEF bxroce_alloc_av, Runs, Begin, Idle, AhRest
    <3> QED
      BY <3>0, <3>1, NumMoves
  <2>2. ASSUME NEW y \in {"IPV4", "other"}, NEW v \in BOOLEAN, bxroce_create_ah(t, y, v)
        PROVE  NumInv'
    <3>0. \A u \in Threads : u # t => call'[u] = call[u]
      BY <1>5, AhFrame DEF Moves
    <3>1. \/ ncalls' = ncalls /\ (call[t] # Idle \/ call'[t] = call[t])
          \/ ncalls' = ncalls + 1 /\ ncalls < MaxCalls /\ call[t] = Idle
      BY <2>2 DEF bxroce_create_ah, Runs, Begin, Idle, AhRest
    <3> QED
      BY <3>0, <3>1, NumMoves
  <2>3. CASE bxroce_free_av(t)
    <3>0. \A u \in Threads : u # t => call'[u] = call[u]
      BY <1>5, AhFrame DEF Moves
    <3>1. \/ ncalls' = ncalls /\ (call[t] # Idle \/ call'[t] = call[t])
          \/ ncalls' = ncalls + 1 /\ ncalls < MaxCalls /\ call[t] = Idle
      BY <2>3 DEF bxroce_free_av, Runs, Begin, Idle, AhRest
    <3> QED
      BY <3>0, <3>1, NumMoves
  <2>4. ASSUME NEW a \in ahs, bxroce_destroy_ah(t, a)
        PROVE  NumInv'
    <3>0. \A u \in Threads : u # t => call'[u] = call[u]
      BY <1>5, AhFrame DEF Moves
    <3>1. \/ ncalls' = ncalls /\ (call[t] # Idle \/ call'[t] = call[t])
          \/ ncalls' = ncalls + 1 /\ ncalls < MaxCalls /\ call[t] = Idle
      BY <2>4 DEF bxroce_destroy_ah, Runs, Begin, Idle, AhRest
    <3> QED
      BY <3>0, <3>1, NumMoves
  <2> QED
    BY <1>5, <2>1, <2>2, <2>3, <2>4 DEF Ahs
<1>6. ASSUME Life
      PROVE  NumInv'
  BY <1>6, LifeRest DEF NumInv
<1>7. CASE UNCHANGED vars
  BY <1>7 DEF vars, NumInv
<1> QED
  BY <1>1, <1>2, <1>3, <1>4, <1>5, <1>6, <1>7 DEF Next

-----------------------------------------------------------------------------
(* Completion queues.                                                      *)

\* The number of a new queue is free.
LEMMA CqFound ==
  ASSUME CqShape, FindCq(0) # {}
  PROVE  bxroce_alloc_cqqpresource \in (0..(MaxCq - 1)) \ cq_bits
<1> DEFINE s == IF FindCq(next_cq) # {} THEN FindCq(next_cq) ELSE FindCq(0)
<1>1. s \subseteq Nat /\ s # {} /\ s \subseteq (0..(MaxCq - 1)) \ cq_bits
  BY Sizes DEF FindCq, CqShape
<1> HIDE DEF s
<1>2. Least(s) \in s
  BY <1>1, LeastIs
<1>3. bxroce_alloc_cqqpresource = Least(s)
  BY DEF bxroce_alloc_cqqpresource, s
<1> QED
  BY <1>1, <1>2, <1>3

\* Calls that are not about queues.
LEMMA CqOther ==
  ASSUME NEW t \in Threads, MemStep(t) \/ Ahs(t), CallInv, CtxInv, PdShape, MrShape, PoolShape, AvInv
  PROVE  /\ UNCHANGED cqres /\ call[t].at \notin CqAts /\ call'[t].at \notin CqAts
         /\ \A u \in Threads : u # t => call'[u] = call[u]
<1>1. CASE MemStep(t)
  <2>1. Moves(t, MemAts) /\ UNCHANGED cqres
    BY <1>1, MemFrame
  <2> QED
    BY <2>1 DEF Moves, MemAts, AllocAts, ElAts, IndexAts, RefAts, CqAts, BitAts
<1>2. CASE Ahs(t)
  <2>1. Moves(t, {"none"} \cup AhAts) /\ UNCHANGED cqres
    BY <1>2, AhFrame
  <2> QED
    BY <2>1 DEF Moves, AhAts, CqAts, BitAts
<1> QED
  BY <1>1, <1>2

\* Queues keep their shape.
LEMMA CqShapeStep ==
  ASSUME CallInv, CtxInv, PdShape, MrShape, PoolShape, CqShape, AvInv, LifeInv, [Next]_vars
  PROVE  CqShape'
<1>1. ASSUME NEW t \in Threads, Alloc(t)
      PROVE  CqShape'
  <2>1. /\ UNCHANGED cqres /\ call'[t].at \notin CqAts
        /\ \A u \in Threads : u # t => call'[u] = call[u]
    BY <1>1, CqOther DEF MemStep
  <2> QED
    BY <2>1 DEF CqShape
<1>2. ASSUME NEW t \in Threads, Pds(t)
      PROVE  CqShape'
  <2>1. /\ UNCHANGED cqres /\ call'[t].at \notin CqAts
        /\ \A u \in Threads : u # t => call'[u] = call[u]
    BY <1>2, CqOther DEF MemStep
  <2> QED
    BY <2>1 DEF CqShape
<1>3. ASSUME NEW t \in Threads, Mrs(t)
      PROVE  CqShape'
  <2>1. /\ UNCHANGED cqres /\ call'[t].at \notin CqAts
        /\ \A u \in Threads : u # t => call'[u] = call[u]
    BY <1>3, CqOther DEF MemStep
  <2> QED
    BY <2>1 DEF CqShape
<1>4. ASSUME NEW t \in Threads, Cqs(t)
      PROVE  CqShape'
  <2>1. CASE bxroce_create_cq(t)
    <3>0. \A u \in Threads : u # t => call'[u] = call[u]
      BY <1>4, CqFrame DEF Moves
    <3> DEFINE i == bxroce_alloc_cqqpresource
    <3>1. /\ FindCq(0) # {} /\ cq_bits' = cq_bits \cup {i} /\ next_cq' = (i + 1) % MaxCq
          /\ UNCHANGED <<cqs, pages>> /\ call'[t].at = "cq_mem"
      BY <2>1, AtIs DEF bxroce_create_cq, Begin
    <3>2. i \in 0..(MaxCq - 1)
      BY <3>1, CqFound
    <3> HIDE DEF i
    <3>3. (i + 1) % MaxCq \in 0..(MaxCq - 1)
      BY <3>2, Sizes
    <3> QED
      BY <3>0, <3>1, <3>2, <3>3 DEF CqShape
  <2>2. ASSUME NEW n \in BOOLEAN, bxroce_hw_create_cq(t, n)
        PROVE  CqShape'
    <3>0. \A u \in Threads : u # t => call'[u] = call[u]
      BY <1>4, CqFrame DEF Moves
    <3>1. UNCHANGED <<cq_bits, next_cq, cqs>>
      BY <2>2 DEF bxroce_hw_create_cq
    <3>2. CASE n
      <4>1. pages' = pages /\ call'[t].at = "none"
        BY <2>2, <3>2, AtIs DEF bxroce_hw_create_cq, Idle
      <4> QED
        BY <3>0, <3>1, <4>1 DEF CqShape, CqAts, BitAts
    <3>3. CASE ~n
      <4> DEFINE p == Unused(pages)
      <4>1. pages' = pages \cup {p} /\ call'[t].k = p
        BY <2>2, <3>3, AtIs DEF bxroce_hw_create_cq
      <4>2. p \in Nat \ {0}
        BY UnusedIs DEF CqShape
      <4> HIDE DEF p
      <4>3. IsFiniteSet(pages')
        BY <4>1, FS_AddElement DEF CqShape
      <4> QED
        BY <3>0, <3>1, <4>1, <4>2, <4>3 DEF CqShape
    <3> QED
      BY <3>2, <3>3
  <2>3. CASE bxroce_copy_cq_uresp(t)
    <3>0. \A u \in Threads : u # t => call'[u] = call[u]
      BY <1>4, CqFrame DEF Moves
    <3>1. UNCHANGED cqres
      BY <2>3 DEF bxroce_copy_cq_uresp
    <3>2. call'[t].at \in CqAts => call[t].at \in CqAts \ {"cq_mem"} /\ call'[t].k = call[t].k
      BY <2>3, AtIs DEF bxroce_copy_cq_uresp, Runs, Idle, CqAts, BitAts
    <3> QED
      BY <3>0, <3>1, <3>2 DEF CqShape
  <2>4. CASE CqFault(t)
    <3>0. \A u \in Threads : u # t => call'[u] = call[u]
      BY <1>4, CqFrame DEF Moves
    <3>1. UNCHANGED cqres
      BY <2>4 DEF CqFault
    <3>2. call'[t].at \in CqAts => call[t].at \in CqAts \ {"cq_mem"} /\ call'[t].k = call[t].k
      BY <2>4, AtIs DEF CqFault, Runs, Idle, CqAts, BitAts
    <3> QED
      BY <3>0, <3>1, <3>2 DEF CqShape
  <2>5. CASE CqStored(t)
    <3>0. \A u \in Threads : u # t => call'[u] = call[u]
      BY <1>4, CqFrame DEF Moves
    <3> DEFINE q == [id |-> call[t].el, page |-> call[t].k, own |-> t]
    <3>1. /\ UNCHANGED <<cq_bits, next_cq, pages>> /\ cqs' = cqs \cup {q} /\ call[t].at = "cq_put"
          /\ (call'[t].at = "none" \/ call'[t].k = call[t].k)
      BY <2>5, AtIs DEF CqStored, Runs, Idle
    <3>2. call[t].k # 0
      BY <3>1 DEF CqShape, CqAts, BitAts
    <3>3. q \in [id : Nat, page : Nat \ {0}, own : Threads]
      BY <3>2, AtIs DEF Calls
    <3> HIDE DEF q
    <3>4. IsFiniteSet(cqs')
      BY <3>1, FS_AddElement DEF CqShape
    <3> QED
      BY <3>0, <3>1, <3>2, <3>3, <3>4 DEF CqShape, CqAts, BitAts
  <2>6. CASE bxroce_mmap(t)
    <3>0. \A u \in Threads : u # t => call'[u] = call[u]
      BY <1>4, CqFrame DEF Moves
    <3>1. UNCHANGED cqres
      BY <2>6 DEF bxroce_mmap
    <3>2. call'[t].at \in CqAts => call[t].at \in CqAts \ {"cq_mem"} /\ call'[t].k = call[t].k
      BY <2>6, AtIs DEF bxroce_mmap, Runs, Idle, CqAts, BitAts
    <3> QED
      BY <3>0, <3>1, <3>2 DEF CqShape
  <2>7. ASSUME NEW q \in cqs, bxroce_destroy_cq(t, q)
        PROVE  CqShape'
    <3>0. \A u \in Threads : u # t => call'[u] = call[u]
      BY <1>4, CqFrame DEF Moves
    <3>1. UNCHANGED <<cq_bits, next_cq, pages>> /\ cqs' = cqs \ {q} /\ call'[t].k = q.page
      BY <2>7, AtIs DEF bxroce_destroy_cq, Begin
    <3>2. IsFiniteSet(cqs') /\ q.page # 0
      BY <3>1, FS_RemoveElement DEF CqShape
    <3> QED
      BY <3>0, <3>1, <3>2 DEF CqShape
  <2>8. CASE bxroce_free_cqresource(t)
    <3>0. \A u \in Threads : u # t => call'[u] = call[u]
      BY <1>4, CqFrame DEF Moves
    <3>1. /\ cq_bits' = cq_bits \ {call[t].el} /\ pages' = pages \ {call[t].k} /\ call[t].at = "cq_free"
          /\ UNCHANGED <<next_cq, cqs>> /\ (call'[t].at = "none" \/ call'[t].k = call[t].k)
      BY <2>8, AtIs DEF bxroce_free_cqresource, Runs, Idle
    <3>2. IsFiniteSet(pages')
      BY <3>1, FS_RemoveElement DEF CqShape
    <3> QED
      BY <3>0, <3>1, <3>2 DEF CqShape, CqAts, BitAts
  <2>9. CASE CqUnmap(t)
    <3>0. \A u \in Threads : u # t => call'[u] = call[u]
      BY <1>4, CqFrame DEF Moves
    <3>1. UNCHANGED cqres
      BY <2>9 DEF CqUnmap
    <3>2. call'[t].at \in CqAts => call[t].at \in CqAts \ {"cq_mem"} /\ call'[t].k = call[t].k
      BY <2>9, AtIs DEF CqUnmap, Runs, Idle, CqAts, BitAts
    <3> QED
      BY <3>0, <3>1, <3>2 DEF CqShape
  <2> QED
    BY <1>4, <2>1, <2>2, <2>3, <2>4, <2>5, <2>6, <2>7, <2>8, <2>9 DEF Cqs
<1>5. ASSUME NEW t \in Threads, Ahs(t)
      PROVE  CqShape'
  <2>1. /\ UNCHANGED cqres /\ call'[t].at \notin CqAts
        /\ \A u \in Threads : u # t => call'[u] = call[u]
    BY <1>5, CqOther DEF MemStep
  <2> QED
    BY <2>1 DEF CqShape
<1>6. ASSUME Life
      PROVE  CqShape'
  <2>1. call' = call /\ (UNCHANGED cqres \/ bxroce_init_cqqp)
    BY <1>6, LifeRest, LifeObjects
  <2>2. CASE UNCHANGED cqres
    BY <2>1, <2>2 DEF CqShape
  <2>3. CASE bxroce_init_cqqp
    <3>1. cq_bits' = {0, 1, 2} /\ next_cq' = 0 /\ cqs' = {} /\ pages' = {}
      BY <2>3 DEF bxroce_init_cqqp
    <3>2. {0, 1, 2} \subseteq 0..(MaxCq - 1) /\ 0 \in 0..(MaxCq - 1) /\ IsFiniteSet({})
      BY Sizes, FS_EmptySet
    <3> QED
      BY <2>1, <3>1, <3>2 DEF CqShape
  <2> QED
    BY <2>1, <2>2, <2>3
<1>7. CASE UNCHANGED vars
  BY <1>7 DEF vars, CqShape
<1> QED
  BY <1>1, <1>2, <1>3, <1>4, <1>5, <1>6, <1>7 DEF Next

\* No number comes or goes.
LEMMA BitKeeps ==
  ASSUME NEW t \in Threads, \A u \in Threads : u # t => call'[u] = call[u], BitInv,
         UNCHANGED <<cq_bits, cq_table, cqs>>,
         call'[t].at \in BitAts => call[t].at \in BitAts /\ call'[t].el = call[t].el
  PROVE  BitInv'
BY DEF BitInv

\* A number belongs to one queue or to one call.
LEMMA BitStep ==
  ASSUME CallInv, CtxInv, PdShape, MrShape, PoolShape, CqShape, AvInv, LifeInv, BitInv, [Next]_vars
  PROVE  BitInv'
<1>1. ASSUME NEW t \in Threads, Alloc(t)
      PROVE  BitInv'
  <2>1. /\ UNCHANGED cqres /\ call'[t].at \notin CqAts
        /\ \A u \in Threads : u # t => call'[u] = call[u]
    BY <1>1, CqOther DEF MemStep
  <2> QED
    BY <2>1, BitKeeps DEF CqAts
<1>2. ASSUME NEW t \in Threads, Pds(t)
      PROVE  BitInv'
  <2>1. /\ UNCHANGED cqres /\ call'[t].at \notin CqAts
        /\ \A u \in Threads : u # t => call'[u] = call[u]
    BY <1>2, CqOther DEF MemStep
  <2> QED
    BY <2>1, BitKeeps DEF CqAts
<1>3. ASSUME NEW t \in Threads, Mrs(t)
      PROVE  BitInv'
  <2>1. /\ UNCHANGED cqres /\ call'[t].at \notin CqAts
        /\ \A u \in Threads : u # t => call'[u] = call[u]
    BY <1>3, CqOther DEF MemStep
  <2> QED
    BY <2>1, BitKeeps DEF CqAts
<1>4. ASSUME NEW t \in Threads, Cqs(t)
      PROVE  BitInv'
  <2>1. CASE bxroce_create_cq(t)
    <3>0. \A u \in Threads : u # t => call'[u] = call[u]
      BY <1>4, CqFrame DEF Moves
    <3> DEFINE i == bxroce_alloc_cqqpresource
    <3>1. /\ FindCq(0) # {} /\ cq_bits' = cq_bits \cup {i} /\ UNCHANGED <<cqs, cq_table>>
          /\ call'[t].at = "cq_mem" /\ call'[t].el = i
      BY <2>1, AtIs DEF bxroce_create_cq, Begin
    <3>2. i \notin cq_bits
      BY <3>1, CqFound
    <3> HIDE DEF i
    <3> QED
      BY <3>0, <3>1, <3>2 DEF BitInv
  <2>2. ASSUME NEW n \in BOOLEAN, bxroce_hw_create_cq(t, n)
        PROVE  BitInv'
    <3>0. \A u \in Threads : u # t => call'[u] = call[u]
      BY <1>4, CqFrame DEF Moves
    <3>1. UNCHANGED <<cq_bits, cq_table, cqs>>
      BY <2>2 DEF bxroce_hw_create_cq
    <3>2. call'[t].at \in BitAts => call[t].at \in BitAts /\ call'[t].el = call[t].el
      BY <2>2, AtIs DEF bxroce_hw_create_cq, Runs, Idle, BitAts
    <3> QED
      BY <3>0, <3>1, <3>2, BitKeeps
  <2>3. CASE bxroce_copy_cq_uresp(t)
    <3>0. \A u \in Threads : u # t => call'[u] = call[u]
      BY <1>4, CqFrame DEF Moves
    <3>1. UNCHANGED <<cq_bits, cq_table, cqs>>
      BY <2>3 DEF bxroce_copy_cq_uresp
    <3>2. call'[t].at \in BitAts => call[t].at \in BitAts /\ call'[t].el = call[t].el
      BY <2>3, AtIs DEF bxroce_copy_cq_uresp, Runs, Idle, BitAts
    <3> QED
      BY <3>0, <3>1, <3>2, BitKeeps
  <2>4. CASE CqFault(t)
    <3>0. \A u \in Threads : u # t => call'[u] = call[u]
      BY <1>4, CqFrame DEF Moves
    <3>1. UNCHANGED <<cq_bits, cq_table, cqs>>
      BY <2>4 DEF CqFault
    <3>2. call'[t].at \in BitAts => call[t].at \in BitAts /\ call'[t].el = call[t].el
      BY <2>4, AtIs DEF CqFault, Runs, Idle, BitAts
    <3> QED
      BY <3>0, <3>1, <3>2, BitKeeps
  <2>5. CASE CqStored(t)
    <3>0. \A u \in Threads : u # t => call'[u] = call[u]
      BY <1>4, CqFrame DEF Moves
    <3> DEFINE q == [id |-> call[t].el, page |-> call[t].k, own |-> t]
               e == call[t].el
    <3>1. /\ cq_bits' = cq_bits /\ cqs' = cqs \cup {q} /\ cq_table' = With(cq_table, e, call[t].k)
          /\ call[t].at \in BitAts /\ call'[t].at \notin BitAts
      BY <2>5, AtIs DEF CqStored, Runs, Idle, BitAts
    <3>2. q.id = e /\ q.page = call[t].k
      OBVIOUS
    <3>3. e \in cq_bits /\ (\A p \in cqs : p.id # e) /\ \A u \in Threads : u # t /\ call[u].at \in BitAts => call[u].el # e
      BY <3>1 DEF BitInv
    <3>4. /\ e \in DOMAIN cq_table' /\ cq_table'[e] = call[t].k
          /\ \A i \in DOMAIN cq_table : i # e => i \in DOMAIN cq_table' /\ cq_table'[i] = cq_table[i]
      BY <3>1 DEF With
    <3> HIDE DEF q, e
    <3> QED
      BY <3>0, <3>1, <3>2, <3>3, <3>4 DEF BitInv
  <2>6. CASE bxroce_mmap(t)
    <3>0. \A u \in Threads : u # t => call'[u] = call[u]
      BY <1>4, CqFrame DEF Moves
    <3>1. UNCHANGED <<cq_bits, cq_table, cqs>>
      BY <2>6 DEF bxroce_mmap
    <3>2. call'[t].at \in BitAts => call[t].at \in BitAts /\ call'[t].el = call[t].el
      BY <2>6, AtIs DEF bxroce_mmap, Runs, Idle, BitAts
    <3> QED
      BY <3>0, <3>1, <3>2, BitKeeps
  <2>7. ASSUME NEW q \in cqs, bxroce_destroy_cq(t, q)
        PROVE  BitInv'
    <3>0. \A u \in Threads : u # t => call'[u] = call[u]
      BY <1>4, CqFrame DEF Moves
    <3>1. /\ cq_bits' = cq_bits /\ cqs' = cqs \ {q} /\ cq_table' = Without(cq_table, q.id)
          /\ call'[t].at = "cq_free" /\ call'[t].el = q.id
      BY <2>7, AtIs DEF bxroce_destroy_cq, Begin
    <3>2. LET g == Without(cq_table, q.id)
          IN /\ DOMAIN g = DOMAIN cq_table \ {q.id}
             /\ \A i \in DOMAIN cq_table : i # q.id => g[i] = cq_table[i]
      BY WithoutIs, Zenon
    <3>3. \A i \in DOMAIN cq_table : i # q.id => i \in DOMAIN cq_table' /\ cq_table'[i] = cq_table[i]
      BY <3>1, <3>2
    <3>4. \A p \in cqs' : p \in cqs /\ p.id # q.id
      BY <3>1 DEF BitInv
    <3>5. q.id \in cq_bits /\ \A u \in Threads : call[u].at \in BitAts => call[u].el # q.id
      BY DEF BitInv
    <3> QED
      BY <3>0, <3>1, <3>3, <3>4, <3>5 DEF BitInv
  <2>8. CASE bxroce_free_cqresource(t)
    <3>0. \A u \in Threads : u # t => call'[u] = call[u]
      BY <1>4, CqFrame DEF Moves
    <3>1. /\ cq_bits' = cq_bits \ {call[t].el} /\ UNCHANGED <<cqs, cq_table>>
          /\ call[t].at \in BitAts /\ call'[t].at \notin BitAts
      BY <2>8, AtIs DEF bxroce_free_cqresource, Runs, Idle, BitAts
    <3> QED
      BY <3>0, <3>1 DEF BitInv
  <2>9. CASE CqUnmap(t)
    <3>0. \A u \in Threads : u # t => call'[u] = call[u]
      BY <1>4, CqFrame DEF Moves
    <3>1. UNCHANGED <<cq_bits, cq_table, cqs>>
      BY <2>9 DEF CqUnmap
    <3>2. call'[t].at \in BitAts => call[t].at \in BitAts /\ call'[t].el = call[t].el
      BY <2>9, AtIs DEF CqUnmap, Runs, Idle, BitAts
    <3> QED
      BY <3>0, <3>1, <3>2, BitKeeps
  <2> QED
    BY <1>4, <2>1, <2>2, <2>3, <2>4, <2>5, <2>6, <2>7, <2>8, <2>9 DEF Cqs
<1>5. ASSUME NEW t \in Threads, Ahs(t)
      PROVE  BitInv'
  <2>1. /\ UNCHANGED cqres /\ call'[t].at \notin CqAts
        /\ \A u \in Threads : u # t => call'[u] = call[u]
    BY <1>5, CqOther DEF MemStep
  <2> QED
    BY <2>1, BitKeeps DEF CqAts
<1>6. ASSUME Life
      PROVE  BitInv'
  <2>1. call' = call /\ (UNCHANGED cqres \/ bxroce_init_cqqp) /\ \A t \in Threads : call[t] = Idle
    BY <1>6, LifeRest, LifeObjects
  <2> QED
    BY <2>1 DEF BitInv, bxroce_init_cqqp, Idle, BitAts
<1>7. CASE UNCHANGED vars
  BY <1>7 DEF vars, BitInv
<1> QED
  BY <1>1, <1>2, <1>3, <1>4, <1>5, <1>6, <1>7 DEF Next

-----------------------------------------------------------------------------
(* The mappings of the process.                                            *)

\* The list of the mappings, given the queues and calls that have one.
Listed(l, n) ==
  /\ Len(l) = 1 + n /\ l[1] = AhTable
  /\ \A i \in 2..Len(l) : l[i].len = CqLen

\* The sets that are counted are finite.
LEMMA ListSets ==
  ASSUME CqShape
  PROVE  IsFiniteSet(UserCqs) /\ IsFiniteSet(Mapping)
<1>1. UserCqs \subseteq cqs /\ Mapping \subseteq Threads
  BY Sizes DEF UserCqs, Mapping
<1> QED
  BY <1>1, FS_Subset, Sizes DEF CqShape

\* Neither the list nor what is on it changes.
LEMMA ListKeeps ==
  ASSUME NEW t \in Threads, \A u \in Threads : u # t => call'[u] = call[u], ListInv,
         UNCHANGED cqs, ctx'.mm_head = ctx.mm_head, ctx'.st = ctx.st,
         t \in Users /\ call'[t].at \in CqAts => ctx.st = "open",
         t \in Users => (Maps(t)' <=> Maps(t)),
         call'[t].at \in {"cq_map", "cq_unmap"} => t \in Users,
         call'[t].at = "cq_unmap" => call'[t].op = "destroy_cq",
         call'[t].at # "mmap" \/ call'[t] = call[t]
  PROVE  ListInv'
<1>1. UserCqs' = UserCqs
  BY DEF UserCqs
<1>2. Mapping' = Mapping
  BY Sizes DEF Mapping, Maps
<1>3. ctx'.st # "open" => UserCqs' = {} /\ \A u \in Users : call'[u].at \notin CqAts
  BY <1>1, Sizes DEF ListInv
<1>4. ctx'.st # "closed" =>
       /\ Len(ctx'.mm_head) = 1 + Cardinality(UserCqs') + Cardinality(Mapping')
       /\ ctx'.mm_head[1] = AhTable
       /\ \A i \in 2..Len(ctx'.mm_head) : ctx'.mm_head[i].len = CqLen
  BY <1>1, <1>2 DEF ListInv
<1>5. \A u \in Threads :
       /\ call'[u].at \in {"cq_map", "cq_unmap", "mmap"} => u \in Users
       /\ call'[u].at = "cq_unmap" => call'[u].op = "destroy_cq"
       /\ call'[u].at = "mmap" => \E q \in cqs' : q.page = call'[u].k /\ q.own = u
  BY DEF ListInv
<1> QED
  BY <1>3, <1>4, <1>5 DEF ListInv

\* The context is opened or closed while it has no queues.
LEMMA ListBare ==
  ASSUME NEW t \in Threads, \A u \in Threads : u # t => call'[u] = call[u], ListInv, UNCHANGED cqs,
         UserCqs = {}, \A u \in Users : call[u].at \notin CqAts, call'[t].at \notin CqAts,
         ctx'.st # "closed" => Listed(ctx'.mm_head, 0)
  PROVE  ListInv'
<1>1. UserCqs' = {}
  BY DEF UserCqs
<1>2. \A u \in Users : call'[u].at \notin CqAts
  BY Sizes
<1>3. Mapping' = {}
  BY <1>2 DEF Mapping, Maps, CqAts, BitAts
<1>4. ctx'.st # "closed" =>
       /\ Len(ctx'.mm_head) = 1 + Cardinality(UserCqs') + Cardinality(Mapping')
       /\ ctx'.mm_head[1] = AhTable
       /\ \A i \in 2..Len(ctx'.mm_head) : ctx'.mm_head[i].len = CqLen
  BY <1>1, <1>3, FS_EmptySet DEF Listed
<1>5. \A u \in Threads :
       /\ call'[u].at \in {"cq_map", "cq_unmap", "mmap"} => u \in Users
       /\ call'[u].at = "cq_unmap" => call'[u].op = "destroy_cq"
       /\ call'[u].at = "mmap" => \E q \in cqs' : q.page = call'[u].k /\ q.own = u
  BY DEF ListInv, CqAts, BitAts
<1> QED
  BY <1>1, <1>2, <1>4, <1>5 DEF ListInv

\* A context without queues has one entry.
LEMMA Bare ==
  ASSUME ListInv, ctx.st # "closed", UserCqs = {}, Mapping = {}
  PROVE  Listed(ctx.mm_head, 0)
<1>1. Cardinality(UserCqs) = 0 /\ Cardinality(Mapping) = 0
  BY FS_EmptySet
<1>2. /\ Len(ctx.mm_head) = 1 + Cardinality(UserCqs) + Cardinality(Mapping)
      /\ ctx.mm_head[1] = AhTable /\ \A i \in 2..Len(ctx.mm_head) : ctx.mm_head[i].len = CqLen
  BY DEF ListInv
<1>3. Len(ctx.mm_head) = 1 + 0
  BY <1>1, <1>2
<1> QED
  BY <1>2, <1>3 DEF Listed

\* One call and one queue of the process change.
LEMMA ListMoves ==
  ASSUME NEW t, NEW q, CqShape, UserCqs \ {q} = UserCqs' \ {q}, Mapping \ {t} = Mapping' \ {t}
  PROVE  /\ Cardinality(UserCqs) \in Nat /\ Cardinality(Mapping) \in Nat
         /\ Cardinality(UserCqs') + Cardinality(Mapping')
              = Cardinality(UserCqs) + Cardinality(Mapping)
                  + (IF q \in UserCqs' THEN 1 ELSE 0) - (IF q \in UserCqs THEN 1 ELSE 0)
                  + (IF t \in Mapping' THEN 1 ELSE 0) - (IF t \in Mapping THEN 1 ELSE 0)
<1> DEFINE A == UserCqs
           B == UserCqs'
           C == Mapping
           D == Mapping'
<1>1. IsFiniteSet(A) /\ IsFiniteSet(C)
  BY ListSets
<1> HIDE DEF A, B, C, D
<1>2. /\ Cardinality(A) \in Nat /\ Cardinality(B) \in Nat
      /\ Cardinality(B) + (IF q \in A THEN 1 ELSE 0) = Cardinality(A) + (IF q \in B THEN 1 ELSE 0)
  BY <1>1, Differ DEF A, B
<1>3. /\ Cardinality(C) \in Nat /\ Cardinality(D) \in Nat
      /\ Cardinality(D) + (IF t \in C THEN 1 ELSE 0) = Cardinality(C) + (IF t \in D THEN 1 ELSE 0)
  BY <1>1, Differ DEF C, D
<1>4. Cardinality(B) + Cardinality(D)
        = Cardinality(A) + Cardinality(C)
            + (IF q \in B THEN 1 ELSE 0) - (IF q \in A THEN 1 ELSE 0)
            + (IF t \in D THEN 1 ELSE 0) - (IF t \in C THEN 1 ELSE 0)
  BY <1>2, <1>3
<1> QED
  BY <1>2, <1>3, <1>4 DEF A, B, C, D

\* A mapping is added at the end.
LEMMA ListAdds ==
  ASSUME NEW l \in Seq([page : Nat, len : Nat]), NEW n \in Nat, NEW p \in Nat, Listed(l, n)
  PROVE  Listed(bxroce_add_mmap(l, p, CqLen), n + 1)
<1> DEFINE r == Append(l, [page |-> p, len |-> CqLen])
<1>1. Len(l) \in Nat /\ Len(l) >= 1
  BY LenProperties DEF Listed
<1>2. Len(r) = Len(l) + 1 /\ r[Len(l) + 1].len = CqLen /\ \A i \in 1..Len(l) : r[i] = l[i]
  BY <1>1
<1> HIDE DEF r
<1>3. r[1] = AhTable /\ \A i \in 2..Len(r) : r[i].len = CqLen
  BY <1>1, <1>2 DEF Listed
<1>4. Listed(r, n + 1)
  BY <1>1, <1>2, <1>3 DEF Listed
<1> QED
  BY <1>4 DEF bxroce_add_mmap, r

\* The entry that is removed is the second one.
LEMMA ListCuts ==
  ASSUME NEW l \in Seq([page : Nat, len : Nat]), NEW n \in Nat, NEW p \in Nat \ {0}, Listed(l, n), n > 0
  PROVE  Listed(bxroce_del_mmap(l, p, CqLen), n - 1)
<1> DEFINE hits == {i \in DOMAIN l : Matches(l[i], p, CqLen)}
           r == SubSeq(l, 1, 2 - 1) \o SubSeq(l, 2 + 1, Len(l))
<1>1. Len(l) \in Nat /\ Len(l) >= 2 /\ DOMAIN l = 1..Len(l)
  BY LenProperties DEF Listed
<1>2. 1 \notin hits
  BY DEF Matches, Listed, AhTable, CqLen
<1>3. 2 \in hits
  BY <1>1 DEF Matches, Listed
<1>4. hits \subseteq Nat
  BY <1>1
<1> HIDE DEF hits
<1>5. Least(hits) \in hits /\ Least(hits) <= 2
  BY <1>3, <1>4, LeastIs
<1>6. Least(hits) = 2
  <2>1. Least(hits) \in 1..Len(l)
    BY <1>1, <1>5 DEF hits
  <2> QED
    BY <1>1, <1>2, <1>5, <2>1
<1>7. bxroce_del_mmap(l, p, CqLen) = r
  BY <1>3, <1>6 DEF bxroce_del_mmap, hits
<1>8. /\ Len(r) = Len(l) - 1 /\ \A i \in 1..Len(r) : r[i] = IF i < 2 THEN l[i] ELSE l[i + 1]
  BY <1>1, 2 \in 1..Len(l), Cut
<1> HIDE DEF r
<1>9. r[1] = AhTable
  BY <1>1, <1>8 DEF Listed
<1>10. ASSUME NEW i \in 2..Len(r) PROVE r[i].len = CqLen
  <2> DEFINE m == Len(r)
             k == Len(l)
  <2>1. m = k - 1 /\ k \in Nat /\ k >= 2 /\ i \in 2..m
    BY <1>1, <1>8
  <2> HIDE DEF m, k
  <2>2. i \in 1..m /\ ~ (i < 2) /\ i + 1 \in 2..k
    BY <2>1
  <2> QED
    BY <1>8, <2>2 DEF Listed, m, k
<1>11. Len(r) = 1 + (n - 1)
  BY <1>1, <1>8 DEF Listed
<1> QED
  BY <1>7, <1>9, <1>10, <1>11 DEF Listed

\* What the list is when the context is there.
LEMMA ListIs ==
  ASSUME ListInv, CtxInv, CqShape, ctx.st # "closed"
  PROVE  /\ Listed(ctx.mm_head, Cardinality(UserCqs) + Cardinality(Mapping))
         /\ ctx.mm_head \in Seq([page : Nat, len : Nat])
         /\ Cardinality(UserCqs) + Cardinality(Mapping) \in Nat
<1>1. Cardinality(UserCqs) \in Nat /\ Cardinality(Mapping) \in Nat
  BY ListSets, FS_CardinalityType
<1>2. /\ Len(ctx.mm_head) = 1 + Cardinality(UserCqs) + Cardinality(Mapping)
      /\ ctx.mm_head[1] = AhTable /\ \A i \in 2..Len(ctx.mm_head) : ctx.mm_head[i].len = CqLen
  BY DEF ListInv
<1> DEFINE n == Cardinality(UserCqs) + Cardinality(Mapping)
<1>3. Len(ctx.mm_head) = 1 + n /\ n \in Nat
  BY <1>1, <1>2
<1> HIDE DEF n
<1>4. Listed(ctx.mm_head, n)
  BY <1>2, <1>3 DEF Listed
<1>5. ctx.mm_head \in Seq([page : Nat, len : Nat])
  BY DEF CtxInv
<1> QED
  BY <1>3, <1>4, <1>5 DEF n

\* A queue or a mapping of the process comes or goes.
LEMMA ListTurns ==
  ASSUME NEW t \in Threads, NEW q, \A u \in Threads : u # t => call'[u] = call[u],
         ListInv, CtxInv, CqShape, t \in Users, ctx.st = "open", ctx'.st = "open",
         UserCqs \ {q} = UserCqs' \ {q},
         Listed(ctx'.mm_head, Cardinality(UserCqs) + Cardinality(Mapping)
                  + (IF q \in UserCqs' THEN 1 ELSE 0) - (IF q \in UserCqs THEN 1 ELSE 0)
                  + (IF Maps(t)' THEN 1 ELSE 0) - (IF Maps(t) THEN 1 ELSE 0)),
         call'[t].at = "cq_unmap" => call'[t].op = "destroy_cq",
         \A u \in Threads : call'[u].at = "mmap" => \E p \in cqs' : p.page = call'[u].k /\ p.own = u
  PROVE  ListInv'
<1>1. Mapping \ {t} = Mapping' \ {t} /\ (t \in Mapping <=> Maps(t)) /\ (t \in Mapping' <=> Maps(t)')
  BY Sizes DEF Mapping, Maps
<1> DEFINE n == Cardinality(UserCqs') + Cardinality(Mapping')
           x == Cardinality(UserCqs)
           y == Cardinality(Mapping)
<1>2. /\ x \in Nat /\ y \in Nat
      /\ n = x + y + (IF q \in UserCqs' THEN 1 ELSE 0) - (IF q \in UserCqs THEN 1 ELSE 0)
               + (IF t \in Mapping' THEN 1 ELSE 0) - (IF t \in Mapping THEN 1 ELSE 0)
  BY <1>1, ListMoves
<1>3. Listed(ctx'.mm_head, n)
  <2>1. n = x + y + (IF q \in UserCqs' THEN 1 ELSE 0) - (IF q \in UserCqs THEN 1 ELSE 0)
               + (IF Maps(t)' THEN 1 ELSE 0) - (IF Maps(t) THEN 1 ELSE 0)
    BY <1>1, <1>2
  <2> HIDE DEF n
  <2> QED
    BY <2>1
<1>4. /\ Len(ctx'.mm_head) = 1 + Cardinality(UserCqs') + Cardinality(Mapping')
      /\ ctx'.mm_head[1] = AhTable
      /\ \A i \in 2..Len(ctx'.mm_head) : ctx'.mm_head[i].len = CqLen
  <2>1. IsFiniteSet(UserCqs) /\ IsFiniteSet(Mapping)
    BY ListSets
  <2>2. IsFiniteSet(UserCqs') /\ IsFiniteSet(Mapping')
    <3> DEFINE A == UserCqs
               B == UserCqs'
               C == Mapping
               D == Mapping'
    <3>1. IsFiniteSet(A) /\ IsFiniteSet(C) /\ A \ {q} = B \ {q} /\ C \ {t} = D \ {t}
      BY <1>1, <2>1
    <3> HIDE DEF A, B, C, D
    <3>2. IsFiniteSet(B) /\ IsFiniteSet(D)
      BY <3>1, Differ
    <3> QED
      BY <3>2 DEF B, D
  <2>3. Cardinality(UserCqs') \in Nat /\ Cardinality(Mapping') \in Nat
    BY <2>2, FS_CardinalityType
  <2> QED
    BY <1>3, <2>3 DEF Listed
<1>5. \A u \in Threads :
       /\ call'[u].at \in {"cq_map", "cq_unmap", "mmap"} => u \in Users
       /\ call'[u].at = "cq_unmap" => call'[u].op = "destroy_cq"
       /\ call'[u].at = "mmap" => \E p \in cqs' : p.page = call'[u].k /\ p.own = u
  BY DEF ListInv
<1> QED
  BY <1>4, <1>5 DEF ListInv

\* The list has one entry for each queue of the process that is mapped.
LEMMA ListStep ==
  ASSUME CallInv, CtxInv, PdShape, MrShape, PoolShape, CqShape, AvInv, LifeInv, BitInv, ListInv, CtxInv', CallInv', [Next]_vars
  PROVE  ListInv'
<1>1. ASSUME NEW t \in Threads, Alloc(t)
      PROVE  ListInv'
  <2>1. /\ UNCHANGED cqres /\ call[t].at \notin CqAts /\ call'[t].at \notin CqAts
        /\ \A u \in Threads : u # t => call'[u] = call[u]
    BY <1>1, CqOther DEF MemStep
  <2>2. ctx' = ctx
    BY <1>1 DEF Alloc, AllocGet, AllocInc, AllocUndo, AllocElem
  <2>3. ~Maps(t) /\ ~Maps(t)' /\ call'[t].at \notin {"cq_map", "cq_unmap", "mmap"}
    BY <2>1 DEF Maps, CqAts, BitAts
  <2> QED
    BY <2>1, <2>2, <2>3, ListKeeps
<1>2. ASSUME NEW t \in Threads, Pds(t)
      PROVE  ListInv'
  <2>1. CASE bxroce_alloc_ucontext(t)
    <3>1. /\ UNCHANGED cqres /\ call[t].at \notin CqAts /\ call'[t].at \notin CqAts
          /\ \A u \in Threads : u # t => call'[u] = call[u]
      BY <1>2, CqOther DEF MemStep
    <3>3. ~Maps(t) /\ ~Maps(t)' /\ call'[t].at \notin {"cq_map", "cq_unmap", "mmap"}
      BY <3>1 DEF Maps, CqAts, BitAts
    <3>2. ctx.st = "closed" /\ ctx'.mm_head = bxroce_add_mmap(<<>>, AhTable.page, AhTable.len)
      BY <2>1 DEF bxroce_alloc_ucontext, Closed
    <3>4. UserCqs = {} /\ \A u \in Users : call[u].at \notin CqAts
      BY <3>2 DEF ListInv
    <3>5. ctx'.mm_head = <<AhTable>>
      BY <3>2 DEF bxroce_add_mmap, AhTable
    <3>6. Listed(ctx'.mm_head, 0)
      BY <3>5 DEF Listed
    <3> QED
      BY <3>1, <3>4, <3>6, ListBare
  <2>2. ASSUME NEW f \in BOOLEAN, OpenDone(t, f)
        PROVE  ListInv'
    <3>1. /\ UNCHANGED cqres /\ call[t].at \notin CqAts /\ call'[t].at \notin CqAts
          /\ \A u \in Threads : u # t => call'[u] = call[u]
      BY <1>2, CqOther DEF MemStep
    <3>3. ~Maps(t) /\ ~Maps(t)' /\ call'[t].at \notin {"cq_map", "cq_unmap", "mmap"}
      BY <3>1 DEF Maps, CqAts, BitAts
    <3>2. ctx.st = "opening" /\ (ctx'.st = "closed" \/ ctx'.mm_head = ctx.mm_head)
      BY <2>2 DEF OpenDone, CtxInv, Closed
    <3>4. UserCqs = {} /\ \A u \in Users : call[u].at \notin CqAts
      BY <3>2 DEF ListInv
    <3>5. Mapping = {}
      BY <3>4 DEF Mapping, Maps, CqAts, BitAts
    <3>6. Listed(ctx.mm_head, 0)
      BY <3>2, <3>4, <3>5, Bare
    <3> QED
      BY <3>1, <3>2, <3>4, <3>6, ListBare
  <2>3. CASE bxroce_dealloc_ucontext(t)
    <3>1. /\ UNCHANGED cqres /\ call[t].at \notin CqAts /\ call'[t].at \notin CqAts
          /\ \A u \in Threads : u # t => call'[u] = call[u]
      BY <1>2, CqOther DEF MemStep
    <3>3. ~Maps(t) /\ ~Maps(t)' /\ call'[t].at \notin {"cq_map", "cq_unmap", "mmap"}
      BY <3>1 DEF Maps, CqAts, BitAts
    <3>2. /\ ctx' = Closed /\ (\A u \in Users : call[u] = Idle) /\ \A q \in cqs : q.own \notin Users
      BY <2>3 DEF bxroce_dealloc_ucontext
    <3>4. UserCqs = {} /\ (\A u \in Users : call[u].at \notin CqAts) /\ ctx'.st = "closed"
      BY <3>2 DEF UserCqs, Idle, CqAts, BitAts, Closed
    <3> QED
      BY <3>1, <3>4, ListBare
  <2>4. CASE bxroce_get_ucontext_pd(t)
    <3>1. /\ UNCHANGED cqres /\ call[t].at \notin CqAts /\ call'[t].at \notin CqAts
          /\ \A u \in Threads : u # t => call'[u] = call[u]
      BY <1>2, CqOther DEF MemStep
    <3>3. ~Maps(t) /\ ~Maps(t)' /\ call'[t].at \notin {"cq_map", "cq_unmap", "mmap"}
      BY <3>1 DEF Maps, CqAts, BitAts
    <3>2. ctx'.st = ctx.st /\ ctx'.mm_head = ctx.mm_head
      BY <2>4 DEF bxroce_get_ucontext_pd, CtxInv
    <3> QED
      BY <3>1, <3>2, <3>3, ListKeeps
  <2>5. CASE bxroce_alloc_pd(t)
    <3>1. /\ UNCHANGED cqres /\ call[t].at \notin CqAts /\ call'[t].at \notin CqAts
          /\ \A u \in Threads : u # t => call'[u] = call[u]
      BY <1>2, CqOther DEF MemStep
    <3>3. ~Maps(t) /\ ~Maps(t)' /\ call'[t].at \notin {"cq_map", "cq_unmap", "mmap"}
      BY <3>1 DEF Maps, CqAts, BitAts
    <3>2. ctx'.st = ctx.st /\ ctx'.mm_head = ctx.mm_head
      BY <2>5 DEF bxroce_alloc_pd, CtxInv
    <3> QED
      BY <3>1, <3>2, <3>3, ListKeeps
  <2>6. CASE AllocPdDone(t)
    <3>1. /\ UNCHANGED cqres /\ call[t].at \notin CqAts /\ call'[t].at \notin CqAts
          /\ \A u \in Threads : u # t => call'[u] = call[u]
      BY <1>2, CqOther DEF MemStep
    <3>3. ~Maps(t) /\ ~Maps(t)' /\ call'[t].at \notin {"cq_map", "cq_unmap", "mmap"}
      BY <3>1 DEF Maps, CqAts, BitAts
    <3>2. ctx'.st = ctx.st /\ ctx'.mm_head = ctx.mm_head
      BY <2>6 DEF AllocPdDone, CtxInv
    <3> QED
      BY <3>1, <3>2, <3>3, ListKeeps
  <2>7. ASSUME NEW h \in held, bxroce_dealloc_pd(t, h)
        PROVE  ListInv'
    <3>1. /\ UNCHANGED cqres /\ call[t].at \notin CqAts /\ call'[t].at \notin CqAts
          /\ \A u \in Threads : u # t => call'[u] = call[u]
      BY <1>2, CqOther DEF MemStep
    <3>3. ~Maps(t) /\ ~Maps(t)' /\ call'[t].at \notin {"cq_map", "cq_unmap", "mmap"}
      BY <3>1 DEF Maps, CqAts, BitAts
    <3>2. ctx'.st = ctx.st /\ ctx'.mm_head = ctx.mm_head
      BY <2>7 DEF bxroce_dealloc_pd, CtxInv
    <3> QED
      BY <3>1, <3>2, <3>3, ListKeeps
  <2> QED
    BY <1>2, <2>1, <2>2, <2>3, <2>4, <2>5, <2>6, <2>7 DEF Pds
<1>3. ASSUME NEW t \in Threads, Mrs(t)
      PROVE  ListInv'
  <2>1. /\ UNCHANGED cqres /\ call[t].at \notin CqAts /\ call'[t].at \notin CqAts
        /\ \A u \in Threads : u # t => call'[u] = call[u]
    BY <1>3, CqOther DEF MemStep
  <2>2. ctx' = ctx
    BY <1>3
       DEF Mrs, RegMr, AddIndex, AddRef, UmemFails, KeyRead, bxroce_mem_init,
       bxroce_reg_user_mr, KernelMr, bxroce_dereg_mr, DropPdOf, DropIndex, DropMr
  <2>3. ~Maps(t) /\ ~Maps(t)' /\ call'[t].at \notin {"cq_map", "cq_unmap", "mmap"}
    BY <2>1 DEF Maps, CqAts, BitAts
  <2> QED
    BY <2>1, <2>2, <2>3, ListKeeps
<1>4. ASSUME NEW t \in Threads, Cqs(t)
      PROVE  ListInv'
  <2>1. CASE bxroce_create_cq(t)
    <3>0. \A u \in Threads : u # t => call'[u] = call[u]
      BY <1>4, CqFrame DEF Moves
    <3>1. UNCHANGED <<ctx, cqs>>
      BY <2>1 DEF bxroce_create_cq
    <3>2. /\ t \in Users /\ call'[t].at \in CqAts => ctx.st = "open"
          /\ t \in Users => (Maps(t)' <=> Maps(t))
          /\ call'[t].at \in {"cq_map", "cq_unmap"} => t \in Users
          /\ call'[t].at = "cq_unmap" => call'[t].op = "destroy_cq"
          /\ call'[t].at # "mmap"
      BY <2>1, AtIs DEF bxroce_create_cq, Runs, Begin, Idle, Maps, ListInv, CqAts, BitAts
    <3> QED
      BY <3>0, <3>1, <3>2, ListKeeps
  <2>2. ASSUME NEW n \in BOOLEAN, bxroce_hw_create_cq(t, n)
        PROVE  ListInv'
    <3>0. \A u \in Threads : u # t => call'[u] = call[u]
      BY <1>4, CqFrame DEF Moves
    <3>1. UNCHANGED <<ctx, cqs>> /\ call[t].at = "cq_mem"
      BY <2>2 DEF bxroce_hw_create_cq, Runs
    <3>2. call'[t].at = "none" \/ (call'[t].at = "cq_map" /\ t \in Users) \/ (call'[t].at = "cq_put" /\ t \notin Users)
      BY <2>2, AtIs DEF bxroce_hw_create_cq, Idle
    <3>3. /\ t \in Users => ctx.st = "open"
          /\ t \in Users => ~Maps(t)' /\ ~Maps(t)
      BY <3>1, <3>2 DEF ListInv, Maps, CqAts, BitAts
    <3> QED
      BY <3>0, <3>1, <3>2, <3>3, ListKeeps
  <2>3. CASE bxroce_copy_cq_uresp(t)
    <3>0. \A u \in Threads : u # t => call'[u] = call[u]
      BY <1>4, CqFrame DEF Moves
    <3>1. /\ cqs' = cqs /\ call[t].at = "cq_map" /\ call'[t].at = "cq_put"
          /\ ctx' = [ctx EXCEPT !.mm_head = bxroce_add_mmap(@, call[t].k, CqLen)]
      BY <2>3, AtIs DEF bxroce_copy_cq_uresp, Runs
    <3>2. t \in Users /\ ctx.st = "open" /\ ~Maps(t) /\ Maps(t)'
      BY <3>1 DEF ListInv, Maps, CqAts, BitAts
    <3>3. ctx'.st = "open" /\ ctx'.mm_head = bxroce_add_mmap(ctx.mm_head, call[t].k, CqLen)
      BY <3>1, <3>2 DEF CtxInv
    <3> DEFINE n == Cardinality(UserCqs) + Cardinality(Mapping)
    <3>4. Listed(ctx.mm_head, n) /\ ctx.mm_head \in Seq([page : Nat, len : Nat]) /\ n \in Nat
      BY <3>2, ListIs
    <3>5. call[t].k \in Nat
      BY AtIs DEF Calls
    <3>6. Listed(ctx'.mm_head, n + 1)
      <4> HIDE DEF n
      <4> QED
        BY <3>3, <3>4, <3>5, ListAdds
    <3>7. UserCqs' = UserCqs
      BY <3>1 DEF UserCqs
    <3>8. n + 1 = n + (IF 0 \in UserCqs' THEN 1 ELSE 0) - (IF 0 \in UserCqs THEN 1 ELSE 0)
                    + (IF Maps(t)' THEN 1 ELSE 0) - (IF Maps(t) THEN 1 ELSE 0)
      BY <3>2, <3>4, <3>7
    <3>9. \A u \in Threads : call'[u].at = "mmap" => \E p \in cqs' : p.page = call'[u].k /\ p.own = u
      BY <3>0, <3>1 DEF ListInv
    <3> QED
      BY <3>0, <3>1, <3>2, <3>3, <3>6, <3>7, <3>8, <3>9, ListTurns
  <2>4. CASE CqFault(t)
    <3>0. \A u \in Threads : u # t => call'[u] = call[u]
      BY <1>4, CqFrame DEF Moves
    <3>1. UNCHANGED <<ctx, cqs>>
      BY <2>4 DEF CqFault
    <3>2. /\ t \in Users /\ call'[t].at \in CqAts => ctx.st = "open"
          /\ t \in Users => (Maps(t)' <=> Maps(t))
          /\ call'[t].at \in {"cq_map", "cq_unmap"} => t \in Users
          /\ call'[t].at = "cq_unmap" => call'[t].op = "destroy_cq"
          /\ call'[t].at # "mmap"
      BY <2>4, AtIs DEF CqFault, Runs, Begin, Idle, Maps, ListInv, CqAts, BitAts
    <3> QED
      BY <3>0, <3>1, <3>2, ListKeeps
  <2>5. CASE CqStored(t)
    <3>0. \A u \in Threads : u # t => call'[u] = call[u]
      BY <1>4, CqFrame DEF Moves
    <3>1. /\ ctx' = ctx /\ cqs' = cqs \cup {[id |-> call[t].el, page |-> call[t].k, own |-> t]}
          /\ call[t].at = "cq_put" /\ Go(t, IF t \in Users THEN At(t, "mmap") ELSE Idle)
      BY <2>5 DEF CqStored, Runs
    <3>2. PICK q : /\ q = [id |-> call[t].el, page |-> call[t].k, own |-> t]
                   /\ cqs' = cqs \cup {q} /\ q.own = t /\ q.page = call[t].k /\ q.id = call[t].el
      <4> DEFINE q == [id |-> call[t].el, page |-> call[t].k, own |-> t]
      <4>1. cqs' = cqs \cup {q} /\ q.own = t /\ q.page = call[t].k /\ q.id = call[t].el
        BY <3>1
      <4> QED
        BY <4>1
    <3>3. q \notin cqs
      BY <3>1, <3>2 DEF BitInv, BitAts
    <3>4. CASE t \in Users
      <4>1. call'[t].at = "mmap" /\ call'[t].k = call[t].k
        BY <3>1, <3>4, AtIs
      <4>2. ctx.st = "open" /\ Maps(t) /\ ~Maps(t)'
        BY <3>1, <3>4, <4>1 DEF ListInv, Maps, CqAts, BitAts
      <4>3. UserCqs \ {q} = UserCqs' \ {q} /\ q \in UserCqs' /\ q \notin UserCqs
        BY <3>2, <3>3, <3>4 DEF UserCqs
      <4> DEFINE n == Cardinality(UserCqs) + Cardinality(Mapping)
      <4>4. Listed(ctx.mm_head, n) /\ n \in Nat
        BY <4>2, ListIs
      <4>5. n = n + (IF q \in UserCqs' THEN 1 ELSE 0) - (IF q \in UserCqs THEN 1 ELSE 0)
                  + (IF Maps(t)' THEN 1 ELSE 0) - (IF Maps(t) THEN 1 ELSE 0)
        BY <4>2, <4>3, <4>4
      <4>6. Listed(ctx'.mm_head, n + (IF q \in UserCqs' THEN 1 ELSE 0) - (IF q \in UserCqs THEN 1 ELSE 0)
                  + (IF Maps(t)' THEN 1 ELSE 0) - (IF Maps(t) THEN 1 ELSE 0))
        <5> HIDE DEF n
        <5> QED
          BY <3>1, <4>4, <4>5
      <4>7. \A u \in Threads : call'[u].at = "mmap" => \E p \in cqs' : p.page = call'[u].k /\ p.own = u
        BY <3>0, <3>2, <4>1 DEF ListInv
      <4> QED
        BY <3>0, <3>1, <3>4, <4>1, <4>2, <4>3, <4>6, <4>7, ListTurns
    <3>5. CASE t \notin Users
      <4>1. call'[t].at = "none"
        BY <3>1, <3>5, AtIs DEF Idle
      <4>2. UserCqs' = UserCqs
        BY <3>2, <3>5 DEF UserCqs
      <4>3. Mapping' = Mapping
        BY <3>0, <3>5, Sizes DEF Mapping, Maps
      <4>4. \A u \in Threads : call'[u].at = "mmap" => \E p \in cqs' : p.page = call'[u].k /\ p.own = u
        BY <3>0, <3>2, <4>1 DEF ListInv
      <4>5. \A u \in Users : call'[u] = call[u]
        BY <3>0, <3>5, Sizes
      <4> QED
        BY <3>0, <3>1, <4>1, <4>2, <4>3, <4>4, <4>5 DEF ListInv
    <3> QED
      BY <3>4, <3>5
  <2>6. CASE bxroce_mmap(t)
    <3>0. \A u \in Threads : u # t => call'[u] = call[u]
      BY <1>4, CqFrame DEF Moves
    <3>1. UNCHANGED <<ctx, cqs>>
      BY <2>6 DEF bxroce_mmap
    <3>2. /\ t \in Users /\ call'[t].at \in CqAts => ctx.st = "open"
          /\ t \in Users => (Maps(t)' <=> Maps(t))
          /\ call'[t].at \in {"cq_map", "cq_unmap"} => t \in Users
          /\ call'[t].at = "cq_unmap" => call'[t].op = "destroy_cq"
          /\ call'[t].at # "mmap"
      BY <2>6, AtIs DEF bxroce_mmap, Runs, Begin, Idle, Maps, ListInv, CqAts, BitAts
    <3> QED
      BY <3>0, <3>1, <3>2, ListKeeps
  <2>7. ASSUME NEW q \in cqs, bxroce_destroy_cq(t, q)
        PROVE  ListInv'
    <3>0. \A u \in Threads : u # t => call'[u] = call[u]
      BY <1>4, CqFrame DEF Moves
    <3>1. /\ ctx' = ctx /\ cqs' = cqs \ {q} /\ call[t] = Idle /\ Together(t, q.own)
          /\ call'[t].at = "cq_free" /\ call'[t].op = "destroy_cq"
          /\ \A u \in Threads : call[u].at = "mmap" => call[u].k # q.page
      BY <2>7, AtIs DEF bxroce_destroy_cq, Begin
    <3>2. \A u \in Threads : call'[u].at = "mmap" => \E p \in cqs' : p.page = call'[u].k /\ p.own = u
      BY <3>0, <3>1 DEF ListInv
    <3>3. CASE q.own \in Users
      <4>1. t \in Users /\ q \in UserCqs /\ q \notin UserCqs' /\ UserCqs \ {q} = UserCqs' \ {q}
        BY <3>1, <3>3 DEF Together, UserCqs
      <4>2. ctx.st = "open" /\ ~Maps(t) /\ Maps(t)'
        BY <3>1, <4>1 DEF ListInv, Maps, Idle
      <4> DEFINE n == Cardinality(UserCqs) + Cardinality(Mapping)
      <4>4. Listed(ctx.mm_head, n) /\ n \in Nat
        BY <4>2, ListIs
      <4>5. n = n + (IF q \in UserCqs' THEN 1 ELSE 0) - (IF q \in UserCqs THEN 1 ELSE 0)
                  + (IF Maps(t)' THEN 1 ELSE 0) - (IF Maps(t) THEN 1 ELSE 0)
        BY <4>1, <4>2, <4>4
      <4>6. Listed(ctx'.mm_head, n + (IF q \in UserCqs' THEN 1 ELSE 0) - (IF q \in UserCqs THEN 1 ELSE 0)
                  + (IF Maps(t)' THEN 1 ELSE 0) - (IF Maps(t) THEN 1 ELSE 0))
        <5> HIDE DEF n
        <5> QED
          BY <3>1, <4>4, <4>5
      <4> QED
        BY <3>0, <3>1, <3>2, <4>1, <4>2, <4>6, ListTurns
    <3>4. CASE q.own \notin Users
      <4>1. t \notin Users
        BY <3>1, <3>4 DEF Together
      <4>2. UserCqs' = UserCqs
        BY <3>1, <3>4 DEF UserCqs
      <4>3. Mapping' = Mapping
        BY <3>0, <4>1, Sizes DEF Mapping, Maps
      <4>4. \A u \in Users : call'[u] = call[u]
        BY <3>0, <4>1, Sizes
      <4> QED
        BY <3>0, <3>1, <3>2, <4>2, <4>3, <4>4 DEF ListInv
    <3> QED
      BY <3>3, <3>4
  <2>8. CASE bxroce_free_cqresource(t)
    <3>0. \A u \in Threads : u # t => call'[u] = call[u]
      BY <1>4, CqFrame DEF Moves
    <3>1. UNCHANGED <<ctx, cqs>>
      BY <2>8 DEF bxroce_free_cqresource
    <3>2. /\ t \in Users /\ call'[t].at \in CqAts => ctx.st = "open"
          /\ t \in Users => (Maps(t)' <=> Maps(t))
          /\ call'[t].at \in {"cq_map", "cq_unmap"} => t \in Users
          /\ call'[t].at = "cq_unmap" => call'[t].op = "destroy_cq"
          /\ call'[t].at # "mmap"
      BY <2>8, AtIs DEF bxroce_free_cqresource, Runs, Begin, Idle, Maps, ListInv, CqAts, BitAts
    <3> QED
      BY <3>0, <3>1, <3>2, ListKeeps
  <2>9. CASE CqUnmap(t)
    <3>0. \A u \in Threads : u # t => call'[u] = call[u]
      BY <1>4, CqFrame DEF Moves
    <3>1. /\ cqs' = cqs /\ call[t].at = "cq_unmap" /\ call'[t].at = "none"
          /\ ctx' = [ctx EXCEPT !.mm_head = bxroce_del_mmap(@, call[t].k, CqLen)]
      BY <2>9, AtIs DEF CqUnmap, Runs, Idle
    <3>2. t \in Users /\ ctx.st = "open" /\ Maps(t) /\ ~Maps(t)'
      BY <3>1 DEF ListInv, Maps, CqAts, BitAts
    <3>3. ctx'.st = "open" /\ ctx'.mm_head = bxroce_del_mmap(ctx.mm_head, call[t].k, CqLen)
      BY <3>1, <3>2 DEF CtxInv
    <3> DEFINE n == Cardinality(UserCqs) + Cardinality(Mapping)
    <3>4. Listed(ctx.mm_head, n) /\ ctx.mm_head \in Seq([page : Nat, len : Nat]) /\ n \in Nat
      BY <3>2, ListIs
    <3>5. call[t].k \in Nat \ {0}
      BY <3>1, AtIs DEF Calls, CqShape, CqAts, BitAts
    <3>6. n > 0
      <4>1. t \in Mapping
        BY <3>2 DEF Mapping
      <4>2. Cardinality(Mapping) \in Nat /\ Cardinality(Mapping) >= 1 /\ Cardinality(UserCqs) \in Nat
        BY <4>1, ListSets, Counted
      <4> QED
        BY <4>2
    <3>7. Listed(ctx'.mm_head, n - 1)
      <4> HIDE DEF n
      <4> QED
        BY <3>3, <3>4, <3>5, <3>6, ListCuts
    <3>8. UserCqs' = UserCqs
      BY <3>1 DEF UserCqs
    <3>9. n - 1 = n + (IF 0 \in UserCqs' THEN 1 ELSE 0) - (IF 0 \in UserCqs THEN 1 ELSE 0)
                    + (IF Maps(t)' THEN 1 ELSE 0) - (IF Maps(t) THEN 1 ELSE 0)
      BY <3>2, <3>4, <3>8
    <3>10. \A u \in Threads : call'[u].at = "mmap" => \E p \in cqs' : p.page = call'[u].k /\ p.own = u
      BY <3>0, <3>1 DEF ListInv
    <3> QED
      BY <3>0, <3>1, <3>2, <3>3, <3>7, <3>8, <3>9, <3>10, ListTurns
  <2> QED
    BY <1>4, <2>1, <2>2, <2>3, <2>4, <2>5, <2>6, <2>7, <2>8, <2>9 DEF Cqs
<1>5. ASSUME NEW t \in Threads, Ahs(t)
      PROVE  ListInv'
  <2>1. /\ UNCHANGED cqres /\ call[t].at \notin CqAts /\ call'[t].at \notin CqAts
        /\ \A u \in Threads : u # t => call'[u] = call[u]
    BY <1>5, CqOther DEF MemStep
  <2>2. ctx' = ctx
    BY <1>5, AhFrame
  <2>3. ~Maps(t) /\ ~Maps(t)' /\ call'[t].at \notin {"cq_map", "cq_unmap", "mmap"}
    BY <2>1 DEF Maps, CqAts, BitAts
  <2> QED
    BY <2>1, <2>2, <2>3, ListKeeps
<1>6. ASSUME Life
      PROVE  ListInv'
  <2>1. call' = call /\ ctx' = ctx /\ (UNCHANGED cqres \/ (bxroce_init_cqqp /\ ~drv))
    BY <1>6, LifeRest, LifeObjects
  <2>2. cqs' = cqs
    BY <2>1 DEF bxroce_init_cqqp, LifeInv, Quiet
  <2>3. UserCqs' = UserCqs /\ Mapping' = Mapping
    BY <2>1, <2>2 DEF UserCqs, Mapping, Maps
  <2> QED
    BY <2>1, <2>2, <2>3 DEF ListInv
<1>7. CASE UNCHANGED vars
  <2>1. ctx' = ctx /\ call' = call /\ cqs' = cqs /\ UserCqs' = UserCqs /\ Mapping' = Mapping
    BY <1>7 DEF vars, UserCqs, Mapping, Maps
  <2> QED
    BY <2>1 DEF ListInv
<1> QED
  BY <1>1, <1>2, <1>3, <1>4, <1>5, <1>6, <1>7 DEF Next

-----------------------------------------------------------------------------
(* Address vectors.                                                        *)

\* The vectors of the handles and of the calls.
Vectors == {a.av : a \in ahs} \cup {call[t].el : t \in Creating}

\* What AvUnique says.
LEMMA AvIs ==
  AvUnique <=> av = Vectors /\ Cardinality(av) = Cardinality(ahs) + Cardinality(Creating)
BY DEF AvUnique, Vectors, Creating, AhAts

\* The same, after a step.
LEMMA AvThen ==
  ASSUME av' = Vectors', Cardinality(av') = Cardinality(ahs') + Cardinality(Creating')
  PROVE  AvUnique'
BY DEF AvUnique, Vectors, Creating, AhAts

\* Nothing changes.
LEMMA AvKeeps ==
  ASSUME AvInv, UNCHANGED ahres, Creating' = Creating, \A t \in Creating : call'[t].el = call[t].el
  PROVE  AvInv'
<1>1. Vectors' = Vectors
  BY DEF Vectors
<1>2. AvUnique'
  BY <1>1, AvIs, AvThen DEF AvInv
<1> QED
  BY <1>2 DEF AvInv

\* One vector, one handle and one call change.
LEMMA AvMoves ==
  ASSUME NEW t, NEW a, NEW x, AvInv,
         av \ {x} = av' \ {x}, ahs \ {a} = ahs' \ {a}, Creating \ {t} = Creating' \ {t},
         (IF x \in av' THEN 1 ELSE 0) - (IF x \in av THEN 1 ELSE 0)
           = (IF a \in ahs' THEN 1 ELSE 0) - (IF a \in ahs THEN 1 ELSE 0)
             + (IF t \in Creating' THEN 1 ELSE 0) - (IF t \in Creating THEN 1 ELSE 0),
         av' = Vectors'
  PROVE  AvUnique' /\ IsFiniteSet(ahs')
<1>1. IsFiniteSet(av) /\ IsFiniteSet(ahs) /\ IsFiniteSet(Creating)
  <2>1. 1 \in Int /\ MaxAv \in Int
    BY Sizes
  <2>2. IsFiniteSet(1..MaxAv)
    BY <2>1, FS_Interval
  <2>3. av \subseteq 1..MaxAv /\ Creating \subseteq Threads
    BY DEF AvInv, Creating
  <2> QED
    BY <2>2, <2>3, FS_Subset, Sizes DEF AvInv
<1>2. Cardinality(av) = Cardinality(ahs) + Cardinality(Creating)
  BY AvIs DEF AvInv
<1> DEFINE A == av
           B == av'
           C == ahs
           D == ahs'
           E == Creating
           F == Creating'
<1> HIDE DEF A, B, C, D, E, F
<1>3. /\ Cardinality(A) \in Nat /\ Cardinality(B) \in Nat
      /\ Cardinality(B) + (IF x \in A THEN 1 ELSE 0) = Cardinality(A) + (IF x \in B THEN 1 ELSE 0)
  BY <1>1, Differ DEF A, B
<1>4. /\ Cardinality(C) \in Nat /\ Cardinality(D) \in Nat /\ IsFiniteSet(D)
      /\ Cardinality(D) + (IF a \in C THEN 1 ELSE 0) = Cardinality(C) + (IF a \in D THEN 1 ELSE 0)
  BY <1>1, Differ DEF C, D
<1>5. /\ Cardinality(E) \in Nat /\ Cardinality(F) \in Nat
      /\ Cardinality(F) + (IF t \in E THEN 1 ELSE 0) = Cardinality(E) + (IF t \in F THEN 1 ELSE 0)
  BY <1>1, Differ DEF E, F
<1>6. /\ Cardinality(A) = Cardinality(C) + Cardinality(E)
      /\ (IF x \in B THEN 1 ELSE 0) - (IF x \in A THEN 1 ELSE 0)
           = (IF a \in D THEN 1 ELSE 0) - (IF a \in C THEN 1 ELSE 0)
             + (IF t \in F THEN 1 ELSE 0) - (IF t \in E THEN 1 ELSE 0)
  BY <1>2 DEF A, B, C, D, E, F
<1>7. Cardinality(B) = Cardinality(D) + Cardinality(F)
  BY <1>3, <1>4, <1>5, <1>6
<1> QED
  BY <1>4, <1>7, AvThen DEF B, D, F

\* The vectors of the calls are valid, and so are those of the handles.
LEMMA AvOwned ==
  ASSUME AvInv
  PROVE  (\A t \in Creating : call[t].el \in av) /\ \A a \in ahs : a.av \in av
BY AvIs DEF AvInv, Vectors

\* A vector has one owner, and only owned ones are valid.
LEMMA AvStep ==
  ASSUME CallInv, CtxInv, PdShape, MrShape, PoolShape, CqShape, AvInv, LifeInv, CallInv', [Next]_vars
  PROVE  AvInv'
<1>1. ASSUME NEW t \in Threads, Alloc(t)
      PROVE  AvInv'
  <2>1. Moves(t, MemAts) /\ UNCHANGED ahres
    BY <1>1, MemFrame DEF MemStep
  <2>2. /\ call[t].at \notin AhAts /\ call'[t].at \notin AhAts
        /\ \A u \in Threads : u # t => call'[u] = call[u]
    BY <2>1 DEF Moves, MemAts, AllocAts, ElAts, IndexAts, RefAts, CqAts, BitAts, AhAts
  <2>3. Creating' = Creating /\ t \notin Creating
    BY <2>2 DEF Creating
  <2> QED
    BY <2>1, <2>2, <2>3, AvKeeps DEF Creating
<1>2. ASSUME NEW t \in Threads, Pds(t)
      PROVE  AvInv'
  <2>1. Moves(t, MemAts) /\ UNCHANGED ahres
    BY <1>2, MemFrame DEF MemStep
  <2>2. /\ call[t].at \notin AhAts /\ call'[t].at \notin AhAts
        /\ \A u \in Threads : u # t => call'[u] = call[u]
    BY <2>1 DEF Moves, MemAts, AllocAts, ElAts, IndexAts, RefAts, CqAts, BitAts, AhAts
  <2>3. Creating' = Creating /\ t \notin Creating
    BY <2>2 DEF Creating
  <2> QED
    BY <2>1, <2>2, <2>3, AvKeeps DEF Creating
<1>3. ASSUME NEW t \in Threads, Mrs(t)
      PROVE  AvInv'
  <2>1. Moves(t, MemAts) /\ UNCHANGED ahres
    BY <1>3, MemFrame DEF MemStep
  <2>2. /\ call[t].at \notin AhAts /\ call'[t].at \notin AhAts
        /\ \A u \in Threads : u # t => call'[u] = call[u]
    BY <2>1 DEF Moves, MemAts, AllocAts, ElAts, IndexAts, RefAts, CqAts, BitAts, AhAts
  <2>3. Creating' = Creating /\ t \notin Creating
    BY <2>2 DEF Creating
  <2> QED
    BY <2>1, <2>2, <2>3, AvKeeps DEF Creating
<1>4. ASSUME NEW t \in Threads, Cqs(t)
      PROVE  AvInv'
  <2>1. Moves(t, {"none"} \cup CqAts) /\ UNCHANGED ahres
    BY <1>4, CqFrame
  <2>2. /\ call[t].at \notin AhAts /\ call'[t].at \notin AhAts
        /\ \A u \in Threads : u # t => call'[u] = call[u]
    BY <2>1 DEF Moves, MemAts, AllocAts, ElAts, IndexAts, RefAts, CqAts, BitAts, AhAts
  <2>3. Creating' = Creating /\ t \notin Creating
    BY <2>2 DEF Creating
  <2> QED
    BY <2>1, <2>2, <2>3, AvKeeps DEF Creating
<1>5. ASSUME NEW t \in Threads, Ahs(t)
      PROVE  AvInv'
  <2>1. CASE bxroce_alloc_av(t)
    <3>0. \A u \in Threads : u # t => call'[u] = call[u]
      BY <1>5, AhFrame DEF Moves
    <3>1. /\ FreeAvs # {} /\ av' = av \cup {Least(FreeAvs)} /\ ahs' = ahs /\ call[t] = Idle
          /\ call'[t].at = "ah_set" /\ call'[t].el = Least(FreeAvs)
      BY <2>1, AtIs DEF bxroce_alloc_av, Begin
    <3>2. Least(FreeAvs) \in (1..MaxAv) \ av
      <4>1. FreeAvs \subseteq Nat
        BY Sizes DEF FreeAvs
      <4> QED
        BY <3>1, <4>1, LeastIs DEF FreeAvs
    <3>3. PICK x : /\ x \in 1..MaxAv /\ x \notin av /\ av' = av \cup {x} /\ call'[t].el = x
      BY <3>1, <3>2
    <3>4. Creating' = Creating \cup {t} /\ t \notin Creating
      BY <3>0, <3>1 DEF Creating, AhAts, Idle
    <3>5. /\ (\A u \in Creating : call'[u] = call[u] /\ call[u].el # x) /\ \A a \in ahs : a.av # x
      BY <3>0, <3>3, <3>4, AvOwned DEF Creating
    <3>6. av' = Vectors'
      BY <3>1, <3>3, <3>4, <3>5, AvIs DEF AvInv, Vectors
    <3>7. AvUnique'
      BY <3>1, <3>3, <3>4, <3>6, AvMoves
    <3> QED
      BY <3>1, <3>3, <3>4, <3>5, <3>7 DEF AvInv
  <2>2. ASSUME NEW y \in {"IPV4", "other"}, NEW v \in BOOLEAN, bxroce_create_ah(t, y, v)
        PROVE  AvInv'
    <3>0. \A u \in Threads : u # t => call'[u] = call[u]
      BY <1>5, AhFrame DEF Moves
    <3>1. call[t].at = "ah_set" /\ t \in Creating
      BY <2>2 DEF bxroce_create_ah, Runs, Creating, AhAts
    <3>2. call[t].el \in av /\ av' = av
      BY <2>2, <3>1, AvOwned DEF bxroce_create_ah
    <3>3. CASE ahs' = ahs /\ (call' = call \/ Go(t, At(t, "ah_free")))
      <4>1. call'[t].at \in AhAts /\ call'[t].el = call[t].el
        BY <3>1, <3>3, AtIs DEF AhAts
      <4>2. Creating' = Creating /\ \A u \in Creating : call'[u].el = call[u].el
        BY <3>0, <3>1, <4>1 DEF Creating
      <4> QED
        BY <3>2, <3>3, <4>2, AvKeeps
    <3>4. CASE ahs' = ahs \cup {[av |-> call[t].el, own |-> t]} /\ Go(t, Idle)
      <4>0. [av |-> call[t].el, own |-> t] \in [av : 1..MaxAv, own : Threads] /\ call'[t].at = "none"
        BY <3>1, <3>4, AtIs DEF Idle, AvInv
      <4>1. PICK n \in [av : 1..MaxAv, own : Threads] : n = [av |-> call[t].el, own |-> t]
        BY <4>0, Zenon
      <4>2. ahs' = ahs \cup {n} /\ n.av = call[t].el /\ n.own = t
        BY <3>4, <4>1
      <4>3. Creating' = Creating \ {t}
        BY <3>0, <4>0 DEF Creating, AhAts
      <4>4. n \notin ahs /\ (\A a \in ahs : a.av # n.av)
        BY <3>1, <4>2 DEF AvInv
      <4>5. \A u \in Creating' : u \in Creating /\ call'[u] = call[u] /\ call[u].el # n.av
        BY <3>0, <3>1, <4>2, <4>3 DEF AvInv, Creating
      <4>6. av' = Vectors'
        BY <3>1, <3>2, <4>2, <4>3, <4>5, AvIs DEF AvInv, Vectors
      <4>7. AvUnique' /\ IsFiniteSet(ahs')
        <5>1. av \ {0} = av' \ {0} /\ ahs \ {n} = ahs' \ {n} /\ Creating \ {t} = Creating' \ {t}
          BY <3>2, <4>2, <4>3
        <5>2. (IF 0 \in av' THEN 1 ELSE 0) - (IF 0 \in av THEN 1 ELSE 0)
                = (IF n \in ahs' THEN 1 ELSE 0) - (IF n \in ahs THEN 1 ELSE 0)
                  + (IF t \in Creating' THEN 1 ELSE 0) - (IF t \in Creating THEN 1 ELSE 0)
          BY <3>1, <3>2, <4>2, <4>3, <4>4
        <5> QED
          BY <4>6, <5>1, <5>2, AvMoves
      <4> QED
        BY <3>2, <4>1, <4>2, <4>4, <4>5, <4>7 DEF AvInv
    <3> QED
      BY <2>2, <3>3, <3>4 DEF bxroce_create_ah
  <2>3. CASE bxroce_free_av(t)
    <3>0. \A u \in Threads : u # t => call'[u] = call[u]
      BY <1>5, AhFrame DEF Moves
    <3>1. av' = av \ {call[t].el} /\ ahs' = ahs /\ call[t].at = "ah_free" /\ call'[t].at = "none"
      BY <2>3, AtIs DEF bxroce_free_av, Runs, Idle
    <3>2. PICK x : x = call[t].el
      OBVIOUS
    <3>3. t \in Creating /\ Creating' = Creating \ {t}
      BY <3>0, <3>1 DEF Creating, AhAts
    <3>4. x \in av /\ \A a \in ahs : a.av # x
      BY <3>2, <3>3, AvOwned DEF AvInv
    <3>5. \A u \in Creating' : u \in Creating /\ call'[u] = call[u] /\ call[u].el # x
      BY <3>0, <3>2, <3>3 DEF AvInv, Creating
    <3>6. av' = Vectors'
      BY <3>1, <3>2, <3>3, <3>4, <3>5, AvIs DEF AvInv, Vectors
    <3>7. AvUnique'
      BY <3>1, <3>2, <3>3, <3>4, <3>6, AvMoves
    <3>8. \A u \in Creating' : call'[u].el \in 1..MaxAv /\ \A a \in ahs' : a.av # call'[u].el
      BY <3>1, <3>5 DEF AvInv
    <3>9. \A u, v \in Creating' : call'[u].el = call'[v].el => u = v
      BY <3>5 DEF AvInv
    <3> QED
      BY <3>1, <3>7, <3>8, <3>9 DEF AvInv
  <2>4. ASSUME NEW a \in ahs, bxroce_destroy_ah(t, a)
        PROVE  AvInv'
    <3>0. \A u \in Threads : u # t => call'[u] = call[u]
      BY <1>5, AhFrame DEF Moves
    <3>1. av' = av /\ ahs' = ahs \ {a} /\ call[t] = Idle /\ call'[t].at = "ah_free" /\ call'[t].el = a.av
      BY <2>4, AtIs DEF bxroce_destroy_ah, Begin
    <3>2. t \notin Creating /\ Creating' = Creating \cup {t}
      BY <3>0, <3>1 DEF Creating, AhAts, Idle
    <3>3. \A u \in Creating : call'[u] = call[u] /\ call[u].el # a.av
      BY <3>0, <3>2 DEF AvInv, Creating
    <3>4. \A b \in ahs' : b \in ahs /\ b.av # a.av
      BY <3>1 DEF AvInv
    <3>5. av' = Vectors'
      BY <3>1, <3>2, <3>3, AvIs DEF AvInv, Vectors
    <3>6. /\ av \ {0} = av' \ {0} /\ ahs \ {a} = ahs' \ {a} /\ Creating \ {t} = Creating' \ {t}
          /\ a \in ahs /\ a \notin ahs' /\ t \in Creating' /\ t \notin Creating /\ (0 \in av' <=> 0 \in av)
      BY <3>1, <3>2
    <3>7. AvUnique' /\ IsFiniteSet(ahs')
      BY <3>5, <3>6, AvMoves
    <3> QED
      BY <3>1, <3>2, <3>3, <3>4, <3>7 DEF AvInv
  <2> QED
    BY <1>5, <2>1, <2>2, <2>3, <2>4 DEF Ahs
<1>6. ASSUME Life
      PROVE  AvInv'
  <2>1. call' = call /\ (UNCHANGED ahres \/ bxroce_create_ah_tbl) /\ \A t \in Threads : call[t] = Idle
    BY <1>6, LifeRest, LifeObjects
  <2>2. Creating = {} /\ Creating' = {}
    BY <2>1 DEF Creating, Idle, AhAts
  <2>3. CASE UNCHANGED ahres
    BY <2>2, <2>3, AvKeeps
  <2>4. CASE bxroce_create_ah_tbl
    <3>1. av' = {} /\ ahs' = {} /\ Vectors' = {}
      BY <2>2, <2>4 DEF bxroce_create_ah_tbl, Vectors
    <3>2. AvUnique'
      BY <2>2, <3>1, FS_EmptySet, AvThen
    <3> QED
      BY <2>2, <3>1, <3>2, FS_EmptySet DEF AvInv
  <2> QED
    BY <2>1, <2>3, <2>4
<1>7. CASE UNCHANGED vars
  <2>1. Creating' = Creating /\ call' = call /\ UNCHANGED ahres
    BY <1>7 DEF vars, Creating
  <2> QED
    BY <2>1, AvKeeps
<1> QED
  BY <1>1, <1>2, <1>3, <1>4, <1>5, <1>6, <1>7 DEF Next

-----------------------------------------------------------------------------
(* What is left behind.                                                    *)

\* No PD is new, and none is given back but the one that goes.
LEMMA LeftPdsKeeps ==
  ASSUME NEW t \in Threads, \A u \in Threads : u # t => call'[u] = call[u], LeftPds, ~Makes(t),
         DOMAIN pds' \subseteq DOMAIN pds, ctx.ctx_pd \in DOMAIN pds' => ctx'.ctx_pd = ctx.ctx_pd,
         \A h \in held : h.pd \in DOMAIN pds' => h \in held' \/ h.pd = ctx'.ctx_pd
  PROVE  LeftPds'
<1>1. \A u \in Threads : Makes(u) => Makes(u)' /\ call'[u] = call[u]
  BY DEF Makes
<1> QED
  BY <1>1 DEF LeftPds

\* No region is new, and that of the call is in its hands, in use or gone.
LEMMA LeftMrsKeeps ==
  ASSUME NEW t \in Threads, \A u \in Threads : u # t => call'[u] = call[u], LeftMrs,
         \A m \in DOMAIN mrs' : m \in DOMAIN mrs /\ (m # call[t].el /\ mrs[m].up => mrs'[m].up),
         \/ call[t].at \notin ElAts /\ \A m \in DOMAIN mrs' : mrs[m].up => mrs'[m].up
         \/ call'[t].at \in ElAts /\ call'[t].el = call[t].el
         \/ call[t].el \in DOMAIN mrs' => mrs'[call[t].el].up
  PROVE  LeftMrs'
BY DEF LeftMrs

\* The last reference of a PD that nothing is made on is dropped.
LEMMA PdGoes ==
  ASSUME NEW p \in DOMAIN pds, DropPd(p), CallInv, PdShape, MrShape, RefInv, Uses(p) = {},
         \A u \in Threads : call[u].op \in RegOps => call[u].pd # p
  PROVE  DOMAIN pds' = DOMAIN pds \ {p}
<1>1. \A u \in Threads : call[u].at \in RefAts => call[u].op \in RegOps
  BY AtIs DEF CallOK, ElAts, IndexAts
<1>2. Refs(p) = {}
  BY <1>1 DEF Refs
<1>3. pds[p].ref = 1
  BY <1>2, LastRef
<1> QED
  BY <1>3, PdDrop

\* Every PD is had by someone: none is left behind.
LEMMA LeftPdsStep ==
  ASSUME "copy_fault" \notin Allow, CallInv, CtxInv, PdShape, MrShape, PoolShape, LifeInv, CqShape, AvInv,
         ElInv, OwnerInv, UseInv, RefInv, LeftPds, [Next]_vars
  PROVE  LeftPds'
<1>1. ASSUME NEW t \in Threads, Alloc(t)
      PROVE  LeftPds'
  <2>1. CASE AllocGet(t)
    <3>0. \A u \in Threads : u # t => call'[u] = call[u]
      BY <1>1, MemFrame DEF MemStep, Moves
    <3>1. held' = held /\ ctx' = ctx /\ DOMAIN pds' = DOMAIN pds /\ ~Makes(t)
      BY <2>1, AtIs DEF AllocGet, Runs, Null, Idle, Makes
    <3> QED
      BY <3>0, <3>1, LeftPdsKeeps
  <2>2. CASE AllocInc(t)
    <3>0. \A u \in Threads : u # t => call'[u] = call[u]
      BY <1>1, MemFrame DEF MemStep, Moves
    <3>1. held' = held /\ ctx' = ctx /\ DOMAIN pds' = DOMAIN pds /\ ~Makes(t)
      BY <2>2, AtIs DEF AllocInc, Runs, Idle, Makes
    <3> QED
      BY <3>0, <3>1, LeftPdsKeeps
  <2>3. CASE AllocUndo(t)
    <3>0. \A u \in Threads : u # t => call'[u] = call[u]
      BY <1>1, MemFrame DEF MemStep, Moves
    <3>1. held' = held /\ ctx' = ctx /\ DOMAIN pds' = DOMAIN pds /\ ~Makes(t)
      BY <2>3, AtIs DEF AllocUndo, Runs, Null, Idle, Makes
    <3> QED
      BY <3>0, <3>1, LeftPdsKeeps
  <2>4. CASE AllocElem(t)
    <3>0. \A u \in Threads : u # t => call'[u] = call[u]
      BY <1>1, MemFrame DEF MemStep, Moves
    <3>1. call[t].at = "elem" /\ held' = held /\ ctx' = ctx
      BY <2>4 DEF AllocElem, Runs
    <3>2. CASE call[t].op \in PdOps
      <4> DEFINE p == Unused(DOMAIN pds)
      <4>1. pds' = With(pds, p, [ref |-> 1]) /\ call'[t].at = "made" /\ call'[t].pd = p
        BY <2>4, <3>2, AtIs DEF AllocElem
      <4>2. DOMAIN pds' = DOMAIN pds \cup {p}
        BY <4>1, PdMade, Zenon
      <4> HIDE DEF p
      <4>3. Makes(t)' /\ \A u \in Threads : Makes(u) => Makes(u)' /\ call'[u] = call[u]
        BY <3>0, <3>1, <4>1 DEF Makes
      <4> QED
        BY <3>1, <4>1, <4>2, <4>3 DEF LeftPds
    <3>3. CASE call[t].op \notin PdOps
      <4>1. pds' = pds
        BY <2>4, <3>3 DEF AllocElem
      <4> QED
        BY <3>0, <3>1, <4>1, LeftPdsKeeps DEF Makes
    <3> QED
      BY <3>2, <3>3
  <2> QED
    BY <1>1, <2>1, <2>2, <2>3, <2>4 DEF Alloc
<1>2. ASSUME NEW t \in Threads, Pds(t)
      PROVE  LeftPds'
  <2>1. CASE bxroce_alloc_ucontext(t)
    <3>0. \A u \in Threads : u # t => call'[u] = call[u]
      BY <1>2, MemFrame DEF MemStep, Moves
    <3>1. held' = held /\ pds' = pds /\ call[t] = Idle /\ ctx.st = "closed" /\ ctx'.ctx_pd = 0
      BY <2>1 DEF bxroce_alloc_ucontext, Begin, Closed
    <3>2. ctx.ctx_pd = 0
      BY <3>1 DEF CtxInv, Closed
    <3> QED
      BY <3>0, <3>1, <3>2, LeftPdsKeeps DEF Makes, Idle
  <2>2. ASSUME NEW f \in BOOLEAN, OpenDone(t, f)
        PROVE  LeftPds'
    <3>0. \A u \in Threads : u # t => call'[u] = call[u]
      BY <1>2, MemFrame DEF MemStep, Moves
    <3>1. /\ call[t].op = "open" /\ held' = held /\ pds' = pds
          /\ ctx' = [ctx EXCEPT !.st = "open", !.ctx_pd = call[t].pd]
      BY <2>2 DEF OpenDone
    <3>2. ctx'.ctx_pd = call[t].pd
      BY <3>1 DEF CtxInv
    <3>3. ctx.ctx_pd = 0 /\ 0 \notin DOMAIN pds
      BY <3>1 DEF CtxInv, PdShape
    <3>4. \A u \in Threads : Makes(u) => u = t \/ (Makes(u)' /\ call'[u] = call[u])
      BY <3>0 DEF Makes
    <3> QED
      BY <3>1, <3>2, <3>3, <3>4 DEF LeftPds
  <2>3. CASE bxroce_dealloc_ucontext(t)
    <3>1. /\ ctx.st = "open" /\ DropPd(ctx.ctx_pd) /\ held' = held /\ call' = call /\ call[t] = Idle
          /\ \A h \in held : h.own \notin Users
      BY <2>3 DEF bxroce_dealloc_ucontext
    <3>2. ctx.ctx_pd \in DOMAIN pds /\ \A h \in held : h.pd # ctx.ctx_pd
      BY <3>1 DEF OwnerInv
    <3>3. Uses(ctx.ctx_pd) = {} /\ \A u \in Threads : call[u].op \in RegOps => call[u].pd # ctx.ctx_pd
      BY <3>2 DEF Uses, UseInv
    <3>4. DOMAIN pds' = DOMAIN pds \ {ctx.ctx_pd}
      BY <3>1, <3>2, <3>3, PdGoes
    <3> QED
      BY <3>1, <3>4, LeftPdsKeeps DEF Makes, Idle
  <2>4. CASE bxroce_get_ucontext_pd(t)
    <3>0. \A u \in Threads : u # t => call'[u] = call[u]
      BY <1>2, MemFrame DEF MemStep, Moves
    <3>1. /\ held' = held /\ pds' = pds /\ ctx' = [ctx EXCEPT !.pd_in_use = TRUE] /\ call[t] = Idle
      BY <2>4 DEF bxroce_get_ucontext_pd, Begin
    <3>2. ctx'.ctx_pd = ctx.ctx_pd
      BY <3>1 DEF CtxInv
    <3> QED
      BY <3>0, <3>1, <3>2, LeftPdsKeeps DEF Makes, Idle
  <2>5. CASE bxroce_alloc_pd(t)
    <3>0. \A u \in Threads : u # t => call'[u] = call[u]
      BY <1>2, MemFrame DEF MemStep, Moves
    <3>1. held' = held /\ ctx' = ctx /\ DOMAIN pds' = DOMAIN pds /\ ~Makes(t)
      BY <2>5, AtIs DEF bxroce_alloc_pd, Begin, Idle, Makes
    <3> QED
      BY <3>0, <3>1, LeftPdsKeeps
  <2>6. CASE AllocPdDone(t)
    <3>0. \A u \in Threads : u # t => call'[u] = call[u]
      BY <1>2, MemFrame DEF MemStep, Moves
    <3> DEFINE n == [pd |-> call[t].pd, own |-> t]
    <3>1. held' = held \cup {n} /\ pds' = pds /\ ctx' = ctx
      BY <2>6 DEF AllocPdDone
    <3>2. n.pd = call[t].pd
      OBVIOUS
    <3> HIDE DEF n
    <3>3. \A u \in Threads : Makes(u) => u = t \/ (Makes(u)' /\ call'[u] = call[u])
      BY <3>0 DEF Makes
    <3> QED
      BY <3>1, <3>2, <3>3 DEF LeftPds
  <2>7. ASSUME NEW h \in held, bxroce_dealloc_pd(t, h)
        PROVE  LeftPds'
    <3>1. held' = held \ {h} /\ call' = call /\ call[t] = Idle /\ Uses(h.pd) = {} /\ ~Busy(h.pd)
      BY <2>7 DEF bxroce_dealloc_pd
    <3>2. CASE t \in Users /\ ctx.ctx_pd = h.pd
      <4>1. ctx' = [ctx EXCEPT !.pd_in_use = FALSE] /\ pds' = pds
        BY <2>7, <3>2 DEF bxroce_dealloc_pd
      <4>2. ctx'.ctx_pd = ctx.ctx_pd
        BY <4>1 DEF CtxInv
      <4> QED
        BY <3>1, <3>2, <4>1, <4>2, LeftPdsKeeps DEF Makes, Idle
    <3>3. CASE ~ (t \in Users /\ ctx.ctx_pd = h.pd)
      <4>1. DropPd(h.pd) /\ ctx' = ctx
        BY <2>7, <3>3 DEF bxroce_dealloc_pd
      <4>2. h.pd \in DOMAIN pds
        BY DEF OwnerInv
      <4>3. \A u \in Threads : call[u].op \in RegOps => call[u].pd # h.pd
        BY <3>1 DEF Busy, RegOps
      <4>4. DOMAIN pds' = DOMAIN pds \ {h.pd}
        BY <3>1, <4>1, <4>2, <4>3, PdGoes
      <4> QED
        BY <3>1, <4>1, <4>4, LeftPdsKeeps DEF Makes, Idle
    <3> QED
      BY <3>2, <3>3
  <2> QED
    BY <1>2, <2>1, <2>2, <2>3, <2>4, <2>5, <2>6, <2>7 DEF Pds
<1>3. ASSUME NEW t \in Threads, Mrs(t)
      PROVE  LeftPds'
  <2>1. ASSUME NEW h \in held, NEW op \in MrOps, RegMr(t, h, op)
        PROVE  LeftPds'
    <3>0. \A u \in Threads : u # t => call'[u] = call[u]
      BY <1>3, MemFrame DEF MemStep, Moves
    <3>1. held' = held /\ ctx' = ctx /\ DOMAIN pds' = DOMAIN pds /\ ~Makes(t)
      BY <2>1, AtIs DEF RegMr, Begin, Idle, Makes
    <3> QED
      BY <3>0, <3>1, LeftPdsKeeps
  <2>2. ASSUME NEW f \in BOOLEAN, AddIndex(t, f)
        PROVE  LeftPds'
    <3>0. \A u \in Threads : u # t => call'[u] = call[u]
      BY <1>3, MemFrame DEF MemStep, Moves
    <3>1. held' = held /\ ctx' = ctx /\ DOMAIN pds' = DOMAIN pds /\ ~Makes(t)
      BY <2>2, AtIs DEF AddIndex, Runs, Idle, Makes
    <3> QED
      BY <3>0, <3>1, LeftPdsKeeps
  <2>3. CASE AddRef(t)
    <3>0. \A u \in Threads : u # t => call'[u] = call[u]
      BY <1>3, MemFrame DEF MemStep, Moves
    <3>1. held' = held /\ ctx' = ctx /\ DOMAIN pds' = DOMAIN pds /\ ~Makes(t)
      BY <2>3, AtIs DEF AddRef, Runs, Idle, Makes
    <3> QED
      BY <3>0, <3>1, LeftPdsKeeps
  <2>4. CASE UmemFails(t)
    <3>0. \A u \in Threads : u # t => call'[u] = call[u]
      BY <1>3, MemFrame DEF MemStep, Moves
    <3>1. held' = held /\ ctx' = ctx /\ DOMAIN pds' = DOMAIN pds /\ ~Makes(t)
      BY <2>4, AtIs DEF UmemFails, Runs, Idle, Makes
    <3> QED
      BY <3>0, <3>1, LeftPdsKeeps
  <2>5. CASE KeyRead(t)
    <3>0. \A u \in Threads : u # t => call'[u] = call[u]
      BY <1>3, MemFrame DEF MemStep, Moves
    <3>1. held' = held /\ ctx' = ctx /\ DOMAIN pds' = DOMAIN pds /\ ~Makes(t)
      BY <2>5, AtIs DEF KeyRead, Runs, Idle, Makes
    <3> QED
      BY <3>0, <3>1, LeftPdsKeeps
  <2>6. CASE bxroce_mem_init(t)
    <3>0. \A u \in Threads : u # t => call'[u] = call[u]
      BY <1>3, MemFrame DEF MemStep, Moves
    <3>1. held' = held /\ ctx' = ctx /\ DOMAIN pds' = DOMAIN pds /\ ~Makes(t)
      BY <2>6, AtIs DEF bxroce_mem_init, Runs, Idle, Makes
    <3> QED
      BY <3>0, <3>1, LeftPdsKeeps
  <2>7. ASSUME NEW s \in Starts, NEW l \in Lens, NEW b \in BOOLEAN, NEW n \in BOOLEAN,
             NEW f \in BOOLEAN, bxroce_reg_user_mr(t, s, l, b, n, f)
        PROVE  LeftPds'
    <3>0. \A u \in Threads : u # t => call'[u] = call[u]
      BY <1>3, MemFrame DEF MemStep, Moves
    <3>1. held' = held /\ ctx' = ctx /\ DOMAIN pds' = DOMAIN pds /\ ~Makes(t)
      BY <2>7, AtIs DEF bxroce_reg_user_mr, Runs, Idle, Makes
    <3> QED
      BY <3>0, <3>1, LeftPdsKeeps
  <2>8. ASSUME NEW f \in BOOLEAN, KernelMr(t, f)
        PROVE  LeftPds'
    <3>0. \A u \in Threads : u # t => call'[u] = call[u]
      BY <1>3, MemFrame DEF MemStep, Moves
    <3>1. held' = held /\ ctx' = ctx /\ DOMAIN pds' = DOMAIN pds /\ ~Makes(t)
      BY <2>8, AtIs DEF KernelMr, Runs, Idle, Makes
    <3> QED
      BY <3>0, <3>1, LeftPdsKeeps
  <2>9. ASSUME NEW m \in DOMAIN mrs, bxroce_dereg_mr(t, m)
        PROVE  LeftPds'
    <3>0. \A u \in Threads : u # t => call'[u] = call[u]
      BY <1>3, MemFrame DEF MemStep, Moves
    <3>1. held' = held /\ ctx' = ctx /\ DOMAIN pds' = DOMAIN pds /\ ~Makes(t)
      BY <2>9, AtIs DEF bxroce_dereg_mr, Begin, Idle, Makes
    <3> QED
      BY <3>0, <3>1, LeftPdsKeeps
  <2>10. CASE DropPdOf(t)
    <3>0. \A u \in Threads : u # t => call'[u] = call[u]
      BY <1>3, MemFrame DEF MemStep, Moves
    <3>1. call[t].at = "drop_pd" /\ held' = held /\ ctx' = ctx
      BY <2>10 DEF DropPdOf, Runs
    <3>2. call[t].pd \in DOMAIN pds /\ call[t].pd # 0 /\ pds[call[t].pd].ref # 1
      BY <3>1, NotLast DEF RefAts
    <3>3. DOMAIN pds' = DOMAIN pds
      BY <2>10, <3>2, PdDrop DEF DropPdOf
    <3> QED
      BY <3>0, <3>1, <3>3, LeftPdsKeeps DEF Makes
  <2>11. CASE DropIndex(t)
    <3>0. \A u \in Threads : u # t => call'[u] = call[u]
      BY <1>3, MemFrame DEF MemStep, Moves
    <3>1. held' = held /\ ctx' = ctx /\ DOMAIN pds' = DOMAIN pds /\ ~Makes(t)
      BY <2>11, AtIs DEF DropIndex, Runs, Idle, Makes
    <3> QED
      BY <3>0, <3>1, LeftPdsKeeps
  <2>12. CASE DropMr(t)
    <3>0. \A u \in Threads : u # t => call'[u] = call[u]
      BY <1>3, MemFrame DEF MemStep, Moves
    <3>1. held' = held /\ ctx' = ctx /\ DOMAIN pds' = DOMAIN pds /\ ~Makes(t)
      BY <2>12, AtIs DEF DropMr, Runs, Idle, Makes
    <3> QED
      BY <3>0, <3>1, LeftPdsKeeps
  <2> QED
    BY <1>3, <2>1, <2>2, <2>3, <2>4, <2>5, <2>6, <2>7, <2>8, <2>9, <2>10, <2>11, <2>12 DEF Mrs
<1>4. ASSUME NEW t \in Threads, Cqs(t)
      PROVE  LeftPds'
  <2>1. Moves(t, {"none"} \cup CqAts) /\ held' = held /\ pds' = pds /\ ctx'.ctx_pd = ctx.ctx_pd
    BY <1>4, CqFrame
  <2>2. ~Makes(t) /\ \A u \in Threads : u # t => call'[u] = call[u]
    BY <2>1 DEF Moves, CqAts, BitAts, AhAts, Makes
  <2> QED
    BY <2>1, <2>2, LeftPdsKeeps
<1>5. ASSUME NEW t \in Threads, Ahs(t)
      PROVE  LeftPds'
  <2>1. Moves(t, {"none"} \cup AhAts) /\ held' = held /\ pds' = pds /\ ctx'.ctx_pd = ctx.ctx_pd
    BY <1>5, AhFrame
  <2>2. ~Makes(t) /\ \A u \in Threads : u # t => call'[u] = call[u]
    BY <2>1 DEF Moves, CqAts, BitAts, AhAts, Makes
  <2> QED
    BY <2>1, <2>2, LeftPdsKeeps
<1>6. ASSUME Life
      PROVE  LeftPds'
  <2>1. call' = call /\ ctx' = ctx /\ held' = held
    BY <1>6, LifeRest
  <2>2. CASE pds' = pds
    BY <2>1, <2>2 DEF LeftPds, Makes
  <2>3. CASE pds' = <<>>
    BY <2>3, NoElems DEF LeftPds
  <2> QED
    BY <1>6, <2>2, <2>3, LifeObjects DEF bxroce_init_pools
<1>7. CASE UNCHANGED vars
  BY <1>7 DEF vars, LeftPds, Makes
<1> QED
  BY <1>1, <1>2, <1>3, <1>4, <1>5, <1>6, <1>7 DEF Next

\* Every region is in use or in the hands of a call.
LEMMA LeftMrsStep ==
  ASSUME "copy_fault" \notin Allow, CallInv, CtxInv, PdShape, MrShape, PoolShape, LifeInv, CqShape, AvInv,
         ElInv, OwnerInv, UseInv, RefInv, LeftMrs, [Next]_vars
  PROVE  LeftMrs'
<1>1. ASSUME NEW t \in Threads, Alloc(t)
      PROVE  LeftMrs'
  <2>1. CASE AllocGet(t)
    <3>0. \A u \in Threads : u # t => call'[u] = call[u]
      BY <1>1, MemFrame DEF MemStep, Moves
    <3>1. mrs' = mrs /\ call[t].at \notin ElAts
      BY <2>1, AtIs DEF AllocGet, Runs, Null, Idle, ElAts, IndexAts, RefAts
    <3> QED
      BY <3>0, <3>1, LeftMrsKeeps
  <2>2. CASE AllocInc(t)
    <3>0. \A u \in Threads : u # t => call'[u] = call[u]
      BY <1>1, MemFrame DEF MemStep, Moves
    <3>1. mrs' = mrs /\ call[t].at \notin ElAts
      BY <2>2, AtIs DEF AllocInc, Runs, Idle, ElAts, IndexAts, RefAts
    <3> QED
      BY <3>0, <3>1, LeftMrsKeeps
  <2>3. CASE AllocUndo(t)
    <3>0. \A u \in Threads : u # t => call'[u] = call[u]
      BY <1>1, MemFrame DEF MemStep, Moves
    <3>1. mrs' = mrs /\ call[t].at \notin ElAts
      BY <2>3, AtIs DEF AllocUndo, Runs, Null, Idle, ElAts, IndexAts, RefAts
    <3> QED
      BY <3>0, <3>1, LeftMrsKeeps
  <2>4. CASE AllocElem(t)
    <3>0. \A u \in Threads : u # t => call'[u] = call[u]
      BY <1>1, MemFrame DEF MemStep, Moves
    <3>1. call[t].at \notin ElAts
      BY <2>4 DEF AllocElem, Runs, ElAts, IndexAts, RefAts
    <3>2. CASE call[t].op \in PdOps
      <4>1. mrs' = mrs
        BY <2>4, <3>2 DEF AllocElem
      <4> QED
        BY <3>0, <3>1, <4>1, LeftMrsKeeps
    <3>3. CASE call[t].op \notin PdOps
      <4> DEFINE m == Unused(DOMAIN mrs)
      <4>1. /\ mrs' = With(mrs, m, [ref |-> 1, index |-> 0, lkey |-> 0, pd |-> 0, ibpd |-> 0,
                                    whole |-> TRUE, up |-> FALSE])
            /\ call'[t].at = "index" /\ call'[t].el = m
        BY <2>4, <3>3, AtIs DEF AllocElem
      <4>2. /\ DOMAIN mrs' = DOMAIN mrs \cup {m}
            /\ \A i \in DOMAIN mrs : mrs'[i] = mrs[i]
        BY <4>1, MrMade, Zenon
      <4>3. call'[t].at \in ElAts /\ call'[t].el = m
        BY <4>1 DEF ElAts
      <4> HIDE DEF m
      <4>4. \A u \in Threads : call[u].at \in ElAts => u # t /\ call'[u] = call[u]
        BY <3>0, <3>1
      <4> QED
        BY <4>2, <4>3, <4>4 DEF LeftMrs
    <3> QED
      BY <3>2, <3>3
  <2> QED
    BY <1>1, <2>1, <2>2, <2>3, <2>4 DEF Alloc
<1>2. ASSUME NEW t \in Threads, Pds(t)
      PROVE  LeftMrs'
  <2>1. CASE bxroce_alloc_ucontext(t)
    <3>0. \A u \in Threads : u # t => call'[u] = call[u]
      BY <1>2, MemFrame DEF MemStep, Moves
    <3>1. mrs' = mrs /\ call[t].at \notin ElAts
      BY <2>1, AtIs DEF bxroce_alloc_ucontext, Begin, Idle, ElAts, IndexAts, RefAts
    <3> QED
      BY <3>0, <3>1, LeftMrsKeeps
  <2>2. ASSUME NEW f \in BOOLEAN, OpenDone(t, f)
        PROVE  LeftMrs'
    <3>0. \A u \in Threads : u # t => call'[u] = call[u]
      BY <1>2, MemFrame DEF MemStep, Moves
    <3>1. mrs' = mrs /\ call[t].at \notin ElAts
      BY <2>2, AtIs DEF OpenDone, Runs, Idle, ElAts, IndexAts, RefAts
    <3> QED
      BY <3>0, <3>1, LeftMrsKeeps
  <2>3. CASE bxroce_dealloc_ucontext(t)
    <3>0. \A u \in Threads : u # t => call'[u] = call[u]
      BY <1>2, MemFrame DEF MemStep, Moves
    <3>1. mrs' = mrs /\ call[t].at \notin ElAts
      BY <2>3, AtIs DEF bxroce_dealloc_ucontext, Idle, ElAts, IndexAts, RefAts
    <3> QED
      BY <3>0, <3>1, LeftMrsKeeps
  <2>4. CASE bxroce_get_ucontext_pd(t)
    <3>0. \A u \in Threads : u # t => call'[u] = call[u]
      BY <1>2, MemFrame DEF MemStep, Moves
    <3>1. mrs' = mrs /\ call[t].at \notin ElAts
      BY <2>4, AtIs DEF bxroce_get_ucontext_pd, Begin, Idle, ElAts, IndexAts, RefAts
    <3> QED
      BY <3>0, <3>1, LeftMrsKeeps
  <2>5. CASE bxroce_alloc_pd(t)
    <3>0. \A u \in Threads : u # t => call'[u] = call[u]
      BY <1>2, MemFrame DEF MemStep, Moves
    <3>1. mrs' = mrs /\ call[t].at \notin ElAts
      BY <2>5, AtIs DEF bxroce_alloc_pd, Begin, Idle, ElAts, IndexAts, RefAts
    <3> QED
      BY <3>0, <3>1, LeftMrsKeeps
  <2>6. CASE AllocPdDone(t)
    <3>0. \A u \in Threads : u # t => call'[u] = call[u]
      BY <1>2, MemFrame DEF MemStep, Moves
    <3>1. mrs' = mrs /\ call[t].at \notin ElAts
      BY <2>6, AtIs DEF AllocPdDone, Runs, Idle, ElAts, IndexAts, RefAts
    <3> QED
      BY <3>0, <3>1, LeftMrsKeeps
  <2>7. ASSUME NEW h \in held, bxroce_dealloc_pd(t, h)
        PROVE  LeftMrs'
    <3>0. \A u \in Threads : u # t => call'[u] = call[u]
      BY <1>2, MemFrame DEF MemStep, Moves
    <3>1. mrs' = mrs /\ call[t].at \notin ElAts
      BY <2>7, AtIs DEF bxroce_dealloc_pd, Idle, ElAts, IndexAts, RefAts
    <3> QED
      BY <3>0, <3>1, LeftMrsKeeps
  <2> QED
    BY <1>2, <2>1, <2>2, <2>3, <2>4, <2>5, <2>6, <2>7 DEF Pds
<1>3. ASSUME NEW t \in Threads, Mrs(t)
      PROVE  LeftMrs'
  <2>1. ASSUME NEW h \in held, NEW op \in MrOps, RegMr(t, h, op)
        PROVE  LeftMrs'
    <3>0. \A u \in Threads : u # t => call'[u] = call[u]
      BY <1>3, MemFrame DEF MemStep, Moves
    <3>1. mrs' = mrs /\ call[t].at \notin ElAts
      BY <2>1, AtIs DEF RegMr, Begin, Idle, ElAts, IndexAts, RefAts
    <3> QED
      BY <3>0, <3>1, LeftMrsKeeps
  <2>2. ASSUME NEW f \in BOOLEAN, AddIndex(t, f)
        PROVE  LeftMrs'
    <3>0. \A u \in Threads : u # t => call'[u] = call[u]
      BY <1>3, MemFrame DEF MemStep, Moves
    <3>1. /\ DOMAIN mrs' = DOMAIN mrs /\ \A m \in DOMAIN mrs : m # call[t].el => mrs'[m] = mrs[m]
      BY <2>2 DEF AddIndex
    <3>2. call'[t].at \in ElAts /\ call'[t].el = call[t].el
      BY <2>2, AtIs DEF AddIndex, Runs, ElAts, IndexAts, RefAts
    <3> QED
      BY <3>0, <3>1, <3>2, LeftMrsKeeps
  <2>3. CASE AddRef(t)
    <3>0. \A u \in Threads : u # t => call'[u] = call[u]
      BY <1>3, MemFrame DEF MemStep, Moves
    <3>1. /\ DOMAIN mrs' = DOMAIN mrs /\ \A m \in DOMAIN mrs : m # call[t].el => mrs'[m] = mrs[m]
      BY <2>3 DEF AddRef
    <3>2. call'[t].at \in ElAts /\ call'[t].el = call[t].el
      BY <2>3, AtIs DEF AddRef, Runs, ElAts, IndexAts, RefAts
    <3> QED
      BY <3>0, <3>1, <3>2, LeftMrsKeeps
  <2>4. CASE UmemFails(t)
    <3>0. \A u \in Threads : u # t => call'[u] = call[u]
      BY <1>3, MemFrame DEF MemStep, Moves
    <3>1. /\ DOMAIN mrs' = DOMAIN mrs /\ \A m \in DOMAIN mrs : m # call[t].el => mrs'[m] = mrs[m]
      BY <2>4 DEF UmemFails
    <3>2. call'[t].at \in ElAts /\ call'[t].el = call[t].el
      BY <2>4, AtIs DEF UmemFails, Runs, ElAts, IndexAts, RefAts
    <3> QED
      BY <3>0, <3>1, <3>2, LeftMrsKeeps
  <2>5. CASE KeyRead(t)
    <3>0. \A u \in Threads : u # t => call'[u] = call[u]
      BY <1>3, MemFrame DEF MemStep, Moves
    <3>1. /\ DOMAIN mrs' = DOMAIN mrs /\ \A m \in DOMAIN mrs : m # call[t].el => mrs'[m] = mrs[m]
      BY <2>5 DEF KeyRead
    <3>2. call'[t].at \in ElAts /\ call'[t].el = call[t].el
      BY <2>5, AtIs DEF KeyRead, Runs, ElAts, IndexAts, RefAts
    <3> QED
      BY <3>0, <3>1, <3>2, LeftMrsKeeps
  <2>6. CASE bxroce_mem_init(t)
    <3>0. \A u \in Threads : u # t => call'[u] = call[u]
      BY <1>3, MemFrame DEF MemStep, Moves
    <3>1. /\ DOMAIN mrs' = DOMAIN mrs /\ \A m \in DOMAIN mrs : m # call[t].el => mrs'[m] = mrs[m]
      BY <2>6 DEF bxroce_mem_init
    <3>2. call'[t].at \in ElAts /\ call'[t].el = call[t].el
      BY <2>6, AtIs DEF bxroce_mem_init, Runs, ElAts, IndexAts, RefAts
    <3> QED
      BY <3>0, <3>1, <3>2, LeftMrsKeeps
  <2>7. ASSUME NEW s \in Starts, NEW l \in Lens, NEW b \in BOOLEAN, NEW n \in BOOLEAN,
             NEW f \in BOOLEAN, bxroce_reg_user_mr(t, s, l, b, n, f)
        PROVE  LeftMrs'
    <3>0. \A u \in Threads : u # t => call'[u] = call[u]
      BY <1>3, MemFrame DEF MemStep, Moves
    <3>1. call[t].at = "fill" /\ call[t].at \in ElAts
      BY <2>7 DEF bxroce_reg_user_mr, Runs, ElAts, IndexAts, RefAts
    <3>2. call[t].el \in DOMAIN mrs
      BY <3>1 DEF ElInv
    <3>3. CASE n
      <4>1. mrs' = mrs /\ call' = call
        BY <2>7, <3>3 DEF bxroce_reg_user_mr
      <4> QED
        BY <4>1 DEF LeftMrs
    <3>4. CASE ~n
      <4> DEFINE w == Covers(bxroce_mem_init_user(Page, Huge, s, l, b, MaxSg), Page, Huge, s, l, b)
      <4>1. Filled(t, call[t].pd, ~f, w) /\ Go(t, IF f THEN At(t, "drop_pd") ELSE Idle)
        BY <2>7, <3>4 DEF bxroce_reg_user_mr
      <4> HIDE DEF w
      <4>2. /\ DOMAIN mrs' = DOMAIN mrs /\ \A m \in DOMAIN mrs : m # call[t].el => mrs'[m] = mrs[m]
            /\ mrs'[call[t].el].up = ~f
        BY <3>2, <4>1, FilledIs
      <4>3. CASE f
        <5>1. call'[t].at \in ElAts /\ call'[t].el = call[t].el
          BY <4>1, <4>3, AtIs DEF ElAts, IndexAts, RefAts
        <5> QED
          BY <3>0, <4>2, <5>1, LeftMrsKeeps
      <4>4. CASE ~f
        <5>1. mrs'[call[t].el].up
          BY <4>2, <4>4, Zenon
        <5> QED
          BY <3>0, <4>2, <5>1, LeftMrsKeeps
      <4> QED
        BY <4>3, <4>4
    <3> QED
      BY <3>3, <3>4
  <2>8. ASSUME NEW f \in BOOLEAN, KernelMr(t, f)
        PROVE  LeftMrs'
    <3>0. \A u \in Threads : u # t => call'[u] = call[u]
      BY <1>3, MemFrame DEF MemStep, Moves
    <3>1. call[t].at = "fill" /\ call[t].at \in ElAts
      BY <2>8 DEF KernelMr, Runs, ElAts, IndexAts, RefAts
    <3>2. call[t].el \in DOMAIN mrs
      BY <3>1 DEF ElInv
    <3>3. Filled(t, call[t].pd, TRUE, TRUE)
      BY <2>8 DEF KernelMr, bxroce_get_dma_mr, UseInv
    <3>4. /\ DOMAIN mrs' = DOMAIN mrs /\ \A m \in DOMAIN mrs : m # call[t].el => mrs'[m] = mrs[m]
          /\ mrs'[call[t].el].up
      BY <3>2, <3>3, FilledIs
    <3> QED
      BY <3>0, <3>4, LeftMrsKeeps
  <2>9. ASSUME NEW m \in DOMAIN mrs, bxroce_dereg_mr(t, m)
        PROVE  LeftMrs'
    <3>0. \A u \in Threads : u # t => call'[u] = call[u]
      BY <1>3, MemFrame DEF MemStep, Moves
    <3>1. /\ mrs' = [mrs EXCEPT ![m].up = FALSE] /\ call[t] = Idle
          /\ call'[t].at \in ElAts /\ call'[t].el = m
      BY <2>9, AtIs DEF bxroce_dereg_mr, Begin, ElAts, IndexAts, RefAts
    <3>2. DOMAIN mrs' = DOMAIN mrs /\ \A i \in DOMAIN mrs : i # m => mrs'[i] = mrs[i]
      BY <3>1
    <3>3. \A u \in Threads : call[u].at \in ElAts => u # t /\ call'[u] = call[u]
      BY <3>0, <3>1 DEF Idle, ElAts, IndexAts, RefAts
    <3> QED
      BY <3>1, <3>2, <3>3 DEF LeftMrs
  <2>10. CASE DropPdOf(t)
    <3>0. \A u \in Threads : u # t => call'[u] = call[u]
      BY <1>3, MemFrame DEF MemStep, Moves
    <3>1. mrs' = mrs /\ call[t].at = "drop_pd"
      BY <2>10 DEF DropPdOf, Runs
    <3>2. call[t].pd # 0
      BY <3>1, NotLast DEF RefAts
    <3>3. call'[t].at \in ElAts /\ call'[t].el = call[t].el
      BY <2>10, <3>2, AtIs DEF DropPdOf, ElAts, IndexAts
    <3> QED
      BY <3>0, <3>1, <3>3, LeftMrsKeeps
  <2>11. CASE DropIndex(t)
    <3>0. \A u \in Threads : u # t => call'[u] = call[u]
      BY <1>3, MemFrame DEF MemStep, Moves
    <3>1. /\ DOMAIN mrs' = DOMAIN mrs /\ \A m \in DOMAIN mrs : m # call[t].el => mrs'[m] = mrs[m]
      BY <2>11 DEF DropIndex
    <3>2. call'[t].at \in ElAts /\ call'[t].el = call[t].el
      BY <2>11, AtIs DEF DropIndex, Runs, ElAts, IndexAts, RefAts
    <3> QED
      BY <3>0, <3>1, <3>2, LeftMrsKeeps
  <2>12. CASE DropMr(t)
    <3>0. \A u \in Threads : u # t => call'[u] = call[u]
      BY <1>3, MemFrame DEF MemStep, Moves
    <3>1. mrs' = Without(mrs, call[t].el)
      BY <2>12 DEF DropMr
    <3>2. LET g == Without(mrs, call[t].el)
          IN /\ DOMAIN g = DOMAIN mrs \ {call[t].el}
             /\ \A m \in DOMAIN mrs : m # call[t].el => g[m] = mrs[m]
      BY WithoutIs, Zenon
    <3> QED
      BY <3>0, <3>1, <3>2, LeftMrsKeeps
  <2> QED
    BY <1>3, <2>1, <2>2, <2>3, <2>4, <2>5, <2>6, <2>7, <2>8, <2>9, <2>10, <2>11, <2>12 DEF Mrs
<1>4. ASSUME NEW t \in Threads, Cqs(t)
      PROVE  LeftMrs'
  <2>1. Moves(t, {"none"} \cup CqAts) /\ mrs' = mrs
    BY <1>4, CqFrame
  <2>2. call[t].at \notin ElAts /\ \A u \in Threads : u # t => call'[u] = call[u]
    BY <2>1 DEF Moves, CqAts, BitAts, AhAts, ElAts, IndexAts, RefAts
  <2> QED
    BY <2>1, <2>2, LeftMrsKeeps
<1>5. ASSUME NEW t \in Threads, Ahs(t)
      PROVE  LeftMrs'
  <2>1. Moves(t, {"none"} \cup AhAts) /\ mrs' = mrs
    BY <1>5, AhFrame
  <2>2. call[t].at \notin ElAts /\ \A u \in Threads : u # t => call'[u] = call[u]
    BY <2>1 DEF Moves, CqAts, BitAts, AhAts, ElAts, IndexAts, RefAts
  <2> QED
    BY <2>1, <2>2, LeftMrsKeeps
<1>6. ASSUME Life
      PROVE  LeftMrs'
  <2>1. call' = call
    BY <1>6, LifeRest
  <2>2. CASE mrs' = mrs
    BY <2>1, <2>2 DEF LeftMrs
  <2>3. CASE mrs' = <<>>
    BY <2>3, NoElems DEF LeftMrs
  <2> QED
    BY <1>6, <2>2, <2>3, LifeObjects DEF bxroce_init_pools
<1>7. CASE UNCHANGED vars
  BY <1>7 DEF vars, LeftMrs
<1> QED
  BY <1>1, <1>2, <1>3, <1>4, <1>5, <1>6, <1>7 DEF Next

-----------------------------------------------------------------------------
(* How many PDs a thread has.                                              *)

\* A thread that does not begin to allocate one.
LEMMA RoomKeeps ==
  ASSUME NEW t \in Threads, \A u \in Threads : u # t => call'[u] = call[u], RoomInv, held' = held,
         call'[t].op = "alloc_pd" => call[t].op = "alloc_pd" \/ Cardinality(Held(t)) < MaxHeld
  PROVE  RoomInv'
<1>1. \A u \in Threads : Held(u)' = Held(u)
  BY DEF Held
<1> QED
  BY <1>1 DEF RoomInv

\* One more or one less, while the thread makes none.
LEMMA RoomMoves ==
  ASSUME NEW t \in Threads, \A u \in Threads : u # t => call'[u] = call[u], RoomInv, PdShape,
         NEW h, h.own = t, held \ {h} = held' \ {h}, call'[t].op # "alloc_pd",
         h \in held' => call[t].op = "alloc_pd"
  PROVE  RoomInv'
<1>1. \A u \in Threads : u # t => Held(u)' = Held(u)
  BY DEF Held
<1> DEFINE A == Held(t)
           B == Held(t)'
<1>2. IsFiniteSet(A)
  <2>1. A \subseteq held
    BY DEF Held
  <2> QED
    BY <2>1, FS_Subset DEF PdShape
<1>3. A \ {h} = B \ {h} /\ (h \in B => h \in held')
  BY DEF Held
<1> HIDE DEF A, B
<1>4. /\ Cardinality(A) \in Nat /\ Cardinality(B) \in Nat
      /\ Cardinality(B) + (IF h \in A THEN 1 ELSE 0) = Cardinality(A) + (IF h \in B THEN 1 ELSE 0)
  BY <1>2, <1>3, Differ
<1>5. Cardinality(A) <= MaxHeld /\ (h \in B => Cardinality(A) < MaxHeld) /\ MaxHeld \in Nat
  BY <1>3, Sizes DEF RoomInv, A
<1>6. Cardinality(B) <= MaxHeld
  BY <1>4, <1>5
<1>7. \A u \in Threads : Cardinality(Held(u)') <= MaxHeld
  BY <1>1, <1>6 DEF RoomInv, B
<1>8. \A u \in Threads : call'[u].op = "alloc_pd" => Cardinality(Held(u)') < MaxHeld
  BY <1>1 DEF RoomInv
<1> QED
  BY <1>7, <1>8 DEF RoomInv

\* No thread has more PDs than it may have.
LEMMA RoomStep ==
  ASSUME CallInv, CtxInv, PdShape, MrShape, PoolShape, CqShape, AvInv, RoomInv, [Next]_vars
  PROVE  RoomInv'
<1>1. ASSUME NEW t \in Threads, Alloc(t)
      PROVE  RoomInv'
  <2>1. CASE AllocGet(t)
    <3>0. \A u \in Threads : u # t => call'[u] = call[u]
      BY <1>1, MemFrame DEF MemStep, Moves
    <3>1. held' = held /\ (call'[t].op = "alloc_pd" => call[t].op = "alloc_pd")
      BY <2>1, AtIs DEF AllocGet, Runs, Null, Idle
    <3> QED
      BY <3>0, <3>1, RoomKeeps
  <2>2. CASE AllocInc(t)
    <3>0. \A u \in Threads : u # t => call'[u] = call[u]
      BY <1>1, MemFrame DEF MemStep, Moves
    <3>1. held' = held /\ (call'[t].op = "alloc_pd" => call[t].op = "alloc_pd")
      BY <2>2, AtIs DEF AllocInc, Runs, Idle
    <3> QED
      BY <3>0, <3>1, RoomKeeps
  <2>3. CASE AllocUndo(t)
    <3>0. \A u \in Threads : u # t => call'[u] = call[u]
      BY <1>1, MemFrame DEF MemStep, Moves
    <3>1. held' = held /\ (call'[t].op = "alloc_pd" => call[t].op = "alloc_pd")
      BY <2>3, AtIs DEF AllocUndo, Runs, Null, Idle
    <3> QED
      BY <3>0, <3>1, RoomKeeps
  <2>4. CASE AllocElem(t)
    <3>0. \A u \in Threads : u # t => call'[u] = call[u]
      BY <1>1, MemFrame DEF MemStep, Moves
    <3>1. held' = held /\ (call'[t].op = "alloc_pd" => call[t].op = "alloc_pd")
      BY <2>4, AtIs DEF AllocElem, Runs, Idle
    <3> QED
      BY <3>0, <3>1, RoomKeeps
  <2> QED
    BY <1>1, <2>1, <2>2, <2>3, <2>4 DEF Alloc
<1>2. ASSUME NEW t \in Threads, Pds(t)
      PROVE  RoomInv'
  <2>1. CASE bxroce_alloc_ucontext(t)
    <3>0. \A u \in Threads : u # t => call'[u] = call[u]
      BY <1>2, MemFrame DEF MemStep, Moves
    <3>1. held' = held /\ (call'[t].op = "alloc_pd" => call[t].op = "alloc_pd")
      BY <2>1, AtIs DEF bxroce_alloc_ucontext, Begin, Idle
    <3> QED
      BY <3>0, <3>1, RoomKeeps
  <2>2. ASSUME NEW f \in BOOLEAN, OpenDone(t, f)
        PROVE  RoomInv'
    <3>0. \A u \in Threads : u # t => call'[u] = call[u]
      BY <1>2, MemFrame DEF MemStep, Moves
    <3>1. held' = held /\ (call'[t].op = "alloc_pd" => call[t].op = "alloc_pd")
      BY <2>2, AtIs DEF OpenDone, Runs, Idle
    <3> QED
      BY <3>0, <3>1, RoomKeeps
  <2>3. CASE bxroce_dealloc_ucontext(t)
    <3>0. \A u \in Threads : u # t => call'[u] = call[u]
      BY <1>2, MemFrame DEF MemStep, Moves
    <3>1. held' = held /\ (call'[t].op = "alloc_pd" => call[t].op = "alloc_pd")
      BY <2>3, AtIs DEF bxroce_dealloc_ucontext, Idle
    <3> QED
      BY <3>0, <3>1, RoomKeeps
  <2>4. CASE bxroce_get_ucontext_pd(t)
    <3>0. \A u \in Threads : u # t => call'[u] = call[u]
      BY <1>2, MemFrame DEF MemStep, Moves
    <3>1. held' = held /\ Cardinality(Held(t)) < MaxHeld
      BY <2>4 DEF bxroce_get_ucontext_pd, MayHold, Held
    <3> QED
      BY <3>0, <3>1, RoomKeeps
  <2>5. CASE bxroce_alloc_pd(t)
    <3>0. \A u \in Threads : u # t => call'[u] = call[u]
      BY <1>2, MemFrame DEF MemStep, Moves
    <3>1. held' = held /\ Cardinality(Held(t)) < MaxHeld
      BY <2>5 DEF bxroce_alloc_pd, MayHold, Held
    <3> QED
      BY <3>0, <3>1, RoomKeeps
  <2>6. CASE AllocPdDone(t)
    <3>0. \A u \in Threads : u # t => call'[u] = call[u]
      BY <1>2, MemFrame DEF MemStep, Moves
    <3> DEFINE n == [pd |-> call[t].pd, own |-> t]
    <3>1. held' = held \cup {n} /\ call[t].op = "alloc_pd" /\ call'[t].op = "none"
      BY <2>6, AtIs DEF AllocPdDone, Idle
    <3>2. n.own = t
      OBVIOUS
    <3> HIDE DEF n
    <3> QED
      BY <3>0, <3>1, <3>2, RoomMoves
  <2>7. ASSUME NEW h \in held, bxroce_dealloc_pd(t, h)
        PROVE  RoomInv'
    <3>0. \A u \in Threads : u # t => call'[u] = call[u]
      BY <1>2, MemFrame DEF MemStep, Moves
    <3>1. held' = held \ {h} /\ h.own = t /\ call' = call /\ call[t] = Idle
      BY <2>7 DEF bxroce_dealloc_pd
    <3>2. call'[t].op # "alloc_pd" /\ h \notin held'
      BY <3>1 DEF Idle
    <3> QED
      BY <3>0, <3>1, <3>2, RoomMoves
  <2> QED
    BY <1>2, <2>1, <2>2, <2>3, <2>4, <2>5, <2>6, <2>7 DEF Pds
<1>3. ASSUME NEW t \in Threads, Mrs(t)
      PROVE  RoomInv'
  <2>1. ASSUME NEW h \in held, NEW op \in MrOps, RegMr(t, h, op)
        PROVE  RoomInv'
    <3>0. \A u \in Threads : u # t => call'[u] = call[u]
      BY <1>3, MemFrame DEF MemStep, Moves
    <3>1. held' = held /\ (call'[t].op = "alloc_pd" => call[t].op = "alloc_pd")
      BY <2>1, AtIs DEF RegMr, Begin, Idle, MrOps
    <3> QED
      BY <3>0, <3>1, RoomKeeps
  <2>2. ASSUME NEW f \in BOOLEAN, AddIndex(t, f)
        PROVE  RoomInv'
    <3>0. \A u \in Threads : u # t => call'[u] = call[u]
      BY <1>3, MemFrame DEF MemStep, Moves
    <3>1. held' = held /\ (call'[t].op = "alloc_pd" => call[t].op = "alloc_pd")
      BY <2>2, AtIs DEF AddIndex, Runs, Idle
    <3> QED
      BY <3>0, <3>1, RoomKeeps
  <2>3. CASE AddRef(t)
    <3>0. \A u \in Threads : u # t => call'[u] = call[u]
      BY <1>3, MemFrame DEF MemStep, Moves
    <3>1. held' = held /\ (call'[t].op = "alloc_pd" => call[t].op = "alloc_pd")
      BY <2>3, AtIs DEF AddRef, Runs, Idle
    <3> QED
      BY <3>0, <3>1, RoomKeeps
  <2>4. CASE UmemFails(t)
    <3>0. \A u \in Threads : u # t => call'[u] = call[u]
      BY <1>3, MemFrame DEF MemStep, Moves
    <3>1. held' = held /\ (call'[t].op = "alloc_pd" => call[t].op = "alloc_pd")
      BY <2>4, AtIs DEF UmemFails, Runs, Idle
    <3> QED
      BY <3>0, <3>1, RoomKeeps
  <2>5. CASE KeyRead(t)
    <3>0. \A u \in Threads : u # t => call'[u] = call[u]
      BY <1>3, MemFrame DEF MemStep, Moves
    <3>1. held' = held /\ (call'[t].op = "alloc_pd" => call[t].op = "alloc_pd")
      BY <2>5, AtIs DEF KeyRead, Runs, Idle
    <3> QED
      BY <3>0, <3>1, RoomKeeps
  <2>6. CASE bxroce_mem_init(t)
    <3>0. \A u \in Threads : u # t => call'[u] = call[u]
      BY <1>3, MemFrame DEF MemStep, Moves
    <3>1. held' = held /\ (call'[t].op = "alloc_pd" => call[t].op = "alloc_pd")
      BY <2>6, AtIs DEF bxroce_mem_init, Runs, Idle
    <3> QED
      BY <3>0, <3>1, RoomKeeps
  <2>7. ASSUME NEW s \in Starts, NEW l \in Lens, NEW b \in BOOLEAN, NEW n \in BOOLEAN,
             NEW f \in BOOLEAN, bxroce_reg_user_mr(t, s, l, b, n, f)
        PROVE  RoomInv'
    <3>0. \A u \in Threads : u # t => call'[u] = call[u]
      BY <1>3, MemFrame DEF MemStep, Moves
    <3>1. held' = held /\ (call'[t].op = "alloc_pd" => call[t].op = "alloc_pd")
      BY <2>7, AtIs DEF bxroce_reg_user_mr, Runs, Idle
    <3> QED
      BY <3>0, <3>1, RoomKeeps
  <2>8. ASSUME NEW f \in BOOLEAN, KernelMr(t, f)
        PROVE  RoomInv'
    <3>0. \A u \in Threads : u # t => call'[u] = call[u]
      BY <1>3, MemFrame DEF MemStep, Moves
    <3>1. held' = held /\ (call'[t].op = "alloc_pd" => call[t].op = "alloc_pd")
      BY <2>8, AtIs DEF KernelMr, Runs, Idle
    <3> QED
      BY <3>0, <3>1, RoomKeeps
  <2>9. ASSUME NEW m \in DOMAIN mrs, bxroce_dereg_mr(t, m)
        PROVE  RoomInv'
    <3>0. \A u \in Threads : u # t => call'[u] = call[u]
      BY <1>3, MemFrame DEF MemStep, Moves
    <3>1. held' = held /\ (call'[t].op = "alloc_pd" => call[t].op = "alloc_pd")
      BY <2>9, AtIs DEF bxroce_dereg_mr, Begin, Idle
    <3> QED
      BY <3>0, <3>1, RoomKeeps
  <2>10. CASE DropPdOf(t)
    <3>0. \A u \in Threads : u # t => call'[u] = call[u]
      BY <1>3, MemFrame DEF MemStep, Moves
    <3>1. held' = held /\ (call'[t].op = "alloc_pd" => call[t].op = "alloc_pd")
      BY <2>10, AtIs DEF DropPdOf, Runs, Idle
    <3> QED
      BY <3>0, <3>1, RoomKeeps
  <2>11. CASE DropIndex(t)
    <3>0. \A u \in Threads : u # t => call'[u] = call[u]
      BY <1>3, MemFrame DEF MemStep, Moves
    <3>1. held' = held /\ (call'[t].op = "alloc_pd" => call[t].op = "alloc_pd")
      BY <2>11, AtIs DEF DropIndex, Runs, Idle
    <3> QED
      BY <3>0, <3>1, RoomKeeps
  <2>12. CASE DropMr(t)
    <3>0. \A u \in Threads : u # t => call'[u] = call[u]
      BY <1>3, MemFrame DEF MemStep, Moves
    <3>1. held' = held /\ (call'[t].op = "alloc_pd" => call[t].op = "alloc_pd")
      BY <2>12, AtIs DEF DropMr, Runs, Idle
    <3> QED
      BY <3>0, <3>1, RoomKeeps
  <2> QED
    BY <1>3, <2>1, <2>2, <2>3, <2>4, <2>5, <2>6, <2>7, <2>8, <2>9, <2>10, <2>11, <2>12 DEF Mrs
<1>4. ASSUME NEW t \in Threads, Cqs(t)
      PROVE  RoomInv'
  <2>1. CallInv' /\ Moves(t, {"none"} \cup CqAts) /\ held' = held
    BY <1>4, CqFrame
  <2>2. call'[t].at \in {"none"} \cup CqAts /\ \A u \in Threads : u # t => call'[u] = call[u]
    BY <2>1 DEF Moves
  <2>3. call'[t].op # "alloc_pd"
    BY <2>1, <2>2 DEF CallInv, CallOK, Idle, CqOps
  <2> QED
    BY <2>1, <2>2, <2>3, RoomKeeps
<1>5. ASSUME NEW t \in Threads, Ahs(t)
      PROVE  RoomInv'
  <2>1. CallInv' /\ Moves(t, {"none"} \cup AhAts) /\ held' = held
    BY <1>5, AhFrame
  <2>2. call'[t].at \in {"none"} \cup AhAts /\ \A u \in Threads : u # t => call'[u] = call[u]
    BY <2>1 DEF Moves
  <2>3. call'[t].op # "alloc_pd"
    BY <2>1, <2>2 DEF CallInv, CallOK, Idle, AhOps
  <2> QED
    BY <2>1, <2>2, <2>3, RoomKeeps
<1>6. ASSUME Life
      PROVE  RoomInv'
  <2>1. call' = call /\ held' = held
    BY <1>6, LifeRest
  <2> QED
    BY <2>1 DEF RoomInv, Held
<1>7. CASE UNCHANGED vars
  BY <1>7 DEF vars, RoomInv, Held
<1> QED
  BY <1>1, <1>2, <1>3, <1>4, <1>5, <1>6, <1>7 DEF Next

-----------------------------------------------------------------------------
(* Room in the pool of PDs.                                                *)

\* A thread's shares of the pool: the PDs it has, and the one it is about to get.
Shares(t) == {h.pd : h \in Held(t)} \cup (IF call[t].op = "alloc_pd" THEN {0} ELSE {})

\* A set with no more than n elements can be numbered from 1 to n.
LEMMA Numbered ==
  ASSUME NEW S, IsFiniteSet(S), NEW n \in Nat, Cardinality(S) <= n
  PROVE  \E e : \A x \in S : \E i \in 1..n : e[i] = x
<1>1. Cardinality(S) \in Nat /\ ExistsBijection(1..Cardinality(S), S)
  BY FS_CardinalityType
<1>2. PICK e \in Bijection(1..Cardinality(S), S) : TRUE
  BY <1>1 DEF ExistsBijection
<1>3. \A x \in S : \E i \in 1..Cardinality(S) : e[i] = x
  BY <1>2 DEF Bijection, Surjection
<1> DEFINE c == Cardinality(S)
<1>4. c \in Nat /\ c <= n /\ \A x \in S : \E i \in 1..c : e[i] = x
  BY <1>1, <1>3
<1> HIDE DEF c
<1>5. \A x \in S : \E i \in 1..n : e[i] = x
  BY <1>4
<1> QED
  BY <1>5

\* The shares of a thread can be numbered.
LEMMA SharesFit ==
  ASSUME NEW t \in Threads, RoomInv, PdShape
  PROVE  \E e : \A x \in Shares(t) : \E i \in 1..MaxHeld : e[i] = x
<1> DEFINE A == {h.pd : h \in Held(t)}
<1>1. IsFiniteSet(Held(t))
  <2>1. Held(t) \subseteq held
    BY DEF Held
  <2> QED
    BY <2>1, FS_Subset DEF PdShape
<1>2. IsFiniteSet(A) /\ Cardinality(A) <= Cardinality(Held(t))
  <2> DEFINE f == [h \in Held(t) |-> h.pd]
  <2>1. f \in Surjection(Held(t), A)
    BY DEF Surjection
  <2> HIDE DEF f, A
  <2> QED
    BY <1>1, <2>1, FS_Surjection
<1>3. /\ Cardinality(Held(t)) \in Nat /\ Cardinality(A) \in Nat /\ MaxHeld \in Nat
      /\ Cardinality(Held(t)) <= MaxHeld
      /\ call[t].op = "alloc_pd" => Cardinality(Held(t)) < MaxHeld
  BY <1>1, <1>2, FS_CardinalityType, Sizes DEF RoomInv
<1> HIDE DEF A
<1>4. IsFiniteSet(Shares(t)) /\ Cardinality(Shares(t)) <= MaxHeld
  <2>1. CASE call[t].op = "alloc_pd"
    <3>1. Shares(t) = A \cup {0}
      BY <2>1 DEF Shares, A
    <3>2. IsFiniteSet(A \cup {0}) /\ Cardinality(A \cup {0}) = IF 0 \in A THEN Cardinality(A) ELSE Cardinality(A) + 1
      BY <1>2, FS_AddElement
    <3> QED
      BY <1>2, <1>3, <2>1, <3>1, <3>2
  <2>2. CASE call[t].op # "alloc_pd"
    <3>1. Shares(t) = A
      BY <2>2 DEF Shares, A
    <3> QED
      BY <1>2, <1>3, <3>1
  <2> QED
    BY <2>1, <2>2
<1> QED
  BY <1>3, <1>4, Numbered

\* The PDs there are and the calls on their way to one have each a share of a thread's, or
\* the one place that is the context's.
LEMMA RoomLeft ==
  ASSUME CallInv, CtxInv, PdShape, OwnerInv, LeftPds, RoomInv
  PROVE  Cardinality(DOMAIN pds) + Cardinality(Where(PdOps, AllocAts)) <= Cardinality(Threads) * MaxHeld + 1
<1> DEFINE P == {0} \X DOMAIN pds
           W == Where(PdOps, AllocAts)
           Q == {1} \X W
           slots == Threads \X (1..MaxHeld)
           one == <<0, 0>>
           e == [t \in Threads |-> CHOOSE e : \A x \in Shares(t) : \E i \in 1..MaxHeld : e[i] = x]
           opens == {t \in Threads : call[t].op = "open"}
           opener == CHOOSE t \in Threads : call[t].op = "open"
           Of(t) == IF Makes(t) THEN <<0, call[t].pd>> ELSE <<1, t>>
           g == [y \in slots \cup {one} |->
                   IF y = one THEN IF opens # {} THEN Of(opener) ELSE <<0, ctx.ctx_pd>>
                   ELSE IF e[y[1]][y[2]] = 0 THEN Of(y[1]) ELSE <<0, e[y[1]][y[2]]>>]
<1>1. \A t \in Threads : \A x \in Shares(t) : \E i \in 1..MaxHeld : e[t][i] = x
  BY SharesFit, Zenon
<1>2. MaxHeld \in Nat \ {0} /\ IsFiniteSet(Threads)
  BY Sizes
<1>3. one \notin slots
  BY <1>2
<1>4. opens # {} => opener \in Threads /\ call[opener].op = "open"
  OBVIOUS
<1>5. \A t, u \in Threads : call[t].op = "open" /\ call[u].op = "open" => t = u
  BY DEF CtxInv
<1> HIDE DEF e
<1>6. g[one] = IF opens # {} THEN Of(opener) ELSE <<0, ctx.ctx_pd>>
  OBVIOUS
<1>7. \A t \in Threads, i \in 1..MaxHeld :
        g[<<t, i>>] = IF e[t][i] = 0 THEN Of(t) ELSE <<0, e[t][i]>>
  BY <1>3
<1> HIDE DEF g, opener
<1>8. \A t \in Threads : call[t].op = "alloc_pd" => \E y \in slots : g[y] = Of(t)
  <2> SUFFICES ASSUME NEW t \in Threads, call[t].op = "alloc_pd" PROVE \E y \in slots : g[y] = Of(t)
    OBVIOUS
  <2>1. PICK i \in 1..MaxHeld : e[t][i] = 0
    BY <1>1 DEF Shares
  <2> QED
    BY <1>7, <2>1
<1>9. \A t \in Threads : call[t].op = "open" => g[one] = Of(t)
  BY <1>4, <1>5, <1>6
<1>10. \A t \in Threads : call[t].op \in PdOps => \E y \in slots \cup {one} : g[y] = Of(t)
  BY <1>8, <1>9 DEF PdOps
<1>11. \A t \in W : \E y \in slots \cup {one} : g[y] = <<1, t>>
  <2>1. \A t \in W : t \in Threads /\ call[t].op \in PdOps /\ ~Makes(t)
    BY DEF Where, AllocAts, Makes
  <2> QED
    BY <1>10, <2>1
<1>12. \A p \in DOMAIN pds : \E y \in slots \cup {one} : g[y] = <<0, p>>
  <2> SUFFICES ASSUME NEW p \in DOMAIN pds PROVE \E y \in slots \cup {one} : g[y] = <<0, p>>
    OBVIOUS
  <2>1. CASE p = ctx.ctx_pd
    <3>1. p # 0
      BY DEF PdShape
    <3>2. opens = {}
      BY <2>1, <3>1 DEF CtxInv
    <3> QED
      BY <1>6, <2>1, <3>2
  <2>2. ASSUME NEW h \in held, h.pd = p PROVE \E y \in slots \cup {one} : g[y] = <<0, p>>
    <3>1. h.own \in Threads /\ p # 0
      BY DEF PdShape
    <3>2. p \in Shares(h.own)
      BY <2>2 DEF Shares, Held
    <3>3. PICK i \in 1..MaxHeld : e[h.own][i] = p
      BY <1>1, <3>1, <3>2
    <3> QED
      BY <1>7, <3>1, <3>3
  <2>3. ASSUME NEW t \in Threads, Makes(t), call[t].pd = p PROVE \E y \in slots \cup {one} : g[y] = <<0, p>>
    <3>1. call[t].op \in PdOps
      BY <2>3, AtIs DEF CallOK, Makes
    <3> QED
      BY <1>10, <2>3, <3>1
  <2> QED
    BY <2>1, <2>2, <2>3 DEF LeftPds
<1> DEFINE Y == slots \cup {one}
           Z == {g[y] : y \in Y}
<1>13. IsFiniteSet(Y) /\ Cardinality(Y) = Cardinality(Threads) * MaxHeld + 1
  <2>1. IsFiniteSet(1..MaxHeld) /\ Cardinality(1..MaxHeld) = MaxHeld
    BY <1>2, FS_Interval
  <2>2. IsFiniteSet(slots) /\ Cardinality(slots) = Cardinality(Threads) * Cardinality(1..MaxHeld)
    BY <1>2, <2>1, FS_Product
  <2> QED
    BY <1>3, <2>1, <2>2, FS_AddElement
<1>14. IsFiniteSet(Z) /\ Cardinality(Z) <= Cardinality(Y)
  <2> DEFINE f == [y \in Y |-> g[y]]
  <2>1. f \in Surjection(Y, Z)
    BY DEF Surjection
  <2> HIDE DEF f, Y, Z
  <2> QED
    BY <1>13, <2>1, FS_Surjection
<1>15. P \cup Q \subseteq Z
  <2>1. \A x \in P : x \in Z
    BY <1>12
  <2>2. \A x \in Q : x \in Z
    BY <1>11
  <2> QED
    BY <2>1, <2>2
<1>16. IsFiniteSet(W)
  <2>1. W \subseteq Threads
    BY DEF Where
  <2> QED
    BY <1>2, <2>1, FS_Subset
<1>17. /\ IsFiniteSet(P) /\ Cardinality(P) = 1 * Cardinality(DOMAIN pds)
       /\ IsFiniteSet(Q) /\ Cardinality(Q) = 1 * Cardinality(W)
  <2>1. /\ IsFiniteSet({0}) /\ Cardinality({0}) = 1 /\ IsFiniteSet({1}) /\ Cardinality({1}) = 1
        /\ IsFiniteSet(DOMAIN pds)
    BY FS_Singleton DEF PdShape
  <2>2. IsFiniteSet(P) /\ Cardinality(P) = Cardinality({0}) * Cardinality(DOMAIN pds)
    BY <2>1, FS_Product
  <2> HIDE DEF W
  <2>3. IsFiniteSet(Q) /\ Cardinality(Q) = Cardinality({1}) * Cardinality(W)
    BY <1>16, <2>1, FS_Product
  <2> HIDE DEF P, Q
  <2> QED
    BY <2>1, <2>2, <2>3
<1>18. P \cap Q = {}
  OBVIOUS
<1> HIDE DEF P, Q, W, Z, Y
<1>19. Cardinality(P \cup Q) = Cardinality(P) + Cardinality(Q) - 0
  BY <1>17, <1>18, FS_Union, FS_EmptySet
<1>20. Cardinality(P \cup Q) <= Cardinality(Z)
  BY <1>14, <1>15, FS_Subset
<1>21. /\ Cardinality(DOMAIN pds) \in Nat /\ Cardinality(W) \in Nat /\ Cardinality(Z) \in Nat
       /\ Cardinality(Y) \in Nat
  BY <1>13, <1>14, <1>16, FS_CardinalityType DEF PdShape
<1>22. Cardinality(DOMAIN pds) + Cardinality(W) <= Cardinality(Y)
  BY <1>14, <1>17, <1>19, <1>20, <1>21
<1> QED
  BY <1>13, <1>22 DEF W

-----------------------------------------------------------------------------
(* The module and the device.                                              *)

\* The registers have their types.
LEMMA ChipStep ==
  ASSUME ChipType, [Next]_vars
  PROVE  ChipType'
<1> USE DEF ChipType
<1>1. CASE UNCHANGED life
  BY <1>1
<1>2. ASSUME NEW n \in Nics, mac_register_dev(n) \/ mac_unregister_dev(n)
      PROVE  ChipType'
  BY <1>2 DEF mac_register_dev, mac_unregister_dev, mac_disable_rx
<1>3. CASE UpDown
  BY <1>3 DEF UpDown, mac_disable_rx, mac_enable_rx
<1>4. ASSUME NEW x \in {"ip", "mac"}, NEW a \in Addrs, bxroce_inetaddr_event(x, a)
      PROVE  ChipType'
  BY <1>4, Sizes DEF bxroce_inetaddr_event
<1>5. ASSUME NEW f \in SUBSET list, bx_init_module(f)
      PROVE  ChipType'
  <2>1. nic' = nic /\ (chip' = chip \/ chip' = bxroce_init_hw(chip))
    BY <1>5 DEF bx_init_module, bx_add
  <2> QED
    BY <2>1, HwInit
<1>6. CASE bx_exit_module
  BY <1>6 DEF bx_exit_module, Oops
<1>7. CASE Life
  BY <1>2, <1>3, <1>4, <1>5, <1>6, <1>7 DEF Life
<1> QED
  BY <1>1, <1>7, Cases, LifeFrame DEF MemStep, vars

\* Every NIC has a device while the module is loaded, when none comes later and none fails.
LEMMA ListedStep ==
  ASSUME "late_probe" \notin Allow, "add_fails" \notin Allow, ListedInv, [Next]_vars
  PROVE  ListedInv'
<1> USE DEF ListedInv
<1>1. CASE UNCHANGED life
  BY <1>1
<1>2. ASSUME NEW n \in Nics, mac_register_dev(n) \/ mac_unregister_dev(n)
      PROVE  ListedInv'
  BY <1>2 DEF mac_register_dev, mac_unregister_dev, NicRest
<1>3. CASE UpDown
  BY <1>3 DEF UpDown, NicRest
<1>4. ASSUME NEW x, NEW a, bxroce_inetaddr_event(x, a)
      PROVE  ListedInv'
  BY <1>4 DEF bxroce_inetaddr_event, NicRest
<1>5. ASSUME NEW f \in SUBSET list, bx_init_module(f)
      PROVE  ListedInv'
  BY <1>5 DEF bx_init_module, bx_roce_register_driver
<1>6. CASE bx_exit_module
  BY <1>6 DEF bx_exit_module, Oops
<1>7. CASE Life
  BY <1>2, <1>3, <1>4, <1>5, <1>6, <1>7 DEF Life
<1> QED
  BY <1>1, <1>7, Cases, LifeFrame DEF MemStep, vars

\* No call is inside bxroce_alloc when all threads are idle.
LEMMA NoneInside ==
  ASSUME \A t \in Threads : call[t] = Idle, NEW ops
  PROVE  \A ats : "none" \notin ats => Cardinality(Where(ops, ats)) = 0
<1>1. \A ats : "none" \notin ats => Where(ops, ats) = {}
  BY DEF Where, Idle
<1> QED
  BY <1>1, FS_EmptySet

\* The pools of a device that goes are released: nothing is left in them.
LEMMA Released ==
  ASSUME CtxInv, PdShape, MrShape, PoolShape, CountInv, LeftPds, LeftMrs,
         bx_exit_module, bx_remove, Main \in rocedev
  PROVE  /\ pd_pool'.state = "INVALID" /\ pd_pool'.ref_cnt = 0
         /\ mr_pool'.state = "INVALID" /\ mr_pool'.ref_cnt = 0
<1>1. /\ (\A t \in Threads : call[t] = Idle) /\ ctx.st = "closed" /\ held = {}
      /\ \A m \in DOMAIN mrs : ~mrs[m].up
  BY DEF bx_exit_module, Alone
<1>2. ctx.ctx_pd = 0 /\ 0 \notin DOMAIN pds
  BY <1>1 DEF CtxInv, PdShape
<1>3. DOMAIN pds = {}
  <2> SUFFICES ASSUME NEW p \in DOMAIN pds PROVE FALSE
    OBVIOUS
  <2>1. \A t \in Threads : ~Makes(t)
    BY <1>1 DEF Makes, Idle
  <2> QED
    BY <1>1, <1>2, <2>1 DEF LeftPds
<1>4. DOMAIN mrs = {}
  <2> SUFFICES ASSUME NEW m \in DOMAIN mrs PROVE FALSE
    OBVIOUS
  <2>1. \A t \in Threads : call[t].at \notin ElAts
    BY <1>1 DEF Idle, ElAts, IndexAts, RefAts
  <2> QED
    BY <1>1, <2>1 DEF LeftMrs
<1>5. Cardinality(DOMAIN pds) = 0 /\ Cardinality(DOMAIN mrs) = 0
  BY <1>3, <1>4, FS_EmptySet
<1>6. /\ Cardinality(Where(PdOps, {"inc", "undo", "elem"})) = 0
      /\ Cardinality(Where(MrOps, {"inc", "undo", "elem"})) = 0
  <2>1. "none" \notin {"inc", "undo", "elem"}
    OBVIOUS
  <2> QED
    BY <1>1, <2>1, NoneInside
<1>7. pd_pool.ref_cnt = 1 /\ mr_pool.ref_cnt = 1
  BY <1>5, <1>6 DEF CountInv, Exact, PoolShape
<1> QED
  BY <1>7, CleanupIs DEF bx_remove, PoolShape

\* A device that is not there has no pools.
LEMMA GoneStep ==
  ASSUME "unbind" \notin Allow, LifeInv, CtxInv, PdShape, MrShape, PoolShape, CountInv, LeftPds,
         LeftMrs, GoneInv, [Next]_vars
  PROVE  GoneInv'
<1>1. ASSUME NEW t \in Threads, Alloc(t) \/ Pds(t) \/ Mrs(t) \/ Cqs(t) \/ Ahs(t)
      PROVE  GoneInv'
  <2>1. Main \in rocedev /\ rocedev' = rocedev
    BY <1>1, Serving, LifeFrame
  <2> QED
    BY <2>1 DEF GoneInv
<1>2. CASE Life
  <2>1. ASSUME UNCHANGED <<pd_pool, mr_pool>>, Main \notin rocedev' => Main \notin rocedev
        PROVE  GoneInv'
    BY <2>1 DEF GoneInv
  <2>2. ASSUME NEW n \in Nics, mac_register_dev(n) \/ mac_unregister_dev(n)
        PROVE  GoneInv'
    BY <2>1, <2>2 DEF mac_register_dev, mac_unregister_dev, NicRest
  <2>3. CASE UpDown
    BY <2>1, <2>3 DEF UpDown, NicRest
  <2>4. ASSUME NEW x, NEW a, bxroce_inetaddr_event(x, a)
        PROVE  GoneInv'
    BY <2>1, <2>4 DEF bxroce_inetaddr_event, NicRest
  <2>5. ASSUME NEW f \in SUBSET list, bx_init_module(f)
        PROVE  GoneInv'
    <3>1. Main \notin rocedev
      BY <2>5 DEF bx_init_module, LifeInv
    <3>2. CASE Main \in rocedev'
      BY <3>2 DEF GoneInv
    <3>3. CASE Main \notin rocedev'
      BY <2>1, <2>5, <3>1, <3>3 DEF bx_init_module, bx_add
    <3> QED
      BY <3>2, <3>3
  <2>6. CASE bx_exit_module
    <3>1. CASE Main \in rocedev /\ bx_remove
      BY <2>6, <3>1, Released DEF GoneInv
    <3>2. CASE Main \notin rocedev \/ rocedev' = rocedev
      BY <2>1, <2>6, <3>2 DEF bx_exit_module, Oops
    <3> QED
      BY <2>6, <3>1, <3>2 DEF bx_exit_module, Oops
  <2> QED
    BY <1>2, <2>2, <2>3, <2>4, <2>5, <2>6 DEF Life
<1>3. CASE UNCHANGED vars
  BY <1>3 DEF vars, GoneInv
<1> QED
  BY <1>1, <1>2, <1>3 DEF Next

\* A call for a PD always finds room: the pool is larger than what the threads may have.
LEMMA UndoStep ==
  ASSUME MaxPd > Cardinality(Threads) * MaxHeld, CallInv, CtxInv, PdShape, MrShape, PoolShape, CqShape, AvInv,
         LifeInv, CountInv, OwnerInv, LeftPds, RoomInv, UndoInv, [Next]_vars
  PROVE  UndoInv'
<1>1. ASSUME NEW t \in Threads, Alloc(t)
      PROVE  UndoInv'
  <2>1. CASE AllocGet(t)
    <3>0. \A u \in Threads : u # t => call'[u] = call[u]
      BY <1>1, MemFrame DEF MemStep, Moves
    <3>1. call'[t].at = "undo" => call'[t] = call[t]
      BY <2>1, AtIs DEF AllocGet, Runs, Null, Idle
    <3> QED
      BY <3>0, <3>1 DEF UndoInv
  <2>2. CASE AllocInc(t)
    <3>0. \A u \in Threads : u # t => call'[u] = call[u]
      BY <1>1, MemFrame DEF MemStep, Moves
    <3>1. CASE call[t].op \notin PdOps
      <4>1. call'[t].op = call[t].op
        BY <2>2, AtIs DEF AllocInc
      <4> QED
        BY <3>0, <3>1, <4>1 DEF UndoInv
    <3>2. CASE call[t].op \in PdOps
      <4> DEFINE n == Cardinality(DOMAIN pds)
                 A == Where(PdOps, {"undo", "elem"})
                 B == Where(PdOps, AllocAts)
      <4>1. call[t].at = "inc" /\ call[t] # Idle
        BY <2>2 DEF AllocInc, Runs, Idle
      <4>2. pd_pool.max_elem = MaxPd /\ pd_pool.num_elem = n + Cardinality(A)
        BY <4>1, Served DEF CountInv, Exact
      <4>3. IsFiniteSet(A) /\ IsFiniteSet(B) /\ Cardinality(A) \in Nat /\ Cardinality(B) \in Nat
        BY WhereIs
      <4>4. t \notin A /\ A \cup {t} \subseteq B
        BY <3>2, <4>1 DEF Where, AllocAts
      <4>5. n \in Nat /\ n + Cardinality(B) <= Cardinality(Threads) * MaxHeld + 1
        BY RoomLeft, FS_CardinalityType DEF PdShape
      <4> DEFINE m == Cardinality(Threads) * MaxHeld
      <4>6. m \in Nat /\ MaxPd \in Nat /\ MaxPd > m
        BY Sizes, FS_CardinalityType
      <4> HIDE DEF n, A, B, m
      <4>7. Cardinality(A \cup {t}) = Cardinality(A) + 1 /\ Cardinality(A \cup {t}) <= Cardinality(B)
        BY <4>3, <4>4, FS_AddElement, FS_Subset
      <4>8. n + Cardinality(B) <= m + 1
        BY <4>5 DEF m
      <4>9. ~ (pd_pool.num_elem + 1 > pd_pool.max_elem)
        BY <4>2, <4>3, <4>5, <4>6, <4>7, <4>8
      <4>10. call'[t].at = "elem"
        BY <2>2, <3>2, <4>9, AtIs DEF AllocInc, Pool
      <4> QED
        BY <3>0, <4>10 DEF UndoInv
    <3> QED
      BY <3>1, <3>2
  <2>3. CASE AllocUndo(t)
    <3>0. \A u \in Threads : u # t => call'[u] = call[u]
      BY <1>1, MemFrame DEF MemStep, Moves
    <3>1. call'[t].at = "undo" => call'[t] = call[t]
      BY <2>3, AtIs DEF AllocUndo, Runs, Null, Idle
    <3> QED
      BY <3>0, <3>1 DEF UndoInv
  <2>4. CASE AllocElem(t)
    <3>0. \A u \in Threads : u # t => call'[u] = call[u]
      BY <1>1, MemFrame DEF MemStep, Moves
    <3>1. call'[t].at = "undo" => call'[t] = call[t]
      BY <2>4, AtIs DEF AllocElem, Runs, Idle
    <3> QED
      BY <3>0, <3>1 DEF UndoInv
  <2> QED
    BY <1>1, <2>1, <2>2, <2>3, <2>4 DEF Alloc
<1>2. ASSUME NEW t \in Threads, Pds(t)
      PROVE  UndoInv'
  <2>1. CASE bxroce_alloc_ucontext(t)
    <3>0. \A u \in Threads : u # t => call'[u] = call[u]
      BY <1>2, MemFrame DEF MemStep, Moves
    <3>1. call'[t].at = "undo" => call'[t] = call[t]
      BY <2>1, AtIs DEF bxroce_alloc_ucontext, Begin, Idle
    <3> QED
      BY <3>0, <3>1 DEF UndoInv
  <2>2. ASSUME NEW f \in BOOLEAN, OpenDone(t, f)
        PROVE  UndoInv'
    <3>0. \A u \in Threads : u # t => call'[u] = call[u]
      BY <1>2, MemFrame DEF MemStep, Moves
    <3>1. call'[t].at = "undo" => call'[t] = call[t]
      BY <2>2, AtIs DEF OpenDone, Runs, Idle
    <3> QED
      BY <3>0, <3>1 DEF UndoInv
  <2>3. CASE bxroce_dealloc_ucontext(t)
    <3>0. \A u \in Threads : u # t => call'[u] = call[u]
      BY <1>2, MemFrame DEF MemStep, Moves
    <3>1. call'[t].at = "undo" => call'[t] = call[t]
      BY <2>3, AtIs DEF bxroce_dealloc_ucontext, Idle
    <3> QED
      BY <3>0, <3>1 DEF UndoInv
  <2>4. CASE bxroce_get_ucontext_pd(t)
    <3>0. \A u \in Threads : u # t => call'[u] = call[u]
      BY <1>2, MemFrame DEF MemStep, Moves
    <3>1. call'[t].at = "undo" => call'[t] = call[t]
      BY <2>4, AtIs DEF bxroce_get_ucontext_pd, Begin, Idle
    <3> QED
      BY <3>0, <3>1 DEF UndoInv
  <2>5. CASE bxroce_alloc_pd(t)
    <3>0. \A u \in Threads : u # t => call'[u] = call[u]
      BY <1>2, MemFrame DEF MemStep, Moves
    <3>1. call'[t].at = "undo" => call'[t] = call[t]
      BY <2>5, AtIs DEF bxroce_alloc_pd, Begin, Idle
    <3> QED
      BY <3>0, <3>1 DEF UndoInv
  <2>6. CASE AllocPdDone(t)
    <3>0. \A u \in Threads : u # t => call'[u] = call[u]
      BY <1>2, MemFrame DEF MemStep, Moves
    <3>1. call'[t].at = "undo" => call'[t] = call[t]
      BY <2>6, AtIs DEF AllocPdDone, Runs, Idle
    <3> QED
      BY <3>0, <3>1 DEF UndoInv
  <2>7. ASSUME NEW h \in held, bxroce_dealloc_pd(t, h)
        PROVE  UndoInv'
    <3>0. \A u \in Threads : u # t => call'[u] = call[u]
      BY <1>2, MemFrame DEF MemStep, Moves
    <3>1. call'[t].at = "undo" => call'[t] = call[t]
      BY <2>7, AtIs DEF bxroce_dealloc_pd, Idle
    <3> QED
      BY <3>0, <3>1 DEF UndoInv
  <2> QED
    BY <1>2, <2>1, <2>2, <2>3, <2>4, <2>5, <2>6, <2>7 DEF Pds
<1>3. ASSUME NEW t \in Threads, Mrs(t)
      PROVE  UndoInv'
  <2>1. ASSUME NEW h \in held, NEW op \in MrOps, RegMr(t, h, op)
        PROVE  UndoInv'
    <3>0. \A u \in Threads : u # t => call'[u] = call[u]
      BY <1>3, MemFrame DEF MemStep, Moves
    <3>1. call'[t].at = "undo" => call'[t] = call[t]
      BY <2>1, AtIs DEF RegMr, Begin, Idle
    <3> QED
      BY <3>0, <3>1 DEF UndoInv
  <2>2. ASSUME NEW f \in BOOLEAN, AddIndex(t, f)
        PROVE  UndoInv'
    <3>0. \A u \in Threads : u # t => call'[u] = call[u]
      BY <1>3, MemFrame DEF MemStep, Moves
    <3>1. call'[t].at = "undo" => call'[t] = call[t]
      BY <2>2, AtIs DEF AddIndex, Runs, Idle
    <3> QED
      BY <3>0, <3>1 DEF UndoInv
  <2>3. CASE AddRef(t)
    <3>0. \A u \in Threads : u # t => call'[u] = call[u]
      BY <1>3, MemFrame DEF MemStep, Moves
    <3>1. call'[t].at = "undo" => call'[t] = call[t]
      BY <2>3, AtIs DEF AddRef, Runs, Idle
    <3> QED
      BY <3>0, <3>1 DEF UndoInv
  <2>4. CASE UmemFails(t)
    <3>0. \A u \in Threads : u # t => call'[u] = call[u]
      BY <1>3, MemFrame DEF MemStep, Moves
    <3>1. call'[t].at = "undo" => call'[t] = call[t]
      BY <2>4, AtIs DEF UmemFails, Runs, Idle
    <3> QED
      BY <3>0, <3>1 DEF UndoInv
  <2>5. CASE KeyRead(t)
    <3>0. \A u \in Threads : u # t => call'[u] = call[u]
      BY <1>3, MemFrame DEF MemStep, Moves
    <3>1. call'[t].at = "undo" => call'[t] = call[t]
      BY <2>5, AtIs DEF KeyRead, Runs, Idle
    <3> QED
      BY <3>0, <3>1 DEF UndoInv
  <2>6. CASE bxroce_mem_init(t)
    <3>0. \A u \in Threads : u # t => call'[u] = call[u]
      BY <1>3, MemFrame DEF MemStep, Moves
    <3>1. call'[t].at = "undo" => call'[t] = call[t]
      BY <2>6, AtIs DEF bxroce_mem_init, Runs, Idle
    <3> QED
      BY <3>0, <3>1 DEF UndoInv
  <2>7. ASSUME NEW s \in Starts, NEW l \in Lens, NEW b \in BOOLEAN, NEW n \in BOOLEAN,
             NEW f \in BOOLEAN, bxroce_reg_user_mr(t, s, l, b, n, f)
        PROVE  UndoInv'
    <3>0. \A u \in Threads : u # t => call'[u] = call[u]
      BY <1>3, MemFrame DEF MemStep, Moves
    <3>1. call'[t].at = "undo" => call'[t] = call[t]
      BY <2>7, AtIs DEF bxroce_reg_user_mr, Runs, Idle
    <3> QED
      BY <3>0, <3>1 DEF UndoInv
  <2>8. ASSUME NEW f \in BOOLEAN, KernelMr(t, f)
        PROVE  UndoInv'
    <3>0. \A u \in Threads : u # t => call'[u] = call[u]
      BY <1>3, MemFrame DEF MemStep, Moves
    <3>1. call'[t].at = "undo" => call'[t] = call[t]
      BY <2>8, AtIs DEF KernelMr, Runs, Idle
    <3> QED
      BY <3>0, <3>1 DEF UndoInv
  <2>9. ASSUME NEW m \in DOMAIN mrs, bxroce_dereg_mr(t, m)
        PROVE  UndoInv'
    <3>0. \A u \in Threads : u # t => call'[u] = call[u]
      BY <1>3, MemFrame DEF MemStep, Moves
    <3>1. call'[t].at = "undo" => call'[t] = call[t]
      BY <2>9, AtIs DEF bxroce_dereg_mr, Begin, Idle
    <3> QED
      BY <3>0, <3>1 DEF UndoInv
  <2>10. CASE DropPdOf(t)
    <3>0. \A u \in Threads : u # t => call'[u] = call[u]
      BY <1>3, MemFrame DEF MemStep, Moves
    <3>1. call'[t].at = "undo" => call'[t] = call[t]
      BY <2>10, AtIs DEF DropPdOf, Runs, Idle
    <3> QED
      BY <3>0, <3>1 DEF UndoInv
  <2>11. CASE DropIndex(t)
    <3>0. \A u \in Threads : u # t => call'[u] = call[u]
      BY <1>3, MemFrame DEF MemStep, Moves
    <3>1. call'[t].at = "undo" => call'[t] = call[t]
      BY <2>11, AtIs DEF DropIndex, Runs, Idle
    <3> QED
      BY <3>0, <3>1 DEF UndoInv
  <2>12. CASE DropMr(t)
    <3>0. \A u \in Threads : u # t => call'[u] = call[u]
      BY <1>3, MemFrame DEF MemStep, Moves
    <3>1. call'[t].at = "undo" => call'[t] = call[t]
      BY <2>12, AtIs DEF DropMr, Runs, Idle
    <3> QED
      BY <3>0, <3>1 DEF UndoInv
  <2> QED
    BY <1>3, <2>1, <2>2, <2>3, <2>4, <2>5, <2>6, <2>7, <2>8, <2>9, <2>10, <2>11, <2>12 DEF Mrs
<1>4. ASSUME NEW t \in Threads, Cqs(t)
      PROVE  UndoInv'
  <2>1. Moves(t, {"none"} \cup CqAts)
    BY <1>4, CqFrame
  <2>2. call'[t].at # "undo" /\ \A u \in Threads : u # t => call'[u] = call[u]
    BY <2>1 DEF Moves, CqAts, BitAts, AhAts
  <2> QED
    BY <2>2 DEF UndoInv
<1>5. ASSUME NEW t \in Threads, Ahs(t)
      PROVE  UndoInv'
  <2>1. Moves(t, {"none"} \cup AhAts)
    BY <1>5, AhFrame
  <2>2. call'[t].at # "undo" /\ \A u \in Threads : u # t => call'[u] = call[u]
    BY <2>1 DEF Moves, CqAts, BitAts, AhAts
  <2> QED
    BY <2>2 DEF UndoInv
<1>6. ASSUME Life
      PROVE  UndoInv'
  BY <1>6, LifeRest DEF UndoInv
<1>7. CASE UNCHANGED vars
  BY <1>7 DEF vars, UndoInv
<1> QED
  BY <1>1, <1>2, <1>3, <1>4, <1>5, <1>6, <1>7 DEF Next

\* No call ends in a use of memory that is not there.
LEMMA KoStep ==
  ASSUME Allow \subseteq {"unbind", "ifdown", "new_addr"}, CallInv, PdShape, MrShape, PoolShape, LifeInv,
         OwnerInv, UseInv, RefInv, UndoInv, ListedInv, ~ko, [Next]_vars
  PROVE  ~ko'
<1>1. ASSUME NEW t \in Threads, Alloc(t)
      PROVE  ~ko'
  <2>1. CASE AllocGet(t)
    <3>1. call[t] # Idle
      BY <2>1 DEF AllocGet, Runs, Idle
    <3>2. Pool(t).state = "VALID"
      BY <3>1, Served DEF Pool
    <3> QED
      BY <2>1, <3>2 DEF AllocGet
  <2>2. CASE AllocInc(t)
    BY <2>2 DEF AllocInc
  <2>3. CASE AllocUndo(t)
    <3>1. call[t].at = "undo" /\ ko' = ~NullHandled(t)
      BY <2>3 DEF AllocUndo, Runs, Null
    <3>2. call[t].op \in MrOps
      BY <3>1, AtIs DEF UndoInv, CallOK, AllocAts
    <3> QED
      BY <3>1, <3>2 DEF NullHandled
  <2>4. CASE AllocElem(t)
    BY <2>4 DEF AllocElem
  <2> QED
    BY <1>1, <2>1, <2>2, <2>3, <2>4 DEF Alloc
<1>2. ASSUME NEW t \in Threads, Pds(t)
      PROVE  ~ko'
  <2>1. CASE bxroce_alloc_ucontext(t)
    BY <2>1 DEF bxroce_alloc_ucontext
  <2>2. ASSUME NEW f \in BOOLEAN, OpenDone(t, f)
        PROVE  ~ko'
    BY <2>2 DEF OpenDone
  <2>3. CASE bxroce_dealloc_ucontext(t)
    BY <2>3 DEF bxroce_dealloc_ucontext
  <2>4. CASE bxroce_get_ucontext_pd(t)
    BY <2>4 DEF bxroce_get_ucontext_pd
  <2>5. CASE bxroce_alloc_pd(t)
    BY <2>5 DEF bxroce_alloc_pd
  <2>6. CASE AllocPdDone(t)
    BY <2>6 DEF AllocPdDone
  <2>7. ASSUME NEW h \in held, bxroce_dealloc_pd(t, h)
        PROVE  ~ko'
    BY <2>7 DEF bxroce_dealloc_pd
  <2> QED
    BY <1>2, <2>1, <2>2, <2>3, <2>4, <2>5, <2>6, <2>7 DEF Pds
<1>3. ASSUME NEW t \in Threads, Mrs(t)
      PROVE  ~ko'
  <2>1. ASSUME NEW h \in held, NEW op \in MrOps, RegMr(t, h, op)
        PROVE  ~ko'
    BY <2>1 DEF RegMr
  <2>2. ASSUME NEW f \in BOOLEAN, AddIndex(t, f)
        PROVE  ~ko'
    BY <2>2 DEF AddIndex
  <2>3. CASE AddRef(t)
    BY <2>3 DEF AddRef
  <2>4. CASE UmemFails(t)
    BY <2>4 DEF UmemFails
  <2>5. CASE KeyRead(t)
    BY <2>5 DEF KeyRead
  <2>6. CASE bxroce_mem_init(t)
    BY <2>6 DEF bxroce_mem_init
  <2>7. ASSUME NEW s \in Starts, NEW l \in Lens, NEW b \in BOOLEAN, NEW n \in BOOLEAN,
             NEW f \in BOOLEAN, bxroce_reg_user_mr(t, s, l, b, n, f)
        PROVE  ~ko'
    BY <2>7 DEF bxroce_reg_user_mr, bxroce_mem_alloc
  <2>8. ASSUME NEW f \in BOOLEAN, KernelMr(t, f)
        PROVE  ~ko'
    BY <2>8 DEF KernelMr, bxroce_mem_alloc
  <2>9. ASSUME NEW m \in DOMAIN mrs, bxroce_dereg_mr(t, m)
        PROVE  ~ko'
    BY <2>9 DEF bxroce_dereg_mr
  <2>10. CASE DropPdOf(t)
    <3>1. call[t].pd # 0
      BY <2>10, NotLast DEF DropPdOf, Runs, RefAts
    <3> QED
      BY <2>10, <3>1 DEF DropPdOf
  <2>11. CASE DropIndex(t)
    BY <2>11 DEF DropIndex
  <2>12. CASE DropMr(t)
    BY <2>12 DEF DropMr
  <2> QED
    BY <1>3, <2>1, <2>2, <2>3, <2>4, <2>5, <2>6, <2>7, <2>8, <2>9, <2>10, <2>11, <2>12 DEF Mrs
<1>4. ASSUME NEW t \in Threads, Cqs(t)
      PROVE  ~ko'
  <2>1. CASE bxroce_create_cq(t)
    BY <2>1 DEF bxroce_create_cq
  <2>2. ASSUME NEW n \in BOOLEAN, bxroce_hw_create_cq(t, n)
        PROVE  ~ko'
    BY <2>2 DEF bxroce_hw_create_cq
  <2>3. CASE bxroce_copy_cq_uresp(t)
    BY <2>3 DEF bxroce_copy_cq_uresp
  <2>4. CASE CqFault(t)
    BY <2>4 DEF CqFault
  <2>5. CASE CqStored(t)
    BY <2>5 DEF CqStored
  <2>6. CASE bxroce_mmap(t)
    BY <2>6 DEF bxroce_mmap
  <2>7. ASSUME NEW q \in cqs, bxroce_destroy_cq(t, q)
        PROVE  ~ko'
    BY <2>7 DEF bxroce_destroy_cq
  <2>8. CASE bxroce_free_cqresource(t)
    BY <2>8 DEF bxroce_free_cqresource
  <2>9. CASE CqUnmap(t)
    BY <2>9 DEF CqUnmap
  <2> QED
    BY <1>4, <2>1, <2>2, <2>3, <2>4, <2>5, <2>6, <2>7, <2>8, <2>9 DEF Cqs
<1>5. ASSUME NEW t \in Threads, Ahs(t)
      PROVE  ~ko'
  <2>1. CASE bxroce_alloc_av(t)
    BY <2>1 DEF bxroce_alloc_av
  <2>2. ASSUME NEW y \in {"IPV4", "other"}, NEW v \in BOOLEAN, bxroce_create_ah(t, y, v)
        PROVE  ~ko'
    BY <2>2 DEF bxroce_create_ah
  <2>3. CASE bxroce_free_av(t)
    BY <2>3 DEF bxroce_free_av
  <2>4. ASSUME NEW a \in ahs, bxroce_destroy_ah(t, a)
        PROVE  ~ko'
    BY <2>4 DEF bxroce_destroy_ah
  <2> QED
    BY <1>5, <2>1, <2>2, <2>3, <2>4 DEF Ahs
<1>6. ASSUME Life
      PROVE  ~ko'
  <2>1. ASSUME NEW n \in Nics, mac_register_dev(n)
        PROVE  ~ko'
    BY <2>1 DEF mac_register_dev, NicRest
  <2>2. ASSUME NEW n \in Nics, mac_unregister_dev(n)
        PROVE  ~ko'
    BY <2>2 DEF mac_unregister_dev, NicRest
  <2>3. CASE UpDown
    BY <2>3 DEF UpDown, NicRest
  <2>4. ASSUME NEW x \in {"ip", "mac"}, NEW a \in Addrs, bxroce_inetaddr_event(x, a)
        PROVE  ~ko'
    BY <2>4 DEF bxroce_inetaddr_event, NicRest
  <2>5. ASSUME NEW f \in SUBSET list, bx_init_module(f)
        PROVE  ~ko'
    BY <2>5 DEF bx_init_module
  <2>6. CASE bx_exit_module
    BY <2>6 DEF bx_exit_module, ListedInv
  <2> QED
    BY <1>6, <2>1, <2>2, <2>3, <2>4, <2>5, <2>6 DEF Life
<1>7. CASE UNCHANGED vars
  BY <1>7 DEF vars
<1> QED
  BY <1>1, <1>2, <1>3, <1>4, <1>5, <1>6, <1>7 DEF Next

-----------------------------------------------------------------------------
(* The inductive invariant.                                                *)

Inv ==
  /\ CallInv /\ NumInv /\ LifeInv /\ ChipType
  /\ CtxInv /\ PdShape /\ OwnerInv /\ UseInv /\ RefInv
  /\ MrShape /\ PoolShape /\ CountInv /\ ElInv /\ IndexInv
  /\ CqShape /\ BitInv /\ ListInv /\ AvInv

\* A pool that is not set up.
LEMMA NoPoolIs ==
  /\ NoPool \in Pools /\ NoPool.state = "INVALID" /\ NoPool.num_elem = 0 /\ NoPool.max_elem = 1
  /\ NoPool.ref_cnt = 0 /\ NoPool.table = {} /\ NoPool.min_index = 0
<1>1. NoPool = [state |-> "INVALID", num_elem |-> 0, max_elem |-> 1, ref_cnt |-> 0,
                min_index |-> 0, range |-> 0, table |-> {}, last |-> 0]
  <2> DEFINE p == [state |-> "VALID", num_elem |-> 0, max_elem |-> 1, ref_cnt |-> 1,
                   min_index |-> 0, range |-> 0, table |-> {}, last |-> 0]
  <2>1. bxroce_pool_init(1, FALSE, 0, 0) = p
    BY DEF bxroce_pool_init
  <2>2. NoPool = [p EXCEPT !.ref_cnt = 0, !.state = "INVALID", !.table = {}]
    BY <2>1, Zenon DEF NoPool, bxroce_pool_release
  <2> QED
    BY <2>2
<1> QED
  BY <1>1 DEF Pools

\* Nothing is there to begin with.
LEMMA InvInit ==
  ASSUME Init
  PROVE  Inv /\ LeftPds /\ LeftMrs /\ GoneInv /\ ListedInv /\ RoomInv /\ UndoInv
<1>1. /\ call = [t \in Threads |-> Idle] /\ ncalls = 0 /\ ctx = Closed /\ held = {} /\ cqs = {} /\ ahs = {}
      /\ pds = <<>> /\ mrs = <<>> /\ pd_pool = NoPool /\ mr_pool = NoPool /\ key = 1
      /\ drv = FALSE /\ rocedev = {} /\ dev_list = {} /\ list \subseteq Nics
      /\ cq_bits = {} /\ next_cq = 0 /\ pages = {} /\ av = {}
  BY DEF Init
<1>2. /\ \A t \in Threads : /\ call[t] = Idle /\ call[t].at = "none" /\ call[t].op = "none"
                            /\ call[t].pd = 0 /\ call[t].el = 0 /\ call[t].k = 0
      /\ DOMAIN pds = {} /\ DOMAIN mrs = {}
  BY <1>1, NoElems DEF Idle
<1>3. /\ Cardinality({}) = 0 /\ IsFiniteSet({})
      /\ MaxCalls \in Nat /\ MaxCq \in Nat /\ MaxCq > 3 /\ MaxHeld \in Nat \ {0}
  BY FS_EmptySet, Sizes
<1>4. CallInv
  <2>1. Idle \in Calls /\ CallOK(Idle)
    BY DEF Idle, Calls, CallOK, MemAts, AllocAts, ElAts, IndexAts, RefAts, CqAts, BitAts, AhAts
  <2> QED
    BY <1>1, <2>1 DEF CallInv
<1>5. NumInv
  <2>1. {t \in Threads : call[t] # Idle} = {}
    BY <1>2
  <2> QED
    <3>1. Cardinality({t \in Threads : call[t] # Idle}) = 0
      BY <1>3, <2>1
    <3>2. 0 \in 0..MaxCalls
      BY <1>3
    <3> QED
      BY <1>1, <3>1, <3>2 DEF NumInv
<1>6. LifeInv /\ ListedInv
  BY <1>1, <1>2 DEF LifeInv, Quiet, ListedInv
<1>7. ChipType
  <2>1. (topic # "life") \in BOOLEAN
    OBVIOUS
  <2>2. nic \in [up : BOOLEAN, ip : Nat, mac : Nat]
    BY <2>1 DEF Init
  <2>3. chip \in [rqec : SUBSET {"mac", "rdma"}, ip : Nat, mac : Nat, blocks : SUBSET Blocks]
    BY DEF Init
  <2> QED
    BY <2>2, <2>3 DEF ChipType
<1>8. CtxInv
  <2>1. <<>> \in Seq([page : Nat, len : Nat])
    OBVIOUS
  <2> QED
    BY <1>1, <1>2, <2>1 DEF CtxInv, Closed
<1>9. PdShape /\ MrShape
  BY <1>1, <1>2, <1>3 DEF PdShape, MrShape
<1>10. OwnerInv /\ UseInv /\ RefInv /\ LeftPds /\ LeftMrs /\ UndoInv
  <2>1. ctx.st = "closed"
    BY <1>1 DEF Closed
  <2>2. \A t \in Threads : ~Makes(t) /\ call[t].op \notin RegOps \cup PdOps
    BY <1>2 DEF Makes, RegOps, MrOps, PdOps
  <2> QED
    BY <1>1, <1>2, <2>1, <2>2 DEF OwnerInv, UseInv, RefInv, LeftPds, LeftMrs, UndoInv
<1>11. PoolShape /\ GoneInv
  BY <1>1, NoPoolIs DEF PoolShape, GoneInv
<1>12. CountInv
  <2>1. \A ops : \A ats : "none" \notin ats => Where(ops, ats) = {}
    BY <1>2 DEF Where
  <2>2. \A ops : /\ Cardinality(Where(ops, {"elem"})) = 0 /\ Cardinality(Where(ops, {"undo", "elem"})) = 0
                 /\ Cardinality(Where(ops, {"inc", "undo", "elem"})) = 0
    BY <1>3, <2>1
  <2> QED
    BY <1>1, <1>2, <1>3, <2>2, NoPoolIs DEF CountInv, Exact
<1>13. ElInv
  BY <1>2 DEF ElInv, ElAts, IndexAts, RefAts
<1>14. IndexInv
  <2>1. Indexed = {}
    BY <1>2 DEF Indexed, IndexAts, RefAts
  <2> QED
    BY <1>1, <1>2, <2>1, NoPoolIs DEF IndexInv
<1>15. CqShape /\ BitInv
  <2>1. \A t \in Threads : call[t].at \notin CqAts /\ call[t].at \notin BitAts
    BY <1>2 DEF CqAts, BitAts
  <2> QED
    BY <1>1, <1>3, <2>1 DEF CqShape, BitInv
<1>16. ListInv
  BY <1>1, <1>2 DEF ListInv, UserCqs, CqAts, BitAts, Closed, Threads
<1>17. AvInv
  <2>1. Creating = {} /\ Vectors = {}
    BY <1>1, <1>2 DEF Creating, AhAts, Vectors
  <2> QED
    BY <1>1, <1>3, <2>1, AvIs DEF AvInv
<1>18. RoomInv
  <2>1. \A t \in Threads : Held(t) = {}
    BY <1>1 DEF Held
  <2>2. \A t \in Threads : Cardinality(Held(t)) = 0 /\ call[t].op # "alloc_pd"
    BY <1>2, <1>3, <2>1
  <2> QED
    BY <1>3, <2>2 DEF RoomInv
<1> QED
  BY <1>4, <1>5, <1>6, <1>7, <1>8, <1>9, <1>10, <1>11, <1>12, <1>13, <1>14, <1>15, <1>16, <1>17, <1>18
     DEF Inv

\* Every step preserves the invariant.
LEMMA InvStep ==
  ASSUME "fast_mr" \notin Allow, Inv, [Next]_vars
  PROVE  Inv'
<1>1. /\ CallInv /\ NumInv /\ LifeInv /\ ChipType
      /\ CtxInv /\ PdShape /\ OwnerInv /\ UseInv /\ RefInv
      /\ MrShape /\ PoolShape /\ CountInv /\ ElInv /\ IndexInv
      /\ CqShape /\ BitInv /\ ListInv /\ AvInv
  BY DEF Inv
<1>2. CallInv' /\ PdShape' /\ MrShape' /\ CtxInv' /\ ElInv'
  BY <1>1, CallStep, PdShapeStep, MrShapeStep, CtxStep, ElStep
<1>3. NumInv' /\ LifeInv' /\ ChipType'
  BY <1>1, NumStep, LifeStep, ChipStep
<1>4. OwnerInv' /\ UseInv' /\ RefInv'
  BY <1>1, <1>2, OwnerStep, UseStep, RefStep
<1>5. PoolShape' /\ CountInv'
  BY <1>1, <1>2, PoolsStep
<1>6. IndexInv'
  BY <1>1, <1>2, IndexStep
<1>7. CqShape' /\ BitInv' /\ ListInv' /\ AvInv'
  BY <1>1, <1>2, CqShapeStep, BitStep, ListStep, AvStep
<1> QED
  BY <1>2, <1>3, <1>4, <1>5, <1>6, <1>7 DEF Inv

-----------------------------------------------------------------------------
(* Names.                                                                  *)

\* The index is in the key.
LEMMA KeyIndex ==
  ASSUME NEW i \in Nat, NEW j \in Nat, NEW a \in 0..255, NEW b \in 0..255, lkey(i, a) = lkey(j, b)
  PROVE  i = j
BY DEF lkey

\* The invariant keeps keys, PDs, vectors, numbers and mappings apart.
LEMMA NamesApart ==
  ASSUME Inv
  PROVE  NameInv
<1>1. \A m, n \in DOMAIN mrs : mrs[m].up /\ mrs[n].up /\ mrs[m].lkey = mrs[n].lkey => m = n
  <2> SUFFICES ASSUME NEW m \in DOMAIN mrs, NEW n \in DOMAIN mrs, mrs[m].up, mrs[n].up,
                      mrs[m].lkey = mrs[n].lkey
               PROVE  m = n
    OBVIOUS
  <2>1. m \in Indexed /\ n \in Indexed
    BY DEF Indexed
  <2>2. mrs[m].index \in Nat /\ mrs[n].index \in Nat
    BY DEF Inv, MrShape
  <2>3. KeyOf(mrs[m]) /\ KeyOf(mrs[n])
    BY DEF Inv, IndexInv
  <2>4. PICK a \in 0..255 : mrs[m].lkey = lkey(mrs[m].index, a)
    BY <2>3 DEF KeyOf
  <2>5. PICK b \in 0..255 : mrs[n].lkey = lkey(mrs[n].index, b)
    BY <2>3 DEF KeyOf
  <2>6. lkey(mrs[m].index, a) = lkey(mrs[n].index, b)
    BY <2>4, <2>5
  <2>7. mrs[m].index = mrs[n].index
    BY <2>2, <2>6, KeyIndex, Zenon
  <2> QED
    BY <2>1, <2>7 DEF Inv, IndexInv
<1>2. mr_pool.table =
        {mrs[m].index - mr_pool.min_index : m \in {m \in DOMAIN mrs : mrs[m].up}}
        \cup {mrs[call[t].el].index - mr_pool.min_index :
                t \in {t \in Threads : call[t].at \in {"ref", "key", "init", "fill", "drop_pd", "drop_index"}}}
  <2> DEFINE I(m) == mrs[m].index - mr_pool.min_index
  <2>1. mr_pool.table = {I(m) : m \in Indexed}
    BY DEF Inv, IndexInv
  <2>2. IndexAts = {"ref", "key", "init", "fill", "drop_pd", "drop_index"}
    BY DEF IndexAts, RefAts
  <2> HIDE DEF I
  <2>3. {I(m) : m \in Indexed} =
          {I(m) : m \in {m \in DOMAIN mrs : mrs[m].up}}
          \cup {I(call[t].el) : t \in {t \in Threads : call[t].at \in IndexAts}}
    BY DEF Indexed
  <2> QED
    BY <2>1, <2>2, <2>3 DEF I
<1>3. PdsApart /\ AvUnique /\ CqTableTrue
  BY DEF Inv, OwnerInv, PdsApart, AvInv, BitInv, CqTableTrue
<1>4. MapFound
  <2> SUFFICES ASSUME NEW t \in Threads, call[t].at = "mmap"
               PROVE  bxroce_find_mmap(ctx.mm_head, call[t].k, CqLen)
    BY DEF MapFound
  <2>1. t \in Users /\ UserCqs # {}
    BY DEF Inv, ListInv, UserCqs
  <2>2. ctx.st = "open"
    BY <2>1 DEF Inv, ListInv
  <2>3. IsFiniteSet(UserCqs) /\ IsFiniteSet(Mapping)
    BY ListSets DEF Inv
  <2>4. Cardinality(UserCqs) \in Nat /\ Cardinality(UserCqs) # 0 /\ Cardinality(Mapping) \in Nat
    BY <2>1, <2>3, FS_CardinalityType, FS_EmptySet
  <2>5. /\ Len(ctx.mm_head) = 1 + Cardinality(UserCqs) + Cardinality(Mapping)
        /\ \A i \in 2..Len(ctx.mm_head) : ctx.mm_head[i].len = CqLen
        /\ ctx.mm_head \in Seq([page : Nat, len : Nat])
    BY <2>2 DEF Inv, ListInv, CtxInv
  <2>6. 2 \in 2..Len(ctx.mm_head) /\ 2 \in DOMAIN ctx.mm_head
    BY <2>4, <2>5
  <2> QED
    BY <2>5, <2>6 DEF bxroce_find_mmap, Matches
<1> QED
  BY <1>1, <1>2, <1>3, <1>4 DEF NameInv, KeysApart

(* Two objects never go by one name, whichever calls of however many         *)
(* threads overlap: keys and indexes of memory regions, although             *)
(* bxroce_get_key is not locked and bxroce_drop_index comes before the        *)
(* region is freed; the PD of a context; entries of the address vector        *)
(* table; numbers of completion queues; and bxroce_mmap finds the mapping of  *)
(* a queue that was just made, although bxroce_del_mmap takes the first entry *)
(* that matches.  For fast registration regions, which are given the device   *)
(* for their PD, it is not claimed.                                           *)
THEOREM RoceNames ==
  ASSUME "fast_mr" \notin Allow
  PROVE  Spec => []NameInv
<1>1. Init => Inv
  BY InvInit
<1>2. Inv /\ [Next]_vars => Inv'
  BY InvStep
<1>3. Inv => NameInv
  BY NamesApart
<1> QED
  BY <1>1, <1>2, <1>3, PTL DEF Spec

-----------------------------------------------------------------------------
(* Counts.                                                                 *)

\* No more calls are anywhere than have been made.
LEMMA FewCalls ==
  ASSUME CallInv, NumInv, NEW S \in SUBSET Threads, \A t \in S : call[t].at # "none"
  PROVE  IsFiniteSet(S) /\ Cardinality(S) \in Nat /\ Cardinality(S) <= MaxCalls
<1> DEFINE U == {t \in Threads : call[t] # Idle}
<1>1. S \subseteq U /\ U \subseteq Threads
  BY DEF Idle
<1>2. Cardinality(U) <= MaxCalls /\ MaxCalls \in Nat
  <2>1. ncalls \in 0..MaxCalls /\ Cardinality(U) <= ncalls
    BY DEF NumInv
  <2>2. IsFiniteSet(U)
    BY <1>1, Sizes, FS_Subset
  <2>3. Cardinality(U) \in Nat /\ MaxCalls \in Nat
    BY <2>2, Sizes, FS_CardinalityType
  <2> HIDE DEF U
  <2> QED
    BY <2>1, <2>3
<1> HIDE DEF U
<1>3. IsFiniteSet(U) /\ IsFiniteSet(S) /\ Cardinality(S) <= Cardinality(U)
  BY <1>1, Sizes, FS_Subset
<1>4. Cardinality(U) \in Nat /\ Cardinality(S) \in Nat
  BY <1>3, FS_CardinalityType
<1> QED
  BY <1>2, <1>3, <1>4

\* The counters of a pool are counts.
LEMMA PoolCounts ==
  ASSUME NEW pool \in Pools, NEW n \in Nat, NEW ops, CallInv, NumInv, Exact(pool, n, ops),
         n <= MaxPd \/ n <= MaxMr
  PROVE  pool.num_elem \in Counts /\ pool.ref_cnt \in Counts
<1> DEFINE a == Cardinality(Where(ops, {"undo", "elem"}))
           b == Cardinality(Where(ops, {"inc", "undo", "elem"}))
<1>1. a \in Nat /\ b \in Nat /\ a <= b
  BY WhereIs
<1>2. b <= MaxCalls
  <2>1. /\ Where(ops, {"inc", "undo", "elem"}) \subseteq Threads
        /\ \A t \in Where(ops, {"inc", "undo", "elem"}) : call[t].at # "none"
    BY DEF Where
  <2> QED
    BY <2>1, FewCalls
<1>3. pool.num_elem = n + a /\ (pool.ref_cnt = n + b \/ pool.ref_cnt = 1 + n + b)
  BY <1>1 DEF Exact
<1>4. MaxPd \in Nat \ {0} /\ MaxMr \in Nat \ {0} /\ MaxCalls \in Nat
  BY Sizes
<1> HIDE DEF a, b
<1> QED
  BY <1>1, <1>2, <1>3, <1>4 DEF Counts

\* The counts have their ranges.
LEMMA CountsIn ==
  ASSUME Inv, GoneInv
  PROVE  TypeOK
<1>1. /\ Cardinality(DOMAIN pds) \in Nat /\ Cardinality(DOMAIN mrs) \in Nat
      /\ pd_pool \in Pools /\ mr_pool \in Pools
      /\ Exact(pd_pool, Cardinality(DOMAIN pds), PdOps) /\ Exact(mr_pool, Cardinality(DOMAIN mrs), MrOps)
  BY PoolSizes DEF Inv
<1>2. MaxPd \in Nat \ {0} /\ MaxMr \in Nat \ {0} /\ MaxCalls \in Nat /\ MinIndex \in Nat
  BY Sizes
<1>3. Cardinality(DOMAIN pds) <= MaxPd /\ Cardinality(DOMAIN mrs) <= MaxMr
  <2>1. CASE Main \in rocedev
    <3>1. pd_pool.max_elem = MaxPd /\ mr_pool.max_elem = MaxMr
      BY <2>1 DEF Inv, PoolShape
    <3> QED
      BY <1>1, <3>1, ExactIs
  <2>2. CASE Main \notin rocedev
    <3>1. pd_pool.ref_cnt = 0 /\ mr_pool.ref_cnt = 0
      BY <2>2 DEF GoneInv
    <3>2. pd_pool.ref_cnt >= Cardinality(DOMAIN pds) /\ mr_pool.ref_cnt >= Cardinality(DOMAIN mrs)
      BY <1>1, ExactIs
    <3> QED
      BY <1>1, <1>2, <3>1, <3>2
  <2> QED
    BY <2>1, <2>2
<1>4. {pd_pool.num_elem, pd_pool.ref_cnt, mr_pool.num_elem, mr_pool.ref_cnt} \subseteq Counts
  BY <1>1, <1>3, PoolCounts DEF Inv
<1>5. mr_pool.table \subseteq 0..(MaxMr - 1)
  <2>1. CASE Main \in rocedev
    <3>1. mr_pool.min_index = MinIndex
      BY <2>1 DEF Inv, PoolShape
    <3>2. \A m \in Indexed : mrs[m].index - MinIndex \in 0..(MaxMr - 1)
      BY <1>2 DEF Inv, IndexInv
    <3> QED
      BY <3>1, <3>2 DEF Inv, IndexInv
  <2>2. CASE Main \notin rocedev
    <3>1. (\A t \in Threads : call[t] = Idle) /\ \A m \in DOMAIN mrs : ~mrs[m].up
      BY <2>2 DEF Inv, LifeInv, Quiet
    <3>2. Indexed = {}
      BY <3>1 DEF Indexed, IndexAts, RefAts, Idle
    <3> QED
      BY <3>2 DEF Inv, IndexInv
  <2> QED
    BY <2>1, <2>2
<1>6. \A p \in DOMAIN pds : pds[p].ref \in Counts \ {0}
  <2> SUFFICES ASSUME NEW p \in DOMAIN pds PROVE pds[p].ref \in Counts \ {0}
    OBVIOUS
  <2> DEFINE a == Cardinality(Uses(p))
             b == Cardinality(Refs(p))
  <2>1. pds[p].ref = 1 + a + b
    BY DEF Inv, RefInv
  <2>2. a \in Nat /\ a <= Cardinality(DOMAIN mrs)
    <3>1. Uses(p) \subseteq DOMAIN mrs /\ IsFiniteSet(DOMAIN mrs)
      BY DEF Uses, Inv, MrShape
    <3>2. IsFiniteSet(Uses(p)) /\ Cardinality(Uses(p)) <= Cardinality(DOMAIN mrs)
      BY <3>1, FS_Subset
    <3> QED
      BY <3>2, FS_CardinalityType
  <2>3. b \in Nat /\ b <= MaxCalls
    <3>1. Refs(p) \subseteq Threads /\ \A t \in Refs(p) : call[t].at # "none"
      BY DEF Refs, RefAts
    <3> QED
      BY <3>1, FewCalls DEF Inv
  <2> HIDE DEF a, b
  <2>4. a <= MaxMr
    BY <1>1, <1>2, <1>3, <2>2
  <2> QED
    BY <1>2, <2>1, <2>2, <2>3, <2>4 DEF Counts
<1> QED
  BY <1>4, <1>5, <1>6 DEF TypeOK, Inv, IndexInv, CqShape, LifeInv, AvInv, ChipType

\* The counts are those of the elements and the calls.
LEMMA CountsExact ==
  ASSUME Inv
  PROVE  PoolExact /\ RefsExact
<1>1. /\ Cardinality(DOMAIN pds) \in Nat /\ Cardinality(DOMAIN mrs) \in Nat
      /\ pd_pool \in Pools /\ mr_pool \in Pools
      /\ Exact(pd_pool, Cardinality(DOMAIN pds), PdOps) /\ Exact(mr_pool, Cardinality(DOMAIN mrs), MrOps)
  BY PoolSizes DEF Inv
<1>2. Cardinality(DOMAIN pds) <= pd_pool.max_elem /\ Cardinality(DOMAIN mrs) <= mr_pool.max_elem
  BY <1>1, ExactIs
<1>3. \A ops, ats : {t \in Threads : call[t].at \in ats /\ call[t].op \in ops} = Where(ops, ats)
  BY DEF Where
<1>4. /\ pd_pool.num_elem = Cardinality(DOMAIN pds) + Cardinality(Where(PdOps, {"undo", "elem"}))
      /\ pd_pool.ref_cnt = (IF pd_pool.state = "VALID" THEN 1 ELSE 0) + Cardinality(DOMAIN pds)
                             + Cardinality(Where(PdOps, {"inc", "undo", "elem"}))
      /\ mr_pool.num_elem = Cardinality(DOMAIN mrs) + Cardinality(Where(MrOps, {"undo", "elem"}))
      /\ mr_pool.ref_cnt = (IF mr_pool.state = "VALID" THEN 1 ELSE 0) + Cardinality(DOMAIN mrs)
                             + Cardinality(Where(MrOps, {"inc", "undo", "elem"}))
  BY <1>1 DEF Exact
<1>5. PoolExact
  <2> SUFFICES ASSUME NEW kind \in {"pd", "mr"}
               PROVE LET pool == IF kind = "pd" THEN pd_pool ELSE mr_pool
                         n == Cardinality(IF kind = "pd" THEN DOMAIN pds ELSE DOMAIN mrs)
                         In(ats) == Cardinality({t \in Threads : call[t].at \in ats /\
                                                   call[t].op \in IF kind = "pd" THEN PdOps ELSE MrOps})
                     IN /\ n <= pool.max_elem
                        /\ pool.num_elem = n + In({"undo", "elem"})
                        /\ pool.ref_cnt = (IF pool.state = "VALID" THEN 1 ELSE 0) + n
                                            + In({"inc", "undo", "elem"})
    BY DEF PoolExact
  <2>1. CASE kind = "pd"
    BY <1>2, <1>3, <1>4, <2>1
  <2>2. CASE kind = "mr"
    BY <1>2, <1>3, <1>4, <2>2
  <2> QED
    BY <2>1, <2>2
<1>6. RefsExact
  BY DEF RefsExact, Inv, OwnerInv, RefInv, Refs, RefAts
<1> QED
  BY <1>5, <1>6

(* Nothing is lost and nothing taken twice, for every number of threads and  *)
(* every size of the pools: bxroce_alloc, which counts before it compares,    *)
(* never gives out more elements than a pool has; the count and the           *)
(* references of a pool and those of a PD are exact in the middle of every    *)
(* call and on every way out of a registration; and bxroce_pool_cleanup finds *)
(* nothing left.  The failed copy to or from the user that leaves an element  *)
(* behind, the unbinding of a NIC under the module and fast registration are  *)
(* left out: each of them breaks it.                                          *)
THEOREM RocePools ==
  ASSUME "fast_mr" \notin Allow, "copy_fault" \notin Allow, "unbind" \notin Allow
  PROVE  Spec => []PoolInv
<1> DEFINE J == Inv /\ LeftPds /\ LeftMrs /\ GoneInv
<1>1. Init => J
  BY InvInit
<1>2. J /\ [Next]_vars => J'
  <2> SUFFICES ASSUME J, [Next]_vars PROVE J'
    OBVIOUS
  <2>1. Inv'
    BY InvStep
  <2>2. LeftPds' /\ LeftMrs'
    BY LeftPdsStep, LeftMrsStep DEF Inv
  <2>3. GoneInv'
    BY GoneStep DEF Inv
  <2> QED
    BY <2>1, <2>2, <2>3
<1>3. J => PoolInv
  <2> SUFFICES ASSUME J PROVE PoolInv
    OBVIOUS
  <2>1. PoolsReleased
    BY DEF PoolsReleased, GoneInv, Inv, LifeInv
  <2> QED
    BY <2>1, CountsIn, CountsExact DEF PoolInv
<1> QED
  BY <1>1, <1>2, <1>3, PTL DEF Spec

(* No call ends in a use of memory that is not there.  The pool of PDs,       *)
(* whose exhaustion bxroce_alloc_ucontext_pd and bxroce_alloc_pd take for      *)
(* success, is never exhausted when it is larger than what the threads may     *)
(* have together; bxroce_dereg_mr finds the PD of its region; and the module   *)
(* that goes finds a device for every NIC.  It needs memory and mappings to    *)
(* be there, no NIC to come after the module and no call of those whose        *)
(* failure the code does not handle.                                           *)
THEOREM RoceSurvives ==
  ASSUME Allow \subseteq {"unbind", "ifdown", "new_addr"}, MaxPd > Cardinality(Threads) * MaxHeld
  PROVE  Spec => []Survives
<1> DEFINE J == Inv /\ LeftPds /\ RoomInv /\ UndoInv /\ ListedInv /\ ~ko
<1>1. Init => J
  BY InvInit DEF Init
<1>2. J /\ [Next]_vars => J'
  <2> SUFFICES ASSUME J, [Next]_vars PROVE J'
    OBVIOUS
  <2>1. /\ "fast_mr" \notin Allow /\ "copy_fault" \notin Allow
        /\ "late_probe" \notin Allow /\ "add_fails" \notin Allow
    OBVIOUS
  <2>2. Inv'
    BY <2>1, InvStep
  <2>3. LeftPds' /\ RoomInv'
    BY <2>1, LeftPdsStep, RoomStep DEF Inv
  <2>4. UndoInv'
    BY UndoStep DEF Inv
  <2>5. ListedInv'
    BY <2>1, ListedStep
  <2>6. ~ko'
    BY KoStep DEF Inv
  <2> QED
    BY <2>2, <2>3, <2>4, <2>5, <2>6
<1>3. J => Survives
  BY DEF Survives
<1> QED
  BY <1>1, <1>2, <1>3, PTL DEF Spec

=============================================================================
