------------------------------ MODULE RoceDev ------------------------------
(***************************************************************************)
(* The RoCE device of a NIC: the registration of NICs and of the RoCE      *)
(* module with each other (bx_roce.c, bxroce_main.c), the bring-up of the  *)
(* hardware (bxroce_hw.c), and the objects that threads create and destroy *)
(* on it: protection domains and user contexts, memory regions, completion *)
(* queues and their mappings (bxroce_verbs.c over the pools of RocePool),  *)
(* address handles (bxroce_ah.c).                                          *)
(* A call is split where another thread may come in between: at every      *)
(* lock, atomic counter and unlocked access to shared state.               *)
(***************************************************************************)
EXTENDS RocePool, Sequences, TLC

CONSTANTS
  Users,        \* threads of a process, which share its context
  Clients,      \* kernel threads that use the device without a context
  Nics,         \* NICs
  Main,         \* the one whose RoCE device the threads use
  Addrs,        \* addresses a NIC may have, 0 for none
  MaxPd, MaxMr, MaxCq, MaxAv,   \* sizes of the pools and tables
  MinIndex,     \* BXROCE_MIN_MR_INDEX
  Page, Huge,   \* page sizes
  Starts, Lens, \* where a user buffer starts and how long it is
  MaxSg,        \* MAX_SG_NUM
  MaxCalls,     \* bound on the calls
  MaxHeld,      \* bound on the PDs a thread has at a time
  MaxLoads,     \* bound on the loads of the RoCE module
  Allow         \* situations the code does not handle that may occur

ASSUME RoceDevConstants ==
  /\ Users \cap Clients = {} /\ IsFiniteSet(Users \cup Clients) /\ IsFiniteSet(Nics)
  /\ Main \in Nics /\ Addrs \subseteq Nat /\ Starts \subseteq Nat /\ Lens \subseteq Nat \ {0}
  /\ {MaxPd, MaxMr, MaxAv, MinIndex, Page, Huge, MaxSg, MaxCalls, MaxHeld, MaxLoads} \subseteq Nat \ {0}
  /\ MaxCq \in Nat /\ MaxCq > 3 /\ Huge % Page = 0
  /\ Allow \subseteq {"late_probe", "unbind", "add_fails", "ifdown", "new_addr",
                      "copy_fault", "map_fails", "no_memory", "fast_mr", "user_ah"}

VARIABLES
  topic,        \* what a behaviour is about
  list,         \* bxpdata_list
  drv,          \* the RoCE module is loaded
  rocedev,      \* NICs whose pdata->rocedev is set
  dev_list,     \* devices linked into the RoCE module's dev_list
  nic,          \* of Main: is the interface up, IP and MAC address
  chip,         \* of Main: MAC_RQEC, the addresses in the PHD, the blocks initialised
  loads,
  pd_pool, mr_pool,
  pds, mrs,     \* live elements of the pools
  key,          \* static key of bxroce_get_key
  ctx,          \* the context: st, ctx_pd, pd_in_use, mm_head
  held,         \* PDs the callers have
  cq_bits, next_cq, cq_table,
  cqs,          \* completion queues the callers have
  pages,        \* DMA pages in use
  av,           \* valid entries of the address vector table
  ahs,          \* entries of the address handles the callers have
  call,         \* the call each thread is in
  ncalls,
  ko            \* the kernel is dead

life == <<topic, list, drv, rocedev, dev_list, nic, chip, loads>>
elems == <<pd_pool, mr_pool, pds, mrs, key>>
cqres == <<cq_bits, next_cq, cq_table, cqs, pages>>
ahres == <<av, ahs>>
vars == <<life, elems, ctx, held, cqres, ahres, call, ncalls, ko>>

Threads == Users \cup Clients
Idle == [op |-> "none", at |-> "none", pd |-> 0, el |-> 0, k |-> 0]
Closed == [st |-> "closed", ctx_pd |-> 0, pd_in_use |-> FALSE, mm_head |-> <<>>]
NoPool == bxroce_pool_release(bxroce_pool_init(1, FALSE, 0, 0))

With(f, x, v) == [y \in DOMAIN f \cup {x} |-> IF y = x THEN v ELSE f[y]]
Without(f, x) == [y \in DOMAIN f \ {x} |-> f[y]]
Unused(s) == Least((1..(Cardinality(s) + 1)) \ s)
Go(t, r) == call' = [call EXCEPT ![t] = r]
At(t, a) == [call[t] EXCEPT !.at = a]
Oops == ko' = TRUE /\ UNCHANGED <<life, elems, ctx, held, cqres, ahres, call, ncalls>>

----------------------------------------------------------------------------
(* Bring-up of the hardware, on the record of the chip.                     *)

\* (mutant) the register is written whole
EnableRx_Overwrites(c) == [c EXCEPT !.rqec = {"rdma"}]

(* Reads the register and adds the RDMA queue to it. *)
mac_rdma_enable_rx(c) == [c EXCEPT !.rqec = @ \cup {"rdma"}]

Initialised(c, block) == [c EXCEPT !.blocks = @ \cup {block}]

bxroce_init_mac_channel(c) == mac_rdma_enable_rx(Initialised(c, "mac_channel"))
bxroce_init_cm(c) == Initialised(c, "cm")
phd_mac_init(c) == [c EXCEPT !.mac = nic.mac]
phd_ipv4_init(c) == IF nic.ip = 0 THEN c ELSE [c EXCEPT !.ip = nic.ip]
bxroce_init_phd(c) == phd_ipv4_init(phd_mac_init(Initialised(c, "phd")))
bxroce_init_pbu(c) == Initialised(c, "pbu")
bxroce_init_pgu_wqe(c) == Initialised(c, "pgu_wqe")
bxroce_init_pgu_cq(c) == Initialised(c, "pgu_cq")

Blocks == {"mac_channel", "cm", "phd", "pbu", "pgu_wqe", "pgu_cq"}

bxroce_init_hw(c) ==
  LET a == bxroce_init_phd(bxroce_init_cm(bxroce_init_mac_channel(c)))
  IN bxroce_init_pgu_cq(bxroce_init_pgu_wqe(bxroce_init_pbu(a)))

(* mac_enable_rx and mac_disable_rx write the register whole. *)
mac_enable_rx(c) == [c EXCEPT !.rqec = {"mac"}]
mac_disable_rx(c) == [c EXCEPT !.rqec = {}]

----------------------------------------------------------------------------
(* NICs and the RoCE module.                                                *)

Alone == ~ko /\ \A t \in Threads : call[t] = Idle
Rest == UNCHANGED <<ncalls, call>>
NicRest == UNCHANGED <<topic, drv, dev_list, loads, elems, ctx, held, cqres, ahres, ko>> /\ Rest

mac_register_dev(n) ==
  /\ Alone /\ topic = "life" /\ n \notin list
  /\ ~drv \/ "late_probe" \in Allow
  /\ list' = list \cup {n}
  /\ NicRest /\ UNCHANGED <<rocedev, nic, chip>>

mac_unregister_dev(n) ==
  /\ Alone /\ topic = "life" /\ n \in list
  /\ n \notin rocedev \/ "unbind" \in Allow
  /\ list' = list \ {n} /\ rocedev' = rocedev \ {n}
  /\ nic' = IF n = Main THEN [nic EXCEPT !.up = FALSE] ELSE nic
  /\ chip' = IF n = Main /\ nic.up THEN mac_disable_rx(chip) ELSE chip
  /\ NicRest

UpDown ==
  /\ Alone /\ topic = "life" /\ Main \in list
  /\ ~drv \/ "ifdown" \in Allow
  /\ nic' = [nic EXCEPT !.up = ~@]
  /\ chip' = IF nic.up THEN mac_disable_rx(chip) ELSE mac_enable_rx(chip)
  /\ NicRest /\ UNCHANGED <<list, rocedev>>

(* bxroce_inetaddr_event computes the new address and drops it. *)
bxroce_inetaddr_event(f, a) ==
  /\ Alone /\ topic = "life" /\ Main \in list /\ nic[f] # a
  /\ ~drv \/ "new_addr" \in Allow
  /\ nic' = [nic EXCEPT ![f] = a]
  /\ NicRest /\ UNCHANGED <<list, rocedev, chip>>

bxroce_init_pools ==
  /\ pd_pool' = bxroce_pool_init(MaxPd, FALSE, 0, 0)
  /\ mr_pool' = bxroce_pool_init(MaxMr, TRUE, MinIndex + MaxMr - 1, MinIndex)
  /\ pds' = <<>> /\ mrs' = <<>>

bxroce_init_cqqp ==
  /\ cq_bits' = {0, 1, 2} /\ next_cq' = 0
  /\ cq_table' = <<>> /\ cqs' = {} /\ pages' = {}

bxroce_create_ah_tbl == av' = {} /\ ahs' = {}

\* (mutant) only the first NIC is added
RegisterDriver_First(failed) == list \cap {Main}

(* mac_add_device for every NIC of the list. *)
bx_roce_register_driver(failed) == list \ failed

(* The device of Main comes up when it is among the ones added. *)
bx_add(added) ==
  IF Main \in added
  THEN /\ chip' = bxroce_init_hw(chip)
       /\ bxroce_init_pools /\ bxroce_init_cqqp /\ bxroce_create_ah_tbl
  ELSE UNCHANGED <<chip, pd_pool, mr_pool, pds, mrs, cqres, ahres>>

(* A device whose bx_add fails stays in dev_list.                           *)
bx_init_module(failed) ==
  /\ Alone /\ ~drv /\ loads < MaxLoads
  /\ failed = {} \/ "add_fails" \in Allow
  /\ drv' = TRUE /\ loads' = loads + 1
  /\ rocedev' = bx_roce_register_driver(failed)
  /\ dev_list' = dev_list \cup list
  /\ bx_add(bx_roce_register_driver(failed))
  /\ UNCHANGED <<topic, list, nic, key, ctx, held, ko>> /\ Rest

bx_remove ==
  /\ pd_pool' = bxroce_pool_cleanup(pd_pool)
  /\ mr_pool' = bxroce_pool_cleanup(mr_pool)

(* The module cannot go while a context is open, and the clients give back *)
(* their objects when the device is unregistered.                          *)
bx_exit_module ==
  /\ Alone /\ drv
  /\ ctx.st = "closed" /\ held = {} /\ cqs = {} /\ ahs = {} /\ \A m \in DOMAIN mrs : ~mrs[m].up
  /\ IF ~ (list \subseteq rocedev) THEN Oops
     ELSE /\ drv' = FALSE /\ rocedev' = {} /\ dev_list' = dev_list \ list
          /\ IF Main \in rocedev THEN bx_remove ELSE UNCHANGED <<pd_pool, mr_pool>>
          /\ UNCHANGED <<topic, list, nic, chip, loads, pds, mrs, key, ctx, held, cqres, ahres, ko>>
          /\ Rest

----------------------------------------------------------------------------
(* bxroce_alloc: the state of the pool is read under its lock, the number  *)
(* of elements is counted up and compared, then the element is allocated.  *)

PdOps == {"alloc_pd", "open"}
MrOps == {"reg_user", "dma", "fast"}

Pool(t) == IF call[t].op \in PdOps THEN pd_pool ELSE mr_pool
SetPool(t, p) == IF call[t].op \in PdOps THEN pd_pool' = p /\ UNCHANGED mr_pool
                                        ELSE mr_pool' = p /\ UNCHANGED pd_pool
Begin(t, kinds, op, at, pd, el, k) ==
  /\ ~ko /\ Main \in rocedev /\ topic \in kinds /\ call[t] = Idle /\ ncalls < MaxCalls
  /\ ncalls' = ncalls + 1
  /\ Go(t, [op |-> op, at |-> at, pd |-> pd, el |-> el, k |-> k])
Runs(t, at) == ~ko /\ call[t].at = at
Others == UNCHANGED <<life, cqres, ahres, ncalls>>

(* What the caller does with NULL: bxroce_alloc_ucontext_pd looks for an   *)
(* error pointer, and bxroce_alloc_pd sets pd->uctx for a user.            *)
NullHandled(t) == call[t].op \in MrOps \/ t \in Clients
Null(t) == Go(t, Idle) /\ ko' = ~NullHandled(t)

AllocGet(t) ==
  /\ Runs(t, "get")
  /\ IF Pool(t).state = "VALID"
     THEN /\ SetPool(t, [Pool(t) EXCEPT !.ref_cnt = @ + 1])
          /\ Go(t, At(t, "inc")) /\ UNCHANGED ko
     ELSE Null(t) /\ UNCHANGED <<pd_pool, mr_pool>>
  /\ Others /\ UNCHANGED <<pds, mrs, key, ctx, held>>

\* (mutant) the count is compared before it is counted up
AllocInc_Late(t) ==
  /\ Runs(t, "inc")
  /\ SetPool(t, [Pool(t) EXCEPT !.num_elem = @ + 1])
  /\ Go(t, At(t, IF Pool(t).num_elem > Pool(t).max_elem THEN "undo" ELSE "elem"))
  /\ Others /\ UNCHANGED <<pds, mrs, key, ctx, held, ko>>

AllocInc(t) ==
  /\ Runs(t, "inc")
  /\ SetPool(t, [Pool(t) EXCEPT !.num_elem = @ + 1])
  /\ Go(t, At(t, IF Pool(t).num_elem + 1 > Pool(t).max_elem THEN "undo" ELSE "elem"))
  /\ Others /\ UNCHANGED <<pds, mrs, key, ctx, held, ko>>

AllocUndo(t) ==
  /\ Runs(t, "undo") \/ (Runs(t, "elem") /\ "no_memory" \in Allow)
  /\ SetPool(t, bxroce_pool_put([Pool(t) EXCEPT !.num_elem = @ - 1]))
  /\ Null(t)
  /\ Others /\ UNCHANGED <<pds, mrs, key, ctx, held>>

AllocElem(t) ==
  /\ Runs(t, "elem")
  /\ IF call[t].op \in PdOps
     THEN LET p == Unused(DOMAIN pds)
          IN /\ pds' = With(pds, p, [ref |-> 1])
             /\ Go(t, [At(t, "made") EXCEPT !.pd = p]) /\ UNCHANGED mrs
     ELSE LET m == Unused(DOMAIN mrs)
          IN /\ mrs' = With(mrs, m, [ref |-> 1, index |-> 0, lkey |-> 0, pd |-> 0, ibpd |-> 0,
                                      whole |-> TRUE, up |-> FALSE])
             /\ Go(t, [At(t, "index") EXCEPT !.el = m]) /\ UNCHANGED pds
  /\ Others /\ UNCHANGED <<pd_pool, mr_pool, key, ctx, held, ko>>

(* bxroce_drop_ref; the last reference is bxroce_elem_release. *)
bxroce_elem_release(pool) == bxroce_pool_put([pool EXCEPT !.num_elem = @ - 1])

DropPd(p) ==
  IF pds[p].ref = 1
  THEN pds' = Without(pds, p) /\ pd_pool' = bxroce_elem_release(pd_pool)
  ELSE pds' = [pds EXCEPT ![p].ref = @ - 1] /\ UNCHANGED pd_pool

----------------------------------------------------------------------------
(* User contexts and protection domains.                                    *)

(* One entry per mapping; an entry matches by its length or by its address. *)
AhTable == [page |-> 0, len |-> 2]
Matches(mm, page, len) == mm.len = len \/ mm.page = page

bxroce_add_mmap(l, page, len) == Append(l, [page |-> page, len |-> len])

bxroce_del_mmap(l, page, len) ==
  LET hits == {i \in DOMAIN l : Matches(l[i], page, len)}
  IN IF hits = {} THEN l ELSE SubSeq(l, 1, Least(hits) - 1) \o SubSeq(l, Least(hits) + 1, Len(l))

bxroce_find_mmap(l, page, len) == \E i \in DOMAIN l : Matches(l[i], page, len)

bxroce_alloc_ucontext(t) ==
  /\ t \in Users /\ ctx.st = "closed"
  /\ Begin(t, {"mem", "cq"}, "open", "get", 0, 0, 0)
  /\ ctx' = [Closed EXCEPT !.st = "opening", !.mm_head = bxroce_add_mmap(<<>>, AhTable.page, AhTable.len)]
  /\ UNCHANGED <<life, elems, held, cqres, ahres, ko>>

(* The response to the user fails: the context goes, its PD stays behind. *)
OpenDone(t, faulted) ==
  /\ Runs(t, "made") /\ call[t].op = "open"
  /\ faulted => "copy_fault" \in Allow
  /\ ctx' = IF faulted THEN Closed ELSE [ctx EXCEPT !.st = "open", !.ctx_pd = call[t].pd]
  /\ Go(t, Idle)
  /\ Others /\ UNCHANGED <<elems, held, ko>>

(* The objects of the context are destroyed before it. *)
bxroce_dealloc_ucontext(t) ==
  /\ t \in Users /\ ~ko /\ call[t] = Idle /\ ctx.st = "open"
  /\ \A u \in Users : call[u] = Idle
  /\ \A h \in held : h.own \notin Users
  /\ \A q \in cqs : q.own \notin Users
  /\ DropPd(ctx.ctx_pd)
  /\ ctx' = Closed
  /\ UNCHANGED <<life, mr_pool, mrs, key, held, cqres, ahres, call, ncalls, ko>>

MayHold(t) == Cardinality({h \in held : h.own = t}) < MaxHeld

(* The PD of the context is given out while no one has it. *)
bxroce_get_ucontext_pd(t) ==
  /\ MayHold(t) /\ t \in Users /\ ctx.st = "open" /\ ~ctx.pd_in_use
  /\ Begin(t, {"mem"}, "alloc_pd", "made", ctx.ctx_pd, 0, 0)
  /\ ctx' = [ctx EXCEPT !.pd_in_use = TRUE]
  /\ UNCHANGED <<life, elems, held, cqres, ahres, ko>>

bxroce_alloc_pd(t) ==
  /\ MayHold(t)
  /\ t \in Users => ctx.st = "open" /\ ctx.pd_in_use
  /\ Begin(t, {"mem"}, "alloc_pd", "get", 0, 0, 0)
  /\ UNCHANGED <<life, elems, ctx, held, cqres, ahres, ko>>

AllocPdDone(t) ==
  /\ Runs(t, "made") /\ call[t].op = "alloc_pd"
  /\ held' = held \cup {[pd |-> call[t].pd, own |-> t]}
  /\ Go(t, Idle)
  /\ Others /\ UNCHANGED <<elems, ctx, ko>>

(* A PD goes when nothing is made on it any more. *)
Uses(p) == {m \in DOMAIN mrs : mrs[m].up /\ mrs[m].ibpd = p}
Busy(p) == \E t \in Threads : call[t].op \in MrOps \cup {"dereg"} /\ call[t].pd = p

bxroce_dealloc_pd(t, h) ==
  /\ ~ko /\ call[t] = Idle /\ h.own = t /\ Uses(h.pd) = {} /\ ~Busy(h.pd)
  /\ held' = held \ {h}
  /\ IF t \in Users /\ ctx.ctx_pd = h.pd
     THEN ctx' = [ctx EXCEPT !.pd_in_use = FALSE] /\ UNCHANGED <<pds, pd_pool>>
     ELSE DropPd(h.pd) /\ UNCHANGED ctx
  /\ UNCHANGED <<life, mr_pool, mrs, key, cqres, ahres, call, ncalls, ko>>

----------------------------------------------------------------------------
(* Memory regions.                                                          *)

Together(t, u) == t = u \/ {t, u} \subseteq Users

RegMr(t, h, op) ==
  /\ op \in IF t \in Users THEN {"reg_user"} ELSE {"dma", "fast"}
  /\ op = "fast" => "fast_mr" \in Allow
  /\ Together(t, h.own)
  /\ Begin(t, {"mem"}, op, "get", h.pd, 0, 0)
  /\ UNCHANGED <<life, elems, ctx, held, cqres, ahres, ko>>

(* The request of the user cannot be read: the element is left behind. *)
AddIndex(t, faulted) ==
  /\ Runs(t, "index")
  /\ faulted => call[t].op = "reg_user" /\ "copy_fault" \in Allow
  /\ IF faulted THEN Go(t, Idle) /\ UNCHANGED <<mr_pool, mrs>>
     ELSE /\ mr_pool' = bxroce_add_index(mr_pool)
          /\ mrs' = [mrs EXCEPT ![call[t].el].index = alloc_index(mr_pool) + mr_pool.min_index]
          /\ Go(t, At(t, "ref"))
  /\ Others /\ UNCHANGED <<pd_pool, pds, key, ctx, held, ko>>

AddRef(t) ==
  /\ Runs(t, "ref")
  /\ pds' = [pds EXCEPT ![call[t].pd].ref = @ + 1]
  /\ Go(t, At(t, "key"))
  /\ Others /\ UNCHANGED <<pd_pool, mr_pool, mrs, key, ctx, held, ko>>

(* ib_umem_get fails: the way of bxroce_dereg_mr is taken. *)
UmemFails(t) ==
  /\ Runs(t, "key") /\ call[t].op = "reg_user"
  /\ Go(t, At(t, "drop_pd"))
  /\ Others /\ UNCHANGED <<elems, ctx, held, ko>>

(* bxroce_get_key reads and writes its static variable without a lock. *)
KeyRead(t) ==
  /\ Runs(t, "key")
  /\ Go(t, [At(t, "init") EXCEPT !.k = bxroce_get_key(key)])
  /\ Others /\ UNCHANGED <<elems, ctx, held, ko>>

bxroce_mem_init(t) ==
  /\ Runs(t, "init")
  /\ key' = call[t].k
  /\ mrs' = [mrs EXCEPT ![call[t].el].lkey = lkey(mrs[call[t].el].index, call[t].k)]
  /\ Go(t, [At(t, "fill") EXCEPT !.k = 0])
  /\ Others /\ UNCHANGED <<pd_pool, mr_pool, pds, ctx, held, ko>>

(* bxroce_mem_alloc fails: the pages and the map are released here and by  *)
(* bxroce_mem_cleanup.                                                     *)
bxroce_mem_alloc(failed) == ~failed \/ "map_fails" \in Allow

Filled(t, pd, up, whole) ==
  mrs' = [mrs EXCEPT ![call[t].el] = [@ EXCEPT !.pd = pd, !.ibpd = call[t].pd, !.up = up, !.whole = whole]]

(* The response to the user may fail.                                       *)
bxroce_reg_user_mr(t, start, length, hugetlb, failed, faulted) ==
  LET segs == bxroce_mem_init_user(Page, Huge, start, length, hugetlb, MaxSg)
  IN /\ Runs(t, "fill") /\ call[t].op = "reg_user" /\ bxroce_mem_alloc(failed)
     /\ IF failed THEN ko' = TRUE /\ UNCHANGED <<mrs, call>>
        ELSE /\ Filled(t, call[t].pd, ~faulted, Covers(segs, Page, Huge, start, length, hugetlb))
             /\ Go(t, IF faulted THEN At(t, "drop_pd") ELSE Idle) /\ UNCHANGED ko
     /\ Others /\ UNCHANGED <<pd_pool, mr_pool, pds, key, ctx, held>>

bxroce_get_dma_mr(t) == Filled(t, call[t].pd, TRUE, TRUE)

(* Hands the device to bxroce_mem_init_fast as the PD. *)
bxroce_alloc_mr(t) == Filled(t, 0, TRUE, TRUE)

KernelMr(t, failed) ==
  /\ Runs(t, "fill") /\ call[t].op \in {"dma", "fast"} /\ bxroce_mem_alloc(failed)
  /\ failed => call[t].op = "fast"
  /\ IF failed THEN ko' = TRUE /\ UNCHANGED <<mrs, call>>
     ELSE /\ IF call[t].op = "dma" THEN bxroce_get_dma_mr(t) ELSE bxroce_alloc_mr(t)
          /\ Go(t, Idle) /\ UNCHANGED ko
  /\ Others /\ UNCHANGED <<pd_pool, mr_pool, pds, key, ctx, held>>

bxroce_dereg_mr(t, m) ==
  /\ mrs[m].up /\ \E h \in held : Together(t, h.own) /\ h.pd = mrs[m].ibpd
  /\ Begin(t, {"mem"}, "dereg", "drop_pd", mrs[m].pd, m, 0)
  /\ mrs' = [mrs EXCEPT ![m].up = FALSE]
  /\ UNCHANGED <<life, pd_pool, mr_pool, pds, key, ctx, held, cqres, ahres, ko>>

DropPdOf(t) ==
  /\ Runs(t, "drop_pd")
  /\ IF call[t].pd = 0 THEN ko' = TRUE /\ UNCHANGED <<call, pds, pd_pool>>
     ELSE DropPd(call[t].pd) /\ Go(t, At(t, "drop_index")) /\ UNCHANGED ko
  /\ Others /\ UNCHANGED <<mr_pool, mrs, key, ctx, held>>

DropIndex(t) ==
  /\ Runs(t, "drop_index")
  /\ mr_pool' = bxroce_drop_index(mr_pool, mrs[call[t].el].index)
  /\ Go(t, At(t, "drop_mr"))
  /\ Others /\ UNCHANGED <<pd_pool, pds, mrs, key, ctx, held, ko>>

DropMr(t) ==
  /\ Runs(t, "drop_mr")
  /\ mrs' = Without(mrs, call[t].el)
  /\ mr_pool' = bxroce_elem_release(mr_pool)
  /\ Go(t, Idle)
  /\ Others /\ UNCHANGED <<pd_pool, pds, key, ctx, held, ko>>

----------------------------------------------------------------------------
(* Completion queues.  A queue is known by its pages; 3 pages are mapped.   *)

CqLen == 3
CqRest == UNCHANGED <<life, elems, held, ahres>>

FindCq(from) == {i \in from..(MaxCq - 1) : i \notin cq_bits}

bxroce_alloc_cqqpresource ==
  Least(IF FindCq(next_cq) # {} THEN FindCq(next_cq) ELSE FindCq(0))

\* (mutant) the id is not marked as taken
CreateCq_BitLost(t) ==
  /\ t \in Users => ctx.st = "open"
  /\ FindCq(0) # {}
  /\ Begin(t, {"cq"}, "create_cq", "cq_mem", 0, bxroce_alloc_cqqpresource, 0)
  /\ next_cq' = (bxroce_alloc_cqqpresource + 1) % MaxCq
  /\ CqRest /\ UNCHANGED <<ctx, cq_bits, cq_table, cqs, pages, ko>>

bxroce_create_cq(t) ==
  /\ t \in Users => ctx.st = "open"
  /\ FindCq(0) # {}
  /\ Begin(t, {"cq"}, "create_cq", "cq_mem", 0, bxroce_alloc_cqqpresource, 0)
  /\ cq_bits' = cq_bits \cup {bxroce_alloc_cqqpresource}
  /\ next_cq' = (bxroce_alloc_cqqpresource + 1) % MaxCq
  /\ CqRest /\ UNCHANGED <<ctx, cq_table, cqs, pages, ko>>

(* Without memory for its pages the id of the CQ is not given back. *)
bxroce_hw_create_cq(t, none) ==
  /\ Runs(t, "cq_mem")
  /\ none => "no_memory" \in Allow
  /\ LET p == Unused(pages)
     IN IF none THEN Go(t, Idle) /\ UNCHANGED pages
        ELSE /\ pages' = pages \cup {p}
             /\ Go(t, [At(t, IF t \in Users THEN "cq_map" ELSE "cq_put") EXCEPT !.k = p])
  /\ CqRest /\ UNCHANGED <<ctx, cq_bits, next_cq, cq_table, cqs, ncalls, ko>>

bxroce_copy_cq_uresp(t) ==
  /\ Runs(t, "cq_map")
  /\ ctx' = [ctx EXCEPT !.mm_head = bxroce_add_mmap(@, call[t].k, CqLen)]
  /\ Go(t, At(t, "cq_put"))
  /\ CqRest /\ UNCHANGED <<cqres, ncalls, ko>>

(* The response cannot be written: the resources of the CQ are freed. *)
CqFault(t) ==
  /\ Runs(t, "cq_map")
  /\ Go(t, [At(t, "cq_free") EXCEPT !.op = "create_cq"])
  /\ CqRest /\ UNCHANGED <<ctx, cqres, ncalls, ko>>

CqStored(t) ==
  /\ Runs(t, "cq_put")
  /\ cq_table' = With(cq_table, call[t].el, call[t].k)
  /\ cqs' = cqs \cup {[id |-> call[t].el, page |-> call[t].k, own |-> t]}
  /\ Go(t, IF t \in Users THEN At(t, "mmap") ELSE Idle)
  /\ CqRest /\ UNCHANGED <<ctx, cq_bits, next_cq, pages, ncalls, ko>>

(* The library maps the queue it has got. *)
bxroce_mmap(t) ==
  /\ Runs(t, "mmap")
  /\ Go(t, Idle)
  /\ CqRest /\ UNCHANGED <<ctx, cqres, ncalls, ko>>

bxroce_destroy_cq(t, q) ==
  /\ Together(t, q.own) /\ \A u \in Threads : call[u].at = "mmap" => call[u].k # q.page
  /\ Begin(t, {"cq"}, "destroy_cq", "cq_free", 0, q.id, q.page)
  /\ cq_table' = Without(cq_table, q.id)
  /\ cqs' = cqs \ {q}
  /\ CqRest /\ UNCHANGED <<ctx, cq_bits, next_cq, pages, ko>>

bxroce_free_cqresource(t) ==
  /\ Runs(t, "cq_free")
  /\ pages' = pages \ {call[t].k}
  /\ cq_bits' = cq_bits \ {call[t].el}
  /\ Go(t, IF t \in Users /\ call[t].op = "destroy_cq" THEN At(t, "cq_unmap") ELSE Idle)
  /\ CqRest /\ UNCHANGED <<ctx, next_cq, cq_table, cqs, ncalls, ko>>

CqUnmap(t) ==
  /\ Runs(t, "cq_unmap")
  /\ ctx' = [ctx EXCEPT !.mm_head = bxroce_del_mmap(@, call[t].k, CqLen)]
  /\ Go(t, Idle)
  /\ CqRest /\ UNCHANGED <<cqres, ncalls, ko>>

----------------------------------------------------------------------------
(* Address handles.                                                         *)

AhRest == UNCHANGED <<life, elems, ctx, held, cqres>>
FreeAvs == (1..MaxAv) \ av

bxroce_alloc_av(t) ==
  /\ FreeAvs # {}
  /\ Begin(t, {"ah"}, "create_ah", "ah_set", 0, Least(FreeAvs), 0)
  /\ av' = av \cup {Least(FreeAvs)}
  /\ AhRest /\ UNCHANGED <<ahs, ko>>

(* An interface without a VLAN is refused, and so is a GID of no type that  *)
(* has a protocol number.                                                   *)
set_av_attr(type, vlan) == type \in {"IB", "IPV4", "IPV6"} /\ vlan

(* The response to a user copies from a byte of the MAC address taken for a *)
(* pointer.                                                                 *)
bxroce_create_ah(t, type, vlan) ==
  LET set == set_av_attr(type, vlan)
  IN /\ Runs(t, "ah_set")
     /\ t \in Users /\ set => "user_ah" \in Allow
     /\ IF set /\ t \in Users THEN ko' = TRUE /\ UNCHANGED <<call, av, ahs>>
        ELSE /\ ahs' = IF set THEN ahs \cup {[av |-> call[t].el, own |-> t]} ELSE ahs
             /\ av' = av \cup {call[t].el}
             /\ Go(t, IF set THEN Idle ELSE At(t, "ah_free")) /\ UNCHANGED ko
     /\ AhRest /\ UNCHANGED ncalls

bxroce_free_av(t) ==
  /\ Runs(t, "ah_free")
  /\ av' = av \ {call[t].el}
  /\ Go(t, Idle)
  /\ AhRest /\ UNCHANGED <<ahs, ncalls, ko>>

bxroce_destroy_ah(t, a) ==
  /\ a.own = t
  /\ Begin(t, {"ah"}, "destroy_ah", "ah_free", 0, a.av, 0)
  /\ ahs' = ahs \ {a}
  /\ AhRest /\ UNCHANGED <<av, ko>>

----------------------------------------------------------------------------
Init ==
  /\ topic \in {"life", "mem", "cq", "ah"}
  /\ list = IF topic = "life" THEN {} ELSE Nics
  /\ drv = FALSE /\ rocedev = {} /\ dev_list = {} /\ loads = 0
  /\ nic = [up |-> topic # "life", ip |-> IF topic = "life" THEN 0 ELSE 1, mac |-> 1]
  /\ chip = [rqec |-> IF topic = "life" THEN {} ELSE {"mac"}, ip |-> 0, mac |-> 0, blocks |-> {}]
  /\ pd_pool = NoPool /\ mr_pool = NoPool /\ pds = <<>> /\ mrs = <<>> /\ key = 1
  /\ ctx = Closed /\ held = {}
  /\ cq_bits = {} /\ next_cq = 0 /\ cq_table = <<>> /\ cqs = {} /\ pages = {}
  /\ av = {} /\ ahs = {}
  /\ call = [t \in Threads |-> Idle] /\ ncalls = 0 /\ ko = FALSE

Life ==
  \/ \E n \in Nics : mac_register_dev(n) \/ mac_unregister_dev(n)
  \/ UpDown
  \/ \E a \in Addrs : bxroce_inetaddr_event("ip", a)
  \/ \E a \in Addrs \ {0} : bxroce_inetaddr_event("mac", a)
  \/ \E f \in SUBSET list : bx_init_module(f)
  \/ bx_exit_module

Alloc(t) == AllocGet(t) \/ AllocInc(t) \/ AllocUndo(t) \/ AllocElem(t)

Pds(t) ==
  \/ bxroce_alloc_ucontext(t) \/ \E f \in BOOLEAN : OpenDone(t, f)
  \/ bxroce_dealloc_ucontext(t)
  \/ bxroce_get_ucontext_pd(t) \/ bxroce_alloc_pd(t) \/ AllocPdDone(t)
  \/ \E h \in held : bxroce_dealloc_pd(t, h)

Mrs(t) ==
  \/ \E h \in held, op \in MrOps : RegMr(t, h, op)
  \/ \E f \in BOOLEAN : AddIndex(t, f)
  \/ AddRef(t) \/ UmemFails(t) \/ KeyRead(t) \/ bxroce_mem_init(t)
  \/ \E s \in Starts, l \in Lens, hugetlb, n, f \in BOOLEAN : bxroce_reg_user_mr(t, s, l, hugetlb, n, f)
  \/ \E f \in BOOLEAN : KernelMr(t, f)
  \/ \E m \in DOMAIN mrs : bxroce_dereg_mr(t, m)
  \/ DropPdOf(t) \/ DropIndex(t) \/ DropMr(t)

Cqs(t) ==
  \/ bxroce_create_cq(t) \/ \E n \in BOOLEAN : bxroce_hw_create_cq(t, n)
  \/ bxroce_copy_cq_uresp(t) \/ CqFault(t)
  \/ CqStored(t) \/ bxroce_mmap(t)
  \/ \E q \in cqs : bxroce_destroy_cq(t, q)
  \/ bxroce_free_cqresource(t) \/ CqUnmap(t)

Ahs(t) ==
  \/ bxroce_alloc_av(t) \/ \E y \in {"IPV4", "other"}, v \in BOOLEAN : bxroce_create_ah(t, y, v)
  \/ bxroce_free_av(t) \/ \E a \in ahs : bxroce_destroy_ah(t, a)

Next ==
  \/ Life
  \/ \E t \in Threads : Alloc(t) \/ Pds(t) \/ Mrs(t) \/ Cqs(t) \/ Ahs(t)

Spec == Init /\ [][Next]_vars

(* Threads of the process may be exchanged, kernel threads too. *)
Symmetry == Permutations(Users) \cup Permutations(Clients)

----------------------------------------------------------------------------
Counts == 0..(MaxPd + MaxMr + MaxCalls)

(* The variables have the shapes of the structures they stand for; counters *)
(* of references and elements never go below zero, and an index is in the   *)
(* range of its pool.                                                        *)
TypeOK ==
  /\ {pd_pool.num_elem, pd_pool.ref_cnt, mr_pool.num_elem, mr_pool.ref_cnt} \subseteq Counts
  /\ mr_pool.table \subseteq 0..(MaxMr - 1)
  /\ \A p \in DOMAIN pds : pds[p].ref \in Counts \ {0}
  /\ \A m \in DOMAIN mrs : mrs[m].index \in 0..(MinIndex + MaxMr - 1)
  /\ cq_bits \subseteq 0..(MaxCq - 1) /\ next_cq \in 0..(MaxCq - 1)
  /\ rocedev \subseteq dev_list /\ list \subseteq Nics /\ av \subseteq 1..MaxAv
  /\ chip.rqec \subseteq {"mac", "rdma"} /\ chip.blocks \subseteq Blocks

(* bxroce_alloc counts first and compares afterwards, so threads that come  *)
(* together never get more elements than the pool has, and the count and    *)
(* the references of a pool are those of its elements and of the calls that  *)
(* are inside bxroce_alloc.                                                  *)
PoolExact ==
  \A kind \in {"pd", "mr"} :
    LET pool == IF kind = "pd" THEN pd_pool ELSE mr_pool
        n == Cardinality(IF kind = "pd" THEN DOMAIN pds ELSE DOMAIN mrs)
        In(ats) == Cardinality({t \in Threads : call[t].at \in ats /\
                                  call[t].op \in IF kind = "pd" THEN PdOps ELSE MrOps})
    IN /\ n <= pool.max_elem
       /\ pool.num_elem = n + In({"undo", "elem"})
       /\ pool.ref_cnt = (IF pool.state = "VALID" THEN 1 ELSE 0) + n + In({"inc", "undo", "elem"})

(* A PD has the reference of whoever made it and one of each memory region  *)
(* on it, on every way out of a registration; it is there as long as one is. *)
RefsExact ==
  /\ \A h \in held : h.pd \in DOMAIN pds
  /\ ctx.st = "open" => ctx.ctx_pd \in DOMAIN pds
  /\ \A p \in DOMAIN pds :
       pds[p].ref = 1 + Cardinality(Uses(p))
                      + Cardinality({t \in Threads : call[t].pd = p /\
                                       call[t].at \in {"key", "init", "fill", "drop_pd"}})

(* Two memory regions in use never have one key, although the register that *)
(* keys come from is shared without a lock and an index is given back before *)
(* the region that had it is freed: the indexes in use are the bits set.     *)
KeysApart ==
  /\ \A m, n \in DOMAIN mrs : mrs[m].up /\ mrs[n].up /\ mrs[m].lkey = mrs[n].lkey => m = n
  /\ mr_pool.table =
       {mrs[m].index - mr_pool.min_index : m \in {m \in DOMAIN mrs : mrs[m].up}}
       \cup {mrs[call[t].el].index - mr_pool.min_index :
               t \in {t \in Threads : call[t].at \in {"ref", "key", "init", "fill", "drop_pd", "drop_index"}}}

(* The PD of a context is given out once at a time. *)
PdsApart == \A g, h \in held : g.pd = h.pd => g = h

(* The segments of a user buffer are the buffer: their sizes add up to its  *)
(* length, and none runs past memory that is contiguous.                    *)
SegmentsWhole == \A m \in DOMAIN mrs : mrs[m].up => mrs[m].whole

(* The table entry of a CQ is that CQ while it is in use: an id goes to     *)
(* another only when its entry has been cleared.                            *)
CqTableTrue ==
  \A q \in cqs : q.id \in DOMAIN cq_table /\ cq_table[q.id] = q.page

(* The mapping of a CQ that was just made is found, although the removal of *)
(* a mapping takes the first entry that has its length or its address.      *)
MapFound ==
  \A t \in Threads : call[t].at = "mmap" => bxroce_find_mmap(ctx.mm_head, call[t].k, CqLen)

(* An address vector has one owner, and only owned ones are valid. *)
AvUnique ==
  LET creating == {t \in Threads : call[t].at \in {"ah_set", "ah_free"}}
  IN /\ av = {a.av : a \in ahs} \cup {call[t].el : t \in creating}
     /\ Cardinality(av) = Cardinality(ahs) + Cardinality(creating)

(* When the module is gone nothing of its pools is left. *)
PoolsReleased ==
  ~drv => /\ pd_pool.ref_cnt = 0 /\ mr_pool.ref_cnt = 0
          /\ pd_pool.state = "INVALID" /\ mr_pool.state = "INVALID"

(* Nothing is lost and nothing taken twice: pools, elements and references  *)
(* are counted exactly in every state of every call (bxroce_alloc,          *)
(* bxroce_add_ref, bxroce_drop_ref), down to none when the module is gone.   *)
PoolInv == TypeOK /\ PoolExact /\ RefsExact /\ PoolsReleased

(* A name means one object: keys and indexes of regions, the PD of a        *)
(* context, entries of the address vector table, numbers and mappings of    *)
(* completion queues, whichever calls overlap.                              *)
NameInv == KeysApart /\ PdsApart /\ AvUnique /\ CqTableTrue /\ MapFound

(* A registered device can receive: the blocks are initialised, the header  *)
(* block has the addresses the interface has, and both the queue of the NIC  *)
(* and the queue of RDMA are enabled while the interface is up.             *)
RdmaReady ==
  Main \in rocedev =>
    /\ chip.blocks = Blocks /\ (nic.ip # 0 => chip.ip = nic.ip) /\ chip.mac = nic.mac
    /\ nic.up => chip.rqec = {"mac", "rdma"}

(* No call ends in a use of memory that is not there. *)
Survives == ~ko
=============================================================================
