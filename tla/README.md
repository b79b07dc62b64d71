# Verification of the BinXin RNIC drivers

The repository holds a Linux network driver (`src/bx_*.c`), a RoCE driver on top of it
(`src/bx_roce_driver/`), its user-space provider (`src/libbxroce/`) and a small test tool
(`src/rdma_exchange/`). This directory models the parts in which several activities share state, checks
them with TLC on small instances and proves the most important facts for every size with TLAPS.

All models follow the configured build: `RNIC_LEGACY_INT_EN` (one interrupt line, no MSI),
`CUST_CHANNEL_NUM 1` (one channel: one Tx and one Rx ring, one NAPI instance).

## 1. Inventory

| Component | State it keeps | Operations | Shares state with |
|---|---|---|---|
| MAC transmit (`bx_mac_net.c`, `bx_mac_hw.c`, `bx_mac_desc.c`) | ring counters `cur`, `dirty`; descriptors with OWN and LD; mapped buffers, skbs; queue stop flags; `xmit_more`; BQL; Tx timer | `mac_xmit`, `mac_tx_poll`, `mac_tx_timer`, `mac_isr`, `mac_tx_timeout`, `mac_restart` | DMA engine (descriptors, tail register), network stack (stop bit, BQL), NAPI |
| MAC receive (same files) | `cur`, `dirty`; descriptors; buffers; the state of a half-read frame | `mac_rx_poll`, `mac_rx_refresh`, `mac_dev_read`, `mac_all_poll`, `mac_isr`, `mac_restart` | DMA engine, NAPI, receive watchdog |
| Device lifecycle (`bx_mac_net.c`, `bx_mac_desc.c`, `bx_mac.c`) | channels, rings, interrupts, NAPI, timers, `restart_work` | probe, remove, open, close, restart, change_mtu | all of the above |
| Link and PCS (`bx_pcs.c`, `bx_mpu.c`, `rnic_link_check_timer`) | `link_up`, `an_start`, `an_success`, `krt_start`, `krt_success`, `krt_failed`, counters | the link check timer, autonegotiation, link training | PCS registers, `mac_xmit` |
| MAC settings (`bx_mac_hw.c`): address and VLAN filters, offloads, RSS, flow control, coalescing | registers, `netdev_features`, `active_vlans` | `mac_hw_init`, `ndo` and ethtool calls | device lifecycle; the registers outlive a close |
| IEU (`bx_ieu.c`), chip blocks (`bx_mpb/pbu/phd/cm/pcie.c`), `bx_mac_cfg.c`, MMC | registers | one-time configuration | – |
| ethtool (`bx_mac_ethtool.c`) | coalescing and ring parameters | get and set | MAC paths |
| NIC to RoCE registration (`bx_roce.c`) | `bxpdata_list`, the registered RoCE driver | register and unregister of NIC and driver | probe and remove of both drivers |
| RoCE QPs (`bxroce_verbs.c`, `bxroce_hw.c`) | number bitmaps, `qp_table`, `cq->qp_id`, `dev_lock`, `cq->lock` | create, modify, destroy, poll | device tables |
| RoCE send queue | `sq.head`, `sq.tail`, `qp_foe`, queue memory | `bxroce_post_send`, state changes | device registers wp and rp |
| RoCE receive and completion queue | `rq.head`, `rq.tail`; CQ read pointers | `bxroce_post_recv`, `bxroce_poll_cq` | device |
| RoCE pools, memory regions, PDs, AHs | index bitmaps, red-black trees, reference counts | alloc, get, drop | consumers |
| RoCE device, CM (`bxroce_main.c`) | device list, notifier, CM registers | `bx_add`, `bx_remove`, CM send and receive | NIC driver, register access |
| User library (`libbxroce`) | its own queues, table of queue pairs, remembered remote addresses | create, modify, destroy, post, poll | other processes (register window, robust mutex), kernel driver, device |
| Exchange server (`rdma_exchange`) | table of registered regions | write, read, remove | user libraries of both hosts |

What makes it hard: the MAC rings are shared without locks between the stack, softirq, interrupt, timers,
a work item and a DMA engine; counters are free-running and wrap; the stop and wake-up of the queue are
two writes each; a restart tears everything down under running activities; buffers may be unavailable;
the RoCE queues are shared with a device through two registers, one of them written twice at the end of
the queue; the QP table is used under two locks that are not always taken in the same order; processes share one
register window under a mutex that survives its owner; pools count without locks; results of the link
logic arrive in any order; and every bring-up may fail in the middle.
`PROJECT.json` lists the hazards at their lines with the properties that would catch them.

## 2. Plan

Written, in the order of importance: `Ring`, `MacTx`, `MacRx` (data paths), `SendFifo`, `RoceSq`,
`RoceQp` (kernel queues), `Link`, `MacDev` (link and lifecycle), `LibQueue` (user queues), `RocePool`,
`RoceDev` (objects and registration of the RoCE device), with proofs about all of them. Left:

1. The kernel's receive queue (`bxroce_post_recv`), and queue pairs in the mapping list of `RoceDev`.
2. `LibQueue` and `RoceSq` on one device, with the two locks they take.

## 3. Modules and the code they model

`Ring` is the index arithmetic of both rings: counters of width `W` (2^32 in the code) that wrap at a
multiple of the ring size `N`, and the slot of a counter (`MAC_GET_DESC_DATA`). `RingProof` proves the
facts about it (distances after an increment, slots of different counters differ within a ring, a slot
seen from two counters).

`MacTx` has one program counter per activity:

* `xpc` for `mac_xmit`: give up (link down, `skb_cow_head` or mapping failure), busy, fill, OWN, `cur`,
  doorbell, check of the free descriptors, stop bit, `queue_stopped`. Filling the descriptors after the
  first is one step, because nobody reads them before OWN of the first is set.
* `HwComplete` and `HwSuspend` for the DMA engine. A doorbell makes it run again.
* `ppc` for `mac_tx_poll` and the NAPI poll around it; it works on `pcur`, its copy of `cur`.
* `tpc`, `isr` for the timer and the interrupt handler, with NAPI's SCHED and MISSED bits.
* `rpc` for `mac_restart`: queues, timers, engine, interrupt, NAPI, buffers, start. Each waits as the
  kernel call it makes waits (`del_timer_sync`, `synchronize_irq`, `napi_disable`).

`mac_tx_timeout` is taken when the queue is stopped, as the watchdog of the stack does. Two constants
describe the surroundings: `StackQuiet` (the stack makes no `mac_xmit` call during a restart) and
`FlushStuck` (`mac_hw_init` may fail in `mac_start`, which ignores it). With `FlushStuck` the rings are
started although their descriptors were not reset.

`MacRx` has the engine writing descriptors it owns (`HwWrite`, a frame takes one to `MaxFrag`), the
receive watchdog, the poll read descriptor by descriptor (`TakeMore`, `TakeLast`, `TakeError`,
`TakeNone`), `mac_rx_refresh` step by step (`Refill`, `RefillEnd`), the saved state of a half-read frame
and the restart. The driver never turns timestamps on, so there are no context descriptors. The interrupt
is not masked while a poll runs: the legacy build enables it with register offset 0x0c84 and disables
it with 0x0c80. A restart forgets the skb of a half-read frame (`mac_unmap_desc_data` clears
`state.skb` without freeing it); the model drops it, too. Constants: `FailUpTo` (a buffer may be refused
while at most so many descriptors are dirty), `StartFails` (the same in `mac_start`), `OtherCpu` (the
poll may run on another CPU than the interrupt handler).

`RoceSq` is the send queue of a kernel QP: `bxroce_post_send` step by step (tail read back, fit, build,
doorbell in one or two writes, head read back), the changes of state and the device that executes
elements. Elements carry numbers that exist only in the model and tell them apart; offsets in bytes
become entry indices. `Depth` limits what the consumer keeps unexecuted, `Reinit` lets it take a used QP
back to INIT, `RefuseImm` lets a request without entries and with immediate data be refused after its
entry has been cleared; the head moves on all the same. `SendFifo` is the promise: a queue, in order, each element once.

`RoceQp` has several callers in `bxroce_create_qp`, `_modify_qp`, `_destroy_qp` and `_poll_cq`, with
`dev_lock` and one `cq->lock` per CQ as variables. Failures after the number is taken are actions of
their own. `_bxroce_destroy_qp` hands `clear_bit` the address of the pointer `allocated_qps` instead of the
bitmap: the number stays taken, and the bit is cleared in `struct bxroce_dev`, for numbers 0 to 63 in
`allocated_qps` itself, for 64 to 127 in `qp_table`, later ones in other fields. `Ones` is the set of
numbers whose bit there may be a one (what it is depends on the addresses the allocator returned), `mem`
says whether one of them has been cleared; from then on the driver may read anything where it takes the
bitmap and the table to be (`Bitmaps`, `Entry`, with `Wild` for what is no QP). What its writes through
such a pointer destroy outside the table is left out, and so are, of the fields behind, those no
definition here has: numbers from 128 on clear bits of `cq_table`, `av_tbl` and others.
Constants: `PollRaces`, `Shared`, `Exhaust`, `HwFail` admit or rule out what the name says.

`Link` is port 0 from the first PLL to a link at rest. `BringUp` follows `mpu_init`, `mpp_init` and
`pcs_init` with their waits for the PHY; it is run at probe and again by every `mac_stop`. The registers
a property looks at (type, FEC, PLL, lane parameters) are fields of `port`. The timer handler is
`LinkCheck` (link status, the count of down checks and the third one that forgets the results),
`AnRead`, and one step per interrupt bit (`OnCmpl`, `OnIncLink`, `OnPgRcv`), because the PCS sets bits
between the read of `VR_AN_INTR` and the clears. PCS, training and partner are `HwIntr`, `HwTrain`,
`HwSignal`; the partner is arbitrary until `PartnerGood`, from when it answers, trains and keeps its
signal. Pages are abstracted to whether more may follow. The limits of 50 pages and 10000 silent checks
are constants. `InTime` says that a good partner is not so slow as to use up the silent checks.

`MacDev` is the device as the kernel calls it, one call at a time under `rtnl_lock`: `Probe`, `Remove`,
`Open` (every way it may fail), `Close`, `mac_restart_dev` and `RestartWork`, `TxTimeout`, and the
settings (address, MTU, features, VLANs, receive mode, coalescing). A register write is an operator from
registers to registers and `mac_hw_init` their composition in the order of the code; parts that always
write the same value appear as a name in `regs.cfg`. Registers are not reset by a close or a remove, as in
the code. Hashes are parities: what
matters is that two addresses or VLANs may share a bit. `Allow` names four situations the code does not
survive; each is off in the passing run (section 7).

`LibQueue` has processes of the user library. A send is `PostSend`, then for each register sequence
`Lock`, `Select`, `Read`, `Fill`, `Commit`, `Unlock` under the robust mutex: first the reset of the
pointers, which `Check` repeats until the device has run dry, then the ring of the doorbell. A process may
die at any step (`Die`); the next owner finds the mutex inconsistent and goes on. `DevSend` and `DevRecv`
are the device. A request that the builders refuse clears the entry at the head (`Refuse`).

Polling is `bxroce_poll_hwcq` round by round (`PollRound`), with the room left in the caller's array. A
completion of receives carries a number, and the library hands out as many receives as that number, the
number before (`rq.overhead`) and `phase` say (`num_rx_left`). The code fixes only how it takes the number
apart; `Number` is a device for which this is right, which counts receives from 0 and again from 0 after a
completion that carries 0. The first completion then carries 0: one that does not makes the library divide
by zero, which ends the process (`DividesByZero`, `Die`). With `"numbered"` in `Allow` the device counts on.
Numbers are 16 bits wide and do not wrap here. The room is looked at between rounds only; where the code
would write behind the array the behaviour ends, and `WcHasRoom` (section 7) shows that it can come to that.

The peer registers and deregisters memory at the exchange server (`RegMr`, `DeregMr`). An address is an
offset into a registration; the server finds it by key and range, the end included (`Lookup`), and the
library takes what it remembers for known when the address is in its range, the end included and whatever
the key (`Hit`, `Resolved`, `rdma_addr`). A physical address is the registration it belongs to and an offset,
so that the memory of an address registered again is not the memory it had before. `Fresh` is what `addrtbl`
holds at first: zeros, or with `"dirty_heap"` what `malloc` found. Registrations are taken to be physically
contiguous; a request of several elements uses one remote address for all of them, as in the code.

A behaviour is about sends, about remote addresses or about receives with one send each (`load`), which
keeps the state space small: the send and the receive queue of a queue pair share no state of the library.
`Allow` names eight situations the code does not handle, each off in the passing run.

`RocePool` is `bxroce_pool.c` as operators on the record of a pool, with the key and the segments of a
memory region. `RoceDev` EXTENDS it with the actions: NICs and the RoCE module that come and go
(`mac_register_dev`, `bx_init_module`, `bx_exit_module`), `bx_add` with the hardware blocks in order, and
calls split at every lock, atomic counter and unlocked shared access: `bxroce_alloc` in four steps, the
registration of a region from index to segments, contexts and their PD, completion queues with number,
table, page and mapping, and address handles. `topic` makes a behaviour be about one of registration,
memory, completion queues and address handles; they share only the device, which is loaded and unloaded
in all four. Threads of the process are interchangeable and so are kernel threads (SYMMETRY; the run has
no liveness property). `Allow` names ten situations the code does not handle, each off in the passing run.
Starts, lengths and page sizes are in units of half a page: what matters is where they fall
relative to a page and to a huge page.

Definitions marked external in `PROJECT.json` stand for hardware, the network stack or the consumer, as
far as the code shows how it relies on them.

## 4. Runs

| Run | Shows | Bounds |
|---|---|---|
| `tx_ring` | all safety properties of `MacTx` | ring of 3, counters wrap at 6, packets of 1 and 2, poll of at most 2 |
| `tx_flush` | no skb is freed twice or used after it was when `mac_hw_init` fails in a restart | ring of 2, packets of 1 |
| `tx_live` | a stopped queue starts again, a restart ends | ring of 2, packets of 1 |
| `rx_ring` | safety of `MacRx` with refused buffers | ring of 3, frames of 1 and 2, budget 2, refill threshold 1, refusals up to 2 dirty |
| `rx_live` | frames are read, a suspended engine resumes | ring of 2, frames of 1 and 2, budget 1 |
| `sq_order` | order of elements, refinement of `SendFifo` | 4 entries, requests of up to 2, at most 3 unexecuted |
| `qp_table` | QP table, no use after free, calls end | 2 callers, 2 QPs, 2 CQs, 4 numbers, one of which is a one bit of the pointers |
| `link` | lanes clocked, flags and registers agree, results earned, negotiations end, the link settles | all five speeds, give up after 3 pages or 2 silent checks, forget after 3 down checks |
| `mac_dev` | a running device does what was asked and has its resources, a closed one has none | 2 VLANs sharing a bit, 3 addresses and one register for them, 2 MTUs, 2 times, 4 changes of settings |
| `mac_reopen` | violation: a device that is opened again has no channel | no settings |
| `lib_q` | order and integrity of sends and receives, pointers of each queue pair, remote addresses, tables, room comes | 2 processes, 3 entries, up to 2 sends, 6 receives in completions of 1 to 3, room for 4, 2 registrations of length 2, 1 death |
| `roce_dev` | pools, references, keys, segments, tables, mappings, address vectors exact; nothing left behind; the device can receive | 3 threads, 6 calls, 2 NICs, 4 PDs, 2 regions, 5 CQ numbers, 2 address vectors, 2 loads |

Why the bounds are enough to matter: a ring of 3 with packets of 2 makes packets straddle the end of the
ring and the wrap of the counters, fills the ring so that the queue stops, and leaves room for the poll
to work beside `mac_xmit`; the width 6 makes both counters wrap in a few packets. A frame of two in a
ring of three is split over polls and restarts. Four queue entries with requests of two run over the end
at every offset. Two callers suffice for every pair of lock holders. In `link` each counter reaches its
limit and the states repeat, so the run is exhaustive. Three addresses exceed the one register, in
unicast and in multicast, and fit it again. Six receives go round a queue of three twice, and completions
of one to three follow one another in every order. Registrations of two with addresses at every offset give
hits inside, at the end of and outside what is remembered. Pools of two
regions run out with three threads, and the numbers and address vectors do as well; lengths of 1, 4 and 6
with pages of 2 and huge pages of 4 give less than a page, a whole huge page and one and a half. The
theorems of section 6 lift all of these facts but the segments of `roce_dev` and liveness to all sizes.

Where a run checks an invariant named `...Inv`, it is the conjunction of the module's type invariant with
safety properties that are stated and commented one by one: `FrameInv` (`WholeFrames`), `QueueInv`
(`InOrder`), `QpInv` (`TableTrue`), `FlagInv` (`FlagIsRegister`, `PhasesExclude`, `ResultEarned`), `ConfigInv`
(`AsConfigured`, `RssWhole`), `FilterInv` (`PassesWanted`, `VlanFilterAsked`), `TableInv` (`TableLive`),
`PoolInv` (`PoolExact`, `RefsExact`, `PoolsReleased`) and `NameInv` (`KeysApart`, `PdsApart`, `AvUnique`,
`CqTableTrue`, `MapFound`). The type invariant of `MacTx` is not in a run of its own: it is
proved.

`CHECK_DEADLOCK` is off in `qp_table`, whose callers really can block for good, and in `lib_q` and
`roce_dev`, whose calls are bounded, so that a behaviour ends when they are used up.

## 5. Fairness

* `MacTx`: a step of an activity under way is taken (`mac_xmit` after its check, handler, timer handler,
  poll, restart), and the watchdog of the stack acts on a queue that stays stopped. All are kernel
  code without unbounded loops, run by the scheduler. Nothing is assumed of the DMA engine, of new
  packets, of the interrupt or of the timer: `QueueRestarts` must hold through the watchdog alone.
* `MacRx`: a pending interrupt is taken, the receive watchdog (RIWT) expires, a poll and a restart go on.
  Nothing is assumed of the wire.
* `RoceQp`: strong fairness for each call under way, because mutexes and queued spin locks hand over to
  their waiters.

* `Link`: the kernel runs an armed timer and a bring-up goes on; the PHY ends its resets and a training
  (the code waits for both without limit); a partner that is good from some time on completes a
  negotiation. Nothing is assumed of a partner before that.
* `LibQueue`: a process inside a post takes its next step unless it is killed, and the device executes what
  it has been given. That `RoomComes` holds with weak fairness although a mutex is involved is because a
  process asks for it again and again while the others post a bounded number of sends.

`RoceSq`, `MacDev` and `RoceDev` have safety properties only.

`QueueRestarts` deserves a remark: a wake-up can be lost, because `mac_tx_poll` may free descriptors
between the check of `mac_tx_avail_desc` and `netif_stop_subqueue`, and later polls return before the
wake-up check when they reclaim nothing. The queue is then rescued by the watchdog and a full restart.
`Resumes` needs `N - FailUpTo` and `N - MaxDirty` to leave room for the largest frame: otherwise the
engine can be suspended in the middle of a frame that raises no interrupt.

## 6. Proofs

Every theorem holds for all values of the constants that satisfy the assumptions of its module: `Ring`
(`W` a multiple of `N`, at least twice), `MacTx` (`MinFree` at least one packet and less than the ring),
`MacRx` (threshold below the ring, frames no larger than it), and the `ASSUME` at the head of each other
module. The proofs about a module `M` are in `MProof`, those about `Link` at the end of `MacDevProof`
(which is why the names of `Link` that `MacDev` has too begin with `Link` or `link`), and the facts about
the index arithmetic in `RingProof`. "If" gives a hypothesis on a constant; each one rules out a situation in which section 7
shows the code to go wrong. Every passing run of the same property satisfies the hypotheses.

| Theorem | Statement | Argument |
|---|---|---|
| `TxTypes` | `TypeOK` | inductive as it stands; one lemma for the data, one for the flags |
| `TxNoOverrun` | `NoOverrun`, if `StackQuiet` | `RingInv`: a `mac_xmit` under way fills from `cur` on and belongs to a running device; a poll runs only under NAPI; what is claimed beyond `cur` counts as used. Without the claim the property is not inductive, since the descriptors are filled before `cur` moves |
| `TxQueue`, `TxStopFlag` | `NoBusy`, `StopFlagAgrees`, if `StackQuiet` and not `FlushStuck` | `QueueInv`: which flag is set in which window of stop and wake-up, and the room that an unstopped queue has |
| `TxDevice`, `TxReap` | `OwnWritten`, `ReapBehindDevice`, under the same | `OwnInv`: the engine owns exactly the descriptors from `hw` to the end of what is filled, less the first of a packet not handed over; `MapInv`: all in use are mapped until `mac_free_tx_data`, when the engine is off |
| `TxSkb` | `SkbInUse`, if `StackQuiet` | `SkbInv` gives the place of an skb as a distance from `dirty`, so that filling and freeing move one end of an interval. `FlushStuck` is allowed: an skb is safe even when a restart leaves the descriptors as they were |
| `TxInFlight` | `InFlightIntact`, if `StackQuiet` and not `FlushStuck` | `LastInv` with `OwnInv`, `MapInv` and `SkbInv` |
| `TxBql` | `BqlExact`, under the same | `BqlInv`: freeing an entry with LD takes one from `last` and gives one to `pkts`; the poll's count is zero outside its loop. Cardinalities by the theorems on finite sets |
| `TxNotForgotten` | `NothingForgotten`, if not `FlushStuck` | `ForgetInv`: whenever the engine is suspended before a descriptor it owns, a `mac_xmit` is on its way to the doorbell or one was put off, which `promised` remembers. The stack may send during a restart |
| `RxTypes` | `TypeOK` and `CountInv` | the counts of a poll never pass the budget |
| `RxDataAvailable` | `DataAvailable`, if `FailUpTo < N` | `IndexInv`, `OrderInv`: from `dirty` on the ring is read, then fresh, then the engine's, and the poll never has the whole ring dirty |
| `RxBuffers` | `BuffersPresent`, if also not `StartFails` | the same, with the property itself |
| `RxFrames` | `FrameInv`, if `FailUpTo < N` | `SavedInv`: a half-read frame is in the hands of the poll or in the entry at `cur`, and in no other; `SeqInv`: the unread descriptors form frames in sequence, which the engine continues and the driver enters where `MidFrame` says. Neither is inductive without the other |
| `RxNotified` | `Notified`, if also not `OtherCpu` | `PendInv`: a handler that has yet to acknowledge has scheduled a poll that has not begun or will be repeated, and a frame without interrupt and watchdog is one the scheduled poll comes to |
| `SqQueue`, `SqBuildsFree` | `QueueInv`, `BuildsFree`, if `Depth < Q` and neither `Reinit` nor `RefuseImm` | `HeadInv`, `WpInv`: where the head and the write pointer are at each step of `bxroce_post_send`, between the two writes at the end of the queue too |
| `SqRefines` | `IsFifo`, under the same | each step is a step of `SendFifo` or none: the mapped queue is what the device has been told of |
| `QpTable`, `QpUse` | `QpInv`, `UsesLive`, if not `Exhaust` | Both say what holds while `mem` is intact, that is until a QP is given up whose number is a one bit of the pointers; `QpIndInv`: who holds which lock at which step; numbers of live QPs differ; an entry of the table is cleared before its QP is freed, under the locks a poll takes |
| `LinkFlags` | `FlagInv` | `LinkInv`: `FlagIsRegister` is proved for every state after a bring-up and not only for those between two runs of the handler |
| `LinkClock` | `LanesClocked` | `BringInv`: what each step of the bring-up has set so far |
| `DevBalanced` | `Balanced`, if `Allow` lacks `irq_restart` | `PdInv`, `NetInv`: resources as a function of the state of the device |
| `DevConfig`, `DevFilter` | `ConfigInv`, `FilterInv`, if it also lacks `reopen` | `RegInv`: what each register holds of a device that is up, and what `mac_hw_init` makes of any registers; one lemma per field through the composition of writes |
| `LibTable` | `TableInv`, if `Allow` lacks `map_fail` | `TableInd` |
| `LibPointers`, `LibOrder` | `PointersAgree`, `InOrder`, if `Apart = {}` and neither `recycle` nor `refused` | `OrderInd`: the process inside the window holds the lock and the window keeps what it has put in (`Holder`, `Selected`); the pointers at each step of a post (`Pointers`); what has been built and not announced is in its place as well (`Placed`), without which neither property is inductive |
| `LibReceive` | `RecvIntact`, if neither `recycle` nor `numbered` | `RecvInd`: receives lie between tail and head and the flag tells a full queue from an empty one (`Outstanding`); the completions not yet polled form a chain from the number polled last to the device's last, each link of which stands for the receives between them (`Counting`), so that a poll takes exactly those and the rest keep their places (`Numbered`). Where the array of the caller would be overrun the behaviour ends |
| `LibRemote` | `RemoteRight`, if none of `remove_any`, `read_fail`, `near` and `dirty_heap` | `RemoteInd`: the server's entries, the remembered addresses and all elements, old ones too, lead to the registration of their key (`PoolRight`, `CacheRight`, `WqesRight`). Two registrations ever made are two lengths apart (`Spread`), so that an address in the range of a remembered one is of the same registration, although the code compares no key |
| `RoceReady` | `RdmaReady`, if `Allow` lacks `ifdown` and `new_addr` | `ChipInv`: the addresses given to the chip by `bx_add` are those the interface has, and the queue of RDMA stays enabled beside that of the NIC |
| `RoceNames` | `NameInv`, if it lacks `fast_mr` | `Inv`, in parts: `CallInv`, `NumInv` (shape and number of the calls), `LifeInv`, `OwnerInv` (a PD belongs to one context, one handle or one call), `UseInv`, `RefInv` (what a region or a call relies on is still there), `MrShape`, `PoolShape`, `CountInv` (elements, calls between the counter and the element), `ElInv`, `IndexInv` (an index belongs to a region or to a call that has yet to drop it), `BitInv`, `ListInv` (numbers, table and mappings of CQs), `AvInv`. No two calls work on the same PD, region, index, number or address vector, which is why the steps outside the locks are harmless |
| `RocePools` | `PoolInv`, if it lacks `fast_mr`, `copy_fault` and `unbind` | `Inv` with `LeftPds`, `LeftMrs` (every element has an owner or a call that will free it) and `GoneInv`. The elements of a pool and the calls between counting and taking partition the count; cardinalities by the theorems on finite sets |
| `RoceSurvives` | `Survives`, if `Allow` has none but `unbind`, `ifdown` and `new_addr`, and `MaxPd` exceeds what all threads may hold (`Cardinality(Threads) * MaxHeld`) | `Inv`, `LeftPds`, `RoomInv`, `UndoInv`, `ListedInv`: PDs and calls inside `bxroce_alloc` are at most as many as the shares of the threads, so the NULL of an exhausted pool is never met. The PD of the context counts as one more, which is why the bound is strict; TLC finds that 3 PDs do for 3 threads with one each, and section 7 shows what happens with 2 |

The inductive invariants of the two MAC paths are at the end of `MacTx` and `MacRx`; the others are
at the head of the proof modules. The work on `LibOrder` found that the two arms of a `CASE` in `Filled`
of `LibQueue` overlapped, where TLC takes the first and the language leaves the value open; it is an
`IF` now.

Only model-checked: `SegmentsWhole` of `RoceDev`, because the segments of a region are a sum over a set
that a loop builds, an induction over data the provers do not do; and all liveness properties
(`QueueRestarts`, `RestartEnds`, `FramesRead`, `Resumes`, `CallsEnd`, `NegotiationEnds`, `LinkSettles`,
`RoomComes`), because liveness under fairness is outside the prover's reach. No module uses a recursive
operator.

## 7. What the models show about the code

The run `mac_reopen` ends in a counterexample: probe, open, close, open. `mac_free_channels` leaves
`channel_count` 0 (`bx_mac_desc.c:219`), and the second `mac_open` succeeds without a channel. The other
deviations are reproduced by changing a configuration; the passing runs exclude them by a constant, and
the constant says what has to be true of the surroundings for the code to be right. Where the table
names a part of an `...Inv`, the run reports the conjunction.

| Configuration and change | Property | What happens |
|---|---|---|
| `MCMacTx.cfg`, `StackQuiet = FALSE` | `OwnWritten`, `InFlightIntact` | `netif_tx_stop_all_queues` does not wait for a `mac_xmit` under way, which sets OWN on an emptied descriptor (`bx_mac_net.c:1937`) |
| `MCMacTx.cfg`, add `TimerArmed` | `TimerArmed` | `mac_stop_timers` deletes a pending `tx_timer` and leaves `tx_timer_active` set: the timer is never armed again until close (`bx_mac_net.c:1440`, `bx_mac_hw.c:768`) |
| `MCMacRx.cfg`, `FailUpTo = 3` | `DataAvailable` | with the whole ring dirty `mac_dev_read` takes descriptors it has read before for new data (`bx_mac_hw.c:2784`) |
| `MCMacRx.cfg`, `OtherCpu = TRUE` | `Notified` | `mac_isr` acknowledges last (`bx_mac_net.c:543`): with the poll ending on another CPU a frame is left without an interrupt |
| `MCMacRx.cfg`, `StartFails = TRUE` | `OwnMapped` | `mac_rx_desc_init` (`bx_mac_desc.c:488`) stops at the first refused buffer, and every descriptor is handed to the engine |
| `MCRoceSq.cfg`, `Depth = 8` | `InOrder`, `BuildsFree` | a full queue is taken for an empty one and overwritten: `qp_foe` is derived from a head that has moved (`bxroce_verbs.c:676`) |
| `MCRoceSq.cfg`, `Reinit = TRUE` | `InOrder`, `IsFifo` | a QP taken back to INIT starts at entry 0 while wp and rp stay (`bxroce_hw.c:2514`) |
| `MCRoceSq.cfg`, `RefuseImm = TRUE` | `IsFifo`, `InOrder` | the head moves on for a refused request without entries, so the next doorbell tells the device of an entry that nobody built (`bxroce_verbs.c:391`) |
| `MCRoceSq.cfg`, add `AcceptedIsBuilt` | `AcceptedIsBuilt` | `post_send` returns 0 for requests it builds nothing for (`bxroce_verbs.c:419`, `480`) |
| `MCRoceQp.cfg`, add `QpFound` | `QpFound` | with two QPs on a CQ, `poll_cq` meets the `BUG_ON` after the newer one is gone (`bxroce_verbs.c:1306`) |
| `MCRoceQp.cfg`, add `NoCycle` | `NoCycle` | `poll_cq` and `destroy_qp` take `cq->lock` and `dev_lock` in opposite orders and wait for each other (`bxroce_verbs.c:1305`) |
| `MCRoceQp.cfg`, add `TableExact` | `TableExact` | destroying a QP clears a bit of the pointer `allocated_qps` or `qp_table`: numbers are given out again and entries are looked for elsewhere (`bxroce_verbs.c:2756`) |
| `MCRoceQp.cfg`, add `IdsReclaimed` | `IdsReclaimed` | the number of a destroyed QP is never free again (`bxroce_verbs.c:2756`) |
| `MCRoceQp.cfg`, 3 QPs, `MaxQp = 3`, `Ones = {}`, `Exhaust = TRUE` | `TableTrue` | with no number left a QP gets number 0, and the failure of the next one clears its entry (`bxroce_verbs.c:2536`) |
| `MCMacDev.cfg`, add `Survives`, `Allow = {"irq_restart"}` | `Survives` | after a failed `mac_start` in `mac_restart_dev` the next stop waits for NAPI instances that are gone (`bx_mac_net.c:1955`) |
| the same, `{"late_work"}` | `Survives` | `restart_work` runs after a close (`bx_mac_net.c:2010`) |
| the same, `{"early_ethtool"}` | `Survives` | coalescing set before the first open walks channels that are not there (`bx_mac_ethtool.c:167`) |
| `MCMacDev.cfg`, add `PromiscuousSeesAll` | `PromiscuousSeesAll` | the VLAN filter feature set in promiscuous mode turns the filter on (`bx_mac_hw.c:272`) |
| `MCLibQueue.cfg`, add `CqeNumberRight` or `EmptyHasRoom` | the same | a post resets `sq.head` and not `sq.tail`, so the comparison in the polling is off and an empty queue can refuse a post (`libbxroce/bxroce_verbs.c:2364`) |
| `MCLibQueue.cfg`, `Apart = {p2}` | `PointersAgree` | kernel and library use the register window under different locks (`bxroce_mpb_reg.c:4`) |
| `MCLibQueue.cfg`, `Allow = {"map_fail"}` | `TableLive` | a failed `mmap` leaves a freed queue pair in the table and in the kernel (`libbxroce/bxroce_verbs.c:617`) |
| `MCLibQueue.cfg`, add `WcHasRoom` | `WcHasRoom` | the room in the caller's array is looked at between rounds only: a completion of several receives, or a send and a receive in one round, are written behind it (`libbxroce/bxroce_verbs.c:2257`) |
| `MCLibQueue.cfg`, add `OnlyRegistered` | `OnlyRegistered` | a remembered address is used after the peer has taken the registration back (`libbxroce/bxroce_verbs.c:1483`) |
| `MCLibQueue.cfg`, `Allow = {"near"}` | `RemoteRight` | an address registered again, after the first registration has gone or beside it, is resolved to the memory it had before (`libbxroce/bxroce_verbs.c:1483`) |
| the same, and `Vas = {1, 3}` | `RemoteRight` | an address in the neighbouring registration is taken for the end of the remembered range |
| the same, `{"dirty_heap"}` | `RemoteRight` | `addrtbl` is compared before it has been filled (`libbxroce/bxroce_verbs.c:592`) |
| the same, `{"numbered"}` | `RecvIntact` | completions that count on without starting again after 0 are taken for one receive more than they stand for, or for fewer (`libbxroce/bxroce_verbs.c:2251`) |
| the same, `{"refused"}` | `PointersAgree`, `InOrder` | the head moves on for a refused request without elements (`libbxroce/bxroce_verbs.c:1287`) |
| the same, `{"read_fail"}` | `RemoteRight` | a read whose look-up failed goes to the address of the one before (`libbxroce/bxroce_verbs.c:1514`) |
| the same, `{"remove_any"}` | `RemoteRight` | the server moves bytes where it means entries (`exchange.c:66`) |
| the same, `{"recycle"}` | `PointersAgree` | a queue pair taken through RESET to INIT starts at 0, the device does not (`libbxroce/bxroce_verbs.c:674`) |
| `MCRoceDev.cfg`, `Allow = {"late_probe"}` | `Survives` | unloading the RoCE module removes the device of a NIC that never had one (`bx_roce.c:55`) |
| the same, `{"unbind"}` | `PoolsReleased` | a NIC that goes is taken off the list and its RoCE device stays (`bx_roce.c:75`) |
| the same, `{"add_fails"}` | `Survives` | a NIC whose `bx_add` failed has no device to remove |
| the same, `{"ifdown"}` | `RdmaReady` | open and close of the interface overwrite `MAC_RQEC` (`bx_mac_hw.c:656`, `699`) |
| the same, `{"new_addr"}` | `RdmaReady` | the address handler drops the new address (`bxroce_main.c:970`) |
| the same, `{"copy_fault"}` | `PoolsReleased` | failure paths keep the PD of the context (`bxroce_verbs.c:1876`) or the element of the region (`2957`) |
| the same, `{"map_fails"}` | `Survives` | the memory is released in `bxroce_mem_init_user` (`bxroce_pool.c:548`) and again with the element (`bxroce_verbs.c:3036`) |
| the same, `{"no_memory"}` | `Survives` | a failed CQ keeps its number and what it has allocated is used (`bxroce_verbs.c:2185`) |
| the same, `{"fast_mr"}` | `RefsExact` | `bxroce_alloc_mr` passes the device as the PD (`bxroce_verbs.c:2999`) |
| the same, `{"user_ah"}` | `Survives` | a byte of the address is used as a pointer (`bxroce_ah.c:190`) |
| `MCRoceDev.cfg`, `MaxPd = 2` | `Survives` | an exhausted pool returns NULL, which is tested with `IS_ERR` (`bxroce_verbs.c:1799`, `2032`) |
| `MCRoceDev.cfg`, `MaxSg = 1` | `SegmentsWhole` | a region of too many segments is cut short and reported as registered (`bxroce_pool.c:594`) |
| `MCRoceDev.cfg`, `Starts = {0, 2}` | `SegmentsWhole` | huge pages are counted from the start of the buffer instead of from their own (`bxroce_pool.c:573`) |
| `MCRoceDev.cfg`, `Page = 3`, `Huge = 6`, `Starts = {2}`, `Lens = {2}` | `SegmentsWhole` | the unsigned rest runs below zero (`bxroce_pool.c:603`) |

Seen while reading and not modelled: `mac_xmit` returns 1 on link down without freeing the skb
(`bx_mac_net.c:2069`); a doorbell put off by `xmit_more` is lost when the last packet of the burst is
dropped (the model's `promised` says when the property applies); after a failed `mac_hw_init` BQL may
count below zero (`bql` is an `Int` in `MacTx` for that reason); the key race of `bxroce_get_key` may issue
an old lkey again; `set_av_attr` refuses a handle without a VLAN (`bxroce_ah.c:81`); `bx_remove` frees the
list of address vectors and not the table (`bxroce_main.c:952`); one trained lane counts as a trained
link (`bx_pcs.c:1727`); a write of several elements sends each to the same remote address
(`libbxroce/bxroce_verbs.c:1180`); the difference of two completion numbers is not reduced to 16 bits, so
that a wrap would hand out billions of receives (`libbxroce/bxroce_verbs.c:2251`).

## 8. Not modelled

* Register programming that nothing depends on later: the constants of `bx_mac_cfg.c`, of the MPB, PBU,
  PHD, CM and PCIe blocks and of the PGU; the IEU; the MMC counters; register dumps.
* ethtool's reading operations; the MSI handlers (not built); descriptor and element formats; offload
  fields of a descriptor; sockets and output of `rdma_exchange`.
* Port 1, which runs the code of port 0 on flags of its own.
* The kernel's receive queue and the reading of completion entries by kernel consumers, of which the
  repository has none.
* The connection manager ioctls, a test that sends patterns of random length and prints what arrives.
* Locking rules of the kernel (a mutex inside a spin lock, `bxroce_verbs.c:722`), which are not states of the
  program.
* The precompiled headers under `.vs/`, which are generated files.
