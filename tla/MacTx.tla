------------------------------- MODULE MacTx -------------------------------
(***************************************************************************)
(* The transmit path of the MAC driver (bx_mac_net.c, bx_mac_hw.c,         *)
(* bx_mac_desc.c) for the one channel the build configures                 *)
(* (CUST_CHANNEL_NUM 1, RNIC_LEGACY_INT_EN).  Five activities share the    *)
(* descriptor ring:                                                        *)
(*                                                                         *)
(*   xmit    mac_xmit, called by the stack under the queue lock, one       *)
(*           packet at a time; it fills descriptors at cur;                *)
(*   device  the Tx DMA engine; it consumes descriptors whose OWN bit is   *)
(*           set and writes them back;                                     *)
(*   poll    mac_tx_poll inside the NAPI poll; it reclaims descriptors at  *)
(*           dirty and wakes the queue;                                    *)
(*   timers  mac_tx_timer and the interrupt handler mac_isr, which         *)
(*           schedule the poll;                                            *)
(*   restart restart_work (scheduled by mac_tx_timeout and by a fatal bus  *)
(*           error), which stops the device, frees the ring's buffers and  *)
(*           starts it again.                                              *)
(*                                                                         *)
(* The module covers an interface between mac_open and mac_close.          *)
(***************************************************************************)
EXTENDS Ring, FiniteSets

CONSTANTS
  MaxDesc,      \* MAC_TX_MAX_DESC_NR
  MinFree,      \* MAC_TX_DESC_MIN_FREE
  MaxProc,      \* MAC_TX_DESC_MAX_PROC
  StackQuiet,   \* TRUE: the stack calls no mac_xmit while a restart is under way
  FlushStuck    \* TRUE: mac_flush_tx_queues may return -EBUSY

\* A woken queue has room for one packet of any size (of 4096 descriptors, more
\* than 512 are free and a packet takes at most 24).
ASSUME TxConstants ==
  /\ MaxDesc \in 1..N
  /\ MinFree \in MaxDesc..(N - 1)
  /\ MaxProc \in Nat \ {0}
  /\ StackQuiet \in BOOLEAN
  /\ FlushStuck \in BOOLEAN

VARIABLES
  cur, dirty,       \* ring->cur, ring->dirty
  own, last,        \* the descriptors whose desc3 has the OWN bit, the LD bit
  mapped,           \* those whose data describes a mapped buffer or a context
  skb,              \* those whose desc_data->skb is set
  hw, running, te,  \* next descriptor of the engine; it is not suspended; it is enabled
  ti,               \* DMA_CH_SR.TI
  stopped,          \* the queue is stopped (__QUEUE_STATE_DRV_XOFF)
  queue_stopped,    \* ring->tx.queue_stopped
  xmit_more,        \* ring->tx.xmit_more: descriptors written, device not told
  bql,              \* packets reported sent and not yet reported completed
  tx_timer,         \* channel->tx_timer is pending
  tx_timer_active,  \* channel->tx_timer_active
  tpc,              \* mac_tx_timer: "idle" or "run"
  isr,              \* mac_isr: "idle" or "ack"
  irqs, napi,       \* the interrupt is requested; NAPI is enabled
  sched, missed,    \* NAPI_STATE_SCHED, NAPI_STATE_MISSED
  ppc, pcur, processed, pkts,   \* mac_tx_poll: step, its copy of cur, its counts
  xpc, xstart, xn, more,        \* mac_xmit: step, start_index, desc_count, skb->xmit_more
  promised,         \* the stack announced another packet with the last one queued
  rpc, work         \* mac_restart: step; restart_work is pending

ring   == <<cur, dirty, own, last, mapped, skb>>
dev    == <<hw, running, te>>
txq    == <<stopped, queue_stopped, bql>>
timer  == <<tx_timer, tx_timer_active, tpc>>
irq    == <<ti, isr, irqs>>
napis  == <<napi, sched, missed>>
polls  == <<ppc, pcur, processed, pkts>>
xmits  == <<xpc, xstart, xn, more, promised>>
restart == <<rpc, work>>

vars == <<ring, dev, txq, xmit_more, timer, irq, napis, polls, xmits, restart>>

XSteps == {"idle", "own", "cur", "kick", "check", "stop", "flag"}
PSteps == {"off", "reap", "wake", "done"}
RSteps == {"run", "timers", "tx", "irqs", "napi", "free", "start"}

\* (mutant) one descriptor too many counted as free
mac_tx_avail_desc_OneMore == N + 1 - Dist(dirty, cur)

\* mac_tx_avail_desc
mac_tx_avail_desc == LET used == Dist(dirty, cur)
                     IN  IF used <= N THEN N - used ELSE N - used + W

Init ==
  /\ cur = 0 /\ dirty = 0
  /\ own = {} /\ last = {} /\ mapped = {} /\ skb = {}
  /\ hw = 0 /\ running = FALSE /\ te = TRUE
  /\ ti = FALSE /\ isr = "idle" /\ irqs = TRUE
  /\ stopped = FALSE /\ queue_stopped = FALSE /\ bql = 0 /\ xmit_more = FALSE
  /\ tx_timer = FALSE /\ tx_timer_active = FALSE /\ tpc = "idle"
  /\ napi = TRUE /\ sched = FALSE /\ missed = FALSE
  /\ ppc = "off" /\ pcur = 0 /\ processed = 0 /\ pkts = 0
  /\ xpc = "idle" /\ xstart = 0 /\ xn = 0 /\ more = FALSE /\ promised = FALSE
  /\ rpc = "run" /\ work = FALSE
-----------------------------------------------------------------------------
(* mac_xmit.                                                               *)

\* The stack calls ndo_start_xmit only on a queue that is not stopped; with
\* StackQuiet it makes no call while the device is being restarted.
MayXmit ==
  /\ xpc = "idle"
  /\ ~stopped
  /\ StackQuiet => rpc = "run"

\* The packet is given up: the link is down, the packet is empty, skb_cow_head
\* fails (j = 0), or mac_map_tx_skb fails to map an entry after j of them.  Its
\* unwinding loop compares indices, start_index < cur_index, so a packet that
\* straddles the wrap of the counter is not unmapped at all.
XmitGiveUp(j) ==
  /\ MayXmit
  /\ j < mac_tx_avail_desc
  /\ mapped' = IF cur + j >= W THEN mapped \cup Region(cur, j) ELSE mapped \ Region(cur, j)
  /\ UNCHANGED <<cur, dirty, own, last, skb, dev, txq, xmit_more, timer, irq, napis, polls,
                 xmits, restart>>

\* (mutant) the skb is saved in the entry past the last one, cur_index
XmitFill_SkbPastEnd(n, m) ==
  /\ MayXmit
  /\ n <= mac_tx_avail_desc
  /\ LET new == Region(cur, n)
     IN  /\ own'  = (own \ new) \cup (new \ {Slot(cur)})
         /\ last' = (last \ new) \cup {Slot(Inc(cur, n - 1))}
         /\ mapped' = mapped \cup new
         /\ skb'  = skb \cup {Slot(Inc(cur, n))}
  /\ bql' = bql + 1
  /\ xpc' = "own" /\ xstart' = cur /\ xn' = n /\ more' = m
  /\ UNCHANGED <<cur, dirty, dev, stopped, queue_stopped, xmit_more, timer, irq, napis, polls,
                 promised, restart>>

\* mac_xmit up to the barrier in mac_dev_xmit: the packet needs need descriptors
\* by mac_prep_tx_pkt and fits; mac_map_tx_skb maps n of them (one less when a
\* TSO packet's linear part is its header); every descriptor but the first gets
\* its OWN bit, the last one LD and the skb.
XmitFill(n, m) ==
  /\ MayXmit
  /\ \E need \in {n, n + 1} : need <= MaxDesc /\ need <= mac_tx_avail_desc
  /\ LET new == Region(cur, n)
         fin == Slot(Inc(cur, n - 1))
     IN  /\ own'  = (own \ new) \cup (new \ {Slot(cur)})
         /\ last' = (last \ new) \cup {fin}
         /\ mapped' = mapped \cup new
         /\ skb'  = skb \cup {fin}
  /\ bql' = bql + 1
  /\ xpc' = "own" /\ xstart' = cur /\ xn' = n /\ more' = m
  /\ UNCHANGED <<cur, dirty, dev, stopped, queue_stopped, xmit_more, timer, irq, napis, polls,
                 promised, restart>>

\* mac_maybe_stop_tx_queue finds too few descriptors for the packet.
XmitBusy ==
  /\ MayXmit
  /\ \E need \in 1..MaxDesc : need > mac_tx_avail_desc
  /\ xpc' = "stop" /\ more' = FALSE
  /\ UNCHANGED <<ring, dev, txq, xmit_more, timer, irq, napis, polls, xstart, xn, promised, restart>>

\* The first descriptor is handed over, after everything else was written.
XmitOwn ==
  /\ xpc = "own"
  /\ own' = own \cup {Slot(xstart)}
  /\ xpc' = "cur"
  /\ UNCHANGED <<cur, dirty, last, mapped, skb, dev, txq, xmit_more, timer, irq, napis, polls,
                 xstart, xn, more, promised, restart>>

\* ring->cur is published; the doorbell is put off when the stack announced
\* another packet and the queue is not stopped.
XmitCur ==
  /\ xpc = "cur"
  /\ cur' = Inc(xstart, xn)
  /\ IF ~more \/ stopped
     THEN xpc' = "kick" /\ UNCHANGED xmit_more
     ELSE xpc' = "check" /\ xmit_more' = TRUE
  /\ xstart' = 0 /\ xn' = 0
  /\ UNCHANGED <<dirty, own, last, mapped, skb, dev, txq, timer, irq, napis, polls,
                 more, promised, restart>>

\* mac_tx_start_xmit: tail pointer write, timer, xmit_more.
mac_tx_start_xmit ==
  /\ running' = te
  /\ tx_timer' = (tx_timer \/ ~tx_timer_active)
  /\ tx_timer_active' = TRUE
  /\ xmit_more' = FALSE

XmitKick ==
  /\ xpc = "kick"
  /\ mac_tx_start_xmit
  /\ xpc' = "check"
  /\ UNCHANGED <<ring, hw, te, txq, tpc, irq, napis, polls, xstart, xn, more, promised, restart>>

\* (mutant) the second check asks for one descriptor only
XmitCheck_OneDesc ==
  /\ xpc = "check"
  /\ xpc' = IF 1 > mac_tx_avail_desc THEN "stop" ELSE "idle"
  /\ promised' = more
  /\ more' = FALSE
  /\ UNCHANGED <<ring, dev, txq, xmit_more, timer, irq, napis, polls, xstart, xn, restart>>

\* The second mac_maybe_stop_tx_queue, for a packet of the largest size.
XmitCheck ==
  /\ xpc = "check"
  /\ xpc' = IF MaxDesc > mac_tx_avail_desc THEN "stop" ELSE "idle"
  /\ promised' = more
  /\ more' = FALSE
  /\ UNCHANGED <<ring, dev, txq, xmit_more, timer, irq, napis, polls, xstart, xn, restart>>

\* netif_stop_subqueue
XmitStop ==
  /\ xpc = "stop"
  /\ stopped' = TRUE
  /\ xpc' = "flag"
  /\ UNCHANGED <<ring, dev, queue_stopped, bql, xmit_more, timer, irq, napis, polls,
                 xstart, xn, more, promised, restart>>

\* (mutant) the put-off doorbell is not rung when the queue stops
XmitFlag_NoKick ==
  /\ xpc = "flag"
  /\ queue_stopped' = TRUE
  /\ xpc' = "idle"
  /\ promised' = FALSE
  /\ UNCHANGED <<ring, dev, stopped, bql, xmit_more, timer, irq, napis, polls, xstart, xn, more, restart>>

\* ring->tx.queue_stopped, and the doorbell that xmit_more put off
XmitFlag ==
  /\ xpc = "flag"
  /\ queue_stopped' = TRUE
  /\ IF xmit_more THEN mac_tx_start_xmit
                  ELSE UNCHANGED <<running, tx_timer, tx_timer_active, xmit_more>>
  /\ xpc' = "idle"
  /\ promised' = FALSE
  /\ UNCHANGED <<ring, hw, te, stopped, bql, tpc, irq, napis, polls, xstart, xn, more, restart>>
-----------------------------------------------------------------------------
(* The Tx DMA engine (hardware).                                           *)

\* A descriptor the device owns is transmitted and written back.  Whether the
\* write-back raises TI depends on its IC bit, which mac_dev_xmit sets on one
\* packet in tx_frames: either may happen at the end of a packet.
HwComplete ==
  /\ te /\ running
  /\ Slot(hw) \in own
  /\ own' = own \ {Slot(hw)}
  /\ hw' = Inc(hw, 1)
  /\ ti' \in IF Slot(hw) \in last THEN {ti, TRUE} ELSE {ti}
  /\ UNCHANGED <<cur, dirty, last, mapped, skb, running, te, txq, xmit_more, timer, isr, irqs,
                 napis, polls, xmits, restart>>

\* It meets a descriptor it does not own and suspends until the next tail write.
HwSuspend ==
  /\ te /\ running
  /\ Slot(hw) \notin own
  /\ running' = FALSE
  /\ UNCHANGED <<ring, hw, te, txq, xmit_more, timer, irq, napis, polls, xmits, restart>>
-----------------------------------------------------------------------------
(* Scheduling the poll: napi_schedule_prep and __napi_schedule.            *)

\* (mutant) the poll does not see that NAPI is being disabled
Disabling_Unseen == FALSE

Disabling == rpc = "napi"     \* napi_disable has set NAPI_STATE_DISABLE

NapiSchedule ==
  IF napi /\ ~Disabling
  THEN sched' = TRUE /\ missed' = (missed \/ sched)
  ELSE UNCHANGED <<sched, missed>>

\* mac_isr reads DMA_CH_SR and schedules the poll ...
IsrRead ==
  /\ isr = "idle" /\ irqs /\ ti
  /\ NapiSchedule
  /\ isr' = "ack"
  /\ UNCHANGED <<ring, dev, txq, xmit_more, timer, ti, irqs, napi, polls, xmits, restart>>

\* ... then writes back what it read, which clears a TI raised in between too.
IsrAck ==
  /\ isr = "ack"
  /\ ti' = FALSE
  /\ isr' = "idle"
  /\ UNCHANGED <<ring, dev, txq, xmit_more, timer, irqs, napis, polls, xmits, restart>>

\* mac_isr sees a fatal bus error and schedules the restart.
FatalBusError ==
  /\ isr = "idle" /\ irqs /\ te
  /\ work' = TRUE
  /\ UNCHANGED <<ring, dev, txq, xmit_more, timer, irq, napis, polls, xmits, rpc>>

\* mac_tx_timer expires ...
TimerFire ==
  /\ tpc = "idle" /\ tx_timer
  /\ tx_timer' = FALSE
  /\ NapiSchedule
  /\ tpc' = "run"
  /\ UNCHANGED <<ring, dev, txq, xmit_more, tx_timer_active, irq, napi, polls, xmits, restart>>

\* ... and, last, allows the timer to be armed again.
TimerEnd ==
  /\ tpc = "run"
  /\ tx_timer_active' = FALSE
  /\ tpc' = "idle"
  /\ UNCHANGED <<ring, dev, txq, xmit_more, tx_timer, irq, napis, polls, xmits, restart>>
-----------------------------------------------------------------------------
(* mac_all_poll: mac_tx_poll, then the receive ring (module MacRx).        *)

PollBegin ==
  /\ ppc = "off" /\ napi /\ sched
  /\ ppc' = "reap" /\ pcur' = cur /\ processed' = 0 /\ pkts' = 0
  /\ UNCHANGED <<ring, dev, txq, xmit_more, timer, irq, napis, xmits, restart>>

\* (mutant) mac_tx_complete is not asked
MayReap_NotComplete ==
  /\ processed < MaxProc
  /\ dirty # pcur

\* the condition of mac_tx_poll's loop, mac_tx_complete included
MayReap ==
  /\ processed < MaxProc
  /\ dirty # pcur
  /\ Slot(dirty) \notin own

\* One turn of the loop: count the packet, unmap and free, reset, advance.
PollReap ==
  /\ ppc = "reap"
  /\ MayReap
  /\ LET s == Slot(dirty) IN
       /\ pkts' = IF s \in last THEN pkts + 1 ELSE pkts
       /\ mapped' = mapped \ {s} /\ skb' = skb \ {s}
       /\ last' = last \ {s} /\ own' = own \ {s}
  /\ dirty' = Inc(dirty, 1)
  /\ processed' = processed + 1
  /\ UNCHANGED <<cur, dev, txq, xmit_more, timer, irq, napis, ppc, pcur, xmits, restart>>

\* (mutant) queue_stopped stays set when the queue is woken
PollEnd_FlagKept ==
  /\ ppc = "reap"
  /\ ~MayReap
  /\ LET wake == processed > 0 /\ queue_stopped /\ mac_tx_avail_desc > MinFree IN
       ppc' = IF wake THEN "wake" ELSE "done"
  /\ bql' = bql - pkts
  /\ pcur' = 0 /\ processed' = 0 /\ pkts' = 0
  /\ UNCHANGED <<ring, dev, stopped, queue_stopped, xmit_more, timer, irq, napis, xmits, restart>>

\* After the loop: nothing done returns at once; otherwise report to BQL and
\* decide whether to wake the queue.
PollEnd ==
  /\ ppc = "reap"
  /\ ~MayReap
  /\ LET wake == processed > 0 /\ queue_stopped /\ mac_tx_avail_desc > MinFree IN
       /\ ppc' = IF wake THEN "wake" ELSE "done"
       /\ queue_stopped' = (queue_stopped /\ ~wake)
  /\ bql' = bql - pkts
  /\ pcur' = 0 /\ processed' = 0 /\ pkts' = 0
  /\ UNCHANGED <<ring, dev, stopped, xmit_more, timer, irq, napis, xmits, restart>>

\* netif_tx_wake_queue
PollWake ==
  /\ ppc = "wake"
  /\ stopped' = FALSE
  /\ ppc' = "done"
  /\ UNCHANGED <<ring, dev, queue_stopped, bql, xmit_more, timer, irq, napis,
                 pcur, processed, pkts, xmits, restart>>

\* The receive side used its budget, or processed something: poll again.
PollAgain ==
  /\ ppc = "done"
  /\ ~Disabling
  /\ ppc' = "off"
  /\ UNCHANGED <<ring, dev, txq, xmit_more, timer, irq, napis, pcur, processed, pkts, xmits, restart>>

\* napi_complete_done: a schedule attempt during the poll reschedules it.
PollComplete ==
  /\ ppc = "done"
  /\ ppc' = "off"
  /\ sched' = missed
  /\ missed' = FALSE
  /\ UNCHANGED <<ring, dev, txq, xmit_more, timer, irq, napi, pcur, processed, pkts, xmits, restart>>
-----------------------------------------------------------------------------
(* mac_restart: mac_stop, mac_free_tx_data, mac_start.                     *)

\* (mutant) the watchdog's call schedules nothing
TxTimeout_NoWork ==
  /\ stopped /\ rpc = "run"
  /\ UNCHANGED vars

\* mac_tx_timeout: the stack's watchdog finds the queue stopped too long.
TxTimeout ==
  /\ stopped /\ rpc = "run"
  /\ work' = TRUE
  /\ UNCHANGED <<ring, dev, txq, xmit_more, timer, irq, napis, polls, xmits, rpc>>

\* netif_tx_stop_all_queues; it does not wait for a mac_xmit under way
StopQueues ==
  /\ rpc = "run" /\ work
  /\ StackQuiet => xpc = "idle"
  /\ work' = FALSE
  /\ stopped' = TRUE
  /\ rpc' = "timers"
  /\ UNCHANGED <<ring, dev, queue_stopped, bql, xmit_more, timer, irq, napis, polls, xmits>>

\* mac_stop_timers: del_timer_sync waits for a running handler and leaves
\* tx_timer_active alone
StopTimers ==
  /\ rpc = "timers" /\ tpc = "idle"
  /\ tx_timer' = FALSE
  /\ rpc' = "tx"
  /\ UNCHANGED <<ring, dev, txq, xmit_more, tx_timer_active, tpc, irq, napis, polls, xmits, work>>

\* (mutant) the engine is left running while the ring is emptied
DisableTx_LeftOn ==
  /\ rpc = "tx"
  /\ rpc' = "irqs"
  /\ UNCHANGED <<ring, dev, txq, xmit_more, timer, irq, napis, polls, xmits, work>>

\* mac_disable_tx
DisableTx ==
  /\ rpc = "tx"
  /\ te' = FALSE /\ running' = FALSE
  /\ rpc' = "irqs"
  /\ UNCHANGED <<ring, hw, txq, xmit_more, timer, irq, napis, polls, xmits, work>>

\* mac_free_irqs waits for a running handler
FreeIrqs ==
  /\ rpc = "irqs" /\ isr = "idle"
  /\ irqs' = FALSE
  /\ rpc' = "napi"
  /\ UNCHANGED <<ring, dev, txq, xmit_more, timer, ti, isr, napis, polls, xmits, work>>

\* (mutant) the queue's byte limits are not reset
DisableNapi_KeepBql ==
  /\ rpc = "napi" /\ ~sched
  /\ napi' = FALSE
  /\ ti' = FALSE
  /\ rpc' = "free"
  /\ UNCHANGED <<ring, dev, txq, xmit_more, timer, isr, irqs, sched, missed, polls, xmits, work>>

\* mac_napi_disable waits until the poll is not scheduled; then the chip is
\* reset (mac_hw_exit) and the queue's byte limits too
DisableNapi ==
  /\ rpc = "napi" /\ ~sched
  /\ napi' = FALSE
  /\ ti' = FALSE /\ bql' = 0
  /\ rpc' = "free"
  /\ UNCHANGED <<ring, dev, stopped, queue_stopped, xmit_more, timer, isr, irqs, sched, missed,
                 polls, xmits, work>>

\* (mutant) the buffers are unmapped and the skbs left in their entries
FreeTxData_KeepSkb ==
  /\ rpc = "free"
  /\ mapped' = {}
  /\ rpc' = "start"
  /\ UNCHANGED <<cur, dirty, own, last, skb, dev, txq, xmit_more, timer, irq, napis, polls, xmits, work>>

\* mac_free_tx_data: mac_unmap_desc_data on every entry
FreeTxData ==
  /\ rpc = "free"
  /\ mapped' = {}
  /\ skb' = {}
  /\ rpc' = "start"
  /\ UNCHANGED <<cur, dirty, own, last, dev, txq, xmit_more, timer, irq, napis, polls, xmits, work>>

\* mac_start.  A failed mac_hw_init (its result is not looked at) leaves the
\* descriptors and the indices as they were.
StartDev(initOk) ==
  /\ rpc = "start"
  /\ IF initOk
     THEN /\ cur' = 0 /\ dirty' = 0
          /\ own' = {} /\ last' = {}
          /\ queue_stopped' = FALSE /\ xmit_more' = FALSE
     ELSE /\ FlushStuck
          /\ UNCHANGED <<cur, dirty, own, last, queue_stopped, xmit_more>>
  /\ hw' = 0 /\ te' = TRUE
  /\ napi' = TRUE /\ irqs' = TRUE
  /\ stopped' = FALSE
  /\ rpc' = "run"
  /\ UNCHANGED <<mapped, skb, running, bql, timer, ti, isr, sched, missed, polls, xmits, work>>
-----------------------------------------------------------------------------
Xmit == \/ \E j \in 0..(MaxDesc - 1) : XmitGiveUp(j)
        \/ XmitBusy
        \/ \E n \in 1..MaxDesc, m \in BOOLEAN : XmitFill(n, m)
        \/ XmitOwn \/ XmitCur \/ XmitKick \/ XmitCheck \/ XmitStop \/ XmitFlag

Device == HwComplete \/ HwSuspend

Irqs == IsrRead \/ IsrAck \/ FatalBusError \/ TimerFire \/ TimerEnd

Poll == PollBegin \/ PollReap \/ PollEnd \/ PollWake \/ PollAgain \/ PollComplete

Restart == \/ TxTimeout \/ StopQueues \/ StopTimers \/ DisableTx \/ FreeIrqs
           \/ DisableNapi \/ FreeTxData \/ StartDev(TRUE) \/ StartDev(FALSE)

Next == Xmit \/ Device \/ Irqs \/ Poll \/ Restart

Spec == Init /\ [][Next]_vars

(***************************************************************************)
(* Fairness.  A mac_xmit, a timer or interrupt handler and a poll under    *)
(* way run on some CPU and take their next step; the watchdog of the stack *)
(* looks at a stopped queue again and again; a pending work item runs, and *)
(* so does each step of it.  Nothing is assumed of the stack (no packet    *)
(* need come), nor of the device or the wire (the engine may stall).       *)
(***************************************************************************)
Fairness ==
  /\ WF_vars(XmitOwn) /\ WF_vars(XmitCur) /\ WF_vars(XmitKick) /\ WF_vars(XmitCheck)
  /\ WF_vars(XmitStop) /\ WF_vars(XmitFlag)
  /\ WF_vars(IsrAck) /\ WF_vars(TimerEnd)
  /\ WF_vars(PollBegin) /\ WF_vars(PollReap) /\ WF_vars(PollEnd) /\ WF_vars(PollWake)
  /\ WF_vars(PollComplete)
  /\ WF_vars(TxTimeout) /\ WF_vars(StopQueues) /\ WF_vars(StopTimers) /\ WF_vars(DisableTx)
  /\ WF_vars(FreeIrqs) /\ WF_vars(DisableNapi) /\ WF_vars(FreeTxData)
  /\ WF_vars(StartDev(TRUE) \/ StartDev(FALSE))

FairSpec == Spec /\ Fairness
-----------------------------------------------------------------------------
(* Properties.  The safety properties are about a stack that is quiet      *)
(* during a restart and a flush that succeeds; see the README for what     *)
(* happens without the first.                                              *)

\* descriptors a mac_xmit under way has filled beyond cur
Claim == IF xpc \in {"own", "cur"} THEN xn ELSE 0

\* descriptors in use: between dirty and cur, and beyond cur
Used == Dist(dirty, cur) + Claim

\* the slots in use
Window == {Slot(Inc(dirty, k)) : k \in 0..(Used - 1)}

\* the flags of the driver, the device and NAPI are Booleans
FlagTypes ==
  /\ running \in BOOLEAN /\ te \in BOOLEAN /\ ti \in BOOLEAN /\ irqs \in BOOLEAN
  /\ stopped \in BOOLEAN /\ queue_stopped \in BOOLEAN /\ xmit_more \in BOOLEAN
  /\ tx_timer \in BOOLEAN /\ tx_timer_active \in BOOLEAN
  /\ napi \in BOOLEAN /\ sched \in BOOLEAN /\ missed \in BOOLEAN
  /\ more \in BOOLEAN /\ promised \in BOOLEAN /\ work \in BOOLEAN

\* the ring, the counters and the steps of each activity
DataTypes ==
  /\ cur \in Count /\ dirty \in Count /\ hw \in Count /\ bql \in Int
  /\ own \subseteq Slots /\ last \subseteq Slots /\ mapped \subseteq Slots /\ skb \subseteq Slots
  /\ tpc \in {"idle", "run"} /\ isr \in {"idle", "ack"}
  /\ ppc \in PSteps /\ pcur \in Count /\ processed \in Nat /\ pkts \in Nat
  /\ xpc \in XSteps /\ xstart \in Count /\ xn \in 0..MaxDesc
  /\ rpc \in RSteps

\* Every variable has its type.
TypeOK == DataTypes /\ FlagTypes

\* mac_xmit never fills more descriptors than the ring has free, whatever
\* mac_tx_poll reclaims meanwhile and however the two counters wrap; and the
\* copy of cur that mac_tx_poll works from never falls behind dirty.
NoOverrun ==
  /\ Used <= N
  /\ ppc = "reap" => Dist(dirty, pcur) <= Dist(dirty, cur)

\* The ring keeps what is in flight: every descriptor in use holds a buffer or a
\* context, LD marks exactly the entries that carry the skb, and a descriptor
\* that is not in use has no OWN bit, no LD bit and no skb (mac_free_tx_data
\* has emptied the entries when mac_start is about to reset the descriptors).
InFlightIntact ==
  rpc # "start" =>
    /\ last = skb
    /\ Window \subseteq mapped
    /\ own \subseteq Window
    /\ last \subseteq Window

\* "make sure everything is written to the descriptor(s) before setting the OWN
\* bit": an enabled engine never owns a descriptor whose entry maps no buffer.
OwnWritten ==
  te => own \subseteq mapped

\* mac_tx_poll reclaims only what the device has written back, and the device
\* works only on what mac_xmit has filled: dirty, hw and cur stay in order.
ReapBehindDevice ==
  rpc # "start" => Dist(dirty, hw) <= Used

\* A queue that is not stopped has room for a packet of any size, so mac_xmit
\* never answers NETDEV_TX_BUSY.
NoBusy ==
  xpc = "idle" /\ ~stopped /\ rpc = "run" => MaxDesc <= mac_tx_avail_desc

\* An skb is held by one entry in use, which still maps its data, and is freed
\* with that entry or by mac_free_tx_data: also when mac_start goes on after a
\* failed mac_hw_init with a ring that was emptied but not reset.
SkbInUse ==
  skb \subseteq Window \cap mapped

\* What BQL counts as in flight is what the ring carries: packets in use not yet
\* reclaimed, and packets this poll has reclaimed and not yet reported.
BqlExact ==
  rpc \notin {"free", "start"} => bql = Cardinality(last) + pkts

\* ring->tx.queue_stopped follows the queue's own stop bit: they differ only
\* between the two writes of a stop or of a wake-up, or in a restart.  Otherwise
\* no poll would ever wake the queue.
StopFlagAgrees ==
  rpc = "run" /\ xpc # "flag" /\ ppc # "wake" => (stopped <=> queue_stopped)

\* xmit_more: once every packet the stack announced has been queued, or the queue
\* is stopped, an enabled engine is not left suspended before a descriptor it
\* owns.
NothingForgotten ==
  te /\ xpc = "idle" /\ ~promised /\ Slot(hw) \in own => running

\* "Start the Tx timer": the flag that keeps mac_tx_start_xmit from arming the
\* timer means that the timer is armed, or its handler is running.
TimerArmed == rpc = "run" /\ tx_timer_active => tx_timer \/ tpc = "run"

\* A stopped queue is started again, be it by mac_tx_poll or, when the wake-up is
\* lost between the check of mac_tx_avail_desc and netif_stop_subqueue, by the
\* watchdog and mac_restart.
QueueRestarts == stopped ~> ~stopped

\* mac_restart waits for the timer, the interrupt handler and the poll, and none
\* of them waits for it: it always comes to its end.
RestartEnds == rpc # "run" ~> rpc = "run"
-----------------------------------------------------------------------------
(* The inductive invariant behind NoOverrun, NoBusy and StopFlagAgrees.    *)

\* A mac_xmit under way belongs to a running device and fills from cur on.
XmitInv ==
  /\ xpc # "idle" => rpc = "run"
  /\ xpc \in {"own", "cur"} => xstart = cur /\ xn >= 1

\* A poll runs only under NAPI, and there is none once mac_napi_disable is over.
PollInv ==
  /\ ppc # "off" => napi /\ sched
  /\ rpc \in {"free", "start"} => ~napi

\* The two stop flags and the room they stand for, between restarts.
QueueInv ==
  rpc = "run" =>
    /\ queue_stopped => stopped /\ xpc = "idle" /\ ppc # "wake"
    /\ ppc = "wake" => stopped /\ xpc = "idle" /\ Dist(dirty, cur) + MinFree < N
    /\ stopped => queue_stopped \/ ppc = "wake" \/ xpc = "flag"
    /\ xpc = "flag" => stopped
    /\ xpc = "idle" /\ ~stopped => Dist(dirty, cur) + MaxDesc <= N

RingInv == XmitInv /\ PollInv /\ NoOverrun

\* The device owns the descriptors from hw to the end of what mac_xmit filled,
\* less the first one of a packet that is not handed over yet.
OwnInv ==
  /\ Dist(dirty, hw) <= Used
  /\ xpc = "own" => Dist(dirty, hw) <= Dist(dirty, cur)
  /\ \A k \in Slots :
       Slot(Inc(dirty, k)) \in own <=> /\ Dist(dirty, hw) <= k
                                      /\ k < Used
                                      /\ ~(xpc = "own" /\ k = Dist(dirty, cur))

\* The descriptors in use map something, until mac_free_tx_data.
MapInv ==
  /\ rpc \in {"irqs", "napi", "free", "start"} => ~te
  /\ rpc # "start" => \A k \in Slots : k < Used => Slot(Inc(dirty, k)) \in mapped

\* An skb is in an entry in use that still maps its data; mac_free_tx_data has
\* freed them all before mac_start.
SkbInv ==
  /\ \A k \in Slots : Slot(Inc(dirty, k)) \in skb => k < Used
  /\ skb \subseteq mapped
  /\ rpc = "start" => skb = {}

\* LD is set where the skb is, until mac_free_tx_data empties the entries.
LastInv == rpc # "start" => last = skb

\* BQL counts the packets of the ring, and the poll's own count is its debt.
BqlInv ==
  /\ rpc \notin {"free", "start"} => bql = Cardinality(last) + pkts
  /\ rpc \in {"free", "start"} => bql = 0
  /\ pkts # 0 => ppc = "reap"

\* A suspended engine before a descriptor it owns: a mac_xmit is about to ring the
\* doorbell, or it was put off because the stack announced another packet.
ForgetInv ==
  /\ te /\ Slot(hw) \in own => running \/ xmit_more \/ xpc \in {"own", "cur", "kick"}
  /\ xmit_more /\ xpc = "check" => more
  /\ xmit_more /\ xpc = "idle" => promised
=============================================================================
