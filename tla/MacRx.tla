------------------------------- MODULE MacRx -------------------------------
(***************************************************************************)
(* The receive path of the MAC driver (bx_mac_net.c, bx_mac_hw.c,          *)
(* bx_mac_desc.c) for the one channel the build configures: the Rx DMA     *)
(* engine fills the descriptors it owns, mac_rx_poll reads them at cur     *)
(* and gives them back at dirty, mac_isr schedules the poll, restart_work  *)
(* empties the ring and starts it again.  The driver never turns           *)
(* timestamps on, so the engine writes no context descriptor.  A mac_start *)
(* whose mac_hw_init fails is in module MacTx.                             *)
(***************************************************************************)
EXTENDS Ring

CONSTANTS
  MaxDirty,     \* MAC_RX_DESC_MAX_DIRTY
  Budget,       \* the budget of a NAPI poll
  MaxFrag,      \* descriptors of the largest frame
  FailUpTo,     \* mac_map_rx_buffer may fail while at most so many descriptors are dirty
  StartFails,   \* TRUE: mac_map_rx_buffer may fail in mac_start
  OtherCpu      \* TRUE: mac_tx_timer may run on another CPU than mac_isr

\* The largest frame takes 3 of 4096 descriptors, of which 512 may be dirty.
ASSUME RxConstants ==
  /\ MaxDirty \in 0..(N - 2)
  /\ Budget \in Nat \ {0}
  /\ MaxFrag \in 1..N
  /\ FailUpTo \in 0..N
  /\ {StartFails, OtherCpu} \subseteq BOOLEAN

VARIABLES
  cur, dirty,   \* ring->cur, ring->dirty
  own,          \* the descriptors whose desc3 has the OWN bit
  full,         \* the entries that hold mapped buffers
  rxd,          \* what the engine wrote to a descriptor
  fresh,        \* descriptors it wrote that the driver has not read
  saved,        \* desc_data->state_saved and desc_data->state
  hw, frag,     \* the engine's next descriptor, and how many it used of the frame
  susp, re,     \* it is suspended; it is enabled
  ri, wd,       \* DMA_CH_SR.RI; the receive watchdog (RIWT) runs
  isr, irqs,    \* mac_isr: "idle" or "ack"; the interrupt is requested
  napi, sched, missed,  \* NAPI is enabled; NAPI_STATE_SCHED, NAPI_STATE_MISSED
  cpu,          \* where the poll is scheduled: the CPU of mac_isr, or another
  ppc, processed, packet_count,     \* mac_all_poll and mac_rx_poll: step and counts
  received, incomplete, skb, error, \* their locals
  rpc, work     \* mac_restart: step; restart_work is pending

ring  == <<cur, dirty, own, full, rxd, fresh, saved>>
dev   == <<hw, frag, susp, re>>
irq   == <<ri, wd, isr, irqs>>
napis == <<napi, sched, missed, cpu>>
pkt   == <<received, incomplete, skb, error>>
polls == <<ppc, processed, packet_count, pkt>>
restart == <<rpc, work>>
vars  == <<ring, dev, irq, napis, polls, restart>>

\* A descriptor as written back: FD, LD, whether its length is more than that of
\* the ones before it, and an error that drops the frame (in the last one only).
Written == {d \in [first : BOOLEAN, last : BOOLEAN, data : BOOLEAN, err : BOOLEAN] :
              /\ ~d.data => ~d.first /\ d.last
              /\ d.err => d.last /\ d.data}
Blank == [first |-> FALSE, last |-> FALSE, data |-> FALSE, err |-> FALSE]

\* The skb mac_rx_poll works on: one that holds a frame's fragments from its first
\* one on is whole, one with fragments of two frames or without the first is torn,
\* one restored for the second time is freed.
Skbs == {"null", "whole", "torn", "freed"}

\* the three values of a saved state: none, one to restore, one restored already
NotSaved == [st |-> "none", skb |-> "null", error |-> FALSE]
State(sk, e) == [st |-> "live", skb |-> sk, error |-> e]
States == [st : {"none", "live", "spent"}, skb : Skbs, error : BOOLEAN]

\* no entry holds a state
Unsaved == [s \in Slots |-> NotSaved]

Init ==
  /\ cur = 0 /\ dirty = 0 /\ own = Slots /\ full = Slots
  /\ rxd = [s \in Slots |-> Blank] /\ fresh = {} /\ saved = Unsaved
  /\ hw = 0 /\ frag = 0 /\ susp = FALSE /\ re = TRUE
  /\ ri = FALSE /\ wd = FALSE /\ isr = "idle" /\ irqs = TRUE
  /\ napi = TRUE /\ sched = FALSE /\ missed = FALSE /\ cpu = "isr"
  /\ ppc = "off" /\ processed = 0 /\ packet_count = 0
  /\ received = FALSE /\ incomplete = FALSE /\ skb = "null" /\ error = FALSE
  /\ rpc = "run" /\ work = FALSE
-----------------------------------------------------------------------------
(* The Rx DMA engine (hardware).                                           *)

\* A descriptor of a frame is filled and written back.  The last one of a frame
\* raises RI when its INTE bit is set (mac_rx_desc_reset sets it on one descriptor
\* in rx_frames) and starts the watchdog otherwise.
HwWrite(d) ==
  /\ re /\ ~susp
  /\ Slot(hw) \in own
  /\ d.first <=> frag = 0
  /\ frag + 1 = MaxFrag => d.last
  /\ own' = own \ {Slot(hw)}
  /\ fresh' = fresh \cup {Slot(hw)}
  /\ rxd' = [rxd EXCEPT ![Slot(hw)] = d]
  /\ hw' = Inc(hw, 1)
  /\ frag' = IF d.last THEN 0 ELSE frag + 1
  /\ IF d.last THEN \/ ri' = TRUE /\ UNCHANGED wd
                    \/ wd' = TRUE /\ UNCHANGED ri
               ELSE UNCHANGED <<ri, wd>>
  /\ UNCHANGED <<cur, dirty, full, saved, susp, re, isr, irqs, napis, polls, restart>>

\* It meets a descriptor it does not own (RBU) and waits for a tail pointer write.
HwSuspend ==
  /\ re /\ ~susp
  /\ Slot(hw) \notin own
  /\ susp' = TRUE
  /\ UNCHANGED <<ring, hw, frag, re, irq, napis, polls, restart>>

\* the receive watchdog expires
HwWatchdog ==
  /\ wd
  /\ wd' = FALSE /\ ri' = TRUE
  /\ UNCHANGED <<ring, dev, isr, irqs, napis, polls, restart>>
-----------------------------------------------------------------------------
(* Scheduling the poll.                                                    *)

Disabling == rpc = "napi"     \* napi_disable has set NAPI_STATE_DISABLE

NapiSchedule(c) ==
  IF napi /\ ~Disabling
  THEN /\ sched' = TRUE /\ missed' = (missed \/ sched)
       /\ cpu' = IF sched THEN cpu ELSE c
  ELSE UNCHANGED <<sched, missed, cpu>>

\* mac_isr reads DMA_CH_SR and schedules the poll ...
IsrRead ==
  /\ isr = "idle" /\ irqs /\ ri
  /\ NapiSchedule("isr")
  /\ isr' = "ack"
  /\ UNCHANGED <<ring, dev, ri, wd, irqs, napi, polls, restart>>

\* ... then writes back what it read, which clears an RI raised in between too.
IsrAck ==
  /\ isr = "ack"
  /\ ri' = FALSE
  /\ isr' = "idle"
  /\ UNCHANGED <<ring, dev, wd, irqs, napis, polls, restart>>

\* mac_tx_timer schedules the poll on the CPU it runs on.
OtherSchedule(c) ==
  /\ c = "other" => OtherCpu
  /\ c = "isr" => isr = "idle"
  /\ NapiSchedule(c)
  /\ UNCHANGED <<ring, dev, irq, napi, polls, restart>>

\* A fatal bus error, or mac_tx_timeout, schedules the restart.
WantRestart ==
  /\ rpc = "run" /\ ~work
  /\ work' = TRUE
  /\ UNCHANGED <<ring, dev, irq, napis, polls, rpc>>
-----------------------------------------------------------------------------
(* mac_all_poll and mac_rx_poll.                                           *)

\* On one CPU the poll, a soft interrupt, waits for the interrupt handler.
MayPoll == cpu = "isr" => isr = "idle"

At(step) == ppc = step /\ MayPoll

\* (mutant) the number of dirty descriptors is compared with the ring's size
AtRead_RingSize(c) == IF Dist(dirty, c) > N THEN "refill" ELSE "take"

\* read_again: mac_rx_refresh comes first when too many descriptors are dirty.
AtRead(c) == IF Dist(dirty, c) > MaxDirty THEN "refill" ELSE "take"

\* (mutant) a saved state is never restored
PollEnter_NoRestore ==
  /\ skb' = "null" /\ error' = FALSE
  /\ packet_count' = 0 /\ received' = FALSE /\ incomplete' = FALSE
  /\ ppc' = AtRead(cur)

\* mac_rx_poll is entered: the state saved in the entry at cur is restored.
PollEnter ==
  /\ LET s == saved[Slot(cur)] IN
       /\ skb' = IF s.st = "spent" /\ s.skb # "null" THEN "freed" ELSE s.skb
       /\ error' = s.error
  /\ packet_count' = 0 /\ received' = FALSE /\ incomplete' = FALSE
  /\ ppc' = AtRead(cur)

PollBegin ==
  /\ At("off") /\ napi /\ sched
  /\ processed' = 0
  /\ PollEnter
  /\ UNCHANGED <<ring, dev, irq, napis, restart>>

\* One turn of mac_rx_refresh: unmap the entry, map new buffers, hand the
\* descriptor back (mac_rx_desc_reset).
Refill ==
  /\ At("refill") /\ dirty # cur
  /\ LET s == Slot(dirty) IN
       /\ full' = full \cup {s} /\ own' = own \cup {s}
       /\ saved' = [saved EXCEPT ![s] = NotSaved]
       /\ rxd' = [rxd EXCEPT ![s] = Blank]
       /\ fresh' = fresh \ {s}
  /\ dirty' = Inc(dirty, 1)
  /\ UNCHANGED <<cur, dev, irq, napis, polls, restart>>

\* (mutant) the tail pointer is not written
RefillEnd_NoTail(fails) ==
  /\ At("refill")
  /\ dirty = cur
  /\ ppc' = "take"
  /\ UNCHANGED <<ring, dev, irq, napis, processed, packet_count, pkt, restart>>

\* (mutant) the descriptor is handed back before its buffers are mapped
RefillEnd_OwnFirst(fails) ==
  /\ At("refill")
  /\ IF fails
     THEN /\ dirty # cur /\ Dist(dirty, cur) <= FailUpTo
          /\ full' = full \ {Slot(dirty)} /\ own' = own \cup {Slot(dirty)}
     ELSE dirty = cur /\ UNCHANGED <<full, own>>
  /\ susp' = FALSE
  /\ ppc' = "take"
  /\ UNCHANGED <<cur, dirty, saved, rxd, fresh, hw, frag, re, irq, napis, processed, packet_count,
                 pkt, restart>>

\* The loop is over, or no buffer could be had for an entry already unmapped; the
\* tail pointer is written, which wakes a suspended engine.
RefillEnd(fails) ==
  /\ At("refill")
  /\ IF fails
     THEN /\ dirty # cur /\ Dist(dirty, cur) <= FailUpTo
          /\ full' = full \ {Slot(dirty)}
          /\ saved' = [saved EXCEPT ![Slot(dirty)] = NotSaved]
     ELSE dirty = cur /\ UNCHANGED <<full, saved>>
  /\ susp' = FALSE
  /\ ppc' = "take"
  /\ UNCHANGED <<cur, dirty, own, rxd, fresh, hw, frag, re, irq, napis, processed, packet_count,
                 pkt, restart>>

\* mac_dev_read: "Check for data availability"
Readable == Slot(cur) \notin own

\* A descriptor is read: received and ring->cur advance.  The state restored from
\* its entry stays there, until mac_rx_refresh.
Advance(d) ==
  LET s == Slot(cur) IN
  /\ At("take") /\ Readable
  /\ cur' = Inc(cur, 1)
  /\ received' = TRUE
  /\ incomplete' = ~d.last
  /\ fresh' = fresh \ {s}
  /\ saved' = [saved EXCEPT ![s].st = IF @ = "live" THEN "spent" ELSE @]

\* the skb after a fragment was added to it
WithFragment(d) ==
  IF skb = "null" THEN IF d.first THEN "whole" ELSE "torn"
                  ELSE IF d.first THEN "torn" ELSE skb

\* A descriptor that does not end the frame: its data is added to the skb, which is
\* made first (and may fail: the rest of the frame is then drained).
TakeMore(made) ==
  LET d == rxd[Slot(cur)]
      add == ~error /\ d.data
  IN
  /\ Advance(d)
  /\ ~d.last
  /\ made \/ (add /\ skb = "null")
  /\ skb' = IF add /\ made THEN WithFragment(d) ELSE skb
  /\ error' = (error \/ ~made)
  /\ full' = IF add /\ made THEN full \ {Slot(cur)} ELSE full
  /\ ppc' = AtRead(Inc(cur, 1))
  /\ UNCHANGED <<dirty, own, rxd, dev, irq, napis, processed, packet_count, restart>>

\* next_packet: the loop goes on with a new packet while the budget lasts.
NextPacket ==
  /\ packet_count' = packet_count + 1
  /\ error' = FALSE
  /\ ppc' = IF processed + packet_count + 1 < Budget THEN AtRead(Inc(cur, 1)) ELSE "leave"

\* The last descriptor of a frame with an error, now or before: the skb is freed.
TakeError ==
  LET d == rxd[Slot(cur)] IN
  /\ Advance(d)
  /\ d.last
  /\ error \/ d.err
  /\ NextPacket
  /\ skb' = "null"
  /\ UNCHANGED <<dirty, own, full, rxd, dev, irq, napis, processed, restart>>

\* The last descriptor of a frame: the skb is given to the stack (napi_gro_receive),
\* or freed when it is longer than the MTU; there is none when it was not made.
TakeLast(made) ==
  LET d == rxd[Slot(cur)] IN
  /\ Advance(d)
  /\ d.last /\ ~error /\ ~d.err
  /\ made \/ (d.data /\ skb = "null")
  /\ NextPacket
  /\ skb' = "null"
  /\ full' = IF d.data /\ made THEN full \ {Slot(cur)} ELSE full
  /\ UNCHANGED <<dirty, own, rxd, dev, irq, napis, processed, restart>>

\* No more data: the loop is left.
TakeNone ==
  /\ At("take") /\ ~Readable
  /\ ppc' = "leave"
  /\ UNCHANGED <<ring, dev, irq, napis, processed, packet_count, pkt, restart>>

\* (mutant) polling ends although the budget is used up
Leave_Done ==
  /\ At("leave")
  /\ saved' = IF received /\ incomplete
              THEN [saved EXCEPT ![Slot(cur)] = State(skb, error)] ELSE saved
  /\ skb' = "null" /\ error' = FALSE /\ received' = FALSE /\ incomplete' = FALSE
  /\ processed' = processed + packet_count
  /\ packet_count' = 0
  /\ ppc' = "done"
  /\ UNCHANGED <<cur, dirty, own, full, rxd, fresh, dev, irq, napis, restart>>

\* "Check if we need to save state before leaving"; mac_all_poll calls mac_rx_poll
\* again while packets come and the budget lasts.
Leave ==
  /\ At("leave")
  /\ saved' = IF received /\ incomplete
              THEN [saved EXCEPT ![Slot(cur)] = State(skb, error)] ELSE saved
  /\ skb' = "null" /\ error' = FALSE /\ received' = FALSE /\ incomplete' = FALSE
  /\ processed' = processed + packet_count
  /\ packet_count' = 0
  /\ ppc' = IF processed + packet_count >= Budget THEN "over"
            ELSE IF packet_count = 0 THEN "done" ELSE "again"
  /\ UNCHANGED <<cur, dirty, own, full, rxd, fresh, dev, irq, napis, restart>>

PollAgain ==
  /\ At("again")
  /\ PollEnter
  /\ UNCHANGED <<ring, dev, irq, napis, processed, restart>>

\* The budget is used up: NAPI polls again, unless it is being disabled.
PollOver ==
  /\ At("over")
  /\ ppc' = "off" /\ processed' = 0
  /\ IF Disabling THEN sched' = FALSE /\ missed' = FALSE ELSE UNCHANGED <<sched, missed>>
  /\ UNCHANGED <<ring, dev, irq, napi, cpu, packet_count, pkt, restart>>

\* (mutant) a schedule attempt during the poll is forgotten
PollComplete_NoMissed ==
  /\ At("done")
  /\ ppc' = "off" /\ processed' = 0
  /\ sched' = FALSE /\ missed' = FALSE
  /\ UNCHANGED <<ring, dev, irq, napi, cpu, packet_count, pkt, restart>>

\* napi_complete_done: a schedule attempt during the poll reschedules it.
PollComplete ==
  /\ At("done")
  /\ ppc' = "off" /\ processed' = 0
  /\ sched' = missed
  /\ missed' = FALSE
  /\ UNCHANGED <<ring, dev, irq, napi, cpu, packet_count, pkt, restart>>
-----------------------------------------------------------------------------
(* mac_restart: mac_stop, mac_free_rx_data, mac_start.                     *)

\* mac_disable_rx
DisableRx ==
  /\ rpc = "run" /\ work
  /\ work' = FALSE
  /\ re' = FALSE
  /\ rpc' = "irqs"
  /\ UNCHANGED <<ring, hw, frag, susp, irq, napis, polls>>

\* mac_free_irqs waits for a running handler
FreeIrqs ==
  /\ rpc = "irqs" /\ isr = "idle"
  /\ irqs' = FALSE
  /\ rpc' = "napi"
  /\ UNCHANGED <<ring, dev, ri, wd, isr, napis, polls, work>>

\* mac_napi_disable waits until the poll is not scheduled; mac_hw_exit resets the
\* chip
DisableNapi ==
  /\ rpc = "napi" /\ ~sched
  /\ napi' = FALSE
  /\ ri' = FALSE /\ wd' = FALSE
  /\ rpc' = "free"
  /\ UNCHANGED <<ring, dev, isr, irqs, sched, missed, cpu, polls, work>>

\* mac_free_rx_data: mac_unmap_desc_data on every entry
FreeRxData ==
  /\ rpc = "free"
  /\ full' = {}
  /\ saved' = Unsaved
  /\ rpc' = "start"
  /\ UNCHANGED <<cur, dirty, own, rxd, fresh, dev, irq, napis, polls, work>>

\* the rest of mac_start
DeviceOn ==
  /\ hw' = 0 /\ frag' = 0 /\ susp' = FALSE /\ re' = TRUE
  /\ napi' = TRUE /\ irqs' = TRUE
  /\ rpc' = "run"
  /\ UNCHANGED <<saved, ri, wd, isr, sched, missed, cpu, polls, work>>

\* mac_start: mac_rx_desc_init maps buffers for the first j entries, stops at the
\* first failure, and hands every descriptor to the engine all the same.
StartDev(j) ==
  /\ rpc = "start"
  /\ StartFails \/ j = N
  /\ cur' = 0 /\ dirty' = 0
  /\ own' = Slots /\ full' = 0..(j - 1)
  /\ rxd' = [s \in Slots |-> Blank] /\ fresh' = {}
  /\ DeviceOn
-----------------------------------------------------------------------------
Device == (\E d \in Written : HwWrite(d)) \/ HwSuspend \/ HwWatchdog

Irqs == \/ IsrRead \/ IsrAck \/ WantRestart
        \/ \E c \in {"isr", "other"} : OtherSchedule(c)

Take == TakeNone \/ TakeError \/ \E made \in BOOLEAN : TakeMore(made) \/ TakeLast(made)

Poll == \/ PollBegin \/ Refill \/ RefillEnd(TRUE) \/ RefillEnd(FALSE) \/ Take
        \/ Leave \/ PollAgain \/ PollOver \/ PollComplete

Restart == \/ DisableRx \/ FreeIrqs \/ DisableNapi \/ FreeRxData
           \/ \E j \in 0..N : StartDev(j)

Next == Device \/ Irqs \/ Poll \/ Restart

Spec == Init /\ [][Next]_vars

(***************************************************************************)
(* Fairness.  The receive watchdog of the device expires, a pending        *)
(* interrupt is taken, an interrupt handler, a poll and a restart under    *)
(* way take their next step.  Nothing is assumed of the wire.              *)
(***************************************************************************)
Fairness ==
  /\ WF_vars(HwWatchdog) /\ WF_vars(IsrRead) /\ WF_vars(IsrAck)
  /\ WF_vars(Poll)
  /\ WF_vars(Restart)

FairSpec == Spec /\ Fairness
-----------------------------------------------------------------------------
(* Properties.                                                             *)

\* the ring and the engine's place in it
RingTypes ==
  /\ cur \in Count /\ dirty \in Count /\ hw \in Count /\ frag \in 0..(MaxFrag - 1)
  /\ own \subseteq Slots /\ full \subseteq Slots /\ fresh \subseteq Slots
  /\ rxd \in [Slots -> Written \cup {Blank}] /\ saved \in [Slots -> States]

\* the steps of each activity, and what mac_rx_poll has in hand
StepTypes ==
  /\ isr \in {"idle", "ack"} /\ cpu \in {"isr", "other"} /\ skb \in Skbs
  /\ ppc \in {"off", "refill", "take", "leave", "again", "over", "done"}
  /\ processed \in 0..Budget /\ packet_count \in 0..Budget
  /\ rpc \in {"run", "irqs", "napi", "free", "start"}

\* the flags of the device, NAPI and the driver are Booleans
FlagTypes ==
  /\ susp \in BOOLEAN /\ re \in BOOLEAN /\ ri \in BOOLEAN /\ wd \in BOOLEAN /\ irqs \in BOOLEAN
  /\ napi \in BOOLEAN /\ sched \in BOOLEAN /\ missed \in BOOLEAN
  /\ received \in BOOLEAN /\ incomplete \in BOOLEAN /\ error \in BOOLEAN /\ work \in BOOLEAN

\* Every variable has its type.
TypeOK == RingTypes /\ StepTypes /\ FlagTypes

\* "Check for data availability": a descriptor that mac_dev_read takes for received
\* data is one the engine has written and mac_rx_poll has not read, however far
\* cur, dirty and the engine have run and wrapped.
DataAvailable ==
  ppc = "take" /\ Readable => Slot(cur) \in fresh

\* A descriptor the driver is about to read still has its buffers, and so has
\* every descriptor an enabled engine owns ("make sure everything is written to
\* the descriptor(s) before setting the OWN bit").
BuffersPresent ==
  rpc # "start" => own \cup fresh \subseteq full

\* the second half, for a start that fails
OwnMapped ==
  re => own \subseteq full

\* An skb never mixes two frames, misses the first part of its frame, or is used
\* again after it was given away: a frame that mac_rx_poll leaves half read for want
\* of data is taken up again where it was left, and the descriptor it is about to
\* read is the first of a frame exactly when it has no skb in hand.
WholeFrames ==
  /\ skb \in {"null", "whole"}
  /\ ppc = "take" /\ Readable /\ ~error => (rxd[Slot(cur)].first <=> skb = "null")

\* The saved state of mac_rx_poll: it has its type, and frames stay whole with it.
FrameInv == TypeOK /\ WholeFrames

\* "If we processed everything, we are done": when no poll is scheduled or running,
\* a complete frame in the ring has an interrupt, or the watchdog, on its way.
Notified ==
  irqs /\ ~sched /\ (\E s \in fresh : rxd[s].last) => ri \/ wd

\* Every frame written is read, or dropped by a restart.
FramesRead ==
  \A s \in Slots : (s \in fresh /\ rxd[s].last) ~> (s \notin fresh)

\* An engine that ran out of descriptors gets some back.
Resumes == susp ~> ~susp
-----------------------------------------------------------------------------
(* The inductive invariant behind DataAvailable and BuffersPresent.        *)

\* cur and hw stay within the ring that starts at dirty; a poll runs only under
\* NAPI, and there is none once mac_napi_disable is over.
IndexInv ==
  /\ cur \in Count /\ dirty \in Count /\ hw \in Count
  /\ Dist(dirty, cur) <= Dist(dirty, hw) /\ Dist(dirty, hw) <= N
  /\ ppc = "take" => Dist(dirty, cur) < N
  /\ ppc # "off" => napi /\ sched
  /\ rpc \in {"free", "start"} => ~napi

\* From dirty on, the descriptors are read, then fresh, then the engine's.
OrderInv ==
  \A k \in Slots :
    /\ Slot(Inc(dirty, k)) \in own <=> Dist(dirty, hw) <= k
    /\ Slot(Inc(dirty, k)) \in fresh <=> Dist(dirty, cur) <= k /\ k < Dist(dirty, hw)
-----------------------------------------------------------------------------
(* The inductive invariant behind FrameInv and Notified.                   *)

\* mac_rx_poll is in its loop, with a restored state in hand
InPoll == ppc \in {"refill", "take", "leave"}

\* the first part of a frame has been read and the rest has not
MidFrame == IF InPoll THEN skb # "null" \/ error
                      ELSE saved[Slot(cur)].skb # "null" \/ saved[Slot(cur)].error

\* The counts stay within the budget.
CountInv ==
  /\ processed + packet_count <= Budget
  /\ ppc \in {"refill", "take"} => processed + packet_count < Budget
  /\ ppc = "again" => processed < Budget
  /\ ~InPoll => packet_count = 0

\* The state of a frame is in the hands of mac_rx_poll, or saved in the entry at cur
\* and not yet restored; the entries beyond cur hold none, also once cur comes
\* round to the entry at dirty.
SavedInv ==
  LET c == saved[Slot(cur)] IN
  /\ skb \in {"null", "whole"}
  /\ c = NotSaved \/ (c.st = "live" /\ c.skb \in {"null", "whole"})
  /\ ~InPoll => skb = "null" /\ ~error /\ ~received /\ ~incomplete
  /\ InPoll /\ received => c = NotSaved /\ (incomplete <=> skb # "null" \/ error)
  /\ InPoll /\ ~received => skb = c.skb /\ error = c.error
  /\ \A k \in Slots : Dist(dirty, cur) < k => saved[Slot(Inc(dirty, k))] = NotSaved
  /\ ppc = "take" /\ Dist(dirty, cur) = N - 1 => saved[Slot(dirty)] = NotSaved
  /\ Dist(dirty, cur) = N => c = NotSaved /\ (ppc = "leave" => ~incomplete)
  /\ rpc = "start" => saved = Unsaved

\* The unread descriptors are frames in sequence: the first one goes on where the
\* driver is, and the engine goes on where the last one ends.
SeqInv ==
  rpc # "start" =>
    /\ \A k \in Slots : Dist(dirty, cur) <= k /\ k + 1 < Dist(dirty, hw) =>
         (rxd[Slot(Inc(dirty, k + 1))].first <=> rxd[Slot(Inc(dirty, k))].last)
    /\ cur = hw => (frag = 0 <=> ~MidFrame)
    /\ cur # hw => /\ rxd[Slot(cur)].first <=> ~MidFrame
                   /\ rxd[Slot(Inc(dirty, Dist(dirty, hw) - 1))].last <=> frag = 0

\* The poll under way will end without looking at the ring again.
Ends == ppc = "done" \/ (ppc = "leave" /\ packet_count = 0 /\ processed < Budget)

\* An interrupt handler under way has scheduled a poll that has not begun, or that
\* will be scheduled again; a complete frame in the ring without an interrupt or a
\* watchdog is one the scheduled poll comes to.
PendInv ==
  /\ cpu = "isr"
  /\ irqs => napi /\ rpc \in {"run", "irqs"}
  /\ isr = "ack" => irqs /\ sched /\ (missed \/ ppc = "off")
  /\ irqs /\ ~ri /\ ~wd /\ (\E s \in fresh : rxd[s].last) => sched /\ (missed \/ ~Ends)
=============================================================================
