----------------------------- MODULE MacRxProof -----------------------------
(***************************************************************************)
(* Theorems about the receive ring: mac_rx_poll reads only what the engine *)
(* has written, and buffers are in place, for rings of every size, as long *)
(* as mac_map_rx_buffer does not fail until the whole ring is dirty.       *)
(***************************************************************************)
EXTENDS MacRx, RingProof

USE DEF ring, dev, irq, napis, pkt, polls, restart

\* What the proofs use of the constants.
LEMMA RxSizes ==
  /\ N \in Nat /\ N >= 1 /\ W \in Nat /\ W >= 2 * N
  /\ MaxDirty \in Nat /\ MaxDirty < N - 1 /\ FailUpTo \in Nat
BY RingSizes, RxConstants

\* The numbers behind IndexInv.
LEMMA RxNumbers ==
  ASSUME IndexInv
  PROVE  /\ Dist(dirty, cur) \in Nat /\ Dist(dirty, hw) \in Nat
         /\ Inc(cur, 1) \in Count /\ Inc(dirty, 1) \in Count /\ Inc(hw, 1) \in Count
BY DistNat, CountArith, RxSizes, 1 \in 0..W DEF IndexInv

\* mac_rx_poll reads only where mac_rx_refresh has left room.
LEMMA AtReadRoom ==
  ASSUME NEW c \in Count, dirty \in Count, AtRead(c) = "take"
  PROVE  Dist(dirty, c) < N
BY RxSizes, DistNat DEF AtRead

-----------------------------------------------------------------------------
\* The engine writes a descriptor back.
LEMMA OrderWrite ==
  ASSUME IndexInv, OrderInv, NEW d, HwWrite(d)
  PROVE  IndexInv' /\ OrderInv'
<1> DEFINE D == Dist(dirty, cur)
           h == Dist(dirty, hw)
<1>1. cur \in Count /\ dirty \in Count /\ hw \in Count /\ D \in Nat /\ h \in Nat /\ D <= h /\ h <= N
  BY RxNumbers DEF IndexInv
<1>2. /\ Slot(hw) \in own /\ own' = own \ {Slot(hw)} /\ fresh' = fresh \cup {Slot(hw)}
      /\ hw' = Inc(hw, 1)
      /\ UNCHANGED <<cur, dirty, ppc, napi, sched, rpc>>
  BY DEF HwWrite
<1>3. h < N
  <2> SUFFICES ASSUME h = N PROVE FALSE
    BY <1>1, RxSizes
  <2>1. Inc(dirty, N) = hw /\ Inc(dirty, 0) = dirty
    BY <1>1, RxSizes DEF Inc, Dist, Count
  <2>2. Slot(Inc(dirty, 0)) \in own /\ 0 \in Slots
    BY <1>1, <1>2, <2>1, SlotWrap, RxSizes DEF Slots
  <2>3. h <= 0
    BY <2>2 DEF OrderInv
  <2> QED
    BY <2>3, RxSizes
<1>4. Dist(dirty, hw') = h + 1
  BY <1>1, <1>2, <1>3, DistFill, RxSizes
<1>5. IndexInv'
  BY <1>1, <1>2, <1>3, <1>4, RxNumbers, RxSizes DEF IndexInv
<1>6. ASSUME NEW k \in Slots
      PROVE  /\ Slot(Inc(dirty, k)) \in own' <=> h + 1 <= k
             /\ Slot(Inc(dirty, k)) \in fresh' <=> D <= k /\ k < h + 1
  <2>1. Slot(Inc(dirty, k)) = Slot(hw) <=> k = h
    BY <1>1, <1>3, SlotAt
  <2>2. /\ Slot(Inc(dirty, k)) \in own <=> h <= k
        /\ Slot(Inc(dirty, k)) \in fresh <=> D <= k /\ k < h
    BY DEF OrderInv
  <2> QED
    BY <1>1, <1>2, <2>1, <2>2 DEF Slots
<1> QED
  BY <1>2, <1>4, <1>5, <1>6 DEF OrderInv

\* mac_rx_poll reads a descriptor and goes on to step p.
LEMMA OrderTake ==
  ASSUME IndexInv, OrderInv, ppc = "take", Readable,
         cur' = Inc(cur, 1), fresh' = fresh \ {Slot(cur)},
         UNCHANGED <<dirty, own, hw, napi, sched, rpc>>,
         ppc' \in {AtRead(Inc(cur, 1)), "leave"}
  PROVE  IndexInv' /\ OrderInv'
<1> DEFINE D == Dist(dirty, cur)
           h == Dist(dirty, hw)
<1>1. /\ cur \in Count /\ dirty \in Count /\ hw \in Count /\ D \in Nat /\ h \in Nat
      /\ h <= N /\ D < N /\ D \in Slots
  BY RxNumbers, RxSizes DEF IndexInv, Slots
<1>2. Slot(Inc(dirty, D)) = Slot(cur)
  BY <1>1, SlotAt
<1>3. D < h
  BY <1>1, <1>2 DEF OrderInv, Readable
<1>4. Dist(dirty, cur') = D + 1 /\ cur' \in Count
  BY <1>1, DistFill, RxSizes, RxNumbers
<1>5. ppc' = "take" => Dist(dirty, cur') < N
  BY <1>1, <1>4, AtReadRoom
<1>6. IndexInv'
  BY <1>1, <1>3, <1>4, <1>5 DEF IndexInv
<1>7. ASSUME NEW k \in Slots
      PROVE  /\ Slot(Inc(dirty, k)) \in own <=> h <= k
             /\ Slot(Inc(dirty, k)) \in fresh' <=> D + 1 <= k /\ k < h
  <2>1. Slot(Inc(dirty, k)) = Slot(cur) <=> k = D
    BY <1>1, SlotAt
  <2> QED
    BY <1>1, <2>1 DEF OrderInv, Slots
<1> QED
  BY <1>4, <1>6, <1>7 DEF OrderInv

\* mac_rx_refresh gives a descriptor back.
LEMMA OrderRefill ==
  ASSUME IndexInv, OrderInv, Refill
  PROVE  IndexInv' /\ OrderInv'
<1> DEFINE D == Dist(dirty, cur)
           h == Dist(dirty, hw)
<1>1. /\ cur \in Count /\ dirty \in Count /\ hw \in Count /\ D \in Nat /\ h \in Nat
      /\ D <= h /\ h <= N
  BY RxNumbers DEF IndexInv
<1>2. /\ own' = own \cup {Slot(dirty)} /\ fresh' = fresh \ {Slot(dirty)}
      /\ dirty' = Inc(dirty, 1) /\ dirty # cur /\ ppc = "refill"
      /\ UNCHANGED <<cur, hw, ppc, napi, sched, rpc>>
  BY DEF Refill, At
<1>3. D >= 1 /\ dirty # hw
  <2>1. D # 0
    BY <1>1, <1>2, RxSizes DEF Dist, Count
  <2>2. h # 0
    BY <1>1, <2>1
  <2>3. Dist(dirty, dirty) = 0
    BY <1>1 DEF Dist, Count
  <2> QED
    BY <1>1, <2>1, <2>2, <2>3
<1>4. dirty' \in Count /\ Dist(dirty', cur) = D - 1 /\ Dist(dirty', hw) = h - 1
  BY <1>1, <1>2, <1>3, DistReap, RxNumbers
<1>5. IndexInv'
  BY <1>1, <1>2, <1>4, RxSizes DEF IndexInv
<1>6. ASSUME NEW k \in Slots, k + 1 < N
      PROVE  /\ Slot(Inc(dirty', k)) = Slot(Inc(dirty, k + 1))
             /\ k + 1 \in Slots
             /\ Slot(Inc(dirty', k)) # Slot(dirty)
  <2>1. Inc(dirty', k) = Inc(dirty, k + 1) /\ k + 1 \in Slots
    BY <1>1, <1>2, <1>6, RxSizes DEF Inc, Count, Slots
  <2>2. Dist(dirty, dirty) = 0
    BY <1>1 DEF Dist, Count
  <2>3. Slot(Inc(dirty, k + 1)) = Slot(dirty) <=> k + 1 = 0
    BY <1>1, <2>1, <2>2, SlotAt, RxSizes
  <2> QED
    BY <2>1, <2>3 DEF Slots
<1>7. ASSUME NEW k \in Slots, k + 1 = N
      PROVE  Slot(Inc(dirty', k)) = Slot(dirty)
  <2>1. Inc(dirty', k) = Inc(dirty, N)
    BY <1>1, <1>2, <1>7, RxSizes DEF Inc, Count, Slots
  <2> QED
    BY <1>1, <2>1, SlotWrap
<1>8. ASSUME NEW k \in Slots
      PROVE  /\ Slot(Inc(dirty', k)) \in own' <=> h - 1 <= k
             /\ Slot(Inc(dirty', k)) \in fresh' <=> D - 1 <= k /\ k < h - 1
  <2>1. CASE k + 1 < N
    <3>1. /\ Slot(Inc(dirty', k)) \in own' <=> Slot(Inc(dirty, k + 1)) \in own
          /\ Slot(Inc(dirty', k)) \in fresh' <=> Slot(Inc(dirty, k + 1)) \in fresh
      BY <1>2, <1>6, <2>1
    <3>2. /\ Slot(Inc(dirty, k + 1)) \in own <=> h <= k + 1
          /\ Slot(Inc(dirty, k + 1)) \in fresh <=> D <= k + 1 /\ k + 1 < h
      BY <1>6, <2>1 DEF OrderInv
    <3> QED
      BY <1>1, <3>1, <3>2 DEF Slots
  <2>2. CASE k + 1 = N
    BY <1>1, <1>2, <1>7, <2>2, RxSizes DEF Slots
  <2> QED
    BY <2>1, <2>2, RxSizes DEF Slots
<1> QED
  BY <1>2, <1>4, <1>5, <1>8 DEF OrderInv

\* An empty ring, all of it the engine's.
LEMMA OrderStart ==
  ASSUME cur' = 0, dirty' = 0, hw' = 0, own' = Slots, fresh' = {}, ppc' = "off",
         rpc' = "run"
  PROVE  IndexInv' /\ OrderInv'
<1>1. 0 \in Count /\ Dist(0, 0) = 0
  BY RxSizes DEF Count, Dist
<1>2. ASSUME NEW k \in Slots PROVE Slot(Inc(0, k)) \in Slots /\ k >= 0
  BY <1>1, CountArith, SlotType, RxSizes DEF Slots
<1>3. IndexInv'
  BY <1>1, RxSizes DEF IndexInv
<1>4. OrderInv'
  BY <1>1, <1>2 DEF OrderInv, Slots
<1> QED
  BY <1>3, <1>4
-----------------------------------------------------------------------------
(* The steps that leave the ring's indices alone.                          *)

\* The invariant survives a step that moves no index and hands no descriptor over.
LEMMA OrderFrame ==
  ASSUME IndexInv, OrderInv, UNCHANGED <<cur, dirty, own, fresh, hw>>,
         ppc' = "take" => Dist(dirty, cur) < N,
         ppc' # "off" => napi' /\ sched',
         rpc' \in {"free", "start"} => ~napi'
  PROVE  IndexInv' /\ OrderInv'
BY DEF IndexInv, OrderInv

\* A schedule attempt only adds one.
LEMMA ScheduleSets ==
  ASSUME NEW c, NapiSchedule(c), sched
  PROVE  sched'
BY Zenon DEF NapiSchedule

\* mac_rx_refresh leaves at least one descriptor that is not dirty.
LEMMA RefillEndRoom ==
  ASSUME FailUpTo < N, IndexInv, NEW f \in BOOLEAN, RefillEnd(f)
  PROVE  Dist(dirty, cur) < N
<1>1. cur \in Count /\ dirty \in Count /\ Dist(dirty, cur) \in Nat
  BY RxNumbers DEF IndexInv
<1>2. CASE f
  BY <1>1, <1>2, RxSizes DEF RefillEnd
<1>3. CASE ~f
  <2>1. dirty = cur
    BY <1>3 DEF RefillEnd
  <2> QED
    BY <1>1, <2>1, RxSizes DEF Dist, Count
<1> QED
  BY <1>2, <1>3

\* The engine keeps the order.
LEMMA OrderDevice ==
  ASSUME IndexInv, OrderInv, Device
  PROVE  IndexInv' /\ OrderInv'
<1>1. CASE \E d \in Written : HwWrite(d)
  BY <1>1, OrderWrite
<1>2. CASE HwSuspend \/ HwWatchdog
  <2>1. UNCHANGED <<cur, dirty, own, fresh, hw, ppc, napi, sched, rpc>>
    BY <1>2 DEF HwSuspend, HwWatchdog
  <2> QED
    BY <2>1, OrderFrame DEF IndexInv
<1> QED
  BY <1>1, <1>2 DEF Device

\* Scheduling keeps the order.
LEMMA OrderIrqs ==
  ASSUME IndexInv, OrderInv, Irqs
  PROVE  IndexInv' /\ OrderInv'
<1>1. CASE IsrRead \/ \E c \in {"isr", "other"} : OtherSchedule(c)
  <2>1. UNCHANGED <<cur, dirty, own, fresh, hw, ppc, napi, rpc>>
    BY <1>1 DEF IsrRead, OtherSchedule
  <2>2. sched => sched'
    BY <1>1, ScheduleSets DEF IsrRead, OtherSchedule
  <2> QED
    BY <2>1, <2>2, OrderFrame DEF IndexInv
<1>2. CASE IsrAck \/ WantRestart
  <2>1. UNCHANGED <<cur, dirty, own, fresh, hw, ppc, napi, sched, rpc>>
    BY <1>2 DEF IsrAck, WantRestart
  <2> QED
    BY <2>1, OrderFrame DEF IndexInv
<1> QED
  BY <1>1, <1>2 DEF Irqs

\* The descriptor at cur is read and the poll goes on.
LEMMA OrderTakes ==
  ASSUME IndexInv, OrderInv, NEW d, Advance(d),
         ppc' \in {AtRead(Inc(cur, 1)), "leave"}, UNCHANGED <<dirty, own, hw, napi, sched, rpc>>
  PROVE  IndexInv' /\ OrderInv'
BY OrderTake DEF Advance, At

\* Every step of mac_all_poll and mac_rx_poll keeps the order.
LEMMA OrderPoll ==
  ASSUME FailUpTo < N, IndexInv, OrderInv, Poll
  PROVE  IndexInv' /\ OrderInv'
<1>1. CASE Refill
  BY <1>1, OrderRefill
<1>2. CASE \E f \in BOOLEAN : RefillEnd(f)
  <2>1. PICK f \in BOOLEAN : RefillEnd(f)
    BY <1>2
  <2>2. UNCHANGED <<cur, dirty, own, fresh, hw, napi, sched, rpc>> /\ ppc = "refill"
    BY <2>1 DEF RefillEnd, At
  <2> QED
    BY <2>1, <2>2, RefillEndRoom, OrderFrame DEF IndexInv
<1>3. CASE TakeError
  <2>1. /\ ppc' \in {AtRead(Inc(cur, 1)), "leave"}
        /\ UNCHANGED <<dirty, own, hw, napi, sched, rpc>>
        /\ Advance(rxd[Slot(cur)])
    BY <1>3 DEF TakeError, NextPacket
  <2> QED
    BY <2>1, OrderTakes
<1>4. CASE \E made \in BOOLEAN : TakeMore(made) \/ TakeLast(made)
  <2>1. /\ ppc' \in {AtRead(Inc(cur, 1)), "leave"}
        /\ UNCHANGED <<dirty, own, hw, napi, sched, rpc>>
        /\ Advance(rxd[Slot(cur)])
    BY <1>4 DEF TakeMore, TakeLast, NextPacket
  <2> QED
    BY <2>1, OrderTakes
<1>5. CASE PollBegin \/ PollAgain
  <2>1. /\ UNCHANGED <<cur, dirty, own, fresh, hw, napi, sched, rpc>>
        /\ ppc' = AtRead(cur) /\ napi /\ sched
    BY <1>5 DEF PollBegin, PollAgain, PollEnter, At, IndexInv
  <2>2. ppc' = "take" => Dist(dirty, cur) < N
    BY <2>1, AtReadRoom DEF IndexInv
  <2> QED
    BY <2>1, <2>2, OrderFrame DEF IndexInv
<1>6. CASE TakeNone \/ Leave
  <2>1. /\ UNCHANGED <<cur, dirty, own, fresh, hw, napi, sched, rpc>>
        /\ ppc' # "take" /\ napi /\ sched
    BY <1>6 DEF TakeNone, Leave, At, IndexInv
  <2> QED
    BY <2>1, OrderFrame DEF IndexInv
<1>7. CASE PollOver \/ PollComplete
  <2>1. UNCHANGED <<cur, dirty, own, fresh, hw, napi, rpc>> /\ ppc' = "off"
    BY <1>7 DEF PollOver, PollComplete
  <2> QED
    BY <2>1, OrderFrame DEF IndexInv
<1> QED
  BY <1>1, <1>2, <1>3, <1>4, <1>5, <1>6, <1>7 DEF Poll, Take

\* Every step of mac_restart keeps the order.
LEMMA OrderRestart ==
  ASSUME IndexInv, OrderInv, Restart
  PROVE  IndexInv' /\ OrderInv'
<1>1. CASE DisableRx \/ FreeIrqs \/ FreeRxData
  <2>1. UNCHANGED <<cur, dirty, own, fresh, hw, ppc, napi, sched>>
    BY <1>1 DEF DisableRx, FreeIrqs, FreeRxData
  <2>2. rpc' \in {"free", "start"} => ~napi
    BY <1>1 DEF DisableRx, FreeIrqs, FreeRxData, IndexInv
  <2> QED
    BY <2>1, <2>2, OrderFrame DEF IndexInv
<1>2. CASE DisableNapi
  <2>1. UNCHANGED <<cur, dirty, own, fresh, hw, ppc>> /\ ppc = "off"
    BY <1>2 DEF DisableNapi, IndexInv
  <2>2. ~napi'
    BY <1>2, Zenon DEF DisableNapi
  <2> QED
    BY <2>1, <2>2, OrderFrame DEF IndexInv
<1>3. CASE \E j \in 0..N : StartDev(j)
  <2>1. /\ cur' = 0 /\ dirty' = 0 /\ hw' = 0 /\ own' = Slots /\ fresh' = {}
        /\ rpc' = "run" /\ ppc' = "off"
    BY <1>3 DEF StartDev, DeviceOn, IndexInv
  <2> QED
    BY <2>1, OrderStart
<1> QED
  BY <1>1, <1>2, <1>3 DEF Restart
-----------------------------------------------------------------------------
\* The ring as mac_start leaves it.
LEMMA OrderInit ==
  ASSUME Init
  PROVE  IndexInv /\ OrderInv
<1>1. 0 \in Count /\ Dist(0, 0) = 0
  BY RxSizes DEF Count, Dist
<1>2. ASSUME NEW k \in Slots PROVE Slot(Inc(0, k)) \in Slots /\ k >= 0
  BY <1>1, CountArith, SlotType, RxSizes DEF Slots
<1>3. cur = 0 /\ dirty = 0 /\ hw = 0 /\ own = Slots /\ fresh = {} /\ ppc = "off" /\ rpc = "run"
  BY DEF Init
<1>4. IndexInv
  BY <1>1, <1>3, RxSizes DEF IndexInv
<1>5. OrderInv
  BY <1>1, <1>2, <1>3 DEF OrderInv, Slots
<1> QED
  BY <1>4, <1>5

\* Every step keeps the order.
LEMMA OrderNext ==
  ASSUME FailUpTo < N, IndexInv, OrderInv, [Next]_vars
  PROVE  IndexInv' /\ OrderInv'
<1>1. CASE UNCHANGED vars
  <2>1. UNCHANGED <<cur, dirty, own, fresh, hw, ppc, napi, sched, rpc>>
    BY <1>1 DEF vars
  <2> QED
    BY <2>1, OrderFrame DEF IndexInv
<1> QED
  BY <1>1, OrderDevice, OrderIrqs, OrderPoll, OrderRestart DEF Next

\* What the invariant says of the descriptor at cur.
LEMMA OrderRead ==
  ASSUME IndexInv, OrderInv
  PROVE  DataAvailable
<1> SUFFICES ASSUME ppc = "take", Readable PROVE Slot(cur) \in fresh
  BY DEF DataAvailable
<1> DEFINE D == Dist(dirty, cur)
<1>1. cur \in Count /\ dirty \in Count /\ D \in Slots /\ D < N /\ Dist(dirty, hw) \in Nat
  BY RxNumbers, RxSizes DEF IndexInv, Slots
<1>2. Slot(Inc(dirty, D)) = Slot(cur)
  BY <1>1, SlotAt
<1> QED
  BY <1>1, <1>2 DEF OrderInv, Readable, Slots

\* mac_dev_read takes a descriptor for received data only when the engine has written
\* it and no poll has read it, for every ring size, frame size, budget and refill
\* threshold, through every wrap of the counters and every restart, as long as
\* mac_map_rx_buffer does not fail when the whole ring is dirty.
THEOREM RxDataAvailable ==
  ASSUME FailUpTo < N
  PROVE  Spec => []DataAvailable
<1>1. Init => IndexInv /\ OrderInv
  BY OrderInit
<1>2. IndexInv /\ OrderInv /\ [Next]_vars => (IndexInv /\ OrderInv)'
  BY OrderNext
<1>3. IndexInv /\ OrderInv => DataAvailable
  BY OrderRead
<1> QED
  BY <1>1, <1>2, <1>3, PTL DEF Spec
-----------------------------------------------------------------------------
(* Buffers.                                                                *)

\* The entry at which mac_rx_refresh gives up is neither the engine's nor unread.
LEMMA RefillEndSlot ==
  ASSUME IndexInv, OrderInv, RefillEnd(TRUE)
  PROVE  Slot(dirty) \notin own \cup fresh
<1> DEFINE D == Dist(dirty, cur)
           h == Dist(dirty, hw)
<1>1. cur \in Count /\ dirty \in Count /\ D \in Nat /\ h \in Nat /\ D <= h
  BY RxNumbers DEF IndexInv
<1>2. dirty # cur
  BY DEF RefillEnd
<1>3. D # 0
  BY <1>1, <1>2, RxSizes DEF Dist, Count
<1>4. 0 \in Slots /\ Inc(dirty, 0) = dirty
  BY <1>1, RxSizes DEF Slots, Inc, Count
<1> QED
  BY <1>1, <1>3, <1>4 DEF OrderInv

\* No step of the poll takes the buffers of a descriptor in use.
LEMMA BuffersPoll ==
  ASSUME IndexInv, OrderInv, BuffersPresent, Poll
  PROVE  BuffersPresent'
<1>1. CASE Refill
  BY <1>1 DEF Refill, BuffersPresent
<1>2. CASE RefillEnd(TRUE)
  BY <1>2, RefillEndSlot DEF RefillEnd, BuffersPresent
<1>3. CASE RefillEnd(FALSE)
  BY <1>3 DEF RefillEnd, BuffersPresent
<1>4. CASE TakeError
  BY <1>4 DEF TakeError, Advance, BuffersPresent
<1>5. CASE \E made \in BOOLEAN : TakeMore(made) \/ TakeLast(made)
  BY <1>5 DEF TakeMore, TakeLast, Advance, Readable, BuffersPresent
<1>6. CASE PollBegin \/ PollAgain \/ TakeNone \/ Leave \/ PollOver \/ PollComplete
  <2>1. UNCHANGED <<own, fresh, full, rpc>>
    BY <1>6 DEF PollBegin, PollAgain, TakeNone, Leave, PollOver, PollComplete
  <2> QED
    BY <2>1 DEF BuffersPresent
<1> QED
  BY <1>1, <1>2, <1>3, <1>4, <1>5, <1>6 DEF Poll, Take

\* A restart that maps the whole ring leaves every descriptor its buffers.
LEMMA BuffersRestart ==
  ASSUME ~StartFails, BuffersPresent, Restart
  PROVE  BuffersPresent'
<1>1. CASE DisableRx \/ FreeIrqs \/ DisableNapi
  <2>1. UNCHANGED <<own, fresh, full>> /\ rpc # "start"
    BY <1>1 DEF DisableRx, FreeIrqs, DisableNapi
  <2> QED
    BY <2>1 DEF BuffersPresent
<1>2. CASE FreeRxData
  BY <1>2 DEF FreeRxData, BuffersPresent
<1>3. CASE \E j \in 0..N : StartDev(j)
  BY <1>3 DEF StartDev, Slots, BuffersPresent
<1> QED
  BY <1>1, <1>2, <1>3 DEF Restart

\* Every step leaves the descriptors in use their buffers.
LEMMA BuffersNext ==
  ASSUME ~StartFails, IndexInv, OrderInv, BuffersPresent, [Next]_vars
  PROVE  BuffersPresent'
<1>1. CASE \E d \in Written : HwWrite(d)
  BY <1>1 DEF HwWrite, BuffersPresent
<1>2. CASE HwSuspend \/ HwWatchdog \/ Irqs \/ UNCHANGED vars
  <2>1. UNCHANGED <<own, fresh, full, rpc>>
    BY <1>2 DEF HwSuspend, HwWatchdog, Irqs, IsrRead, IsrAck, WantRestart, OtherSchedule, vars
  <2> QED
    BY <2>1 DEF BuffersPresent
<1> QED
  BY <1>1, <1>2, BuffersPoll, BuffersRestart DEF Next, Device

\* No descriptor the engine may write, and none the driver has yet to read, is
\* without its buffers, whatever mac_rx_refresh fails to map, as long as mac_start
\* maps the whole ring.
THEOREM RxBuffers ==
  ASSUME FailUpTo < N, ~StartFails
  PROVE  Spec => []BuffersPresent
<1> DEFINE I == IndexInv /\ OrderInv /\ BuffersPresent
<1>1. Init => I
  BY OrderInit DEF Init, BuffersPresent
<1>2. I /\ [Next]_vars => I'
  BY OrderNext, BuffersNext
<1> QED
  BY <1>1, <1>2, PTL DEF Spec
-----------------------------------------------------------------------------
(* Types, and the budget behind them.                                      *)

\* The values the driver and the engine write.
LEMMA RxValues ==
  /\ NotSaved \in States /\ Unsaved \in [Slots -> States]
  /\ \A sk \in Skbs, e \in BOOLEAN : State(sk, e) \in States
  /\ [s \in Slots |-> Blank] \in [Slots -> Written \cup {Blank}]
  /\ \A t \in States : t.skb \in Skbs /\ t.error \in BOOLEAN
BY DEF NotSaved, Unsaved, State, States, Skbs

\* Reading a descriptor keeps the ring's types.
LEMMA AdvanceTypes ==
  ASSUME RingTypes, NEW d, Advance(d)
  PROVE  cur' \in Count /\ fresh' \subseteq Slots /\ saved' \in [Slots -> States]
<1>1. cur' = Inc(cur, 1) /\ fresh' = fresh \ {Slot(cur)} /\ Slot(cur) \in Slots
  BY SlotType DEF Advance, RingTypes
<1>2. Inc(cur, 1) \in Count
  BY CountArith, RxSizes, 1 \in 0..W DEF RingTypes
<1>3. saved' = [saved EXCEPT ![Slot(cur)].st =
                  IF saved[Slot(cur)].st = "live" THEN "spent" ELSE saved[Slot(cur)].st]
  BY DEF Advance, RingTypes
<1>4. [saved[Slot(cur)] EXCEPT !.st =
          IF saved[Slot(cur)].st = "live" THEN "spent" ELSE saved[Slot(cur)].st] \in States
  BY <1>1 DEF RingTypes, States
<1>5. saved' \in [Slots -> States]
  BY <1>1, <1>3, <1>4 DEF RingTypes
<1> QED
  BY <1>1, <1>2, <1>5 DEF RingTypes

\* Every step keeps the ring's types.
LEMMA RingTypesStep ==
  ASSUME TypeOK, [Next]_vars
  PROVE  RingTypes'
<1> USE DEF TypeOK, RingTypes
<1>1. /\ cur \in Count /\ dirty \in Count /\ hw \in Count /\ 1 \in 0..W
      /\ Slot(cur) \in Slots /\ Slot(dirty) \in Slots /\ Slot(hw) \in Slots
      /\ Inc(dirty, 1) \in Count /\ Inc(hw, 1) \in Count
  BY CountArith, SlotType, RxSizes
<1>2. ASSUME NEW d \in Written, HwWrite(d) PROVE RingTypes'
  <2>1. frag' \in 0..(MaxFrag - 1)
    BY <1>2, RxConstants, RxSizes DEF HwWrite
  <2> QED
    BY <1>1, <1>2, <2>1 DEF HwWrite
<1>3. CASE HwSuspend \/ HwWatchdog
  BY <1>3 DEF HwSuspend, HwWatchdog
<1>4. CASE Irqs
  BY <1>4 DEF Irqs, IsrRead, IsrAck, WantRestart, OtherSchedule
<1>5. CASE Refill \/ RefillEnd(TRUE) \/ RefillEnd(FALSE)
  <2>1. CASE Refill
    BY <1>1, <2>1, RxValues DEF Refill
  <2>2. CASE RefillEnd(TRUE)
    <3>1. /\ full' \subseteq full /\ saved' = [saved EXCEPT ![Slot(dirty)] = NotSaved]
          /\ UNCHANGED <<cur, dirty, own, rxd, fresh, hw, frag>>
      BY <2>2 DEF RefillEnd
    <3> QED
      BY <1>1, <3>1, RxValues
  <2>3. CASE RefillEnd(FALSE)
    BY <2>3 DEF RefillEnd
  <2> QED
    BY <1>5, <2>1, <2>2, <2>3
<1>6. CASE TakeError \/ \E made \in BOOLEAN : TakeMore(made) \/ TakeLast(made)
  <2>1. cur' \in Count /\ fresh' \subseteq Slots /\ saved' \in [Slots -> States]
    BY <1>6, AdvanceTypes DEF TakeError, TakeMore, TakeLast
  <2>2. UNCHANGED <<dirty, hw, frag, own, rxd>> /\ full' \subseteq full
    BY <1>6 DEF TakeError, TakeMore, TakeLast
  <2> QED
    BY <2>1, <2>2
<1>7. CASE Leave
  <2>1. State(skb, error) \in States
    BY RxValues DEF StepTypes, FlagTypes
  <2> QED
    BY <1>1, <1>7, <2>1 DEF Leave
<1>8. CASE PollBegin \/ TakeNone \/ PollAgain \/ PollOver \/ PollComplete
  BY <1>8 DEF PollBegin, TakeNone, PollAgain, PollOver, PollComplete
<1>9. CASE DisableRx \/ FreeIrqs \/ DisableNapi
  BY <1>9 DEF DisableRx, FreeIrqs, DisableNapi
<1>10. CASE FreeRxData
  BY <1>10, RxValues DEF FreeRxData
<1>11. ASSUME NEW j \in 0..N, StartDev(j) PROVE RingTypes'
  <2>1. /\ cur' = 0 /\ dirty' = 0 /\ hw' = 0 /\ frag' = 0 /\ own' = Slots /\ fresh' = {}
        /\ full' = 0..(j - 1) /\ rxd' = [s \in Slots |-> Blank] /\ saved' = saved
    BY <1>11 DEF StartDev, DeviceOn
  <2>2. 0..(j - 1) \subseteq Slots /\ 0 \in Count /\ 0 \in 0..(MaxFrag - 1)
    BY RxSizes, RxConstants DEF Slots, Count
  <2> QED
    BY <2>1, <2>2, RxValues
<1>12. CASE UNCHANGED vars
  BY <1>12 DEF vars
<1> QED
  BY <1>2, <1>3, <1>4, <1>5, <1>6, <1>7, <1>8, <1>9, <1>10, <1>11, <1>12
     DEF Next, Device, Poll, Take, Restart

\* Every step keeps the types of the steps and counts, and the counts in the budget.
LEMMA StepTypesStep ==
  ASSUME TypeOK, CountInv, [Next]_vars
  PROVE  StepTypes' /\ CountInv'
<1> USE DEF StepTypes, CountInv, InPoll
<1>1. Budget \in Nat /\ Budget >= 1 /\ StepTypes /\ processed \in Nat /\ packet_count \in Nat
  BY RxConstants DEF TypeOK
<1>2. ASSUME UNCHANGED <<skb, ppc, processed, packet_count>>,
             isr' \in {"idle", "ack"}, cpu' \in {"isr", "other"},
             rpc' \in {"run", "irqs", "napi", "free", "start"}
      PROVE  StepTypes' /\ CountInv'
  BY <1>1, <1>2
<1>3. CASE Device
  BY <1>1, <1>2, <1>3 DEF Device, HwWrite, HwSuspend, HwWatchdog
<1>4. CASE Irqs
  <2>1. UNCHANGED <<skb, ppc, processed, packet_count, rpc>>
    BY <1>4 DEF Irqs, IsrRead, IsrAck, WantRestart, OtherSchedule
  <2>2. isr' \in {"idle", "ack"}
    BY <1>1, <1>4 DEF Irqs, IsrRead, IsrAck, WantRestart, OtherSchedule
  <2>3. cpu' \in {"isr", "other"}
    BY <1>1, <1>4 DEF Irqs, IsrRead, IsrAck, WantRestart, OtherSchedule, NapiSchedule
  <2> QED
    BY <1>1, <1>2, <2>1, <2>2, <2>3
<1>5. CASE PollBegin \/ PollAgain
  <2>1. /\ packet_count' = 0 /\ UNCHANGED <<isr, cpu, rpc>>
        /\ ppc' \in {"refill", "take"}
        /\ processed' = 0 \/ (processed' = processed /\ ppc = "again")
    BY <1>5 DEF PollBegin, PollAgain, PollEnter, AtRead, At
  <2>2. saved[Slot(cur)] \in States
    BY SlotType DEF TypeOK, RingTypes
  <2>3. saved[Slot(cur)].skb \in Skbs
    BY <2>2, RxValues
  <2>4. skb' \in Skbs
    BY <1>5, <2>3 DEF PollBegin, PollAgain, PollEnter, Skbs
  <2> QED
    BY <1>1, <2>1, <2>4
<1>6. CASE Refill \/ RefillEnd(TRUE) \/ RefillEnd(FALSE) \/ TakeNone
  <2>1. /\ UNCHANGED <<isr, cpu, rpc, skb, processed, packet_count>>
        /\ ppc \in {"refill", "take"} /\ ppc' \in {"refill", "take", "leave"}
    BY <1>6 DEF Refill, RefillEnd, TakeNone, At
  <2> QED
    BY <1>1, <2>1
<1>7. ASSUME NEW made \in BOOLEAN, TakeMore(made) PROVE StepTypes' /\ CountInv'
  <2>1. /\ UNCHANGED <<isr, cpu, rpc, processed, packet_count>>
        /\ ppc = "take" /\ ppc' \in {"refill", "take"}
    BY <1>7 DEF TakeMore, Advance, At, AtRead
  <2>2. skb' \in Skbs
    BY <1>1, <1>7 DEF TakeMore, WithFragment, Skbs
  <2> QED
    BY <1>1, <2>1, <2>2
<1>8. CASE TakeError \/ \E made \in BOOLEAN : TakeLast(made)
  <2>1. /\ UNCHANGED <<isr, cpu, rpc, processed>> /\ packet_count' = packet_count + 1
        /\ ppc = "take" /\ skb' = "null"
        /\ ppc' = IF processed + packet_count + 1 < Budget THEN AtRead(Inc(cur, 1)) ELSE "leave"
    BY <1>8 DEF TakeError, TakeLast, NextPacket, Advance, At
  <2>2. AtRead(Inc(cur, 1)) \in {"refill", "take"}
    BY DEF AtRead
  <2>3. processed + packet_count + 1 <= Budget
    BY <1>1, <2>1
  <2> QED
    BY <1>1, <2>1, <2>2, <2>3 DEF Skbs
<1>9. CASE Leave
  <2>1. /\ UNCHANGED <<isr, cpu, rpc>> /\ skb' = "null"
        /\ processed' = processed + packet_count /\ packet_count' = 0
        /\ ppc' = IF processed + packet_count >= Budget THEN "over"
                  ELSE IF packet_count = 0 THEN "done" ELSE "again"
    BY <1>9 DEF Leave
  <2> QED
    BY <1>1, <2>1 DEF Skbs
<1>10. CASE PollOver \/ PollComplete
  <2>1. /\ UNCHANGED <<isr, cpu, rpc, skb, packet_count>> /\ processed' = 0
        /\ ppc' = "off" /\ ppc \in {"over", "done"}
    BY <1>10 DEF PollOver, PollComplete, At
  <2> QED
    BY <1>1, <2>1
<1>11. CASE Restart
  BY <1>1, <1>2, <1>11 DEF Restart, DisableRx, FreeIrqs, DisableNapi, FreeRxData, StartDev, DeviceOn
<1>12. CASE UNCHANGED vars
  BY <1>1, <1>2, <1>12 DEF vars
<1> QED
  BY <1>3, <1>4, <1>5, <1>6, <1>7, <1>8, <1>9, <1>10, <1>11, <1>12 DEF Next, Poll, Take

\* Every step keeps the flags Booleans.
LEMMA FlagTypesStep ==
  ASSUME TypeOK, [Next]_vars
  PROVE  FlagTypes'
<1> USE DEF TypeOK, FlagTypes
<1>1. ASSUME NEW d \in Written, HwWrite(d) PROVE FlagTypes'
  BY <1>1, Zenon DEF HwWrite
<1>2. CASE HwSuspend
  BY <1>2, Zenon DEF HwSuspend
<1>3. CASE HwWatchdog
  BY <1>3, Zenon DEF HwWatchdog
<1>4. CASE IsrRead
  BY <1>4, Zenon DEF IsrRead, NapiSchedule
<1>5. CASE IsrAck
  BY <1>5, Zenon DEF IsrAck
<1>6. CASE WantRestart
  BY <1>6, Zenon DEF WantRestart
<1>7. ASSUME NEW c \in {"isr", "other"}, OtherSchedule(c) PROVE FlagTypes'
  BY <1>7, Zenon DEF OtherSchedule, NapiSchedule
<1>8. CASE PollBegin \/ PollAgain
  <2>1. saved[Slot(cur)] \in States
    BY SlotType DEF RingTypes
  <2>2. error' \in BOOLEAN
    <3>1. error' = saved[Slot(cur)].error
      BY <1>8 DEF PollBegin, PollAgain, PollEnter
    <3> QED
      BY <2>1, <3>1, RxValues
  <2>3. /\ received' \in BOOLEAN /\ incomplete' \in BOOLEAN
        /\ UNCHANGED <<susp, re, ri, wd, irqs, napi, sched, missed, work>>
    BY <1>8, Zenon DEF PollBegin, PollAgain, PollEnter
  <2> QED
    BY <2>2, <2>3, Zenon
<1>9. CASE Refill
  BY <1>9, Zenon DEF Refill
<1>10. ASSUME NEW f \in BOOLEAN, RefillEnd(f) PROVE FlagTypes'
  BY <1>10, Zenon DEF RefillEnd
<1>11. CASE TakeNone
  BY <1>11, Zenon DEF TakeNone
<1>12. CASE TakeError
  BY <1>12, Zenon DEF TakeError, Advance, NextPacket
<1>13. ASSUME NEW made \in BOOLEAN, TakeMore(made) PROVE FlagTypes'
  BY <1>13, Zenon DEF TakeMore, Advance
<1>14. ASSUME NEW made \in BOOLEAN, TakeLast(made) PROVE FlagTypes'
  BY <1>14, Zenon DEF TakeLast, Advance, NextPacket
<1>15. CASE Leave
  BY <1>15, Zenon DEF Leave
<1>16. CASE PollOver \/ PollComplete
  <2>1. CASE PollOver
    BY <2>1, Zenon DEF PollOver
  <2>2. CASE PollComplete
    BY <2>2, Zenon DEF PollComplete
  <2> QED
    BY <1>16, <2>1, <2>2
<1>17. CASE DisableRx \/ FreeIrqs \/ DisableNapi
  <2>1. CASE DisableRx
    BY <2>1, Zenon DEF DisableRx
  <2>2. CASE FreeIrqs
    BY <2>2, Zenon DEF FreeIrqs
  <2>3. CASE DisableNapi
    BY <2>3, Zenon DEF DisableNapi
  <2> QED
    BY <1>17, <2>1, <2>2, <2>3
<1>18. CASE FreeRxData
  BY <1>18, Zenon DEF FreeRxData
<1>19. ASSUME NEW j \in 0..N, StartDev(j) PROVE FlagTypes'
  BY <1>19, Zenon DEF StartDev, DeviceOn
<1>20. CASE UNCHANGED vars
  BY <1>20, Zenon DEF vars
<1> QED
  BY <1>1, <1>2, <1>3, <1>4, <1>5, <1>6, <1>7, <1>8, <1>9, <1>10, <1>11, <1>12, <1>13,
     <1>14, <1>15, <1>16, <1>17, <1>18, <1>19, <1>20
     DEF Next, Device, Irqs, Poll, Take, Restart

\* Type correctness of the receive path, whatever fails: the counts of mac_rx_poll
\* and mac_all_poll stay within the budget of NAPI.
THEOREM RxTypes == Spec => [](TypeOK /\ CountInv)
<1>1. Init => TypeOK /\ CountInv
  <2> SUFFICES ASSUME Init PROVE TypeOK /\ CountInv
    OBVIOUS
  <2>1. RingTypes
    BY RxValues, RxSizes, RxConstants DEF Init, RingTypes, Count
  <2>2. StepTypes /\ CountInv
    BY RxConstants DEF Init, StepTypes, CountInv, InPoll, Skbs
  <2>3. FlagTypes
    BY Zenon DEF Init, FlagTypes
  <2> QED
    BY <2>1, <2>2, <2>3 DEF TypeOK
<1>2. TypeOK /\ CountInv /\ [Next]_vars => TypeOK' /\ CountInv'
  BY RingTypesStep, StepTypesStep, FlagTypesStep DEF TypeOK
<1> QED
  BY <1>1, <1>2, PTL DEF Spec
-----------------------------------------------------------------------------
(* No frame is left in the ring without an interrupt, or a poll, on its    *)
(* way.                                                                    *)

\* When mac_rx_poll finds no data at cur, it has read all that was written.
LEMMA NoneFresh ==
  ASSUME IndexInv, OrderInv, fresh \subseteq Slots, TakeNone
  PROVE  fresh = {}
<1> DEFINE D == Dist(dirty, cur)
           h == Dist(dirty, hw)
<1>1. /\ cur \in Count /\ dirty \in Count /\ D \in Nat /\ h \in Nat /\ D <= h
      /\ D < N /\ D \in Slots /\ Slot(cur) \in own
  BY RxNumbers, RxSizes DEF IndexInv, Slots, TakeNone, At, Readable
<1>2. Slot(Inc(dirty, D)) = Slot(cur)
  BY <1>1, SlotAt
<1>3. h = D
  BY <1>1, <1>2 DEF OrderInv
<1> SUFFICES ASSUME NEW s \in fresh PROVE FALSE
  OBVIOUS
<1>4. PICK k \in Slots : Slot(Inc(dirty, k)) = s
  BY <1>1, SlotSurj
<1>5. D <= k /\ k < h
  BY <1>4 DEF OrderInv
<1> QED
  BY <1>1, <1>3, <1>5 DEF Slots

\* A schedule attempt while the interrupt is requested schedules the poll, or has it
\* scheduled again.
LEMMA ScheduleTakes ==
  ASSUME PendInv, irqs, NapiSchedule("isr")
  PROVE  sched' /\ cpu' = "isr" /\ (missed' <=> missed \/ sched)
<1>1. napi /\ ~Disabling
  BY DEF PendInv, Disabling
<1>2. sched' = TRUE /\ missed' = (missed \/ sched) /\ cpu' = IF sched THEN cpu ELSE "isr"
  BY <1>1, Zenon DEF NapiSchedule
<1>3. cpu' = "isr"
  BY <1>2 DEF PendInv
<1>4. sched' /\ (missed' <=> missed \/ sched)
  BY <1>2, Zenon
<1> QED
  BY <1>3, <1>4

\* The steps of the engine.
LEMMA PendDevice ==
  ASSUME TypeOK, PendInv, Device
  PROVE  PendInv'
<1>1. ASSUME NEW d \in Written, HwWrite(d) PROVE PendInv'
  <2>1. /\ UNCHANGED <<cpu, irqs, napi, rpc, isr, sched, missed, ppc, packet_count, processed>>
        /\ fresh' = fresh \cup {Slot(hw)} /\ rxd' = [rxd EXCEPT ![Slot(hw)] = d]
    BY <1>1 DEF HwWrite
  <2>2. CASE d.last
    <3>1. ri' \/ wd'
      BY <1>1, <2>2, Zenon DEF HwWrite
    <3> QED
      BY <2>1, <3>1, Zenon DEF PendInv
  <2>3. CASE ~d.last
    <3>1. UNCHANGED <<ri, wd>>
      BY <1>1, <2>3 DEF HwWrite
    <3>2. ASSUME NEW s \in fresh', rxd'[s].last PROVE s \in fresh /\ rxd[s].last
      <4>1. rxd \in [Slots -> Written \cup {Blank}] /\ Slot(hw) \in Slots
        BY SlotType DEF TypeOK, RingTypes
      <4>2. rxd'[Slot(hw)] = d
        BY <2>1, <4>1
      <4>3. s # Slot(hw)
        BY <2>3, <3>2, <4>2
      <4>4. s \in fresh
        BY <2>1, <4>3
      <4>5. s \in Slots
        BY <4>4 DEF TypeOK, RingTypes
      <4>6. rxd'[s] = rxd[s]
        BY <2>1, <4>1, <4>3, <4>5
      <4> QED
        BY <3>2, <4>4, <4>6
    <3> QED
      BY <2>1, <3>1, <3>2 DEF PendInv, Ends
  <2> QED
    BY <2>2, <2>3
<1>2. CASE HwSuspend
  BY <1>2 DEF HwSuspend, PendInv, Ends
<1>3. CASE HwWatchdog
  <2>1. /\ UNCHANGED <<cpu, irqs, napi, rpc, isr, sched, missed, ppc, packet_count, processed>>
        /\ ri'
    BY <1>3, Zenon DEF HwWatchdog
  <2> QED
    BY <2>1, Zenon DEF PendInv
<1> QED
  BY <1>1, <1>2, <1>3 DEF Device

\* The interrupt handler, and the timer on the same CPU.
LEMMA PendIrqs ==
  ASSUME ~OtherCpu, IndexInv, PendInv, Irqs
  PROVE  PendInv'
<1>1. CASE IsrRead
  <2>1. /\ irqs /\ ri /\ isr' = "ack" /\ NapiSchedule("isr")
        /\ UNCHANGED <<ri, wd, irqs, napi, rpc, ppc>>
    BY <1>1 DEF IsrRead
  <2>2. sched' /\ cpu' = "isr" /\ (missed' <=> missed \/ sched)
    BY <2>1, ScheduleTakes
  <2>3. ~sched => ppc = "off"
    BY DEF IndexInv
  <2> QED
    BY <2>1, <2>2, <2>3 DEF PendInv
<1>2. CASE IsrAck
  <2>1. /\ isr = "ack" /\ isr' = "idle"
        /\ UNCHANGED <<cpu, irqs, napi, rpc, sched, missed, ppc, packet_count, processed>>
    BY <1>2 DEF IsrAck
  <2> QED
    BY <2>1 DEF PendInv, Ends
<1>3. CASE WantRestart
  BY <1>3 DEF WantRestart, PendInv, Ends
<1>4. ASSUME NEW c \in {"isr", "other"}, OtherSchedule(c) PROVE PendInv'
  <2>1. /\ c = "isr" /\ NapiSchedule("isr") /\ isr = "idle"
        /\ UNCHANGED <<fresh, rxd, ri, wd, isr, irqs, napi, rpc, ppc, packet_count, processed>>
    BY <1>4 DEF OtherSchedule
  <2>2. CASE irqs
    <3>1. sched' /\ cpu' = "isr" /\ (missed' <=> missed \/ sched)
      BY <2>1, <2>2, ScheduleTakes
    <3>2. ~sched => ppc = "off"
      BY DEF IndexInv
    <3> QED
      BY <2>1, <3>1, <3>2 DEF PendInv, Ends
  <2>3. CASE ~irqs
    <3>1. cpu' = "isr"
      BY <2>1 DEF NapiSchedule, PendInv
    <3> QED
      BY <2>1, <2>3, <3>1 DEF PendInv
  <2> QED
    BY <2>2, <2>3
<1> QED
  BY <1>1, <1>2, <1>3, <1>4 DEF Irqs

\* The steps of the poll: it runs only while no handler does.
LEMMA PendPoll ==
  ASSUME IndexInv, OrderInv, TypeOK, PendInv, Poll
  PROVE  PendInv'
<1>1. isr = "idle"
  BY DEF Poll, PollBegin, Refill, RefillEnd, Take, TakeNone, TakeError, TakeMore, TakeLast,
         Advance, Leave, PollAgain, PollOver, PollComplete, At, MayPoll, PendInv, TypeOK, StepTypes
<1>2. UNCHANGED <<ri, wd, isr, irqs, napi, cpu, rpc>>
  BY DEF Poll, PollBegin, Refill, RefillEnd, Take, TakeNone, TakeError, TakeMore, TakeLast,
         Leave, PollAgain, PollOver, PollComplete
<1>3. processed \in Nat /\ packet_count \in Nat /\ Budget \in Nat
  BY RxConstants DEF TypeOK, StepTypes
<1> DEFINE Pending == irqs /\ ~ri /\ ~wd /\ (\E s \in fresh : rxd[s].last)
<1>4. SUFFICES Pending' => sched' /\ (missed' \/ ~Ends')
  BY <1>1, <1>2 DEF PendInv
<1>5. ASSUME sched', missed' <=> missed, sched' <=> sched, fresh' \subseteq fresh,
             \A s \in fresh' : rxd'[s] = rxd[s], ~Ends'
      PROVE  Pending' => sched' /\ (missed' \/ ~Ends')
  BY <1>5
<1>6. CASE PollBegin \/ PollAgain
  <2>1. ppc' \in {"refill", "take"}
    BY <1>6 DEF PollBegin, PollAgain, PollEnter, AtRead
  <2>2. sched'
    BY <1>6 DEF PollBegin, PollAgain, At, IndexInv
  <2> QED
    BY <2>1, <2>2 DEF Ends
<1>7. CASE Refill \/ RefillEnd(TRUE) \/ RefillEnd(FALSE)
  <2>1. ppc' \in {"refill", "take"} /\ sched'
    BY <1>7 DEF Refill, RefillEnd, At, IndexInv
  <2> QED
    BY <2>1 DEF Ends
<1>8. CASE TakeNone
  <2>1. fresh = {}
    BY <1>8, NoneFresh DEF TypeOK, RingTypes
  <2> QED
    BY <1>8, <2>1 DEF TakeNone
<1>9. CASE \E made \in BOOLEAN : TakeMore(made)
  <2>1. ppc' \in {"refill", "take"} /\ sched'
    BY <1>9 DEF TakeMore, Advance, AtRead, At, IndexInv
  <2> QED
    BY <2>1 DEF Ends
<1>10. CASE TakeError \/ \E made \in BOOLEAN : TakeLast(made)
  <2>1. /\ packet_count' = packet_count + 1 /\ sched'
        /\ ppc' \in {"refill", "take", "leave"}
    BY <1>10 DEF TakeError, TakeLast, NextPacket, Advance, AtRead, At, IndexInv
  <2>2. ~Ends'
    BY <1>3, <2>1 DEF Ends
  <2> QED
    BY <2>1, <2>2
<1>11. CASE Leave
  <2>1. /\ ppc = "leave" /\ sched /\ UNCHANGED <<sched, missed, fresh, rxd>>
        /\ ppc' = IF processed + packet_count >= Budget THEN "over"
                  ELSE IF packet_count = 0 THEN "done" ELSE "again"
    BY <1>11 DEF Leave, At, IndexInv
  <2>2. CASE Ends
    BY <1>2, <2>1, <2>2 DEF PendInv
  <2>3. CASE ~Ends
    <3>1. ppc' # "done" /\ ppc' # "leave"
      BY <1>3, <2>1, <2>3 DEF Ends
    <3> QED
      BY <2>1, <3>1 DEF Ends
  <2> QED
    BY <2>2, <2>3
<1>12. CASE PollOver
  <2>1. ppc' = "off" /\ sched
    BY <1>12 DEF PollOver, At, IndexInv
  <2>2. irqs => ~Disabling
    BY DEF PendInv, Disabling
  <2>3. irqs => sched'
    BY <1>12, <2>1, <2>2 DEF PollOver
  <2> QED
    BY <1>2, <2>1, <2>3 DEF Ends
<1>13. CASE PollComplete
  <2>1. /\ ppc = "done" /\ ppc' = "off" /\ sched' = missed /\ UNCHANGED <<fresh, rxd>>
    BY <1>13 DEF PollComplete, At
  <2>2. Pending => missed
    BY <2>1 DEF PendInv, Ends
  <2> QED
    BY <1>2, <2>1, <2>2 DEF Ends
<1> QED
  BY <1>6, <1>7, <1>8, <1>9, <1>10, <1>11, <1>12, <1>13 DEF Poll, Take

\* The steps of mac_restart: there is no interrupt to lose until mac_start.
LEMMA PendRestart ==
  ASSUME PendInv, Restart
  PROVE  PendInv'
<1>1. CASE DisableRx
  BY <1>1 DEF DisableRx, PendInv, Ends
<1>2. CASE FreeIrqs
  <2>1. isr' = "idle" /\ cpu' = cpu /\ ~irqs'
    BY <1>2, Zenon DEF FreeIrqs
  <2> QED
    BY <2>1 DEF PendInv
<1>3. CASE DisableNapi \/ FreeRxData
  <2>1. ~irqs /\ UNCHANGED <<isr, cpu, irqs>>
    BY <1>3 DEF DisableNapi, FreeRxData, PendInv
  <2> QED
    BY <2>1 DEF PendInv
<1>4. CASE \E j \in 0..N : StartDev(j)
  <2>1. ~irqs
    BY <1>4 DEF StartDev, PendInv
  <2>2. UNCHANGED <<isr, cpu>> /\ napi' /\ rpc' = "run" /\ fresh' = {}
    BY <1>4 DEF StartDev, DeviceOn
  <2> QED
    BY <2>1, <2>2 DEF PendInv
<1> QED
  BY <1>1, <1>2, <1>3, <1>4 DEF Restart

\* A complete frame in the ring always has an interrupt, the watchdog or a poll on
\* its way, for every ring size, frame size and budget, although mac_isr clears an
\* RI it has not read and the poll may end just then; if the timer's schedule runs
\* on the CPU of mac_isr and mac_map_rx_buffer does not fail when the whole ring is
\* dirty.
THEOREM RxNotified ==
  ASSUME FailUpTo < N, ~OtherCpu
  PROVE  Spec => []Notified
<1>1. Init => IndexInv /\ OrderInv
  BY OrderInit
<1>2. Init => PendInv
  BY Zenon DEF Init, PendInv
<1>3. IndexInv /\ OrderInv /\ [Next]_vars => (IndexInv /\ OrderInv)'
  BY OrderNext
<1>4. TypeOK /\ IndexInv /\ OrderInv /\ PendInv /\ [Next]_vars => PendInv'
  <2>1. ASSUME PendInv, UNCHANGED vars PROVE PendInv'
    BY <2>1 DEF vars, PendInv, Ends
  <2> QED
    BY <2>1, PendDevice, PendIrqs, PendPoll, PendRestart DEF Next
<1>5. PendInv => Notified
  BY DEF PendInv, Notified
<1> QED
  BY <1>1, <1>2, <1>3, <1>4, <1>5, RxTypes, PTL DEF Spec
-----------------------------------------------------------------------------
(* Frames stay whole.                                                      *)

\* The offsets of the two ends of the unread descriptors.
LEMMA RxOffsets ==
  ASSUME IndexInv
  PROVE  /\ Dist(dirty, cur) \in Nat /\ Dist(dirty, hw) \in Nat
         /\ Dist(dirty, cur) <= Dist(dirty, hw) /\ Dist(dirty, hw) <= N
         /\ Slot(Inc(dirty, 0)) = Slot(dirty) /\ 0 \in Slots
         /\ cur = hw <=> Dist(dirty, cur) = Dist(dirty, hw)
         /\ Dist(dirty, cur) < N => /\ Dist(dirty, cur) \in Slots
                                    /\ Slot(Inc(dirty, Dist(dirty, cur))) = Slot(cur)
         /\ Dist(dirty, cur) = N => Slot(cur) = Slot(dirty)
<1>1. cur \in Count /\ dirty \in Count /\ hw \in Count
  BY DEF IndexInv
<1>2. Dist(dirty, cur) \in Nat /\ Dist(dirty, hw) \in Nat
  BY RxNumbers
<1>3. Inc(dirty, 0) = dirty /\ 0 \in Slots
  BY <1>1, RxSizes DEF Inc, Count, Slots
<1>4. cur = hw <=> Dist(dirty, cur) = Dist(dirty, hw)
  BY <1>1, RxSizes DEF Dist, Count
<1>5. ASSUME Dist(dirty, cur) < N
      PROVE  Dist(dirty, cur) \in Slots /\ Slot(Inc(dirty, Dist(dirty, cur))) = Slot(cur)
  <2>1. Dist(dirty, cur) \in Slots
    BY <1>2, <1>5, RxSizes DEF Slots
  <2> QED
    BY <1>1, <1>5, <2>1, SlotAt
<1>6. ASSUME Dist(dirty, cur) = N PROVE Slot(cur) = Slot(dirty)
  <2>1. Inc(dirty, N) = cur
    BY <1>1, <1>6, RxSizes DEF Inc, Dist, Count
  <2> QED
    BY <1>1, <2>1, SlotWrap
<1> QED
  BY <1>2, <1>3, <1>4, <1>5, <1>6 DEF IndexInv

\* The fields of the values a saved state has.
LEMMA StateFields ==
  /\ NotSaved.st = "none" /\ NotSaved.skb = "null" /\ NotSaved.error = FALSE
  /\ \A sk, e : /\ State(sk, e).st = "live" /\ State(sk, e).skb = sk /\ State(sk, e).error = e
  /\ \A s \in Slots : Unsaved[s] = NotSaved
BY DEF NotSaved, State, Unsaved

\* What SavedInv and SeqInv are about.
LEMMA FrameFrame ==
  ASSUME SavedInv, SeqInv,
         UNCHANGED <<cur, dirty, saved, rxd, hw, frag, skb, error, received, incomplete>>,
         InPoll' <=> InPoll, ppc' = "take" => ppc = "take",
         ppc' = "leave" => ppc = "leave", rpc' = "start" <=> rpc = "start"
  PROVE  SavedInv' /\ SeqInv'
BY DEF SavedInv, SeqInv, MidFrame

\* The engine writes a descriptor only where it has room.
LEMMA WriteRoom ==
  ASSUME IndexInv, OrderInv, NEW d, HwWrite(d)
  PROVE  Dist(dirty, hw) < N
<1>1. dirty \in Count /\ hw \in Count /\ Dist(dirty, hw) \in Nat /\ Dist(dirty, hw) <= N
  BY RxNumbers DEF IndexInv
<1> SUFFICES ASSUME Dist(dirty, hw) = N PROVE FALSE
  BY <1>1, RxSizes
<1>2. Inc(dirty, N) = hw
  BY <1>1, RxSizes DEF Inc, Dist, Count
<1>3. Slot(Inc(dirty, 0)) \in own /\ 0 \in Slots
  BY <1>1, <1>2, SlotWrap, RxOffsets DEF HwWrite
<1>4. N <= 0
  BY <1>3 DEF OrderInv
<1> QED
  BY <1>4, RxSizes

\* The engine writes the next descriptor of its frame.
LEMMA FrameWrite ==
  ASSUME TypeOK, IndexInv, OrderInv, SavedInv, SeqInv, NEW d \in Written, HwWrite(d)
  PROVE  SavedInv' /\ SeqInv'
<1> DEFINE D == Dist(dirty, cur)
           h == Dist(dirty, hw)
<1>1. /\ cur \in Count /\ dirty \in Count /\ hw \in Count /\ D \in Nat /\ h \in Nat
      /\ D <= h /\ h < N /\ h \in Slots /\ frag \in Nat
  BY RxOffsets, WriteRoom, RxSizes, RxConstants DEF IndexInv, Slots, TypeOK, RingTypes
<1>2. /\ rxd' = [rxd EXCEPT ![Slot(hw)] = d] /\ hw' = Inc(hw, 1)
      /\ frag' = IF d.last THEN 0 ELSE frag + 1
      /\ d.first <=> frag = 0
      /\ UNCHANGED <<cur, dirty, saved, skb, error, received, incomplete, ppc, rpc>>
  BY DEF HwWrite
<1>3. SavedInv'
  BY <1>2 DEF SavedInv, InPoll
<1>4. Slot(Inc(dirty, h)) = Slot(hw) /\ Slot(hw) \in Slots
  BY <1>1, SlotAt, SlotType
<1>5. Dist(dirty, hw') = h + 1
  BY <1>1, <1>2, DistFill, RxSizes
<1>6. /\ rxd'[Slot(Inc(dirty, h))] = d
      /\ \A k \in Slots : k # h => rxd'[Slot(Inc(dirty, k))] = rxd[Slot(Inc(dirty, k))]
  <2>1. rxd \in [Slots -> Written \cup {Blank}]
    BY DEF TypeOK, RingTypes
  <2>2. ASSUME NEW k \in Slots, k # h
        PROVE  rxd'[Slot(Inc(dirty, k))] = rxd[Slot(Inc(dirty, k))]
    <3>1. Slot(Inc(dirty, k)) # Slot(hw)
      BY <1>1, <2>2, SlotAt
    <3>2. Slot(Inc(dirty, k)) \in Slots
      BY <1>1, SlotType, CountArith, RxSizes, k \in 0..W DEF Slots
    <3> QED
      BY <1>2, <2>1, <3>1, <3>2
  <2> QED
    BY <1>2, <1>4, <2>1, <2>2
<1>7. SeqInv'
  <2>0. CASE rpc = "start"
    BY <1>2, <2>0 DEF SeqInv
  <2> SUFFICES ASSUME rpc # "start" PROVE SeqInv'
    BY <2>0
  <2>1. D \in Slots /\ Slot(Inc(dirty, D)) = Slot(cur) /\ (cur = hw <=> D = h)
    BY <1>1, RxOffsets, RxSizes
  <2>2. ASSUME NEW k \in Slots, D <= k, k + 1 < h + 1
        PROVE  rxd'[Slot(Inc(dirty, k + 1))].first <=> rxd'[Slot(Inc(dirty, k))].last
    <3>1. k \in Nat /\ k < h /\ k # h /\ k + 1 \in Slots
      BY <1>1, <2>2, RxSizes DEF Slots
    <3>2. rxd'[Slot(Inc(dirty, k))] = rxd[Slot(Inc(dirty, k))]
      BY <1>6, <3>1
    <3>3. CASE k + 1 < h
      <4>1. rxd'[Slot(Inc(dirty, k + 1))] = rxd[Slot(Inc(dirty, k + 1))]
        BY <1>1, <1>6, <3>1, <3>3
      <4> QED
        BY <2>2, <3>2, <3>3, <4>1 DEF SeqInv
    <3>4. CASE k + 1 = h
      <4>1. k = h - 1 /\ cur # hw
        BY <1>1, <2>1, <2>2, <3>1, <3>4
      <4>2. rxd[Slot(Inc(dirty, k))].last <=> frag = 0
        BY <4>1 DEF SeqInv
      <4> QED
        BY <1>2, <1>6, <3>2, <3>4, <4>2
    <3> QED
      BY <1>1, <3>1, <3>3, <3>4
  <2>3. cur # hw'
    <3>1. Dist(dirty, cur) # Dist(dirty, hw')
      BY <1>1, <1>5
    <3> QED
      BY <3>1
  <2>4. rxd'[Slot(cur)].first <=> ~MidFrame
    <3>1. CASE D = h
      BY <1>2, <1>6, <2>1, <3>1 DEF SeqInv
    <3>2. CASE D # h
      BY <1>6, <2>1, <3>2 DEF SeqInv
    <3> QED
      BY <3>1, <3>2
  <2>5. rxd'[Slot(Inc(dirty, h + 1 - 1))].last <=> frag' = 0
    <3>1. h + 1 - 1 = h
      BY <1>1
    <3>2. d.last <=> frag' = 0
      BY <1>1, <1>2
    <3> QED
      BY <1>6, <3>1, <3>2
  <2>6. MidFrame' <=> MidFrame
    BY <1>2 DEF MidFrame, InPoll
  <2>7. ASSUME NEW k \in Slots, Dist(dirty', cur') <= k, k + 1 < Dist(dirty', hw')
        PROVE  rxd'[Slot(Inc(dirty', k + 1))].first <=> rxd'[Slot(Inc(dirty', k))].last
    BY <1>2, <1>5, <2>2, <2>7
  <2>8. rxd'[Slot(Inc(dirty', Dist(dirty', hw') - 1))].last <=> frag' = 0
    <3>1. dirty' = dirty
      BY <1>2
    <3>2. Dist(dirty, hw') - 1 = h + 1 - 1
      BY <1>1, <1>5
    <3>3. rxd'[Slot(Inc(dirty, Dist(dirty, hw') - 1))].last <=> frag' = 0
      BY <2>5, <3>2, Zenon
    <3> QED
      BY <3>1, <3>3, Zenon
  <2>9. cur' # hw' /\ (rxd'[Slot(cur')].first <=> ~MidFrame')
    BY <1>2, <2>3, <2>4, <2>6
  <2> QED
    BY <2>7, <2>8, <2>9, Zenon DEF SeqInv
<1> QED
  BY <1>3, <1>7

\* mac_rx_poll is entered: it takes up the frame where it was left.
LEMMA FrameEnter ==
  ASSUME TypeOK, IndexInv, SavedInv, SeqInv, PollBegin \/ PollAgain
  PROVE  SavedInv' /\ SeqInv'
<1>1. /\ ~InPoll /\ PollEnter
      /\ UNCHANGED <<cur, dirty, saved, rxd, hw, frag, rpc>>
  BY DEF PollBegin, PollAgain, At, InPoll
<1>2. saved[Slot(cur)].st # "spent"
  BY StateFields DEF SavedInv
<1>3. /\ skb' = saved[Slot(cur)].skb /\ error' = saved[Slot(cur)].error
      /\ received' = FALSE /\ ppc' = AtRead(cur)
  BY <1>1, <1>2 DEF PollEnter
<1>4. ppc' \in {"refill", "take"} /\ (ppc' = "take" => Dist(dirty, cur) # N - 1)
  BY <1>3, RxSizes, RxNumbers DEF AtRead
<1>5. skb' \in {"null", "whole"}
  BY <1>3, StateFields DEF SavedInv
<1>6. SavedInv'
  BY <1>1, <1>3, <1>4, <1>5 DEF SavedInv, InPoll
<1>7. MidFrame' <=> MidFrame
  BY <1>1, <1>3, <1>4 DEF MidFrame, InPoll
<1>8. SeqInv'
  BY <1>1, <1>7 DEF SeqInv
<1> QED
  BY <1>6, <1>8

\* mac_rx_refresh gives a descriptor back: its entry is behind cur.
LEMMA FrameRefill ==
  ASSUME TypeOK, IndexInv, SavedInv, SeqInv, Refill
  PROVE  SavedInv' /\ SeqInv'
<1> DEFINE D == Dist(dirty, cur)
           h == Dist(dirty, hw)
<1>1. /\ cur \in Count /\ dirty \in Count /\ hw \in Count /\ D \in Nat /\ h \in Nat
      /\ D <= h /\ h <= N /\ Slot(dirty) \in Slots /\ Slot(cur) \in Slots
  BY RxOffsets, SlotType DEF IndexInv
<1>2. /\ saved' = [saved EXCEPT ![Slot(dirty)] = NotSaved]
      /\ rxd' = [rxd EXCEPT ![Slot(dirty)] = Blank]
      /\ dirty' = Inc(dirty, 1) /\ dirty # cur /\ ppc = "refill"
      /\ UNCHANGED <<cur, hw, frag, skb, error, received, incomplete, ppc, rpc>>
  BY DEF Refill, At
<1>3. D >= 1 /\ dirty # hw
  <2>1. D # 0
    BY <1>1, <1>2, RxSizes DEF Dist, Count
  <2>2. Dist(dirty, dirty) = 0
    BY <1>1 DEF Dist, Count
  <2> QED
    BY <1>1, <2>1, <2>2
<1>4. Dist(dirty', cur) = D - 1 /\ Dist(dirty', hw) = h - 1
  BY <1>1, <1>2, <1>3, DistReap
<1>5. ASSUME NEW k \in Slots, k + 1 < N
      PROVE  /\ Slot(Inc(dirty', k)) = Slot(Inc(dirty, k + 1)) /\ k + 1 \in Slots
             /\ saved'[Slot(Inc(dirty', k))] = saved[Slot(Inc(dirty, k + 1))]
             /\ rxd'[Slot(Inc(dirty', k))] = rxd[Slot(Inc(dirty, k + 1))]
  <2>1. /\ Slot(Inc(dirty', k)) = Slot(Inc(dirty, k + 1)) /\ k + 1 \in Slots
        /\ Slot(Inc(dirty', k)) # Slot(dirty)
    BY <1>1, <1>2, <1>5, SlotShift
  <2>2. Slot(Inc(dirty, k + 1)) \in Slots
    BY <1>1, <2>1, SlotType, CountArith, RxSizes, k + 1 \in 0..W DEF Slots
  <2> QED
    BY <1>2, <2>1, <2>2 DEF TypeOK, RingTypes
<1>6. ASSUME NEW k \in Slots, k + 1 = N
      PROVE  saved'[Slot(Inc(dirty', k))] = NotSaved
  <2>1. Slot(Inc(dirty', k)) = Slot(dirty)
    BY <1>1, <1>2, <1>6, SlotShift
  <2> QED
    BY <1>1, <1>2, <2>1 DEF TypeOK, RingTypes
<1>7. D < N => Slot(cur) # Slot(dirty)
  <2> SUFFICES ASSUME D < N PROVE Slot(cur) # Slot(dirty)
    OBVIOUS
  <2>1. D \in Slots /\ 0 \in Slots /\ Slot(Inc(dirty, 0)) = Slot(dirty)
        /\ Slot(Inc(dirty, D)) = Slot(cur)
    BY RxOffsets
  <2> QED
    BY <1>1, <1>3, <2>1, SlotInj
<1>8. saved'[Slot(cur)] = saved[Slot(cur)]
  <2>1. CASE D < N
    BY <1>1, <1>2, <1>7, <2>1 DEF TypeOK, RingTypes
  <2>2. CASE D = N
    <3>1. saved[Slot(cur)] = NotSaved /\ Slot(cur) = Slot(dirty)
      BY <2>2, RxOffsets DEF SavedInv
    <3> QED
      BY <1>1, <1>2, <3>1 DEF TypeOK, RingTypes
  <2> QED
    BY <1>1, <2>1, <2>2, RxSizes
<1>9. rpc # "start"
  BY <1>2 DEF IndexInv
<1>10. SavedInv'
  <2>1. ASSUME NEW k \in Slots, D - 1 < k PROVE saved'[Slot(Inc(dirty', k))] = NotSaved
    <3>1. CASE k + 1 < N
      <4>1. D < k + 1 /\ k + 1 \in Slots
        BY <1>1, <1>5, <2>1, <3>1 DEF Slots
      <4> QED
        BY <1>5, <3>1, <4>1 DEF SavedInv
    <3>2. CASE k + 1 = N
      BY <1>6, <3>2
    <3> QED
      BY <3>1, <3>2, RxSizes DEF Slots
  <2>2. D - 1 # N
    BY <1>1, RxSizes
  <2> QED
    BY <1>2, <1>4, <1>8, <1>9, <2>1, <2>2 DEF SavedInv, InPoll
<1>11. SeqInv'
  <2>1. ASSUME NEW k \in Slots, D - 1 <= k, k + 1 < h - 1
        PROVE  rxd'[Slot(Inc(dirty', k + 1))].first <=> rxd'[Slot(Inc(dirty', k))].last
    <3>1. /\ k + 1 \in Slots /\ k + 1 < N /\ k + 1 + 1 < N /\ D <= k + 1 /\ k + 1 + 1 < h
      BY <1>1, <2>1, RxSizes DEF Slots
    <3>2. /\ rxd'[Slot(Inc(dirty', k))] = rxd[Slot(Inc(dirty, k + 1))]
          /\ rxd'[Slot(Inc(dirty', k + 1))] = rxd[Slot(Inc(dirty, k + 1 + 1))]
      BY <1>5, <3>1
    <3> QED
      BY <1>9, <3>1, <3>2 DEF SeqInv
  <2>2. MidFrame' <=> MidFrame
    BY <1>2 DEF MidFrame, InPoll
  <2>3. ASSUME cur # hw
        PROVE  /\ rxd'[Slot(cur)] = rxd[Slot(cur)]
               /\ rxd'[Slot(Inc(dirty', h - 1 - 1))] = rxd[Slot(Inc(dirty, h - 1))]
    <3>1. D < h /\ D < N
      BY <1>1, <2>3, RxOffsets, RxSizes
    <3>2. rxd'[Slot(cur)] = rxd[Slot(cur)]
      BY <1>1, <1>2, <1>7, <3>1 DEF TypeOK, RingTypes
    <3>3. h - 1 - 1 \in Slots /\ h - 1 - 1 + 1 < N /\ h - 1 - 1 + 1 = h - 1
      BY <1>1, <1>3, <3>1, RxSizes DEF Slots
    <3> QED
      BY <1>5, <3>2, <3>3
  <2> QED
    BY <1>2, <1>4, <1>9, <2>1, <2>2, <2>3 DEF SeqInv
<1> QED
  BY <1>10, <1>11

\* mac_rx_refresh is over: an entry it could not fill holds no state.
LEMMA FrameRefillEnd ==
  ASSUME FailUpTo < N, TypeOK, IndexInv, SavedInv, SeqInv, NEW f \in BOOLEAN, RefillEnd(f)
  PROVE  SavedInv' /\ SeqInv'
<1> DEFINE D == Dist(dirty, cur)
<1>1. /\ cur \in Count /\ dirty \in Count /\ D \in Nat /\ D < N
      /\ Slot(dirty) \in Slots /\ Slot(cur) \in Slots
  BY RxOffsets, RefillEndRoom, SlotType DEF IndexInv
<1>2. /\ ppc = "refill" /\ ppc' = "take" /\ rpc # "start"
      /\ UNCHANGED <<cur, dirty, rxd, hw, frag, skb, error, received, incomplete, rpc>>
  BY DEF RefillEnd, At, IndexInv
<1>3. SeqInv'
  BY <1>2 DEF SeqInv, MidFrame, InPoll
<1>4. CASE f
  <2>1. saved' = [saved EXCEPT ![Slot(dirty)] = NotSaved] /\ dirty # cur
    BY <1>4 DEF RefillEnd
  <2>2. Slot(cur) # Slot(dirty)
    <3>1. D # 0
      BY <1>1, <2>1, RxSizes DEF Dist, Count
    <3>2. /\ D \in Slots /\ 0 \in Slots /\ Slot(Inc(dirty, 0)) = Slot(dirty)
          /\ Slot(Inc(dirty, D)) = Slot(cur)
      BY <1>1, RxOffsets
    <3> QED
      BY <1>1, <3>1, <3>2, SlotInj
  <2>3. saved'[Slot(cur)] = saved[Slot(cur)] /\ saved'[Slot(dirty)] = NotSaved
    BY <1>1, <2>1, <2>2 DEF TypeOK, RingTypes
  <2>4. ASSUME NEW k \in Slots, D < k PROVE saved'[Slot(Inc(dirty, k))] = NotSaved
    <3>1. saved[Slot(Inc(dirty, k))] = NotSaved
      BY <2>4 DEF SavedInv
    <3>2. Slot(Inc(dirty, k)) \in Slots
      BY <1>1, SlotType, CountArith, RxSizes, k \in 0..W DEF Slots
    <3> QED
      BY <1>1, <2>1, <3>1, <3>2 DEF TypeOK, RingTypes
  <2>5. SavedInv'
    BY <1>1, <1>2, <2>3, <2>4, RxSizes DEF SavedInv, InPoll
  <2> QED
    BY <1>3, <2>5
<1>5. CASE ~f
  <2>1. saved' = saved /\ dirty = cur
    BY <1>5 DEF RefillEnd
  <2>2. D = 0
    BY <1>1, <2>1 DEF Dist, Count
  <2>3. D # N - 1 /\ D # N
    BY <2>2, RxSizes
  <2>4. SavedInv'
    BY <1>2, <2>1, <2>3 DEF SavedInv, InPoll
  <2> QED
    BY <1>3, <2>4
<1> QED
  BY <1>4, <1>5

\* The descriptor about to be read, and what the invariants say of it.
LEMMA FrameHere ==
  ASSUME TypeOK, IndexInv, OrderInv, SavedInv, SeqInv, ppc = "take", Readable
  PROVE  /\ Dist(dirty, cur) < Dist(dirty, hw) /\ Dist(dirty, cur) < N /\ rpc # "start"
         /\ rxd[Slot(cur)].first <=> skb = "null" /\ ~error
<1> DEFINE D == Dist(dirty, cur)
           h == Dist(dirty, hw)
<1>1. D \in Nat /\ h \in Nat /\ D < N /\ rpc # "start"
  BY RxOffsets DEF IndexInv
<1>2. D \in Slots /\ Slot(Inc(dirty, D)) = Slot(cur)
  BY <1>1, RxOffsets
<1>3. D < h
  BY <1>1, <1>2 DEF OrderInv, Readable
<1>4. cur # hw
  BY <1>1, <1>3
<1> QED
  BY <1>1, <1>3, <1>4 DEF SeqInv, MidFrame, InPoll

\* A descriptor is read: the skb, or the error, says whether the frame goes on.
LEMMA FrameAdvance ==
  ASSUME TypeOK, IndexInv, OrderInv, SavedInv, SeqInv, Advance(rxd[Slot(cur)]),
         UNCHANGED <<dirty, rxd, hw, frag, rpc>>,
         skb' \in {"null", "whole"},
         rxd[Slot(cur)].last <=> skb' = "null" /\ ~error',
         \/ ppc' = AtRead(Inc(cur, 1))
         \/ ppc' = "leave" /\ rxd[Slot(cur)].last
  PROVE  SavedInv' /\ SeqInv'
<1> DEFINE D == Dist(dirty, cur)
           h == Dist(dirty, hw)
           d == rxd[Slot(cur)]
<1>1. /\ cur \in Count /\ dirty \in Count /\ hw \in Count /\ D \in Nat /\ h \in Nat
      /\ D < h /\ D < N /\ h <= N /\ rpc # "start" /\ Slot(cur) \in Slots
  BY RxOffsets, FrameHere, SlotType DEF IndexInv, Advance, At
<1>2. D \in Slots /\ Slot(Inc(dirty, D)) = Slot(cur) /\ Slot(Inc(dirty, 0)) = Slot(dirty)
      /\ 0 \in Slots
  BY <1>1, RxOffsets
<1>3. /\ ppc = "take" /\ cur' = Inc(cur, 1) /\ received' = TRUE /\ incomplete' = ~d.last
      /\ saved' = [saved EXCEPT ![Slot(cur)].st =
                     IF saved[Slot(cur)].st = "live" THEN "spent" ELSE saved[Slot(cur)].st]
  BY DEF Advance, At, TypeOK, RingTypes
<1>4. Dist(dirty, cur') = D + 1
  BY <1>1, <1>3, DistFill, RxSizes
<1>5. ASSUME NEW k \in Slots, k # D
      PROVE  saved'[Slot(Inc(dirty, k))] = saved[Slot(Inc(dirty, k))]
  <2>1. Slot(Inc(dirty, k)) # Slot(cur)
    BY <1>1, <1>2, <1>5, SlotInj
  <2>2. Slot(Inc(dirty, k)) \in Slots
    BY <1>1, SlotType, CountArith, RxSizes, k \in 0..W DEF Slots
  <2> QED
    BY <1>3, <2>1, <2>2 DEF TypeOK, RingTypes
<1>6. Slot(cur') = Slot(Inc(dirty, D + 1))
  <2>1. cur' = Inc(dirty, D + 1)
    BY <1>1, <1>3, RxSizes DEF Inc, Dist, Count
  <2> QED
    BY <2>1
<1>7. saved'[Slot(cur')] = NotSaved
  <2>1. CASE D + 1 < N
    <3>1. D + 1 \in Slots /\ D < D + 1 /\ D + 1 # D
      BY <1>1, <2>1, RxSizes DEF Slots
    <3> QED
      BY <1>5, <1>6, <3>1 DEF SavedInv
  <2>2. CASE D + 1 = N
    <3>1. Slot(cur') = Slot(dirty)
      BY <1>1, <1>6, <2>2, SlotWrap
    <3>2. D = N - 1 /\ 0 # D
      BY <1>1, <2>2, RxSizes
    <3>3. saved[Slot(dirty)] = NotSaved
      BY <1>3, <3>2 DEF SavedInv
    <3> QED
      BY <1>2, <1>5, <3>1, <3>2, <3>3
  <2> QED
    BY <1>1, <2>1, <2>2, RxSizes
<1>8. ppc' \in {"refill", "take", "leave"}
  BY DEF AtRead
<1>9. ppc' = "take" => Dist(dirty, cur') # N - 1
  <2> SUFFICES ASSUME ppc' = "take" PROVE Dist(dirty, cur') # N - 1
    OBVIOUS
  <2>1. AtRead(Inc(cur, 1)) = "take"
    OBVIOUS
  <2> QED
    BY <1>1, <1>3, <1>4, <2>1, RxSizes DEF AtRead
<1>10. incomplete' <=> skb' # "null" \/ error'
  BY <1>3
<1>11. ppc' = "leave" => ~incomplete'
  BY <1>3 DEF AtRead
<1>12. ASSUME NEW k \in Slots, D + 1 < k PROVE saved'[Slot(Inc(dirty, k))] = NotSaved
  <2>1. D < k /\ k # D
    BY <1>1, <1>12 DEF Slots
  <2> QED
    BY <1>5, <2>1 DEF SavedInv
<1>13. SavedInv'
  <2>1. InPoll' /\ received' /\ dirty' = dirty /\ rpc' = rpc
    BY <1>3, <1>8 DEF InPoll
  <2> QED
    BY <1>1, <1>4, <1>7, <1>9, <1>10, <1>11, <1>12, <2>1 DEF SavedInv
<1>14. MidFrame' <=> ~d.last
  BY <1>8 DEF MidFrame, InPoll
<1>15. SeqInv'
  <2>1. ASSUME NEW k \in Slots, D + 1 <= k, k + 1 < h
        PROVE  rxd[Slot(Inc(dirty, k + 1))].first <=> rxd[Slot(Inc(dirty, k))].last
    BY <1>1, <2>1 DEF SeqInv, Slots
  <2>2. cur # hw
    BY <1>1
  <2>3. rxd[Slot(Inc(dirty, h - 1))].last <=> frag = 0
    BY <1>1, <2>2 DEF SeqInv
  <2>4. cur' = hw <=> D + 1 = h
    <3>1. Inc(cur, 1) \in Count
      BY RxNumbers
    <3>2. \A a, b, e \in Count : Dist(a, b) = Dist(a, e) => b = e
      BY RxSizes DEF Dist, Count
    <3>3. D + 1 = h => cur' = hw
      BY <1>1, <1>3, <1>4, <3>1, <3>2
    <3>4. cur' = hw => D + 1 = h
      BY <1>4
    <3> QED
      BY <3>3, <3>4
  <2>5. ASSUME D + 1 = h PROVE frag = 0 <=> d.last
    <3>1. h - 1 = D
      BY <1>1, <2>5
    <3> QED
      BY <1>2, <2>3, <3>1
  <2>6. ASSUME D + 1 # h PROVE rxd[Slot(cur')].first <=> d.last
    <3>1. D <= D /\ D + 1 < h
      BY <1>1, <2>6
    <3>2. rxd[Slot(Inc(dirty, D + 1))].first <=> rxd[Slot(Inc(dirty, D))].last
      BY <1>1, <1>2, <3>1 DEF SeqInv
    <3> QED
      BY <1>2, <1>6, <3>2
  <2> HIDE DEF D, h, d
  <2>7. cur' = hw => (frag = 0 <=> ~MidFrame')
    BY <1>14, <2>4, <2>5, Zenon
  <2>8. cur' # hw => (rxd[Slot(cur')].first <=> ~MidFrame')
    BY <1>14, <2>4, <2>6, Zenon
  <2> USE DEF D, h
  <2>9. ASSUME NEW k \in Slots, Dist(dirty, cur') <= k, k + 1 < Dist(dirty, hw)
        PROVE  rxd[Slot(Inc(dirty, k + 1))].first <=> rxd[Slot(Inc(dirty, k))].last
    BY <1>4, <2>1, <2>9
  <2> QED
    BY <2>3, <2>7, <2>8, <2>9 DEF SeqInv
<1> QED
  BY <1>13, <1>15

\* Every way of reading a descriptor.
LEMMA FrameTakes ==
  ASSUME TypeOK, IndexInv, OrderInv, SavedInv, SeqInv,
         TakeError \/ \E made \in BOOLEAN : TakeMore(made) \/ TakeLast(made)
  PROVE  SavedInv' /\ SeqInv'
<1> DEFINE d == rxd[Slot(cur)]
<1>1. CASE TakeError \/ \E made \in BOOLEAN : TakeLast(made)
  <2>1. /\ Advance(d) /\ d.last /\ skb' = "null" /\ ~error'
        /\ UNCHANGED <<dirty, rxd, hw, frag, rpc>>
        /\ ppc' \in {AtRead(Inc(cur, 1)), "leave"}
    BY <1>1 DEF TakeError, TakeLast, NextPacket
  <2> QED
    BY <2>1, FrameAdvance
<1>2. ASSUME NEW made \in BOOLEAN, TakeMore(made) PROVE SavedInv' /\ SeqInv'
  <2>1. /\ Advance(d) /\ ~d.last /\ UNCHANGED <<dirty, rxd, hw, frag, rpc>>
        /\ ppc' = AtRead(Inc(cur, 1)) /\ ppc = "take" /\ Readable
    BY <1>2 DEF TakeMore, Advance, At
  <2>2. d \in Written \cup {Blank}
    BY SlotType DEF TypeOK, RingTypes
  <2>3. d.first <=> skb = "null" /\ ~error
    BY <2>1, FrameHere
  <2>4. CASE error
    <3>1. skb' = skb /\ error'
      BY <1>2, <2>4 DEF TakeMore
    <3> QED
      BY <2>1, <3>1, FrameAdvance DEF SavedInv
  <2>5. CASE ~error /\ ~made
    <3>1. skb' = skb /\ error'
      BY <1>2, <2>5 DEF TakeMore
    <3> QED
      BY <2>1, <3>1, FrameAdvance DEF SavedInv
  <2>6. CASE ~error /\ made
    <3>1. CASE d = Blank
      <4>1. ~d.first /\ ~d.data
        BY <3>1 DEF Blank
      <4>2. skb' = skb /\ skb # "null"
        BY <1>2, <2>3, <2>6, <4>1 DEF TakeMore
      <4> QED
        BY <2>1, <4>2, FrameAdvance DEF SavedInv
    <3>2. CASE d \in Written
      <4>1. d.data
        BY <2>1, <3>2 DEF Written
      <4>2. skb' = WithFragment(d)
        BY <1>2, <2>6, <4>1 DEF TakeMore
      <4>3. skb' = "whole"
        BY <2>3, <2>6, <4>2 DEF WithFragment, SavedInv
      <4> QED
        BY <2>1, <4>3, FrameAdvance
    <3> QED
      BY <2>2, <3>1, <3>2
  <2> QED
    BY <2>4, <2>5, <2>6
<1> QED
  BY <1>1, <1>2

\* mac_rx_poll is left: a frame that goes on is saved in the entry at cur.
LEMMA FrameLeave ==
  ASSUME TypeOK, IndexInv, SavedInv, SeqInv, Leave
  PROVE  SavedInv' /\ SeqInv'
<1> DEFINE D == Dist(dirty, cur)
           c == saved[Slot(cur)]
<1>1. /\ cur \in Count /\ dirty \in Count /\ D \in Nat /\ D <= N /\ Slot(cur) \in Slots
      /\ rpc # "start"
  BY RxOffsets, SlotType, RxSizes DEF IndexInv, Leave, At
<1>2. /\ ppc = "leave" /\ ppc' \in {"over", "done", "again"}
      /\ skb' = "null" /\ ~error' /\ ~received' /\ ~incomplete'
      /\ UNCHANGED <<cur, dirty, rxd, hw, frag, rpc>>
  BY DEF Leave, At
<1>3. CASE received /\ incomplete
  <2>1. saved' = [saved EXCEPT ![Slot(cur)] = State(skb, error)]
    BY <1>3 DEF Leave
  <2>2. saved'[Slot(cur)] = State(skb, error)
    BY <1>1, <2>1 DEF TypeOK, RingTypes
  <2>3. D < N
    BY <1>1, <1>2, <1>3, RxSizes DEF SavedInv
  <2>4. ASSUME NEW k \in Slots, D < k PROVE saved'[Slot(Inc(dirty, k))] = NotSaved
    <3>1. saved[Slot(Inc(dirty, k))] = NotSaved
      BY <2>4 DEF SavedInv
    <3>2. Slot(Inc(dirty, k)) \in Slots
      BY <1>1, SlotType, CountArith, RxSizes, k \in 0..W DEF Slots
    <3>3. Slot(Inc(dirty, k)) # Slot(cur)
      BY <1>1, <2>3, <2>4, SlotAt
    <3> QED
      BY <2>1, <3>1, <3>2, <3>3 DEF TypeOK, RingTypes
  <2>5. /\ State(skb, error).st = "live" /\ State(skb, error).skb = skb
        /\ State(skb, error).error = error
    BY StateFields
  <2>6. SavedInv'
    BY <1>1, <1>2, <2>2, <2>3, <2>4, <2>5, RxSizes DEF SavedInv, InPoll
  <2>7. MidFrame' <=> MidFrame
    BY <1>2, <2>2, <2>5 DEF MidFrame, InPoll
  <2> QED
    BY <1>2, <2>6, <2>7 DEF SeqInv
<1>4. CASE ~(received /\ incomplete)
  <2>1. saved' = saved
    BY <1>4 DEF Leave
  <2>2. SavedInv'
    BY <1>1, <1>2, <2>1 DEF SavedInv, InPoll
  <2>3. MidFrame' <=> MidFrame
    <3>1. MidFrame' <=> c.skb # "null" \/ c.error
      BY <1>2, <2>1 DEF MidFrame, InPoll
    <3>2. MidFrame <=> skb # "null" \/ error
      BY <1>2 DEF MidFrame, InPoll
    <3>3. CASE received
      BY <1>2, <1>4, <3>1, <3>2, <3>3, StateFields DEF SavedInv, InPoll
    <3>4. CASE ~received
      BY <1>2, <3>1, <3>2, <3>4 DEF SavedInv, InPoll
    <3> QED
      BY <3>3, <3>4
  <2> QED
    BY <1>2, <2>2, <2>3 DEF SeqInv
<1> QED
  BY <1>3, <1>4

\* A restart drops the frames, and the state of the one that was half read.
LEMMA FrameRestart ==
  ASSUME TypeOK, IndexInv, SavedInv, SeqInv, Restart
  PROVE  SavedInv' /\ SeqInv'
<1>1. CASE DisableRx \/ FreeIrqs \/ DisableNapi
  <2>1. /\ UNCHANGED <<cur, dirty, saved, rxd, hw, frag, skb, error, received, incomplete, ppc>>
        /\ rpc # "start" /\ rpc' # "start"
    BY <1>1 DEF DisableRx, FreeIrqs, DisableNapi
  <2> QED
    BY <2>1, FrameFrame DEF InPoll
<1>3. ASSUME NEW a \in Count, NEW k \in Slots PROVE Slot(Inc(a, k)) \in Slots
  BY SlotType, CountArith, RxSizes, k \in 0..W DEF Slots
<1>4. CASE FreeRxData
  <2>1. /\ ppc = "off" /\ Slot(cur) \in Slots /\ dirty \in Count /\ saved' = Unsaved
        /\ UNCHANGED <<cur, dirty, skb, error, received, incomplete, ppc>> /\ rpc' = "start"
    BY <1>4, SlotType DEF FreeRxData, IndexInv
  <2>2. saved'[Slot(cur)] = NotSaved
    BY <2>1, StateFields
  <2>3. \A k \in Slots : saved'[Slot(Inc(dirty, k))] = NotSaved
    BY <1>3, <2>1, StateFields
  <2>4. SavedInv'
    BY <2>1, <2>2, <2>3 DEF SavedInv, InPoll
  <2> QED
    BY <2>1, <2>4 DEF SeqInv
<1>5. CASE \E j \in 0..N : StartDev(j)
  <2>1. /\ ppc = "off" /\ saved = Unsaved /\ cur' = 0 /\ dirty' = 0 /\ hw' = 0 /\ frag' = 0
        /\ UNCHANGED <<saved, skb, error, received, incomplete, ppc>> /\ rpc' = "run"
    BY <1>5 DEF StartDev, DeviceOn, IndexInv, SavedInv
  <2>2. Dist(0, 0) = 0 /\ 0 \in Count /\ Slot(0) \in Slots /\ 0 # N
    BY SlotType, RxSizes DEF Dist, Count
  <2>3. saved[Slot(0)] = NotSaved /\ \A k \in Slots : saved[Slot(Inc(0, k))] = NotSaved
    BY <1>3, <2>1, <2>2, StateFields
  <2>4. SavedInv'
    BY <2>1, <2>2, <2>3 DEF SavedInv, InPoll
  <2>5. ~MidFrame'
    BY <2>1, <2>3, StateFields DEF MidFrame, InPoll
  <2>6. ASSUME NEW k \in Slots, k + 1 < 0 PROVE FALSE
    BY <2>6, RxSizes DEF Slots
  <2> QED
    BY <2>1, <2>2, <2>4, <2>5, <2>6 DEF SeqInv
<1> QED
  BY <1>1, <1>4, <1>5 DEF Restart

\* Every step.
LEMMA FrameNext ==
  ASSUME FailUpTo < N, TypeOK, IndexInv, OrderInv, SavedInv, SeqInv, [Next]_vars
  PROVE  SavedInv' /\ SeqInv'
<1>1. CASE HwSuspend \/ HwWatchdog \/ Irqs \/ UNCHANGED vars
  <2>1. UNCHANGED <<cur, dirty, saved, rxd, hw, frag, skb, error, received, incomplete, ppc, rpc>>
    BY <1>1 DEF HwSuspend, HwWatchdog, Irqs, IsrRead, IsrAck, WantRestart, OtherSchedule, vars
  <2> QED
    BY <2>1, FrameFrame DEF InPoll
<1>2. CASE PollOver \/ PollComplete
  <2>1. /\ UNCHANGED <<cur, dirty, saved, rxd, hw, frag, skb, error, received, incomplete, rpc>>
        /\ ppc \in {"over", "done"} /\ ppc' = "off"
    BY <1>2 DEF PollOver, PollComplete, At
  <2> QED
    BY <2>1, FrameFrame DEF InPoll
<1>3. CASE TakeNone
  <2>1. /\ UNCHANGED <<cur, dirty, saved, rxd, hw, frag, skb, error, received, incomplete, rpc>>
        /\ ppc = "take" /\ ppc' = "leave" /\ Dist(dirty, cur) # N
    BY <1>3, RxOffsets, RxSizes DEF TakeNone, At, IndexInv
  <2>2. SavedInv'
    BY <2>1 DEF SavedInv, InPoll
  <2> QED
    BY <2>1, <2>2 DEF SeqInv, MidFrame, InPoll
<1>4. CASE Poll
  BY <1>2, <1>3, <1>4, FrameEnter, FrameRefill, FrameRefillEnd, FrameTakes, FrameLeave DEF Poll, Take
<1> QED
  BY <1>1, <1>4, FrameWrite, FrameRestart DEF Next, Device

\* An skb is never torn between two frames nor used after it was given away, and the
\* descriptor about to be read begins a frame exactly when no skb is in hand, for
\* every ring size, frame size, budget and refill threshold: also when mac_rx_poll
\* leaves a frame half read and cur comes round the ring to an entry that held a
\* state; as long as mac_map_rx_buffer does not fail when the whole ring is dirty.
THEOREM RxFrames ==
  ASSUME FailUpTo < N
  PROVE  Spec => []FrameInv
<1>1. Init => IndexInv /\ OrderInv
  BY OrderInit
<1>2. Init => SavedInv /\ SeqInv
  <2> SUFFICES ASSUME Init PROVE SavedInv /\ SeqInv
    OBVIOUS
  <2>1. /\ cur = 0 /\ dirty = 0 /\ hw = 0 /\ frag = 0 /\ saved = Unsaved /\ ppc = "off"
        /\ skb = "null" /\ ~error /\ ~received /\ ~incomplete /\ rpc = "run"
    BY DEF Init
  <2>2. Dist(0, 0) = 0 /\ 0 \in Count /\ Slot(0) \in Slots /\ 0 # N
    BY SlotType, RxSizes DEF Dist, Count
  <2>3. ASSUME NEW k \in Slots PROVE Slot(Inc(0, k)) \in Slots /\ ~(k + 1 < 0)
    BY <2>2, SlotType, CountArith, RxSizes, k \in 0..W DEF Slots
  <2>4. saved[Slot(0)] = NotSaved /\ \A k \in Slots : saved[Slot(Inc(0, k))] = NotSaved
    BY <2>1, <2>2, <2>3, StateFields
  <2>5. SavedInv
    BY <2>1, <2>2, <2>4 DEF SavedInv, InPoll
  <2>6. ~MidFrame
    BY <2>1, <2>4, StateFields DEF MidFrame, InPoll
  <2> QED
    BY <2>1, <2>2, <2>3, <2>5, <2>6 DEF SeqInv
<1>3. IndexInv /\ OrderInv /\ [Next]_vars => (IndexInv /\ OrderInv)'
  BY OrderNext
<1>4. TypeOK /\ IndexInv /\ OrderInv /\ SavedInv /\ SeqInv /\ [Next]_vars => SavedInv' /\ SeqInv'
  BY FrameNext
<1>5. TypeOK /\ IndexInv /\ OrderInv /\ SavedInv /\ SeqInv => FrameInv
  BY FrameHere DEF FrameInv, WholeFrames, SavedInv
<1> QED
  BY <1>1, <1>2, <1>3, <1>4, <1>5, RxTypes, PTL DEF Spec
=============================================================================
