----------------------------- MODULE MacTxProof -----------------------------
(***************************************************************************)
(* Theorems about the transmit ring, for every ring size, packet size and  *)
(* counter width that TxConstants admits.                                  *)
(***************************************************************************)
EXTENDS MacTx, RingProof, FiniteSetTheorems, TLAPS

\* The sizes are naturals, in the order the code needs.
LEMMA Sizes ==
  /\ N \in Nat /\ N >= 1
  /\ W \in Nat /\ W >= 2 * N
  /\ MaxDesc \in Nat /\ 1 <= MaxDesc /\ MaxDesc <= MinFree
  /\ MinFree \in Nat /\ MinFree < N
  /\ MaxProc \in Nat
BY RingSizes, TxConstants

\* The slots of a packet are slots.
LEMMA RegionType ==
  ASSUME NEW a \in Count, NEW n \in 0..MaxDesc
  PROVE  /\ Region(a, n) \subseteq Slots
         /\ n >= 1 => Slot(Inc(a, n - 1)) \in Slots
<1>1. ASSUME NEW k \in 0..MaxDesc PROVE Slot(Inc(a, k)) \in Slots
  BY Sizes, SlotType, CountArith, k \in 0..W
<1> QED
  BY <1>1, Sizes DEF Region

\* The free count is what is not in use, as long as the ring is not overrun.
LEMMA AvailExact ==
  ASSUME cur \in Count, dirty \in Count, Dist(dirty, cur) <= N
  PROVE  mac_tx_avail_desc = N - Dist(dirty, cur)
BY Sizes, CountArith DEF mac_tx_avail_desc, Count, Dist
-----------------------------------------------------------------------------
(* Types.                                                                  *)

USE DEF ring, dev, txq, timer, irq, napis, polls, xmits, restart

\* Every step keeps the ring, the counters and the step of each activity in type.
LEMMA DataStep == TypeOK /\ [Next]_vars => DataTypes'
<1> SUFFICES ASSUME TypeOK, [Next]_vars PROVE DataTypes'
  OBVIOUS
<1> USE Sizes
<1>1. ASSUME Xmit PROVE DataTypes'
  <2>1. ASSUME NEW j \in 0..(MaxDesc - 1), XmitGiveUp(j) PROVE DataTypes'
    <3>1. Region(cur, j) \subseteq Slots
      BY <2>1, RegionType DEF TypeOK, DataTypes
    <3> QED
      BY <2>1, <3>1 DEF XmitGiveUp, TypeOK, DataTypes
  <2>2. CASE XmitBusy
    BY <2>2 DEF XmitBusy, TypeOK, DataTypes, XSteps
  <2>3. ASSUME NEW n \in 1..MaxDesc, NEW m \in BOOLEAN, XmitFill(n, m) PROVE DataTypes'
    <3>1. Region(cur, n) \subseteq Slots /\ Slot(Inc(cur, n - 1)) \in Slots
      BY <2>3, RegionType DEF TypeOK, DataTypes
    <3> QED
      BY <2>3, <3>1 DEF XmitFill, TypeOK, DataTypes, XSteps
  <2>4. CASE XmitOwn
    BY <2>4, SlotType DEF XmitOwn, TypeOK, DataTypes, XSteps
  <2>5. CASE XmitCur
    <3>1. cur' \in Count
      BY <2>5, CountArith, xn \in 0..W DEF XmitCur, TypeOK, DataTypes
    <3> QED
      BY <2>5, <3>1 DEF XmitCur, TypeOK, DataTypes, XSteps, Count
  <2>6. CASE XmitKick
    BY <2>6 DEF XmitKick, mac_tx_start_xmit, TypeOK, DataTypes, XSteps
  <2>7. CASE XmitCheck
    BY <2>7 DEF XmitCheck, TypeOK, DataTypes, XSteps
  <2>8. CASE XmitStop
    BY <2>8 DEF XmitStop, TypeOK, DataTypes, XSteps
  <2>9. CASE XmitFlag
    BY <2>9 DEF XmitFlag, mac_tx_start_xmit, TypeOK, DataTypes, XSteps
  <2> QED
    BY <1>1, <2>1, <2>2, <2>3, <2>4, <2>5, <2>6, <2>7, <2>8, <2>9 DEF Xmit
<1>2. ASSUME Device PROVE DataTypes'
  <2>1. CASE HwComplete
    <3>1. hw' \in Count
      BY <2>1, CountArith, 1 \in 0..W DEF HwComplete, TypeOK, DataTypes
    <3> QED
      BY <2>1, <3>1 DEF HwComplete, TypeOK, DataTypes
  <2>2. CASE HwSuspend
    BY <2>2 DEF HwSuspend, TypeOK, DataTypes
  <2> QED
    BY <1>2, <2>1, <2>2 DEF Device
<1>3. ASSUME Irqs PROVE DataTypes'
  <2>1. CASE IsrRead
    BY <2>1 DEF IsrRead, NapiSchedule, TypeOK, DataTypes
  <2>2. CASE IsrAck
    BY <2>2 DEF IsrAck, TypeOK, DataTypes
  <2>3. CASE FatalBusError
    BY <2>3 DEF FatalBusError, TypeOK, DataTypes
  <2>4. CASE TimerFire
    BY <2>4 DEF TimerFire, NapiSchedule, TypeOK, DataTypes
  <2>5. CASE TimerEnd
    BY <2>5 DEF TimerEnd, TypeOK, DataTypes
  <2> QED
    BY <1>3, <2>1, <2>2, <2>3, <2>4, <2>5 DEF Irqs
<1>4. ASSUME Poll PROVE DataTypes'
  <2>1. CASE PollBegin
    BY <2>1 DEF PollBegin, TypeOK, DataTypes, PSteps, Count
  <2>2. CASE PollReap
    <3>1. dirty' \in Count
      BY <2>2, CountArith, 1 \in 0..W DEF PollReap, TypeOK, DataTypes
    <3> QED
      BY <2>2, <3>1 DEF PollReap, TypeOK, DataTypes, PSteps, Count
  <2>3. CASE PollEnd
    BY <2>3 DEF PollEnd, TypeOK, DataTypes, PSteps, Count
  <2>4. CASE PollWake
    BY <2>4 DEF PollWake, TypeOK, DataTypes, PSteps, Count
  <2>5. CASE PollAgain
    BY <2>5 DEF PollAgain, TypeOK, DataTypes, PSteps, Count
  <2>6. CASE PollComplete
    BY <2>6 DEF PollComplete, TypeOK, DataTypes, PSteps, Count
  <2> QED
    BY <1>4, <2>1, <2>2, <2>3, <2>4, <2>5, <2>6 DEF Poll
<1>5. ASSUME Restart PROVE DataTypes'
  <2>1. CASE TxTimeout
    BY <2>1 DEF TxTimeout, TypeOK, DataTypes, RSteps, Count
  <2>2. CASE StopQueues
    BY <2>2 DEF StopQueues, TypeOK, DataTypes, RSteps, Count
  <2>3. CASE StopTimers
    BY <2>3 DEF StopTimers, TypeOK, DataTypes, RSteps, Count
  <2>4. CASE DisableTx
    BY <2>4 DEF DisableTx, TypeOK, DataTypes, RSteps, Count
  <2>5. CASE FreeIrqs
    BY <2>5 DEF FreeIrqs, TypeOK, DataTypes, RSteps, Count
  <2>6. CASE DisableNapi
    BY <2>6 DEF DisableNapi, TypeOK, DataTypes, RSteps, Count
  <2>7. CASE FreeTxData
    BY <2>7 DEF FreeTxData, TypeOK, DataTypes, RSteps, Count
  <2>8. ASSUME NEW ok \in BOOLEAN, StartDev(ok) PROVE DataTypes'
    BY <2>8 DEF StartDev, TypeOK, DataTypes, RSteps, Count
  <2> QED
    BY <1>5, <2>1, <2>2, <2>3, <2>4, <2>5, <2>6, <2>7, <2>8 DEF Restart
<1>6. CASE UNCHANGED vars
  BY <1>6 DEF vars, TypeOK, DataTypes
<1> QED
  BY <1>1, <1>2, <1>3, <1>4, <1>5, <1>6 DEF Next

\* Every step keeps the flags Boolean.
LEMMA FlagStep == TypeOK /\ [Next]_vars => FlagTypes'
<1> SUFFICES ASSUME TypeOK, [Next]_vars PROVE FlagTypes'
  OBVIOUS
<1>1. ASSUME Xmit PROVE FlagTypes'
  <2>1. ASSUME NEW j \in 0..(MaxDesc - 1), XmitGiveUp(j) PROVE FlagTypes'
    BY <2>1 DEF XmitGiveUp, TypeOK, FlagTypes
  <2>2. CASE XmitBusy
    <3>1. more' \in BOOLEAN
      BY <2>2, ZenonT(30) DEF XmitBusy, TypeOK, FlagTypes
    <3> QED
      BY <2>2, <3>1 DEF XmitBusy, TypeOK, FlagTypes
  <2>3. ASSUME NEW n \in 1..MaxDesc, NEW m \in BOOLEAN, XmitFill(n, m) PROVE FlagTypes'
    <3>1. more' \in BOOLEAN
      BY <2>3, ZenonT(30) DEF XmitFill, TypeOK, FlagTypes
    <3> QED
      BY <2>3, <3>1 DEF XmitFill, TypeOK, FlagTypes
  <2>4. CASE XmitOwn
    BY <2>4 DEF XmitOwn, TypeOK, FlagTypes
  <2>5. CASE XmitCur
    <3>1. xmit_more' \in BOOLEAN
      BY <2>5, ZenonT(30) DEF XmitCur, TypeOK, FlagTypes
    <3> QED
      BY <2>5, <3>1 DEF XmitCur, TypeOK, FlagTypes
  <2>6. CASE XmitKick
    <3>1. /\ running' \in BOOLEAN /\ tx_timer' \in BOOLEAN
          /\ tx_timer_active' \in BOOLEAN /\ xmit_more' \in BOOLEAN
      BY <2>6, ZenonT(30) DEF XmitKick, mac_tx_start_xmit, TypeOK, FlagTypes
    <3> QED
      BY <2>6, <3>1 DEF XmitKick, mac_tx_start_xmit, TypeOK, FlagTypes
  <2>7. CASE XmitCheck
    <3>1. promised' \in BOOLEAN /\ more' \in BOOLEAN
      BY <2>7, ZenonT(30) DEF XmitCheck, TypeOK, FlagTypes
    <3> QED
      BY <2>7, <3>1 DEF XmitCheck, TypeOK, FlagTypes
  <2>8. CASE XmitStop
    <3>1. stopped' \in BOOLEAN
      BY <2>8, ZenonT(30) DEF XmitStop, TypeOK, FlagTypes
    <3> QED
      BY <2>8, <3>1 DEF XmitStop, TypeOK, FlagTypes
  <2>9. CASE XmitFlag
    <3>1. /\ queue_stopped' \in BOOLEAN /\ running' \in BOOLEAN /\ tx_timer' \in BOOLEAN
          /\ tx_timer_active' \in BOOLEAN /\ xmit_more' \in BOOLEAN /\ promised' \in BOOLEAN
      BY <2>9, ZenonT(30) DEF XmitFlag, mac_tx_start_xmit, TypeOK, FlagTypes
    <3> QED
      BY <2>9, <3>1 DEF XmitFlag, mac_tx_start_xmit, TypeOK, FlagTypes
  <2> QED
    BY <1>1, <2>1, <2>2, <2>3, <2>4, <2>5, <2>6, <2>7, <2>8, <2>9 DEF Xmit
<1>2. ASSUME Device PROVE FlagTypes'
  <2>1. CASE HwComplete
    <3>1. ti' \in BOOLEAN
      BY <2>1, ZenonT(30) DEF HwComplete, TypeOK, FlagTypes
    <3> QED
      BY <2>1, <3>1 DEF HwComplete, TypeOK, FlagTypes
  <2>2. CASE HwSuspend
    <3>1. running' \in BOOLEAN
      BY <2>2, ZenonT(30) DEF HwSuspend, TypeOK, FlagTypes
    <3> QED
      BY <2>2, <3>1 DEF HwSuspend, TypeOK, FlagTypes
  <2> QED
    BY <1>2, <2>1, <2>2 DEF Device
<1>3. ASSUME Irqs PROVE FlagTypes'
  <2>1. CASE IsrRead
    <3>1. sched' \in BOOLEAN /\ missed' \in BOOLEAN
      BY <2>1, ZenonT(30) DEF IsrRead, NapiSchedule, TypeOK, FlagTypes
    <3> QED
      BY <2>1, <3>1 DEF IsrRead, NapiSchedule, TypeOK, FlagTypes
  <2>2. CASE IsrAck
    <3>1. ti' \in BOOLEAN
      BY <2>2, ZenonT(30) DEF IsrAck, TypeOK, FlagTypes
    <3> QED
      BY <2>2, <3>1 DEF IsrAck, TypeOK, FlagTypes
  <2>3. CASE FatalBusError
    <3>1. work' \in BOOLEAN
      BY <2>3, ZenonT(30) DEF FatalBusError, TypeOK, FlagTypes
    <3> QED
      BY <2>3, <3>1 DEF FatalBusError, TypeOK, FlagTypes
  <2>4. CASE TimerFire
    <3>1. tx_timer' \in BOOLEAN /\ sched' \in BOOLEAN /\ missed' \in BOOLEAN
      BY <2>4, ZenonT(30) DEF TimerFire, NapiSchedule, TypeOK, FlagTypes
    <3> QED
      BY <2>4, <3>1 DEF TimerFire, NapiSchedule, TypeOK, FlagTypes
  <2>5. CASE TimerEnd
    <3>1. tx_timer_active' \in BOOLEAN
      BY <2>5, ZenonT(30) DEF TimerEnd, TypeOK, FlagTypes
    <3> QED
      BY <2>5, <3>1 DEF TimerEnd, TypeOK, FlagTypes
  <2> QED
    BY <1>3, <2>1, <2>2, <2>3, <2>4, <2>5 DEF Irqs
<1>4. ASSUME Poll PROVE FlagTypes'
  <2>1. CASE PollBegin
    BY <2>1 DEF PollBegin, TypeOK, FlagTypes
  <2>2. CASE PollReap
    BY <2>2 DEF PollReap, TypeOK, FlagTypes
  <2>3. CASE PollEnd
    <3>1. queue_stopped' \in BOOLEAN
      BY <2>3, ZenonT(30) DEF PollEnd, TypeOK, FlagTypes
    <3> QED
      BY <2>3, <3>1 DEF PollEnd, TypeOK, FlagTypes
  <2>4. CASE PollWake
    <3>1. stopped' \in BOOLEAN
      BY <2>4, ZenonT(30) DEF PollWake, TypeOK, FlagTypes
    <3> QED
      BY <2>4, <3>1 DEF PollWake, TypeOK, FlagTypes
  <2>5. CASE PollAgain
    BY <2>5 DEF PollAgain, TypeOK, FlagTypes
  <2>6. CASE PollComplete
    <3>1. sched' \in BOOLEAN /\ missed' \in BOOLEAN
      BY <2>6, ZenonT(30) DEF PollComplete, TypeOK, FlagTypes
    <3> QED
      BY <2>6, <3>1 DEF PollComplete, TypeOK, FlagTypes
  <2> QED
    BY <1>4, <2>1, <2>2, <2>3, <2>4, <2>5, <2>6 DEF Poll
<1>5. ASSUME Restart PROVE FlagTypes'
  <2>1. CASE TxTimeout
    <3>1. work' \in BOOLEAN
      BY <2>1, ZenonT(30) DEF TxTimeout, TypeOK, FlagTypes
    <3> QED
      BY <2>1, <3>1 DEF TxTimeout, TypeOK, FlagTypes
  <2>2. CASE StopQueues
    <3>1. work' \in BOOLEAN /\ stopped' \in BOOLEAN
      BY <2>2, ZenonT(30) DEF StopQueues, TypeOK, FlagTypes
    <3> QED
      BY <2>2, <3>1 DEF StopQueues, TypeOK, FlagTypes
  <2>3. CASE StopTimers
    <3>1. tx_timer' \in BOOLEAN
      BY <2>3, ZenonT(30) DEF StopTimers, TypeOK, FlagTypes
    <3> QED
      BY <2>3, <3>1 DEF StopTimers, TypeOK, FlagTypes
  <2>4. CASE DisableTx
    <3>1. te' \in BOOLEAN /\ running' \in BOOLEAN
      BY <2>4, ZenonT(30) DEF DisableTx, TypeOK, FlagTypes
    <3> QED
      BY <2>4, <3>1 DEF DisableTx, TypeOK, FlagTypes
  <2>5. CASE FreeIrqs
    <3>1. irqs' \in BOOLEAN
      BY <2>5, ZenonT(30) DEF FreeIrqs, TypeOK, FlagTypes
    <3> QED
      BY <2>5, <3>1 DEF FreeIrqs, TypeOK, FlagTypes
  <2>6. CASE DisableNapi
    <3>1. napi' \in BOOLEAN /\ ti' \in BOOLEAN
      BY <2>6, ZenonT(30) DEF DisableNapi, TypeOK, FlagTypes
    <3> QED
      BY <2>6, <3>1 DEF DisableNapi, TypeOK, FlagTypes
  <2>7. CASE FreeTxData
    BY <2>7 DEF FreeTxData, TypeOK, FlagTypes
  <2>8. ASSUME NEW ok \in BOOLEAN, StartDev(ok) PROVE FlagTypes'
    <3>1. /\ queue_stopped' \in BOOLEAN /\ xmit_more' \in BOOLEAN /\ te' \in BOOLEAN
          /\ napi' \in BOOLEAN /\ irqs' \in BOOLEAN /\ stopped' \in BOOLEAN
      BY <2>8, ZenonT(30) DEF StartDev, TypeOK, FlagTypes
    <3> QED
      BY <2>8, <3>1 DEF StartDev, TypeOK, FlagTypes
  <2> QED
    BY <1>5, <2>1, <2>2, <2>3, <2>4, <2>5, <2>6, <2>7, <2>8 DEF Restart
<1>6. CASE UNCHANGED vars
  BY <1>6 DEF vars, TypeOK, FlagTypes
<1> QED
  BY <1>1, <1>2, <1>3, <1>4, <1>5, <1>6 DEF Next

\* Every reachable state of the transmit path is well typed, whatever the stack
\* does during a restart: in particular mac_tx_poll, mac_xmit and the device
\* never work on a descriptor outside the ring.
THEOREM TxTypes == Spec => []TypeOK
<1>1. Init => TypeOK
  <2>1. Init => DataTypes
    BY Sizes DEF Init, DataTypes, Count, XSteps, PSteps, RSteps
  <2>2. Init => FlagTypes
    BY Zenon DEF Init, FlagTypes
  <2> QED
    BY <2>1, <2>2 DEF TypeOK
<1>2. TypeOK /\ [Next]_vars => TypeOK'
  BY DataStep, FlagStep DEF TypeOK
<1> QED
  BY <1>1, <1>2, PTL DEF Spec
-----------------------------------------------------------------------------
(* The ring is never overrun.                                              *)

\* The steps of mac_xmit.
LEMMA RingXmit ==
  ASSUME StackQuiet, TypeOK, RingInv, Xmit
  PROVE  RingInv'
<1> USE Sizes DEF TypeOK, DataTypes, RingInv, XmitInv, PollInv, NoOverrun, Used, Claim
<1>1. Dist(dirty, cur) \in Nat /\ Dist(dirty, pcur) \in Nat
  BY DistNat
<1>2. mac_tx_avail_desc = N - Dist(dirty, cur)
  BY <1>1, AvailExact
<1>3. ASSUME NEW j \in 0..(MaxDesc - 1), XmitGiveUp(j) PROVE RingInv'
  BY <1>3 DEF XmitGiveUp
<1>4. CASE XmitBusy
  BY <1>4 DEF XmitBusy, MayXmit
<1>5. ASSUME NEW n \in 1..MaxDesc, NEW m \in BOOLEAN, XmitFill(n, m) PROVE RingInv'
  <2>1. n + Dist(dirty, cur) <= N
    BY <1>1, <1>2, <1>5 DEF XmitFill
  <2>2. /\ xpc' = "own" /\ xstart' = cur /\ xn' = n /\ rpc = "run"
        /\ UNCHANGED <<cur, dirty, rpc, ppc, pcur, napi, sched>>
    BY <1>5 DEF XmitFill, MayXmit
  <2> QED
    BY <1>1, <2>1, <2>2
<1>6. CASE XmitOwn
  BY <1>6 DEF XmitOwn
<1>7. CASE XmitCur
  <2>1. Dist(dirty, cur') = Dist(dirty, cur) + xn
    BY <1>7, DistFill DEF XmitCur
  <2>2. /\ xpc' \in {"kick", "check"}
        /\ UNCHANGED <<dirty, rpc, ppc, pcur, napi, sched>>
    BY <1>7 DEF XmitCur
  <2> QED
    BY <1>1, <1>7, <2>1, <2>2 DEF XmitCur
<1>8. CASE XmitKick
  BY <1>8 DEF XmitKick
<1>9. CASE XmitCheck
  BY <1>9 DEF XmitCheck
<1>10. CASE XmitStop
  BY <1>10 DEF XmitStop
<1>11. CASE XmitFlag
  BY <1>11 DEF XmitFlag
<1> QED
  BY <1>3, <1>4, <1>5, <1>6, <1>7, <1>8, <1>9, <1>10, <1>11 DEF Xmit

\* The steps of the poll.
LEMMA RingPoll ==
  ASSUME StackQuiet, TypeOK, RingInv, Poll
  PROVE  RingInv'
<1> USE Sizes DEF TypeOK, DataTypes, RingInv, XmitInv, PollInv, NoOverrun, Used, Claim
<1>1. CASE PollBegin
  BY <1>1, DistNat DEF PollBegin
<1>2. CASE PollReap
  <2>1. dirty # cur
    BY <1>2 DEF PollReap, MayReap, Dist, Count
  <2>2. /\ Dist(dirty', cur) = Dist(dirty, cur) - 1
        /\ Dist(dirty', pcur) = Dist(dirty, pcur) - 1
    BY <1>2, <2>1, DistReap DEF PollReap, MayReap
  <2>3. Dist(dirty, cur) \in Nat /\ Dist(dirty, pcur) \in Nat
    BY DistNat
  <2> QED
    BY <1>2, <2>2, <2>3 DEF PollReap
<1>3. CASE PollEnd
  BY <1>3 DEF PollEnd
<1>4. CASE PollWake
  BY <1>4 DEF PollWake
<1>5. CASE PollAgain
  BY <1>5 DEF PollAgain
<1>6. CASE PollComplete
  BY <1>6 DEF PollComplete
<1> QED
  BY <1>1, <1>2, <1>3, <1>4, <1>5, <1>6, Poll DEF Poll

\* The steps of the device, the interrupt handler, the timer and the restart.
LEMMA RingOthers ==
  ASSUME StackQuiet, TypeOK, RingInv, Device \/ Irqs \/ Restart \/ UNCHANGED vars
  PROVE  RingInv'
<1> USE Sizes DEF TypeOK, DataTypes, RingInv, XmitInv, PollInv, NoOverrun, Used, Claim
<1>1. CASE Device
  <2>1. CASE HwComplete
    BY <2>1 DEF HwComplete
  <2>2. CASE HwSuspend
    BY <2>2 DEF HwSuspend
  <2> QED
    BY <1>1, <2>1, <2>2 DEF Device
<1>2. CASE Irqs
  BY <1>2 DEF Irqs, IsrRead, IsrAck, FatalBusError, TimerFire, TimerEnd, NapiSchedule
<1>3. CASE Restart
  <2>1. CASE TxTimeout \/ StopQueues
    BY <2>1 DEF TxTimeout, StopQueues
  <2>2. CASE StopTimers \/ DisableTx \/ FreeIrqs
    BY <2>2 DEF StopTimers, DisableTx, FreeIrqs
  <2>3. CASE DisableNapi \/ FreeTxData
    BY <2>3 DEF DisableNapi, FreeTxData
  <2>4. ASSUME NEW ok \in BOOLEAN, StartDev(ok) PROVE RingInv'
    BY <2>4 DEF StartDev, Dist
  <2> QED
    BY <1>3, <2>1, <2>2, <2>3, <2>4 DEF Restart
<1>4. CASE UNCHANGED vars
  BY <1>4 DEF vars
<1> QED
  BY <1>1, <1>2, <1>3, <1>4

\* For every ring and packet size: mac_xmit never fills a descriptor that has not
\* been reclaimed, and mac_tx_poll never runs past what it saw filled, across
\* wraps of the counters and restarts, if the stack is quiet during a restart.
THEOREM TxNoOverrun == StackQuiet => (Spec => []NoOverrun)
<1> SUFFICES ASSUME StackQuiet PROVE Spec => []NoOverrun
  OBVIOUS
<1>1. Init => RingInv
  BY Sizes DEF Init, RingInv, XmitInv, PollInv, NoOverrun, Used, Claim, Dist
<1>2. TypeOK /\ RingInv /\ [Next]_vars => RingInv'
  BY RingXmit, RingPoll, RingOthers DEF Next
<1>3. RingInv => NoOverrun
  BY DEF RingInv
<1> QED
  BY <1>1, <1>2, <1>3, TxTypes, PTL DEF Spec
-----------------------------------------------------------------------------
(* A queue that is not stopped has room, and a stopped one is known to be. *)

\* The steps of mac_xmit.
LEMMA QueueXmit ==
  ASSUME StackQuiet, TypeOK, RingInv, QueueInv, Xmit
  PROVE  QueueInv'
<1> USE Sizes DEF TypeOK, DataTypes, RingInv, XmitInv, QueueInv
<1>1. Dist(dirty, cur) \in Nat
  BY DistNat
<1>2. mac_tx_avail_desc = N - Dist(dirty, cur)
  BY <1>1, AvailExact DEF NoOverrun, Used, Claim
<1>3. ASSUME NEW j \in 0..(MaxDesc - 1), XmitGiveUp(j) PROVE QueueInv'
  BY <1>3 DEF XmitGiveUp
<1>4. CASE XmitBusy
  BY <1>4 DEF XmitBusy, MayXmit
<1>5. ASSUME NEW n \in 1..MaxDesc, NEW m \in BOOLEAN, XmitFill(n, m) PROVE QueueInv'
  BY <1>5 DEF XmitFill, MayXmit
<1>6. CASE XmitOwn
  BY <1>6 DEF XmitOwn
<1>7. CASE XmitCur
  BY <1>7 DEF XmitCur
<1>8. CASE XmitKick
  BY <1>8 DEF XmitKick
<1>9. CASE XmitCheck
  BY <1>1, <1>2, <1>9 DEF XmitCheck
<1>10. CASE XmitStop
  BY <1>10 DEF XmitStop
<1>11. CASE XmitFlag
  BY <1>11 DEF XmitFlag
<1> QED
  BY <1>3, <1>4, <1>5, <1>6, <1>7, <1>8, <1>9, <1>10, <1>11 DEF Xmit

\* The steps of the poll.
LEMMA QueuePoll ==
  ASSUME StackQuiet, TypeOK, RingInv, QueueInv, Poll
  PROVE  QueueInv'
<1> USE Sizes DEF TypeOK, DataTypes, RingInv, QueueInv
<1>1. Dist(dirty, cur) \in Nat
  BY DistNat
<1>2. mac_tx_avail_desc = N - Dist(dirty, cur)
  BY <1>1, AvailExact DEF NoOverrun, Used, Claim
<1>3. CASE PollBegin
  BY <1>3 DEF PollBegin
<1>4. CASE PollReap
  <2>1. dirty # cur
    BY <1>4 DEF PollReap, MayReap, NoOverrun, Dist, Count
  <2>2. Dist(dirty', cur) = Dist(dirty, cur) - 1
    BY <1>4, <2>1, DistReap DEF PollReap
  <2>3. UNCHANGED <<cur, rpc, xpc, ppc, stopped, queue_stopped>>
    BY <1>4 DEF PollReap
  <2> QED
    BY <1>1, <2>2, <2>3
<1>5. CASE PollEnd
  <2>1. /\ UNCHANGED <<cur, dirty, rpc, xpc, stopped>>
        /\ ppc = "reap"
    BY <1>5 DEF PollEnd
  <2>2. CASE queue_stopped /\ mac_tx_avail_desc > MinFree /\ processed > 0
    <3>1. ppc' = "wake" /\ ~queue_stopped'
      BY <1>5, <2>2 DEF PollEnd
    <3>2. Dist(dirty, cur) + MinFree < N
      BY <1>1, <1>2, <2>2
    <3> QED
      BY <2>1, <2>2, <3>1, <3>2
  <2>3. CASE ~(queue_stopped /\ mac_tx_avail_desc > MinFree /\ processed > 0)
    <3>1. ppc' = "done" /\ (queue_stopped' <=> queue_stopped)
      BY <1>5, <2>3 DEF PollEnd
    <3> QED
      BY <2>1, <3>1
  <2> QED
    BY <2>2, <2>3
<1>6. CASE PollWake
  BY <1>1, <1>6 DEF PollWake
<1>7. CASE PollAgain
  BY <1>7 DEF PollAgain
<1>8. CASE PollComplete
  BY <1>8 DEF PollComplete
<1> QED
  BY <1>3, <1>4, <1>5, <1>6, <1>7, <1>8 DEF Poll

\* The steps of the device, the interrupt handler, the timer and the restart.
LEMMA QueueOthers ==
  ASSUME ~FlushStuck, TypeOK, RingInv, QueueInv,
         Device \/ Irqs \/ Restart \/ UNCHANGED vars
  PROVE  QueueInv'
<1> USE Sizes DEF TypeOK, DataTypes, RingInv, QueueInv
<1>1. CASE Device
  <2>1. CASE HwComplete
    BY <2>1 DEF HwComplete
  <2>2. CASE HwSuspend
    BY <2>2 DEF HwSuspend
  <2> QED
    BY <1>1, <2>1, <2>2 DEF Device
<1>2. CASE Irqs
  BY <1>2 DEF Irqs, IsrRead, IsrAck, FatalBusError, TimerFire, TimerEnd
<1>3. CASE Restart
  <2>1. CASE TxTimeout \/ StopQueues
    BY <2>1 DEF TxTimeout, StopQueues
  <2>2. CASE StopTimers \/ DisableTx \/ FreeIrqs
    BY <2>2 DEF StopTimers, DisableTx, FreeIrqs, RSteps
  <2>3. CASE DisableNapi \/ FreeTxData
    BY <2>3 DEF DisableNapi, FreeTxData
  <2>4. ASSUME NEW ok \in BOOLEAN, StartDev(ok) PROVE QueueInv'
    BY <2>4 DEF StartDev, Dist, XmitInv, PollInv
  <2> QED
    BY <1>3, <2>1, <2>2, <2>3, <2>4 DEF Restart
<1>4. CASE UNCHANGED vars
  BY <1>4 DEF vars
<1> QED
  BY <1>1, <1>2, <1>3, <1>4

\* For every ring and packet size: mac_xmit is never called on a running queue
\* without room for the largest packet, and outside a restart the driver's
\* queue_stopped and the stack's stop bit agree but for the two short windows
\* between their writes, if the stack is quiet during a restart and the flush of
\* the queues succeeds.
THEOREM TxQueue == StackQuiet /\ ~FlushStuck => (Spec => [](NoBusy /\ StopFlagAgrees))
<1> SUFFICES ASSUME StackQuiet, ~FlushStuck PROVE Spec => [](NoBusy /\ StopFlagAgrees)
  OBVIOUS
<1>1. Init => RingInv /\ QueueInv
  BY Sizes DEF Init, RingInv, XmitInv, PollInv, QueueInv, NoOverrun, Used, Claim, Dist
<1>2. TypeOK /\ RingInv /\ [Next]_vars => RingInv'
  BY RingXmit, RingPoll, RingOthers DEF Next
<1>3. TypeOK /\ RingInv /\ QueueInv /\ [Next]_vars => QueueInv'
  BY QueueXmit, QueuePoll, QueueOthers DEF Next
<1>4. TypeOK /\ RingInv /\ QueueInv => NoBusy /\ StopFlagAgrees
  <2> SUFFICES ASSUME TypeOK, RingInv, QueueInv PROVE NoBusy /\ StopFlagAgrees
    OBVIOUS
  <2>1. Dist(dirty, cur) \in Nat /\ mac_tx_avail_desc = N - Dist(dirty, cur)
    BY Sizes, DistNat, AvailExact DEF TypeOK, DataTypes, RingInv, NoOverrun, Used, Claim
  <2>2. NoBusy
    BY Sizes, <2>1 DEF NoBusy, QueueInv
  <2>3. StopFlagAgrees
    BY DEF StopFlagAgrees, QueueInv
  <2> QED
    BY <2>2, <2>3
<1> QED
  BY <1>1, <1>2, <1>3, <1>4, TxTypes, PTL DEF Spec

\* pdata's queue_stopped and the stack's stop bit agree outside the windows in which
\* mac_xmit or mac_tx_poll is between the two.
THEOREM TxStopFlag == StackQuiet /\ ~FlushStuck => (Spec => []StopFlagAgrees)
BY TxQueue, PTL
-----------------------------------------------------------------------------
(* The driver and the Tx DMA engine: what the engine owns, what it may     *)
(* read, and what mac_tx_poll may reclaim.                                 *)

USE DEF ring, dev, txq, timer, irq, napis, polls, xmits, restart

\* What OwnInv and MapInv are about.
LEMMA DeviceFrame ==
  ASSUME OwnInv, MapInv,
         UNCHANGED <<cur, dirty, own, mapped, hw, te, xpc, xn, rpc>>
  PROVE  OwnInv' /\ MapInv'
BY DEF OwnInv, MapInv, Used, Claim
-----------------------------------------------------------------------------
\* mac_xmit up to the barrier.
LEMMA DeviceFill ==
  ASSUME TypeOK, RingInv, OwnInv, MapInv,
         NEW n \in 1..MaxDesc, NEW m \in BOOLEAN, XmitFill(n, m)
  PROVE  OwnInv' /\ MapInv'
<1> DEFINE D == Dist(dirty, cur)
           h == Dist(dirty, hw)
<1>1. cur \in Count /\ dirty \in Count /\ hw \in Count /\ D \in Nat /\ h \in Nat /\ n \in Nat
  BY DistNat, Sizes DEF TypeOK, DataTypes
<1>2. Used = D
  BY <1>1 DEF Used, Claim, XmitFill, MayXmit
<1>3. D + n <= N
  BY <1>1, <1>2, AvailExact, Sizes DEF XmitFill, RingInv, NoOverrun
<1>4. /\ own' = (own \ Region(cur, n)) \cup (Region(cur, n) \ {Slot(cur)})
      /\ mapped' = mapped \cup Region(cur, n)
      /\ UNCHANGED <<cur, dirty, hw, te, rpc>> /\ xpc' = "own" /\ xn' = n
  BY DEF XmitFill
<1>5. Used' = D + n
  BY <1>4 DEF Used, Claim
<1>6. h <= D
  BY <1>2 DEF OwnInv
<1>7. ASSUME NEW k \in Slots
      PROVE  /\ Slot(Inc(dirty, k)) \in own <=> h <= k /\ k < D
             /\ Slot(Inc(dirty, k)) \in Region(cur, n) <=> D <= k /\ k < D + n
             /\ Slot(Inc(dirty, k)) = Slot(cur) <=> k = D
  <2>1. xpc # "own"
    BY DEF XmitFill, MayXmit
  <2>2. Slot(Inc(dirty, k)) \in own <=> h <= k /\ k < D
    BY <1>2, <2>1 DEF OwnInv
  <2>3. D < N
    BY <1>1, <1>3, Sizes
  <2> QED
    BY <1>1, <1>3, <2>2, <2>3, RegionAt, SlotAt
<1>8. OwnInv'
  <2>1. ASSUME NEW k \in Slots
        PROVE  Slot(Inc(dirty, k)) \in own' <=> h <= k /\ k < D + n /\ k # D
    BY <1>1, <1>4, <1>6, <1>7, n >= 1 DEF Slots
  <2> QED
    BY <1>1, <1>4, <1>5, <1>6, <2>1 DEF OwnInv
<1>9. MapInv'
  <2>1. ASSUME NEW k \in Slots, k < D + n, rpc # "start"
        PROVE  Slot(Inc(dirty, k)) \in mapped'
    <3>1. CASE k < D
      BY <1>2, <1>4, <2>1, <3>1 DEF MapInv
    <3>2. CASE D <= k
      BY <1>4, <1>7, <2>1, <3>2
    <3> QED
      BY <1>1, <3>1, <3>2 DEF Slots
  <2> QED
    BY <1>4, <1>5, <2>1 DEF MapInv
<1> QED
  BY <1>8, <1>9

\* A packet that is given up touches entries that are not in use.
LEMMA DeviceGiveUp ==
  ASSUME TypeOK, RingInv, OwnInv, MapInv, NEW j \in 0..(MaxDesc - 1), XmitGiveUp(j)
  PROVE  OwnInv' /\ MapInv'
<1>1. /\ cur \in Count /\ dirty \in Count /\ Dist(dirty, cur) \in Nat /\ j \in Nat
  BY DistNat, Sizes DEF TypeOK, DataTypes
<1>2. Used = Dist(dirty, cur)
  BY <1>1 DEF Used, Claim, XmitGiveUp, MayXmit
<1>3. Dist(dirty, cur) + j <= N
  BY <1>1, <1>2, AvailExact, Sizes DEF XmitGiveUp, RingInv, NoOverrun
<1>4. /\ mapped' = mapped \cup Region(cur, j) \/ mapped' = mapped \ Region(cur, j)
      /\ UNCHANGED <<cur, dirty, own, hw, te, xpc, xn, rpc>>
  BY DEF XmitGiveUp
<1>5. ASSUME NEW k \in Slots, k < Used
      PROVE  Slot(Inc(dirty, k)) \notin Region(cur, j)
  BY <1>1, <1>2, <1>3, <1>5, RegionAt DEF Slots
<1>6. OwnInv'
  BY <1>4 DEF OwnInv, Used, Claim
<1>7. Used' = Used
  BY <1>4 DEF Used, Claim
<1>8. MapInv'
  BY <1>4, <1>5, <1>7 DEF MapInv
<1> QED
  BY <1>6, <1>8

\* The first descriptor is handed over, then cur is published.
LEMMA DeviceHandOver ==
  ASSUME TypeOK, RingInv, OwnInv, MapInv, XmitOwn \/ XmitCur
  PROVE  OwnInv' /\ MapInv'
<1> DEFINE D == Dist(dirty, cur)
           h == Dist(dirty, hw)
<1>1. /\ cur \in Count /\ dirty \in Count /\ D \in Nat /\ h \in Nat
      /\ xn \in Nat /\ xn >= 1 /\ xstart = cur /\ D + xn <= N /\ Used = D + xn
  BY DistNat, Sizes DEF TypeOK, DataTypes, RingInv, XmitInv, NoOverrun, Used, Claim,
                        XmitOwn, XmitCur
<1>2. CASE XmitOwn
  <2>1. /\ own' = own \cup {Slot(cur)} /\ xpc = "own" /\ xpc' = "cur"
        /\ UNCHANGED <<cur, dirty, mapped, hw, te, xn, rpc>>
    BY <1>1, <1>2 DEF XmitOwn
  <2>2. Used' = Used
    BY <2>1 DEF Used, Claim
  <2>3. h <= D
    BY <2>1 DEF OwnInv
  <2>4. ASSUME NEW k \in Slots
        PROVE  Slot(Inc(dirty, k)) \in own' <=> h <= k /\ k < D + xn
    <3>1. Slot(Inc(dirty, k)) \in own <=> h <= k /\ k < D + xn /\ k # D
      BY <1>1, <2>1 DEF OwnInv
    <3>2. Slot(Inc(dirty, k)) = Slot(cur) <=> k = D
      BY <1>1, SlotAt, Sizes
    <3> QED
      BY <1>1, <2>1, <2>3, <3>1, <3>2
  <2>5. OwnInv'
    BY <1>1, <2>1, <2>2, <2>3, <2>4 DEF OwnInv
  <2>6. MapInv'
    BY <2>1, <2>2 DEF MapInv
  <2> QED
    BY <2>5, <2>6
<1>3. CASE XmitCur
  <2>1. /\ cur' = Inc(cur, xn) /\ xpc = "cur" /\ xpc' \in {"kick", "check"}
        /\ UNCHANGED <<dirty, own, mapped, hw, te, rpc>>
    BY <1>1, <1>3 DEF XmitCur
  <2>2. Dist(dirty, cur') = D + xn
    BY <1>1, <2>1, DistFill
  <2>3. Used' = Used
    BY <1>1, <2>1, <2>2 DEF Used, Claim
  <2>4. OwnInv'
    BY <2>1, <2>3 DEF OwnInv
  <2>5. MapInv'
    BY <2>1, <2>3 DEF MapInv
  <2> QED
    BY <2>4, <2>5
<1> QED
  BY <1>2, <1>3

\* The engine completes a descriptor.
LEMMA DeviceComplete ==
  ASSUME TypeOK, RingInv, OwnInv, MapInv, HwComplete
  PROVE  OwnInv' /\ MapInv'
<1> DEFINE D == Dist(dirty, cur)
           h == Dist(dirty, hw)
<1>1. /\ cur \in Count /\ dirty \in Count /\ hw \in Count /\ D \in Nat /\ h \in Nat
      /\ Used \in Nat /\ Used <= N /\ h <= Used
  BY DistNat, Sizes DEF TypeOK, DataTypes, RingInv, NoOverrun, OwnInv, Used, Claim
<1>2. /\ Slot(hw) \in own /\ own' = own \ {Slot(hw)} /\ hw' = Inc(hw, 1)
      /\ UNCHANGED <<cur, dirty, mapped, te, xpc, xn, rpc>>
  BY DEF HwComplete
<1>3. h < N
  <2> SUFFICES ASSUME h = N PROVE FALSE
    BY <1>1, Sizes
  <2>1. Inc(dirty, N) = hw /\ Inc(dirty, 0) = dirty
    BY <1>1, Sizes DEF Inc, Dist, Count
  <2>2. Slot(Inc(dirty, 0)) \in own
    BY <1>1, <1>2, <2>1, SlotWrap
  <2>3. h <= 0
    BY <2>2, Sizes, 0 \in Slots DEF OwnInv, Slots
  <2> QED
    BY <2>3, Sizes
<1>4. h \in Slots /\ Slot(Inc(dirty, h)) = Slot(hw)
  BY <1>1, <1>3, SlotAt, Sizes DEF Slots
<1>5. h < Used /\ ~(xpc = "own" /\ h = D)
  BY <1>2, <1>4 DEF OwnInv
<1>6. Dist(dirty, hw') = h + 1
  BY <1>1, <1>2, <1>3, DistFill, Sizes
<1>7. Used' = Used
  BY <1>2 DEF Used, Claim
<1>8. ASSUME NEW k \in Slots
      PROVE  Slot(Inc(dirty, k)) \in own' <=> /\ h + 1 <= k /\ k < Used
                                            /\ ~(xpc = "own" /\ k = D)
  <2>1. Slot(Inc(dirty, k)) = Slot(hw) <=> k = h
    BY <1>1, <1>3, SlotAt
  <2> QED
    BY <1>1, <1>2, <2>1 DEF OwnInv, Slots
<1>9. OwnInv'
  <2>1. xpc = "own" => h + 1 <= D
    BY <1>1, <1>5 DEF OwnInv
  <2> QED
    BY <1>1, <1>2, <1>5, <1>6, <1>7, <1>8, <2>1 DEF OwnInv
<1>10. MapInv'
  BY <1>2, <1>7 DEF MapInv
<1> QED
  BY <1>9, <1>10

\* mac_tx_poll reclaims a descriptor: it is one the engine is done with.
LEMMA DeviceReap ==
  ASSUME TypeOK, RingInv, OwnInv, MapInv, PollReap
  PROVE  OwnInv' /\ MapInv'
<1> DEFINE D == Dist(dirty, cur)
           h == Dist(dirty, hw)
<1>1. /\ cur \in Count /\ dirty \in Count /\ hw \in Count /\ D \in Nat /\ h \in Nat
      /\ Used \in Nat /\ Used <= N /\ h <= Used /\ pcur \in Count
  BY DistNat, Sizes DEF TypeOK, DataTypes, RingInv, NoOverrun, OwnInv, Used, Claim
<1>2. /\ Slot(dirty) \notin own /\ own' = own \ {Slot(dirty)}
      /\ mapped' = mapped \ {Slot(dirty)} /\ dirty' = Inc(dirty, 1)
      /\ dirty # pcur /\ ppc = "reap"
      /\ UNCHANGED <<cur, hw, te, xpc, xn, rpc>>
  BY DEF PollReap, MayReap
<1>3. dirty # cur /\ D >= 1
  BY <1>1, <1>2, Sizes DEF RingInv, NoOverrun, Dist, Count
<1>4. h >= 1 /\ dirty # hw
  <2>1. Inc(dirty, 0) = dirty /\ 0 \in Slots
    BY <1>1, Sizes DEF Inc, Count, Slots
  <2>2. ~(h <= 0 /\ 0 < Used /\ ~(xpc = "own" /\ 0 = D))
    BY <1>2, <2>1 DEF OwnInv
  <2>3. 0 < Used
    BY <1>1, <1>3, Sizes DEF Used, Claim, TypeOK, DataTypes
  <2>4. h >= 1
    BY <1>1, <1>3, <2>2, <2>3
  <2> QED
    BY <1>1, <2>4 DEF Dist, Count
<1>5. dirty' \in Count /\ Dist(dirty', cur) = D - 1 /\ Dist(dirty', hw) = h - 1
  BY <1>1, <1>2, <1>3, <1>4, DistReap, CountArith, Sizes, 1 \in 0..W
<1>6. Used' = Used - 1
  BY <1>1, <1>2, <1>5, Sizes DEF Used, Claim, TypeOK, DataTypes
<1>7. ASSUME NEW k \in Slots, k + 1 < N
      PROVE  /\ Slot(Inc(dirty', k)) = Slot(Inc(dirty, k + 1))
             /\ k + 1 \in Slots
             /\ Slot(Inc(dirty', k)) # Slot(dirty)
  <2>1. Inc(dirty', k) = Inc(dirty, k + 1) /\ k + 1 \in Slots
    BY <1>1, <1>2, <1>7, Sizes DEF Inc, Count, Slots
  <2>2. Dist(dirty, dirty) = 0
    BY <1>1 DEF Dist, Count
  <2>3. Slot(Inc(dirty, k + 1)) = Slot(dirty) <=> k + 1 = 0
    BY <1>1, <2>1, <2>2, SlotAt, Sizes
  <2> QED
    BY <2>1, <2>3 DEF Slots
<1>8. ASSUME NEW k \in Slots, k + 1 = N
      PROVE  Slot(Inc(dirty', k)) = Slot(dirty)
  <2>1. Inc(dirty', k) = Inc(dirty, N)
    BY <1>1, <1>2, <1>8, Sizes DEF Inc, Count, Slots
  <2> QED
    BY <1>1, <2>1, SlotWrap
<1>9. OwnInv'
  <2>1. ASSUME NEW k \in Slots
        PROVE  Slot(Inc(dirty', k)) \in own' <=> /\ h - 1 <= k /\ k < Used - 1
                                               /\ ~(xpc = "own" /\ k = D - 1)
    <3>1. CASE k + 1 < N
      <4>1. Slot(Inc(dirty', k)) \in own' <=> Slot(Inc(dirty, k + 1)) \in own
        BY <1>2, <1>7, <3>1
      <4>2. Slot(Inc(dirty, k + 1)) \in own <=> /\ h <= k + 1 /\ k + 1 < Used
                                              /\ ~(xpc = "own" /\ k + 1 = D)
        BY <1>7, <3>1 DEF OwnInv
      <4> QED
        BY <1>1, <4>1, <4>2 DEF Slots
    <3>2. CASE k + 1 = N
      BY <1>1, <1>2, <1>8, <3>2, Sizes DEF Slots
    <3> QED
      BY <3>1, <3>2, Sizes DEF Slots
  <2>2. xpc = "own" => h - 1 <= D - 1
    BY <1>1 DEF OwnInv
  <2> QED
    BY <1>1, <1>2, <1>5, <1>6, <2>1, <2>2 DEF OwnInv
<1>10. MapInv'
  <2>1. ASSUME NEW k \in Slots, k < Used - 1, rpc # "start"
        PROVE  Slot(Inc(dirty', k)) \in mapped'
    <3>1. k + 1 < N /\ k + 1 < Used
      BY <1>1, <2>1, Sizes DEF Slots
    <3>2. Slot(Inc(dirty, k + 1)) \in mapped
      BY <1>7, <2>1, <3>1 DEF MapInv
    <3> QED
      BY <1>2, <1>7, <3>1, <3>2
  <2> QED
    BY <1>2, <1>6, <2>1 DEF MapInv
<1> QED
  BY <1>9, <1>10

\* The restart: the engine is off before the entries are emptied, and starts
\* from an empty ring.
LEMMA DeviceRestart ==
  ASSUME StackQuiet, ~FlushStuck, TypeOK, RingInv, OwnInv, MapInv, Restart
  PROVE  OwnInv' /\ MapInv'
<1>1. CASE TxTimeout
  BY <1>1, DeviceFrame DEF TxTimeout
<1>2. CASE StopQueues \/ StopTimers
  BY <1>2 DEF StopQueues, StopTimers, OwnInv, MapInv, Used, Claim
<1>3. CASE DisableTx
  BY <1>3 DEF DisableTx, OwnInv, MapInv, Used, Claim
<1>4. CASE FreeIrqs \/ DisableNapi
  BY <1>4 DEF FreeIrqs, DisableNapi, OwnInv, MapInv, Used, Claim
<1>5. CASE FreeTxData
  BY <1>5 DEF FreeTxData, OwnInv, MapInv, Used, Claim
<1>6. ASSUME NEW ok \in BOOLEAN, StartDev(ok) PROVE OwnInv' /\ MapInv'
  <2>1. /\ cur' = 0 /\ dirty' = 0 /\ hw' = 0 /\ own' = {} /\ xpc' = xpc /\ rpc' = "run"
    BY <1>6 DEF StartDev
  <2>2. xpc = "idle"
    BY <1>6 DEF StartDev, RingInv, XmitInv
  <2>3. Used' = 0 /\ Dist(dirty', cur') = 0 /\ Dist(dirty', hw') = 0
    BY <2>1, <2>2 DEF Used, Claim, Dist
  <2> QED
    BY <2>1, <2>2, <2>3, Sizes DEF OwnInv, MapInv, Slots
<1> QED
  BY <1>1, <1>2, <1>3, <1>4, <1>5, <1>6 DEF Restart

\* Every step.
LEMMA DeviceStep ==
  ASSUME StackQuiet, ~FlushStuck, TypeOK, RingInv, OwnInv, MapInv, [Next]_vars
  PROVE  OwnInv' /\ MapInv'
<1>1. CASE Xmit
  <2>1. CASE XmitBusy \/ XmitKick \/ XmitCheck \/ XmitStop \/ XmitFlag
    BY <2>1 DEF XmitBusy, XmitKick, XmitCheck, XmitStop, XmitFlag, MayXmit,
                mac_tx_start_xmit, OwnInv, MapInv, Used, Claim
  <2> QED
    BY <1>1, <2>1, DeviceGiveUp, DeviceFill, DeviceHandOver DEF Xmit
<1>2. CASE Device
  <2>1. CASE HwSuspend
    BY <2>1, DeviceFrame DEF HwSuspend
  <2> QED
    BY <1>2, <2>1, DeviceComplete DEF Device
<1>3. CASE Irqs
  BY <1>3, DeviceFrame DEF Irqs, IsrRead, IsrAck, FatalBusError, TimerFire, TimerEnd
<1>4. CASE Poll
  <2>1. CASE PollBegin \/ PollEnd \/ PollWake \/ PollAgain \/ PollComplete
    BY <2>1, DeviceFrame DEF PollBegin, PollEnd, PollWake, PollAgain, PollComplete
  <2> QED
    BY <1>4, <2>1, DeviceReap DEF Poll
<1>5. CASE Restart
  BY <1>5, DeviceRestart
<1>6. CASE UNCHANGED vars
  BY <1>6, DeviceFrame DEF vars
<1> QED
  BY <1>1, <1>2, <1>3, <1>4, <1>5, <1>6 DEF Next

\* For every ring and packet size: mac_tx_poll never passes the engine, and the
\* engine, while enabled, owns no descriptor whose entry maps nothing, although
\* mac_xmit hands over the first descriptor last, cur is published only then, and
\* a restart empties the ring in between; if the stack is quiet during a restart
\* and the flush of the queues succeeds.
THEOREM TxDevice == StackQuiet /\ ~FlushStuck => (Spec => [](ReapBehindDevice /\ OwnWritten))
<1> SUFFICES ASSUME StackQuiet, ~FlushStuck PROVE Spec => [](ReapBehindDevice /\ OwnWritten)
  OBVIOUS
<1>1. Init => RingInv /\ OwnInv /\ MapInv
  BY Sizes DEF Init, RingInv, XmitInv, PollInv, NoOverrun, OwnInv, MapInv, Used, Claim, Dist, Slots
<1>2. TypeOK /\ RingInv /\ [Next]_vars => RingInv'
  BY RingXmit, RingPoll, RingOthers DEF Next
<1>3. TypeOK /\ RingInv /\ OwnInv /\ MapInv /\ [Next]_vars => OwnInv' /\ MapInv'
  BY DeviceStep
<1>4. TypeOK /\ OwnInv /\ MapInv => ReapBehindDevice /\ OwnWritten
  <2> SUFFICES ASSUME TypeOK, OwnInv, MapInv PROVE ReapBehindDevice /\ OwnWritten
    OBVIOUS
  <2>1. ASSUME te, NEW s \in own PROVE s \in mapped
    <3>1. PICK k \in Slots : Slot(Inc(dirty, k)) = s
      BY SlotSurj DEF TypeOK, DataTypes
    <3>2. k < Used
      BY <3>1 DEF OwnInv
    <3> QED
      BY <2>1, <3>1, <3>2 DEF MapInv
  <2> QED
    BY <2>1 DEF ReapBehindDevice, OwnWritten, OwnInv
<1> QED
  BY <1>1, <1>2, <1>3, <1>4, TxTypes, PTL DEF Spec

\* mac_tx_poll reclaims only what the engine has written back.
THEOREM TxReap == StackQuiet /\ ~FlushStuck => (Spec => []ReapBehindDevice)
BY TxDevice, PTL
-----------------------------------------------------------------------------
(* The skbs: each in an entry in use that maps its data, whatever the      *)
(* flush of the queues answers.                                            *)

\* mac_xmit up to the barrier: the skb goes to the last of the new entries.
LEMMA SkbFill ==
  ASSUME TypeOK, RingInv, SkbInv, NEW n \in 1..MaxDesc, NEW m \in BOOLEAN,
         StackQuiet, XmitFill(n, m)
  PROVE  /\ SkbInv'
         /\ skb \cap Region(cur, n) = {}
         /\ Slot(Inc(cur, n - 1)) \in Region(cur, n)
<1> DEFINE D == Dist(dirty, cur)
           fin == Slot(Inc(cur, n - 1))
<1>1. cur \in Count /\ dirty \in Count /\ D \in Nat /\ n \in Nat /\ n >= 1 /\ skb \subseteq Slots
  BY DistNat, Sizes DEF TypeOK, DataTypes
<1>2. Used = D
  BY <1>1 DEF Used, Claim, XmitFill, MayXmit
<1>3. D + n <= N
  BY <1>1, <1>2, AvailExact, Sizes DEF XmitFill, RingInv, NoOverrun
<1>4. /\ mapped' = mapped \cup Region(cur, n) /\ skb' = skb \cup {fin}
      /\ UNCHANGED <<cur, dirty, rpc>> /\ xpc' = "own" /\ xn' = n /\ rpc = "run"
  BY DEF XmitFill, MayXmit
<1>5. Used' = D + n
  BY <1>4 DEF Used, Claim
<1>6. fin \in Region(cur, n)
  BY <1>1 DEF Region
<1>7. ASSUME NEW k \in Slots, Slot(Inc(dirty, k)) \in Region(cur, n)
      PROVE  D <= k /\ k < D + n
  BY <1>1, <1>3, <1>7, RegionAt
<1>8. ASSUME NEW k \in Slots, Slot(Inc(dirty, k)) \in skb'
      PROVE  k < D + n
  <2>1. CASE Slot(Inc(dirty, k)) \in skb
    BY <1>1, <1>2, <2>1 DEF SkbInv, Slots
  <2>2. CASE Slot(Inc(dirty, k)) = fin
    BY <1>6, <1>7, <2>2
  <2> QED
    BY <1>4, <1>8, <2>1, <2>2
<1>9. skb \cap Region(cur, n) = {}
  <2> SUFFICES ASSUME NEW s \in skb, s \in Region(cur, n) PROVE FALSE
    OBVIOUS
  <2>1. PICK k \in Slots : Slot(Inc(dirty, k)) = s
    BY <1>1, SlotSurj
  <2>2. k < D /\ D <= k
    BY <1>2, <1>7, <2>1 DEF SkbInv
  <2> QED
    BY <1>1, <2>2 DEF Slots
<1>10. SkbInv'
  BY <1>4, <1>5, <1>6, <1>8 DEF SkbInv
<1> QED
  BY <1>6, <1>9, <1>10

\* A packet that is given up touches no entry that holds an skb.
LEMMA SkbGiveUp ==
  ASSUME TypeOK, RingInv, SkbInv, NEW j \in 0..(MaxDesc - 1), XmitGiveUp(j)
  PROVE  SkbInv'
<1>1. /\ cur \in Count /\ dirty \in Count /\ Dist(dirty, cur) \in Nat /\ j \in Nat
      /\ skb \subseteq Slots
  BY DistNat, Sizes DEF TypeOK, DataTypes
<1>2. Used = Dist(dirty, cur)
  BY <1>1 DEF Used, Claim, XmitGiveUp, MayXmit
<1>3. Dist(dirty, cur) + j <= N
  BY <1>1, <1>2, AvailExact, Sizes DEF XmitGiveUp, RingInv, NoOverrun
<1>4. /\ mapped' = mapped \cup Region(cur, j) \/ mapped' = mapped \ Region(cur, j)
      /\ UNCHANGED <<cur, dirty, skb, xpc, xn, rpc>>
  BY DEF XmitGiveUp
<1>5. ASSUME NEW s \in skb PROVE s \notin Region(cur, j)
  <2>1. PICK k \in Slots : Slot(Inc(dirty, k)) = s
    BY <1>1, SlotSurj
  <2>2. k < Dist(dirty, cur)
    BY <1>2, <2>1 DEF SkbInv
  <2>3. Slot(Inc(dirty, k)) \in Region(cur, j) <=> Dist(dirty, cur) <= k /\ k < Dist(dirty, cur) + j
    BY <1>1, <1>3, RegionAt
  <2> QED
    BY <1>1, <2>1, <2>2, <2>3 DEF Slots
<1>6. Used' = Used
  BY <1>4 DEF Used, Claim
<1> QED
  BY <1>4, <1>5, <1>6 DEF SkbInv

\* cur is published: the entries in use stay the same.
LEMMA SkbPublish ==
  ASSUME TypeOK, RingInv, SkbInv, XmitCur
  PROVE  SkbInv'
<1>1. /\ cur \in Count /\ dirty \in Count /\ Dist(dirty, cur) \in Nat /\ xn \in Nat
      /\ xstart = cur /\ Dist(dirty, cur) + xn <= N /\ Used = Dist(dirty, cur) + xn
  BY DistNat, Sizes DEF TypeOK, DataTypes, RingInv, XmitInv, NoOverrun, Used, Claim, XmitCur
<1>2. /\ cur' = Inc(cur, xn) /\ xpc' \in {"kick", "check"}
      /\ UNCHANGED <<dirty, mapped, skb, rpc>>
  BY <1>1 DEF XmitCur
<1>3. Dist(dirty, cur') = Dist(dirty, cur) + xn
  BY <1>1, <1>2, DistFill
<1>4. Used' = Used
  BY <1>1, <1>2, <1>3 DEF Used, Claim
<1> QED
  BY <1>2, <1>4 DEF SkbInv

\* mac_tx_poll reclaims an entry, with its skb.
LEMMA SkbReap ==
  ASSUME TypeOK, RingInv, SkbInv, PollReap
  PROVE  SkbInv'
<1> DEFINE D == Dist(dirty, cur)
<1>1. /\ cur \in Count /\ dirty \in Count /\ D \in Nat /\ Used \in Nat /\ pcur \in Count
  BY DistNat, Sizes DEF TypeOK, DataTypes, Used, Claim
<1>2. /\ mapped' = mapped \ {Slot(dirty)} /\ skb' = skb \ {Slot(dirty)}
      /\ dirty' = Inc(dirty, 1) /\ dirty # pcur /\ ppc = "reap"
      /\ UNCHANGED <<cur, xpc, xn, rpc>>
  BY DEF PollReap, MayReap
<1>3. dirty # cur
  BY <1>1, <1>2, Sizes DEF RingInv, NoOverrun, Dist, Count
<1>4. Dist(dirty', cur) = D - 1
  BY <1>1, <1>2, <1>3, DistReap
<1>5. Used' = Used - 1
  BY <1>1, <1>2, <1>4, Sizes DEF Used, Claim, TypeOK, DataTypes
<1>6. ASSUME NEW k \in Slots, Slot(Inc(dirty', k)) \in skb'
      PROVE  k < Used - 1
  <2>1. CASE k + 1 < N
    <3>1. Inc(dirty', k) = Inc(dirty, k + 1) /\ k + 1 \in Slots
      BY <1>1, <1>2, <2>1, Sizes DEF Inc, Count, Slots
    <3>2. k + 1 < Used
      BY <1>2, <1>6, <3>1 DEF SkbInv
    <3> QED
      BY <1>1, <3>2 DEF Slots
  <2>2. CASE k + 1 = N
    <3>1. Inc(dirty', k) = Inc(dirty, N)
      BY <1>1, <1>2, <2>2, Sizes DEF Inc, Count, Slots
    <3> QED
      BY <1>1, <1>2, <1>6, <3>1, SlotWrap
  <2> QED
    BY <2>1, <2>2, Sizes DEF Slots
<1> QED
  BY <1>2, <1>5, <1>6 DEF SkbInv

\* Every step.
LEMMA SkbStep ==
  ASSUME StackQuiet, TypeOK, RingInv, SkbInv, [Next]_vars
  PROVE  SkbInv'
<1>1. CASE Xmit
  <2>1. CASE XmitBusy \/ XmitOwn \/ XmitKick \/ XmitCheck \/ XmitStop \/ XmitFlag
    BY <2>1 DEF XmitBusy, XmitOwn, XmitKick, XmitCheck, XmitStop, XmitFlag, MayXmit,
                mac_tx_start_xmit, SkbInv, Used, Claim
  <2> QED
    BY <1>1, <2>1, SkbGiveUp, SkbFill, SkbPublish DEF Xmit
<1>2. CASE Device \/ Irqs
  BY <1>2 DEF Device, HwComplete, HwSuspend, Irqs, IsrRead, IsrAck, FatalBusError, TimerFire,
              TimerEnd, SkbInv, Used, Claim
<1>3. CASE Poll
  <2>1. CASE PollBegin \/ PollEnd \/ PollWake \/ PollAgain \/ PollComplete
    BY <2>1 DEF PollBegin, PollEnd, PollWake, PollAgain, PollComplete, SkbInv, Used, Claim
  <2> QED
    BY <1>3, <2>1, SkbReap DEF Poll
<1>4. CASE Restart
  <2>1. CASE TxTimeout \/ StopQueues \/ StopTimers \/ DisableTx \/ FreeIrqs \/ DisableNapi
    BY <2>1 DEF TxTimeout, StopQueues, StopTimers, DisableTx, FreeIrqs, DisableNapi,
                SkbInv, Used, Claim
  <2>2. CASE FreeTxData
    BY <2>2 DEF FreeTxData, SkbInv
  <2>3. ASSUME NEW ok \in BOOLEAN, StartDev(ok) PROVE SkbInv'
    BY <2>3 DEF StartDev, SkbInv
  <2> QED
    BY <1>4, <2>1, <2>2, <2>3 DEF Restart
<1>5. CASE UNCHANGED vars
  BY <1>5 DEF vars, SkbInv, Used, Claim
<1> QED
  BY <1>1, <1>2, <1>3, <1>4, <1>5 DEF Next

\* The slots in use are those whose offset from dirty is below Used.
LEMMA WindowAt ==
  ASSUME TypeOK, RingInv, NEW s \in Slots, NEW k \in Slots, Slot(Inc(dirty, k)) = s
  PROVE  s \in Window <=> k < Used
<1>1. dirty \in Count /\ Used \in Nat /\ Used <= N
  BY DistNat, Sizes DEF TypeOK, DataTypes, RingInv, NoOverrun, Used, Claim
<1>2. ASSUME NEW i \in 0..(Used - 1), Slot(Inc(dirty, i)) = s PROVE k < Used
  <2>1. i \in Slots
    BY <1>1, Sizes DEF Slots
  <2>2. i = k
    BY <1>1, <1>2, <2>1, SlotInj
  <2> QED
    BY <1>1, <2>2
<1>3. ASSUME k < Used PROVE s \in Window
  <2>1. k \in 0..(Used - 1)
    BY <1>1, <1>3, Sizes DEF Slots
  <2> QED
    BY <2>1 DEF Window
<1> QED
  BY <1>2, <1>3 DEF Window

\* For every ring and packet size: every skb is held by an entry in use that maps
\* its data, so that it is freed with that entry or by mac_free_tx_data, also when
\* mac_start goes on after a failed mac_hw_init.
THEOREM TxSkb == StackQuiet => (Spec => []SkbInUse)
<1> SUFFICES ASSUME StackQuiet PROVE Spec => []SkbInUse
  OBVIOUS
<1>1. Init => RingInv /\ SkbInv
  BY Sizes DEF Init, RingInv, XmitInv, PollInv, NoOverrun, SkbInv, Used, Claim, Dist
<1>2. TypeOK /\ RingInv /\ [Next]_vars => RingInv'
  BY RingXmit, RingPoll, RingOthers DEF Next
<1>3. TypeOK /\ RingInv /\ SkbInv /\ [Next]_vars => SkbInv'
  BY SkbStep
<1>4. TypeOK /\ RingInv /\ SkbInv => SkbInUse
  <2> SUFFICES ASSUME TypeOK, RingInv, SkbInv, NEW s \in skb PROVE s \in Window
    BY DEF SkbInUse, SkbInv
  <2>1. s \in Slots /\ dirty \in Count
    BY DEF TypeOK, DataTypes
  <2>2. PICK k \in Slots : Slot(Inc(dirty, k)) = s
    BY <2>1, SlotSurj
  <2> QED
    BY <2>1, <2>2, WindowAt DEF SkbInv
<1> QED
  BY <1>1, <1>2, <1>3, <1>4, TxTypes, PTL DEF Spec
-----------------------------------------------------------------------------
(* The ring carries exactly the packets in flight, and BQL counts them.    *)

\* LD goes where the skb goes and is cleared with it.
LEMMA LastStep ==
  ASSUME StackQuiet, ~FlushStuck, TypeOK, RingInv, SkbInv, LastInv, [Next]_vars
  PROVE  LastInv'
<1>1. CASE Xmit
  <2>1. ASSUME NEW n \in 1..MaxDesc, NEW m \in BOOLEAN, XmitFill(n, m) PROVE LastInv'
    <3>1. skb \cap Region(cur, n) = {}
      BY <2>1, SkbFill
    <3>2. /\ last' = (last \ Region(cur, n)) \cup {Slot(Inc(cur, n - 1))}
          /\ skb' = skb \cup {Slot(Inc(cur, n - 1))} /\ rpc = "run"
      BY <2>1 DEF XmitFill, MayXmit
    <3> QED
      BY <3>1, <3>2 DEF LastInv
  <2>2. ASSUME NEW j \in 0..(MaxDesc - 1), XmitGiveUp(j) PROVE LastInv'
    BY <2>2 DEF XmitGiveUp, LastInv
  <2>3. CASE XmitBusy \/ XmitOwn \/ XmitCur \/ XmitKick \/ XmitCheck \/ XmitStop \/ XmitFlag
    BY <2>3 DEF XmitBusy, XmitOwn, XmitCur, XmitKick, XmitCheck, XmitStop, XmitFlag, LastInv
  <2> QED
    BY <1>1, <2>1, <2>2, <2>3 DEF Xmit
<1>2. CASE Device \/ Irqs
  BY <1>2 DEF Device, HwComplete, HwSuspend, Irqs, IsrRead, IsrAck, FatalBusError, TimerFire,
              TimerEnd, LastInv
<1>3. CASE Poll
  BY <1>3 DEF Poll, PollBegin, PollReap, PollEnd, PollWake, PollAgain, PollComplete, LastInv
<1>4. CASE Restart
  <2>1. CASE TxTimeout \/ StopQueues \/ StopTimers \/ DisableTx \/ FreeIrqs \/ DisableNapi
    BY <2>1 DEF TxTimeout, StopQueues, StopTimers, DisableTx, FreeIrqs, DisableNapi, LastInv
  <2>2. CASE FreeTxData
    BY <2>2 DEF FreeTxData, LastInv
  <2>3. ASSUME NEW ok \in BOOLEAN, StartDev(ok) PROVE LastInv'
    BY <2>3 DEF StartDev, SkbInv, LastInv
  <2> QED
    BY <1>4, <2>1, <2>2, <2>3 DEF Restart
<1>5. CASE UNCHANGED vars
  BY <1>5 DEF vars, LastInv
<1> QED
  BY <1>1, <1>2, <1>3, <1>4, <1>5 DEF Next

\* The set of LD marks is finite, and its size is a natural number.
LEMMA LastFinite ==
  ASSUME TypeOK
  PROVE  IsFiniteSet(last) /\ Cardinality(last) \in Nat
<1>1. IsFiniteSet(Slots)
  BY FS_Interval, Sizes DEF Slots
<1>2. last \subseteq Slots
  BY DEF TypeOK, DataTypes
<1> QED
  BY <1>1, <1>2, FS_Subset, FS_CardinalityType

\* A packet queued counts one, and a packet reclaimed moves to the poll's debt.
LEMMA BqlStep ==
  ASSUME StackQuiet, ~FlushStuck, TypeOK, RingInv, SkbInv, LastInv, BqlInv, [Next]_vars
  PROVE  BqlInv'
<1>1. pkts \in Nat /\ bql \in Int /\ IsFiniteSet(last) /\ Cardinality(last) \in Nat
  BY LastFinite DEF TypeOK, DataTypes
<1>2. CASE Xmit
  <2>1. ASSUME NEW n \in 1..MaxDesc, NEW m \in BOOLEAN, XmitFill(n, m) PROVE BqlInv'
    <3>1. /\ last' = (last \ Region(cur, n)) \cup {Slot(Inc(cur, n - 1))}
          /\ bql' = bql + 1 /\ rpc = "run" /\ UNCHANGED <<rpc, ppc, pkts>>
      BY <2>1 DEF XmitFill, MayXmit
    <3>2. last' = last \cup {Slot(Inc(cur, n - 1))} /\ Slot(Inc(cur, n - 1)) \notin last
      BY <2>1, <3>1, SkbFill DEF LastInv
    <3>3. Cardinality(last') = Cardinality(last) + 1
      BY <1>1, <3>2, FS_AddElement
    <3> QED
      BY <1>1, <3>1, <3>3 DEF BqlInv
  <2>2. ASSUME NEW j \in 0..(MaxDesc - 1), XmitGiveUp(j) PROVE BqlInv'
    BY <2>2 DEF XmitGiveUp, BqlInv
  <2>3. CASE XmitBusy \/ XmitOwn \/ XmitCur \/ XmitKick \/ XmitCheck \/ XmitStop \/ XmitFlag
    BY <2>3 DEF XmitBusy, XmitOwn, XmitCur, XmitKick, XmitCheck, XmitStop, XmitFlag, BqlInv
  <2> QED
    BY <1>2, <2>1, <2>2, <2>3 DEF Xmit
<1>3. CASE Device \/ Irqs
  BY <1>3 DEF Device, HwComplete, HwSuspend, Irqs, IsrRead, IsrAck, FatalBusError, TimerFire,
              TimerEnd, BqlInv
<1>4. CASE Poll
  <2>1. CASE PollReap
    <3>1. /\ pkts' = (IF Slot(dirty) \in last THEN pkts + 1 ELSE pkts)
          /\ last' = last \ {Slot(dirty)} /\ ppc = "reap" /\ UNCHANGED <<bql, rpc, ppc>>
      BY <2>1 DEF PollReap
    <3>2. Cardinality(last') = IF Slot(dirty) \in last THEN Cardinality(last) - 1
                                                       ELSE Cardinality(last)
      BY <1>1, <3>1, FS_RemoveElement
    <3> QED
      BY <1>1, <3>1, <3>2 DEF BqlInv
  <2>2. CASE PollEnd
    <3>1. rpc \notin {"free", "start"}
      BY <2>2 DEF PollEnd, RingInv, PollInv
    <3> QED
      BY <1>1, <2>2, <3>1 DEF PollEnd, BqlInv
  <2>3. CASE PollBegin \/ PollWake \/ PollAgain \/ PollComplete
    BY <2>3 DEF PollBegin, PollWake, PollAgain, PollComplete, BqlInv
  <2> QED
    BY <1>4, <2>1, <2>2, <2>3 DEF Poll
<1>5. CASE Restart
  <2>1. CASE TxTimeout \/ StopQueues \/ StopTimers \/ DisableTx \/ FreeIrqs
    BY <2>1 DEF TxTimeout, StopQueues, StopTimers, DisableTx, FreeIrqs, BqlInv
  <2>2. CASE DisableNapi \/ FreeTxData
    BY <2>2 DEF DisableNapi, FreeTxData, BqlInv
  <2>3. ASSUME NEW ok \in BOOLEAN, StartDev(ok) PROVE BqlInv'
    <3>1. bql = 0 /\ pkts = 0
      BY <2>3 DEF StartDev, BqlInv, RingInv, PollInv
    <3>2. last' = {} /\ rpc' = "run" /\ UNCHANGED <<bql, pkts, ppc>>
      BY <2>3 DEF StartDev
    <3>3. Cardinality(last') = 0
      BY <3>2, FS_EmptySet
    <3> QED
      BY <3>1, <3>2, <3>3 DEF BqlInv
  <2> QED
    BY <1>5, <2>1, <2>2, <2>3 DEF Restart
<1>6. CASE UNCHANGED vars
  BY <1>6 DEF vars, BqlInv
<1> QED
  BY <1>2, <1>3, <1>4, <1>5, <1>6 DEF Next

\* What holds of the ring in every reachable state.
LEMMA TxCarries ==
  ASSUME StackQuiet, ~FlushStuck
  PROVE  Spec => [](TypeOK /\ RingInv /\ OwnInv /\ MapInv /\ SkbInv /\ LastInv /\ BqlInv)
<1>1. Init => RingInv /\ OwnInv /\ MapInv
  BY Sizes DEF Init, RingInv, XmitInv, PollInv, NoOverrun, OwnInv, MapInv, Used, Claim, Dist, Slots
<1>2. Init => SkbInv /\ LastInv /\ BqlInv
  BY FS_EmptySet DEF Init, SkbInv, LastInv, BqlInv
<1>3. TypeOK /\ RingInv /\ [Next]_vars => RingInv'
  BY RingXmit, RingPoll, RingOthers DEF Next
<1>4. TypeOK /\ RingInv /\ OwnInv /\ MapInv /\ [Next]_vars => OwnInv' /\ MapInv'
  BY DeviceStep
<1>5. TypeOK /\ RingInv /\ SkbInv /\ LastInv /\ BqlInv /\ [Next]_vars
        => SkbInv' /\ LastInv' /\ BqlInv'
  BY SkbStep, LastStep, BqlStep
<1> QED
  BY <1>1, <1>2, <1>3, <1>4, <1>5, TxTypes, PTL DEF Spec

\* For every ring and packet size: until mac_free_tx_data empties it, every
\* descriptor in use holds a buffer or a context, LD marks the entries that carry
\* an skb, and a descriptor not in use has neither OWN nor LD; if the stack is
\* quiet during a restart and the flush of the queues succeeds.
THEOREM TxInFlight == StackQuiet /\ ~FlushStuck => (Spec => []InFlightIntact)
<1> SUFFICES ASSUME StackQuiet, ~FlushStuck PROVE Spec => []InFlightIntact
  OBVIOUS
<1>1. TypeOK /\ RingInv /\ OwnInv /\ MapInv /\ SkbInv /\ LastInv => InFlightIntact
  <2> SUFFICES ASSUME TypeOK, RingInv, OwnInv, MapInv, SkbInv, LastInv, rpc # "start"
               PROVE  /\ Window \subseteq mapped
                      /\ own \subseteq Window
                      /\ last \subseteq Window
    BY DEF InFlightIntact, LastInv
  <2>1. /\ dirty \in Count /\ own \subseteq Slots /\ last \subseteq Slots
        /\ Used \in Nat /\ Used <= N
    BY DistNat, Sizes DEF TypeOK, DataTypes, RingInv, NoOverrun, Used, Claim
  <2>2. ASSUME NEW k \in 0..(Used - 1) PROVE Slot(Inc(dirty, k)) \in mapped
    BY <2>1, Sizes DEF MapInv, Slots
  <2>3. ASSUME NEW s \in own \cup last PROVE s \in Window
    <3>1. s \in Slots
      BY <2>1
    <3>2. PICK k \in Slots : Slot(Inc(dirty, k)) = s
      BY <2>1, <3>1, SlotSurj
    <3>3. k < Used
      BY <3>2 DEF OwnInv, SkbInv, LastInv
    <3> QED
      BY <3>1, <3>2, <3>3, WindowAt
  <2> QED
    BY <2>2, <2>3 DEF Window
<1> QED
  BY <1>1, TxCarries, PTL

\* For every ring and packet size: what mac_xmit reported to BQL and no poll has
\* reported completed is the packets of the ring and those the poll under way has
\* reclaimed, across restarts too.
THEOREM TxBql == StackQuiet /\ ~FlushStuck => (Spec => []BqlExact)
<1> SUFFICES ASSUME StackQuiet, ~FlushStuck PROVE Spec => []BqlExact
  OBVIOUS
<1>1. BqlInv => BqlExact
  BY DEF BqlInv, BqlExact
<1> QED
  BY <1>1, TxCarries, PTL
-----------------------------------------------------------------------------
(* The doorbell that xmit_more puts off.                                   *)

\* Every step.
LEMMA ForgetStep ==
  ASSUME ~FlushStuck, TypeOK, ForgetInv, [Next]_vars
  PROVE  ForgetInv'
<1>1. CASE Xmit
  <2>1. ASSUME NEW n \in 1..MaxDesc, NEW m \in BOOLEAN, XmitFill(n, m) PROVE ForgetInv'
    BY <2>1 DEF XmitFill, ForgetInv
  <2>2. ASSUME NEW j \in 0..(MaxDesc - 1), XmitGiveUp(j) PROVE ForgetInv'
    BY <2>2 DEF XmitGiveUp, ForgetInv
  <2>3. CASE XmitBusy \/ XmitOwn \/ XmitCur
    BY <2>3 DEF XmitBusy, MayXmit, XmitOwn, XmitCur, ForgetInv
  <2>4. CASE XmitKick
    BY <2>4 DEF XmitKick, mac_tx_start_xmit, ForgetInv
  <2>5. CASE XmitCheck \/ XmitStop
    BY <2>5 DEF XmitCheck, XmitStop, ForgetInv
  <2>6. CASE XmitFlag
    BY <2>6 DEF XmitFlag, mac_tx_start_xmit, ForgetInv
  <2> QED
    BY <1>1, <2>1, <2>2, <2>3, <2>4, <2>5, <2>6 DEF Xmit
<1>2. CASE Device \/ Irqs
  <2>1. CASE HwComplete
    <3>1. running /\ UNCHANGED <<running, te, xmit_more, xpc, more, promised>>
      BY <2>1 DEF HwComplete
    <3> QED
      BY <3>1, Zenon DEF ForgetInv
  <2>2. CASE HwSuspend
    BY <2>2 DEF HwSuspend, ForgetInv
  <2>3. CASE Irqs
    BY <2>3 DEF Irqs, IsrRead, IsrAck, FatalBusError, TimerFire, TimerEnd, ForgetInv
  <2> QED
    BY <1>2, <2>1, <2>2, <2>3 DEF Device
<1>3. CASE Poll
  BY <1>3 DEF Poll, PollBegin, PollReap, PollEnd, PollWake, PollAgain, PollComplete, ForgetInv
<1>4. CASE Restart
  <2>1. CASE TxTimeout \/ StopQueues \/ StopTimers \/ DisableTx \/ FreeIrqs \/ DisableNapi \/ FreeTxData
    BY <2>1 DEF TxTimeout, StopQueues, StopTimers, DisableTx, FreeIrqs, DisableNapi, FreeTxData,
                ForgetInv
  <2>2. ASSUME NEW ok \in BOOLEAN, StartDev(ok) PROVE ForgetInv'
    BY <2>2 DEF StartDev, ForgetInv
  <2> QED
    BY <1>4, <2>1, <2>2 DEF Restart
<1>5. CASE UNCHANGED vars
  BY <1>5 DEF vars, ForgetInv
<1> QED
  BY <1>1, <1>2, <1>3, <1>4, <1>5 DEF Next

\* For every ring and packet size, and also with a stack that goes on sending
\* during a restart: an enabled engine is left suspended before a descriptor it
\* owns only while the stack still owes the packet it announced; if the flush of
\* the queues succeeds.
THEOREM TxNotForgotten == ~FlushStuck => (Spec => []NothingForgotten)
<1> SUFFICES ASSUME ~FlushStuck PROVE Spec => []NothingForgotten
  OBVIOUS
<1>1. Init => ForgetInv
  BY DEF Init, ForgetInv
<1>2. TypeOK /\ ForgetInv /\ [Next]_vars => ForgetInv'
  BY ForgetStep
<1>3. ForgetInv => NothingForgotten
  BY DEF ForgetInv, NothingForgotten
<1> QED
  BY <1>1, <1>2, <1>3, TxTypes, PTL DEF Spec
=============================================================================
