-------------------------------- MODULE Link --------------------------------
(***************************************************************************)
(* The link of port 0: the bring-up of PLLs, lanes and PCS at probe and    *)
(* again at every mac_stop (bx_mpp.c, bx_mpu.c, bx_pcs.c), and             *)
(* rnic_link_check_timer (bx_mac_net.c) with the autonegotiation and link  *)
(* training it drives.                                                     *)
(* The timer handler runs beside the PCS and the link partner: the reads   *)
(* and clears of VR_AN_INTR are steps of their own.                        *)
(***************************************************************************)
EXTENDS Naturals

CONSTANTS
  Speeds,       \* the values of port_0_speed a build may select (bx_cfg.h)
  MaxRcv,       \* PCS_AN_MAX_RCV_CNT, 50
  MaxCheck,     \* PCS_AN_MAX_INTR_CHECK_CNT, 10000
  MaxDown       \* RNIC_MAX_LINK_DOWN_CNT, 3

ASSUME LinkConstants ==
  /\ Speeds \subseteq {100, 50, 25, 40, 10} /\ Speeds # {}
  /\ MaxRcv \in Nat \ {0} /\ MaxCheck \in Nat \ {0} /\ MaxDown \in Nat \ {0}

VARIABLES
  speed,        \* rnic_pdata->port_0_speed
  bpc,          \* how far the bring-up is
  plls,         \* mplla_en and mpllb_en
  port,         \* what the PCS, lane and PLL registers of the port select
  waits,        \* resets and loads of the PHY under way
  timer,        \* link_check_timer is armed or running
  pc,           \* where the timer handler is
  seen,         \* its copy of VR_AN_INTR
  link_up,      \* pdata->link_up, 2 until the first check
  down_cnt,     \* port_0_link_down_cnt
  pcs_flags,    \* pcs_0_an_start, _an_success, _krt_start, _krt_success, _krt_failed
  rcv_cnt,      \* pcs_0_an_rcv_cnt
  check_cnt,    \* pcs_0_an_intr_check_cnt
  an_ctrl,      \* bit 12 of SR_AN_CTRL: the device negotiates
  intr,         \* VR_AN_INTR
  tr_en,        \* TR_EN of SR_PMA_KR_PMD_CTRL
  sts,          \* SR_PMA_KR_PMD_STS: some lane in use has trained, some has failed
  exch,         \* the partner may still send pages
  signal,       \* the partner's signal is good
  partner       \* "good": answers, trains and keeps up its signal from now on

bring == <<speed, bpc, plls, port, waits>>
timing == <<timer, pc, seen>>
counts == <<rcv_cnt, check_cnt>>
pcs == <<an_ctrl, intr, tr_en, sts, exch>>
link_vars == <<bring, timing, link_up, down_cnt, pcs_flags, counts, pcs, signal, partner>>

Flags == {"an_start", "an_success", "krt_start", "krt_success", "krt_failed"}
Intr == {"CMPL", "INC", "PG"}     \* AN_INT_CMPL, AN_INC_LINK, AN_PG_RCV
None == "none"
-----------------------------------------------------------------------------
(* Bring-up.                                                               *)

\* mpu_speed_set of port 0: which PLL the lanes use, how many there are, whether
\* they are trained, and whether any sign of the partner is enough.
mpu_speed_set(s) ==
  [pll |-> IF s \in {40, 10} THEN "A" ELSE "B",
   lanes |-> CASE s \in {100, 40} -> 4 [] s = 50 -> 2 [] s \in {25, 10} -> 1,
   krt_en |-> s \in {100, 40, 10},
   link_up_only |-> s \in {50, 25}]

Mode == mpu_speed_set(speed)

\* (mutant) the PLL of the default speed only
MpuInit_Default(s) == {"B"}

\* mpu_init: mpllb_en is set because neither is, then by the default speed of
\* port 1; port 0 sets the one it uses.
MpuInit(s) == {"B", mpu_speed_set(s).pll}

\* The registers of a port that has been reset.
PortReset == [type |-> 0, fec |-> {"rs", "base_r"}, pll |-> {}, lane |-> None, eq |-> FALSE]

\* mpp_port_rst_n_set and mpp_port_rst_n_release: the PHY loads its SRAM, the PCS
\* resets itself and its registers.
mpp_port_rst ==
  /\ waits' = waits \cup {"sram", "soft"}
  /\ port' = PortReset
  /\ an_ctrl' \in BOOLEAN /\ intr' = {} /\ tr_en' = FALSE /\ sts' = {} /\ exch' = FALSE

\* (mutant) the training result of the last run of the device is kept
Forget_NotResult ==
  down_cnt' = 0 /\ pcs_flags' = pcs_flags \cap {"krt_success"} /\ rcv_cnt' = 0 /\ check_cnt' = 0

\* What mpu_init forgets of the port.
MpuForget == down_cnt' = 0 /\ pcs_flags' = {} /\ rcv_cnt' = 0 /\ check_cnt' = 0

\* mpp_init up to the release of the port's reset: the PHY is given to port 0,
\* which is unmasked and enabled.
MppInit ==
  /\ bpc = "probe"
  /\ plls' = MpuInit(speed)
  /\ MpuForget
  /\ mpp_port_rst
  /\ bpc' = "sram"
  /\ UNCHANGED <<speed, timing, link_up, signal, partner>>

\* The PHY ends a load or a reset.
HwReady(w) ==
  /\ w \in waits
  /\ waits' = waits \ {w}
  /\ UNCHANGED <<speed, bpc, plls, port, timing, link_up, down_cnt, pcs_flags, counts, pcs, signal, partner>>

\* pcs_sram_cfg and the pollings of SR_PCS_CTRL1 and VR_PCS_DIG_CTRL1.
PcsWait(at, w, next) ==
  /\ bpc = at
  /\ w \notin waits
  /\ bpc' = next
  /\ UNCHANGED <<speed, plls, port, waits, timing, link_up, down_cnt, pcs_flags, counts, pcs, signal, partner>>

\* pcs_rs_fec_cfg, pcs_base_r_fec_cfg: neither is enabled.
fec_cfg(p) == [p EXCEPT !.fec = {}]

\* pcs_type_cfg, pcs_pcs_speed_set, pcs_50g_mode_cfg: the values mpu_speed_set has
\* chosen for the speed.
pcs_type_cfg(p) == [p EXCEPT !.type = speed]

\* pcs_speed_set
pcs_speed_set(p) == pcs_type_cfg(fec_cfg(p))

\* The parameters of the two PLLs.
pcs_mplla_cfg(p) == [p EXCEPT !.pll = @ \cup {"A"}]
pcs_mpllb_cfg(p) == [p EXCEPT !.pll = @ \cup {"B"}]

\* pcs_mpll_en_cfg: a PLL that is not enabled is not calibrated.
pcs_mpll_en_cfg(p) == [p EXCEPT !.pll = @ \cap plls]

\* pcs_mpll_cfg
pcs_mpll_cfg(p) ==
  LET a == IF "A" \in plls THEN pcs_mplla_cfg(p) ELSE p
      b == IF "B" \in plls THEN pcs_mpllb_cfg(a) ELSE a
  IN  pcs_mpll_en_cfg(b)

\* The parameters of the four lanes, for either PLL.
pcs_per_lane_cfg_10g(p) == [p EXCEPT !.lane = "10g"]
pcs_per_lane_cfg_25g(p) == [p EXCEPT !.lane = "25g"]

\* pcs_per_lane_cfg: by pcs_0_mpllb_sel.
pcs_per_lane_cfg(p) ==
  IF Mode.pll = "A" THEN pcs_per_lane_cfg_10g(p) ELSE pcs_per_lane_cfg_25g(p)

\* pcs_tx_eq_cfg: the transmit equalisers of the lanes.
pcs_tx_eq_cfg(p) == [p EXCEPT !.eq = TRUE]

\* pcs_speed_switch up to the reset that applies it.
SpeedSwitch ==
  /\ bpc = "speed"
  /\ port' = pcs_per_lane_cfg(pcs_mpll_cfg(pcs_speed_set(port)))
  /\ waits' = {"sram", "vr"}
  /\ bpc' = "sram2"
  /\ UNCHANGED <<speed, plls, timing, link_up, down_cnt, pcs_flags, counts, pcs, signal, partner>>

\* pcs_tx_eq_cfg, pcs_loopback_cfg, pcs_an_cfg and pcs_krt_cfg.
AnCfg ==
  /\ bpc = "eq"
  /\ port' = pcs_tx_eq_cfg(port)
  /\ an_ctrl' = FALSE
  /\ intr' = {}
  /\ pcs_flags' = pcs_flags \ {"an_start"}
  /\ rcv_cnt' = 0 /\ check_cnt' = 0
  /\ bpc' = "up"
  /\ UNCHANGED <<speed, plls, waits, timing, link_up, down_cnt, tr_en, sts, exch, signal, partner>>

BringUp ==
  \/ MppInit
  \/ PcsWait("sram", "sram", "soft") \/ PcsWait("soft", "soft", "speed")
  \/ SpeedSwitch
  \/ PcsWait("sram2", "sram", "vr") \/ PcsWait("vr", "vr", "eq")
  \/ AnCfg
-----------------------------------------------------------------------------
(* Autonegotiation and training, as parts of the timer handler.            *)

\* pcs_an_disable: the register and the counters; its callers drop an_start.
pcs_an_disable ==
  /\ an_ctrl' = FALSE
  /\ rcv_cnt' = 0 /\ check_cnt' = 0

\* (mutant) the training result of the last negotiation is kept
AnStart_KeepsResult ==
  /\ intr' = {} /\ an_ctrl' = TRUE /\ exch' = TRUE
  /\ pcs_flags' = (pcs_flags \cup {"an_start"}) \ {"an_success"}
  /\ rcv_cnt' = 0 /\ check_cnt' = 0
  /\ UNCHANGED <<tr_en, sts>>

\* pcs_an_start
pcs_an_start ==
  /\ intr' = {} /\ an_ctrl' = TRUE /\ exch' = TRUE
  /\ pcs_flags' = {"an_start"}
  /\ rcv_cnt' = 0 /\ check_cnt' = 0
  /\ UNCHANGED <<tr_en, sts>>

\* pcs_krt_start: the flags and registers after it, given the flags before.
pcs_krt_start(f) ==
  IF "krt_start" \in f
  THEN pcs_flags' = f /\ UNCHANGED <<tr_en, sts>>
  ELSE IF Mode.krt_en
       THEN pcs_flags' = f \cup {"krt_start"} /\ tr_en' = TRUE /\ sts' = {}
       ELSE pcs_flags' = f \cup {"krt_failed"} /\ UNCHANGED <<tr_en, sts>>

\* pcs_krt_check_state: one trained lane is enough, one failed lane as well.
pcs_krt_check_state ==
  /\ pcs_flags' = (pcs_flags \cup {f \in {"krt_success", "krt_failed"} :
                             (IF f = "krt_success" THEN "good" ELSE "bad") \in sts})
                     \ (IF sts = {} THEN {} ELSE {"krt_start"})
  /\ UNCHANGED <<counts, pcs>>

\* pcs_an_int_cmpl: with a training result the negotiation is over, without one
\* training starts.
pcs_an_int_cmpl ==
  IF pcs_flags \cap {"krt_success", "krt_failed"} # {}
  THEN /\ pcs_flags' = (pcs_flags \cup {"an_success"}) \ {"an_start"}
       /\ pcs_an_disable
       /\ UNCHANGED <<tr_en, sts>>
  ELSE pcs_krt_start(pcs_flags) /\ UNCHANGED <<an_ctrl, counts>>

\* pcs_an_nxp_check in the modes that reach it: the base page advertises no next
\* page; when the partner's does not either, training starts.  Otherwise a null
\* page is sent.
pcs_an_nxp_check(lp_xnp, f) ==
  IF lp_xnp THEN pcs_flags' = f /\ UNCHANGED <<tr_en, sts>> ELSE pcs_krt_start(f)

\* pcs_an_pg_rcv
pcs_an_pg_rcv(lp_xnp) ==
  IF pcs_flags \cap {"krt_start", "krt_success", "krt_failed"} = {}
  THEN IF rcv_cnt + 1 >= MaxRcv
       THEN pcs_an_nxp_check(lp_xnp, pcs_flags \ {"an_start"}) /\ pcs_an_disable
       ELSE /\ pcs_an_nxp_check(lp_xnp, pcs_flags)
            /\ rcv_cnt' = rcv_cnt + 1
            /\ UNCHANGED <<an_ctrl, check_cnt>>
  ELSE UNCHANGED <<pcs_flags, counts, an_ctrl, tr_en, sts>>
-----------------------------------------------------------------------------
(* rnic_link_check_timer.                                                  *)

\* What pcs_get_rlu and mac_get_link_status report.  A good partner's signal is
\* there once its side is through.
Up ==
  \/ signal
  \/ /\ partner = "good"
     /\ IF Mode.link_up_only THEN "an_success" \in pcs_flags ELSE "good" \in sts

\* MaxCheck checks are far longer than a negotiation takes: a good partner has
\* answered before the last of them.
InTime ==
  partner = "good" /\ an_ctrl /\ "krt_start" \notin pcs_flags /\ check_cnt + 1 >= MaxCheck
    => intr # {}

\* The check of the link; every MaxDown-th check that finds it down forgets the
\* results.
LinkCheck ==
  /\ pc = "idle" /\ timer /\ InTime
  /\ link_up' = IF Up THEN 1 ELSE 0
  /\ down_cnt' = IF Up THEN 0 ELSE (down_cnt + 1) % MaxDown
  /\ pcs_flags' = IF ~Up /\ down_cnt + 1 >= MaxDown
              THEN pcs_flags \ {"an_success", "krt_success", "krt_failed"}
              ELSE pcs_flags
  /\ pc' = "an"
  /\ UNCHANGED <<bring, timer, seen, counts, pcs, signal, partner>>

Settled == {"an_success", "krt_success"} \subseteq pcs_flags

\* Nothing to do, a new negotiation, or a look at the training.
CheckEnd ==
  /\ pc = "an"
  /\ \/ Settled /\ UNCHANGED <<pcs_flags, counts, pcs>>
     \/ ~Settled /\ pcs_flags \cap {"an_start", "krt_start"} = {} /\ pcs_an_start
     \/ ~Settled /\ "krt_start" \in pcs_flags /\ pcs_krt_check_state
  /\ pc' = "idle"
  /\ UNCHANGED <<bring, timer, seen, link_up, down_cnt, signal, partner>>

\* (mutant) the checks that find nothing are not counted
Silent_NotCounted ==
  /\ intr = {}
  /\ pc' = "idle"
  /\ UNCHANGED <<pcs_flags, counts, an_ctrl, seen>>

\* No interrupt: pcs_an_timeout gives up after MaxCheck checks.
AnSilent ==
  /\ intr = {}
  /\ IF check_cnt + 1 >= MaxCheck
     THEN pcs_an_disable /\ pcs_flags' = pcs_flags \ {"an_start"}
     ELSE check_cnt' = check_cnt + 1 /\ UNCHANGED <<rcv_cnt, an_ctrl, pcs_flags>>
  /\ pc' = "idle"
  /\ UNCHANGED seen

\* link_up_only: any interrupt ends it.
AnLinkUpOnly ==
  /\ intr # {} /\ Mode.link_up_only
  /\ pcs_an_disable
  /\ pcs_flags' = (pcs_flags \ {"an_start"}) \cup {"krt_success", "an_success"}
  /\ pc' = "idle"
  /\ UNCHANGED seen

AnRead ==
  /\ intr # {} /\ ~Mode.link_up_only
  /\ seen' = intr
  /\ pc' = "cmpl"
  /\ UNCHANGED <<pcs_flags, counts, an_ctrl>>

\* pcs_an_get_intr while a negotiation runs.
Negotiating ==
  /\ pc = "an" /\ ~Settled /\ "krt_start" \notin pcs_flags /\ "an_start" \in pcs_flags
  /\ AnSilent \/ AnLinkUpOnly \/ AnRead
  /\ UNCHANGED <<bring, timer, link_up, down_cnt, intr, tr_en, sts, exch, signal, partner>>

\* The three interrupts in turn.  Clearing one is a read and a write; a bit raised
\* in between is lost, as if it had not been raised.
OnCmpl ==
  /\ pc = "cmpl"
  /\ IF "CMPL" \in seen
     THEN pcs_an_int_cmpl /\ intr' = intr \ {"CMPL"}
     ELSE UNCHANGED <<pcs_flags, counts, an_ctrl, intr, tr_en, sts>>
  /\ pc' = "inc"
  /\ UNCHANGED <<bring, timer, seen, link_up, down_cnt, exch, signal, partner>>

\* pcs_an_inc_link
OnIncLink ==
  /\ pc = "inc"
  /\ IF "INC" \in seen
     THEN pcs_an_disable /\ pcs_flags' = pcs_flags \ {"an_start"} /\ intr' = intr \ {"INC"}
     ELSE UNCHANGED <<pcs_flags, counts, an_ctrl, intr>>
  /\ pc' = "pg"
  /\ UNCHANGED <<bring, timer, seen, link_up, down_cnt, tr_en, sts, exch, signal, partner>>

OnPgRcv(lp_xnp) ==
  /\ pc = "pg"
  /\ IF "PG" \in seen
     THEN pcs_an_pg_rcv(lp_xnp) /\ intr' = intr \ {"PG"}
     ELSE UNCHANGED <<pcs_flags, counts, an_ctrl, intr, tr_en, sts>>
  /\ pc' = "end"
  /\ UNCHANGED <<bring, timer, seen, link_up, down_cnt, exch, signal, partner>>

\* The checks without an interrupt are counted anew.
OnEnd ==
  /\ pc = "end"
  /\ check_cnt' = 0
  /\ seen' = {}
  /\ pc' = "idle"
  /\ UNCHANGED <<bring, timer, link_up, down_cnt, pcs_flags, rcv_cnt, pcs, signal, partner>>

Handler ==
  \/ LinkCheck \/ CheckEnd \/ Negotiating
  \/ OnCmpl \/ OnIncLink \/ (\E x \in BOOLEAN : OnPgRcv(x)) \/ OnEnd
-----------------------------------------------------------------------------
\* mac_start arms the timer; mac_stop waits for the handler, deletes the timer and
\* initialises the port again (mac_hw_exit calls rnic_init).
TimerStart ==
  /\ bpc = "up" /\ ~timer
  /\ timer' = TRUE
  /\ UNCHANGED <<bring, pc, seen, link_up, down_cnt, pcs_flags, counts, pcs, signal, partner>>

TimerStop ==
  /\ timer /\ pc = "idle"
  /\ timer' = FALSE
  /\ bpc' = "probe"
  /\ UNCHANGED <<speed, plls, port, waits, pc, seen, link_up, down_cnt, pcs_flags, counts, pcs, signal, partner>>

\* The PCS raises an interrupt while it negotiates: a page as long as the exchange
\* lasts (a good partner sends few), the end of the negotiation, or a partner it
\* has nothing in common with.
HwIntr(b) ==
  /\ an_ctrl /\ b \notin intr
  /\ b = "PG" => exch /\ (partner = "good" => rcv_cnt + 1 < MaxRcv)
  /\ b = "INC" => partner # "good"
  /\ intr' = intr \cup {b}
  /\ UNCHANGED <<bring, timing, link_up, down_cnt, pcs_flags, counts, an_ctrl, tr_en, sts, exch, signal, partner>>

\* A lane in use has trained or failed.
HwTrain(r) ==
  /\ tr_en /\ r \notin sts
  /\ sts # {} => Mode.lanes > 1
  /\ r = "bad" => partner # "good"
  /\ sts' = sts \cup {r}
  /\ exch' = FALSE
  /\ UNCHANGED <<bring, timing, link_up, down_cnt, pcs_flags, counts, an_ctrl, intr, tr_en, signal, partner>>

HwSignal ==
  /\ bpc = "up"
  /\ signal' = ~signal
  /\ UNCHANGED <<bring, timing, link_up, down_cnt, pcs_flags, counts, pcs, partner>>

PartnerGood ==
  /\ bpc = "up" /\ partner = "any"
  /\ partner' = "good"
  /\ UNCHANGED <<bring, timing, link_up, down_cnt, pcs_flags, counts, pcs, signal>>

Hardware ==
  \/ \E w \in waits : HwReady(w)
  \/ \E b \in Intr : HwIntr(b)
  \/ \E r \in {"good", "bad"} : HwTrain(r)
  \/ HwSignal \/ PartnerGood

LinkInit ==
  /\ speed \in Speeds /\ bpc = "probe" /\ plls = {} /\ waits = {}
  /\ port = PortReset
  /\ timer = FALSE /\ pc = "idle" /\ seen = {}
  /\ link_up = 2 /\ down_cnt = 0 /\ pcs_flags = {} /\ rcv_cnt = 0 /\ check_cnt = 0
  /\ an_ctrl \in BOOLEAN /\ intr = {} /\ tr_en = FALSE /\ sts = {} /\ exch = FALSE
  /\ signal = FALSE /\ partner = "any"

LinkNext == BringUp \/ Handler \/ TimerStart \/ TimerStop \/ Hardware

LinkSpec == LinkInit /\ [][LinkNext]_link_vars

\* The kernel runs an armed timer and a probe that has begun; the PHY ends its
\* resets and a training (the driver has no timeout of its own for it).  A good
\* partner completes a negotiation.
FairSpec ==
  /\ LinkSpec
  /\ WF_link_vars(BringUp) /\ WF_link_vars(Handler)
  /\ \A w \in {"sram", "soft", "vr"} : WF_link_vars(HwReady(w))
  /\ WF_link_vars(partner = "good" /\ HwIntr("CMPL"))
  /\ WF_link_vars(sts = {} /\ \E r \in {"good", "bad"} : HwTrain(r))
-----------------------------------------------------------------------------
(* Properties.                                                             *)

\* Every variable has its type; the counters stay below the limits at which
\* pcs_an_pg_rcv and the timer handler give up.
LinkTypeOK ==
  /\ speed \in Speeds
  /\ bpc \in {"probe", "sram", "soft", "speed", "sram2", "vr", "eq", "up"}
  /\ plls \subseteq {"A", "B"} /\ waits \subseteq {"sram", "soft", "vr"}
  /\ timer \in BOOLEAN /\ pc \in {"idle", "an", "cmpl", "inc", "pg", "end"}
  /\ seen \subseteq Intr /\ intr \subseteq Intr
  /\ link_up \in 0..2 /\ down_cnt \in 0..(MaxDown - 1)
  /\ pcs_flags \subseteq Flags
  /\ rcv_cnt \in 0..(MaxRcv - 1) /\ check_cnt \in 0..(MaxCheck - 1)
  /\ an_ctrl \in BOOLEAN /\ tr_en \in BOOLEAN /\ exch \in BOOLEAN
  /\ sts \subseteq {"good", "bad"}
  /\ signal \in BOOLEAN /\ partner \in {"any", "good"}

\* The lanes are clocked: when mpp_init is through, the PLL that the lane
\* parameters of pcs_per_lane_cfg belong to is among those pcs_mpll_cfg has set up,
\* whatever the speeds of the two ports.
LanesClocked ==
  bpc = "up" => /\ port.eq /\ port.type = speed /\ port.fec = {}
                /\ (IF port.lane = "10g" THEN "A" ELSE "B") \in port.pll

\* The driver and the PCS agree on whether a negotiation runs: between two runs of
\* the handler pcs_0_an_start is set exactly when SR_AN_CTRL enables it, over
\* restarts of the device, timeouts and results that arrive in any order.
FlagIsRegister ==
  bpc = "up" /\ pc \in {"idle", "an"} => ("an_start" \in pcs_flags <=> an_ctrl)

\* The phases exclude each other: a training under way has no result yet, and a
\* negotiation that has succeeded does not run.
PhasesExclude ==
  /\ "krt_start" \in pcs_flags => tr_en /\ pcs_flags \cap {"krt_success", "krt_failed"} = {}
  /\ "an_success" \in pcs_flags => "an_start" \notin pcs_flags

\* A training result is the device's: krt_success means that a lane has trained
\* since training was last started, unless the mode asks for no training.
ResultEarned ==
  "krt_success" \in pcs_flags => Mode.link_up_only \/ "good" \in sts

\* The flags of the driver are true to the registers and to each other in every state
\* of rnic_link_check_timer: counters below their limits, negotiation and training
\* apart, results earned.
FlagInv == LinkTypeOK /\ FlagIsRegister /\ PhasesExclude /\ ResultEarned

\* While the link is up every negotiation ends, whatever the partner does: by
\* success, by an incompatible partner, after MaxRcv pages or after MaxCheck silent
\* checks.  (While it is down it may not: the third check can forget each training
\* result before pcs_an_int_cmpl looks at it, which then trains again.)
NegotiationEnds ==
  ("an_start" \in pcs_flags) ~> ("an_start" \notin pcs_flags \/ ~timer \/ link_up # 1)

\* With a partner that answers, trains and then keeps its signal, the handler
\* comes to rest, whatever happened before: results forgotten by the third check
\* of a link that was down, failed trainings and timeouts included.
LinkSettles == <>[](partner = "good" /\ timer) => <>[]Settled
=============================================================================
