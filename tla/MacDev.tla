------------------------------- MODULE MacDev -------------------------------
(***************************************************************************)
(* The network device as the kernel sees it: probe and remove, open, close *)
(* and restart with the resources they take and give back, and the         *)
(* operations that change what the device filters and offloads             *)
(* (bx_mac.c, bx_mac_net.c, bx_mac_desc.c, bx_mac_hw.c, bx_mac_ethtool.c). *)
(* The kernel calls them one at a time, under rtnl_lock.  mac_hw_exit      *)
(* does not reset the MAC: the registers outlive a close and a remove.     *)
(* The build has one channel (CUST_CHANNEL_NUM) and the legacy interrupt.  *)
(***************************************************************************)
EXTENDS Naturals, FiniteSets

CONSTANTS
  Vids,         \* VLAN identifiers
  Uc, Mc,       \* unicast and multicast addresses beside the device's own
  Addn,         \* additional address registers, hw_feat.addn_mac
  Mtus,         \* MTUs asked for
  Usecs,        \* receive coalescing times asked for
  MaxCalls,     \* bound on the calls that change a setting
  Allow         \* situations the code does not survive that may occur

ASSUME MacDevConstants ==
  /\ Vids \subseteq Nat /\ Uc \subseteq Nat /\ Mc \subseteq Nat /\ Uc \cap Mc = {}
  /\ Addn \in Nat /\ Mtus \subseteq Nat /\ 1500 \in Mtus /\ Usecs \subseteq Nat /\ MaxCalls \in Nat
  /\ Allow \subseteq {"reopen", "irq_restart", "late_work", "early_ethtool"}

VARIABLES
  dev,          \* the PCI device is bound and its net device registered
  hw_feat,      \* optional features of the MAC
  running,      \* netif_running
  flags,        \* IFF_PROMISC and IFF_ALLMULTI of netdev->flags
  features,     \* netdev->features
  mtu,          \* netdev->mtu
  lists,        \* the addresses of netdev->uc and netdev->mc
  own,          \* netdev->dev_addr
  pd,           \* pdata: netdev_features, active_vlans, rx_buf_size, rx_usecs,
                \* channel_count
  head,         \* channel_head: {n} when it points to n channels, or NULL
  res,          \* what mac_start took: "napi", "irq", "ieu_timer", "link_timer", "queues"
  dma,          \* the receive and transmit engines are on
  work,         \* restart_work is pending
  regs,         \* the registers of the MAC
  inited,       \* the last mac_hw_init came to its end
  calls,        \* settings changed so far
  state         \* "ok", "oops" or "hung" (holding rtnl_lock)

net == <<flags, features, mtu, lists, own>>
life == <<dev, hw_feat, running, head, res, dma, work, inited, state>>
vars == <<net, life, pd, regs, calls>>

NULL == {}
Features == {"RXHASH", "RXCSUM", "VLAN_RX", "VLAN_FILTER"}
Resources == {"napi", "irq", "ieu_timer", "link_timer", "queues"}
-----------------------------------------------------------------------------
(* What one register write does: operators from registers to registers.    *)

Set(r, f, v) == [r EXCEPT ![f] = v]

mac_enable_rx_csum(r) == Set(r, "IPC", TRUE)
mac_disable_rx_csum(r) == Set(r, "IPC", FALSE)

mac_set_mac_address(r, a) == Set(r, "MACA0", a)

mac_enable_rx_vlan_stripping(r) == Set(r, "EVLS", TRUE)
mac_disable_rx_vlan_stripping(r) == Set(r, "EVLS", FALSE)

mac_enable_rx_vlan_filtering(r) == Set(r, "VTFE", TRUE)
mac_disable_rx_vlan_filtering(r) == Set(r, "VTFE", FALSE)

\* mac_vid_crc32_le and the top bits of it: some VLANs share a bit of the table.
vid_bit(v) == v % 2

mac_update_vlan_hash_table(r, vlans) == Set(r, "VLHT", {vid_bit(v) : v \in vlans})

\* (mutant) leaving promiscuous mode forgets the VLAN filter
Promisc_NoVlan(r, on, fs) ==
  IF r.PR = on THEN r
  ELSE IF on THEN mac_disable_rx_vlan_filtering(Set(r, "PR", on)) ELSE Set(r, "PR", on)

\* The VLAN filter would still work in promiscuous mode: it goes off with it.
mac_set_promiscuous_mode(r, on, fs) ==
  IF r.PR = on THEN r
  ELSE LET p == Set(r, "PR", on)
       IN  IF on THEN mac_disable_rx_vlan_filtering(p)
           ELSE IF "VLAN_FILTER" \in fs THEN mac_enable_rx_vlan_filtering(p) ELSE p

mac_set_all_multicast_mode(r, on) == IF r.PM = on THEN r ELSE Set(r, "PM", on)

\* mac_set_mac_reg, once for each register: those left over are cleared.
mac_set_mac_reg(r, addrs) == Set(r, "MACA", addrs)

\* More addresses than registers: everything is let through.
mac_set_mac_addn_addrs(r, l, fs) ==
  IF Cardinality(l \cap Uc) > Addn
  THEN mac_set_mac_reg(mac_set_promiscuous_mode(r, TRUE, fs), {})
  ELSE IF Cardinality(l) > Addn
       THEN mac_set_mac_reg(mac_set_all_multicast_mode(r, TRUE), l \cap Uc)
       ELSE mac_set_mac_reg(r, l)

\* The bit of an address in the hash table.
mac_bit(a) == a % 2

mac_set_mac_hash_table(r, l) == Set(r, "HTR", {mac_bit(a) : a \in l})

mac_add_mac_addresses(r, l, fs) ==
  IF "hash" \in hw_feat THEN mac_set_mac_hash_table(r, l) ELSE mac_set_mac_addn_addrs(r, l, fs)

\* HPF, HUC and HMC are set when there is a table.
mac_config_mac_address(r) ==
  LET a == mac_set_mac_address(r, own)
  IN  IF "hash" \in hw_feat THEN Set(a, "HPF", TRUE) ELSE a

mac_config_rx_mode(r, fl, l, fs) ==
  LET p == mac_set_promiscuous_mode(r, "PROMISC" \in fl, fs)
      m == mac_set_all_multicast_mode(p, "ALLMULTI" \in fl)
  IN  mac_add_mac_addresses(m, l, fs)

mac_config_jumbo_enable(r, m) == Set(r, "JE", m > 1500)

mac_config_checksum_offload(r, fs) ==
  IF "RXCSUM" \in fs THEN mac_enable_rx_csum(r) ELSE mac_disable_rx_csum(r)

mac_config_vlan_support(r, fs, vlans) ==
  LET h == mac_update_vlan_hash_table(r, vlans)
      f == IF "VLAN_FILTER" \in fs THEN mac_enable_rx_vlan_filtering(h)
           ELSE mac_disable_rx_vlan_filtering(h)
  IN  IF "VLAN_RX" \in fs THEN mac_enable_rx_vlan_stripping(f)
      ELSE mac_disable_rx_vlan_stripping(f)

\* tx_pause and rx_pause are 0 in mac_default_config.
mac_disable_tx_flow_control(r) == Set(r, "TFE", FALSE)
mac_disable_rx_flow_control(r) == Set(r, "RFE", FALSE)

mac_config_flow_control(r) == mac_disable_rx_flow_control(mac_disable_tx_flow_control(r))

\* The watchdog counts 256 cycles of a clock of 1200 MHz.
mac_usec_to_riwt(u) == (u * 1200) \div 256

\* For each channel there is.
PerChannel(r, f, v) == IF pd.channel_count > 0 THEN Set(r, f, v) ELSE r

mac_config_rx_coalesce(r, u) == PerChannel(r, "RIWT", mac_usec_to_riwt(u))

mac_config_rx_buffer_size(r, n) == PerChannel(r, "RBSZ", n)

\* The lookup table is written entry by entry; the device may stay busy.  What has
\* been written once is the same every time.
mac_write_rss(r, busy) == IF busy THEN r ELSE Set(r, "RSST", TRUE)

mac_enable_rss(r, busy) ==
  LET t == mac_write_rss(r, busy) IN IF busy THEN t ELSE Set(t, "RSSE", TRUE)

mac_disable_rss(r) == Set(r, "RSSE", FALSE)

mac_config_rss(r, fs, busy) ==
  IF "rss" \notin hw_feat THEN r
  ELSE IF "RXHASH" \in fs THEN mac_enable_rss(r, busy) ELSE mac_disable_rss(r)

\* Registers that get the same value at every start: that they have been written.
Put(r, x) == [r EXCEPT !.cfg = @ \cup {x}]
PutChannel(r, x) == IF pd.channel_count > 0 THEN Put(r, x) ELSE r

mac_config_dma_bus(r) == Put(r, "dma_bus")
mac_config_osp_mode(r) == PutChannel(r, "osp")
mac_config_pblx8(r) == PutChannel(r, "pblx8")
mac_config_tx_pbl_val(r) == PutChannel(r, "tx_pbl")
mac_config_rx_pbl_val(r) == PutChannel(r, "rx_pbl")
mac_config_tso_mode(r) == PutChannel(r, "tso")
mac_config_sph_mode(r) == PutChannel(r, "sph")
mac_enable_dma_interrupts(r) == PutChannel(r, "dma_ier")
mac_config_mtl_mode(r) == Put(r, "mtl")
mac_config_queue_mapping(r) == Put(r, "map")
mac_config_sf_mode(r) == Put(r, "sf")
mac_config_tx_threshold(r) == Put(r, "ttc")
mac_config_rx_threshold(r) == Put(r, "rtc")
mac_config_fifo_size(r) == Put(r, "fifo")
mac_config_flow_control_threshold(r) == Put(r, "rfc")
mac_config_rx_fep_fup(r) == Put(r, "fep_fup")
mac_enable_mtl_interrupts(r) == Put(r, "mtl_ier")
mac_enable_mac_interrupts(r) == Put(r, "mac_ier")

\* The rest of mac_hw_init: pause frames stop the transmitter after all, and RA hands
\* over every frame with the verdict of the filters instead of dropping it.
LastPart(r) == Put(Put(Set(r, "RFE", TRUE), "RA"), "prio_map")

Fixed == {"dma_bus", "osp", "pblx8", "tx_pbl", "rx_pbl", "tso", "sph", "dma_ier", "mtl", "map",
          "sf", "ttc", "rtc", "fifo", "rfc", "fep_fup", "mtl_ier", "mac_ier", "RA", "prio_map"}

InitDma(r, n, busy) ==
  LET a == mac_config_rx_pbl_val(mac_config_tx_pbl_val(mac_config_pblx8(
             mac_config_osp_mode(mac_config_dma_bus(r)))))
      b == mac_config_rx_buffer_size(mac_config_rx_coalesce(a, pd.rx_usecs), n)
      c == mac_config_rss(mac_config_sph_mode(mac_config_tso_mode(b)), features, busy)
  IN  mac_enable_dma_interrupts(c)

InitMtl(r) ==
  LET a == mac_config_sf_mode(mac_config_queue_mapping(mac_config_mtl_mode(r)))
      b == mac_config_fifo_size(mac_config_rx_threshold(mac_config_tx_threshold(a)))
  IN  mac_enable_mtl_interrupts(mac_config_rx_fep_fup(mac_config_flow_control_threshold(b)))

InitMac(r, m) ==
  LET a == mac_config_rx_mode(mac_config_mac_address(r), flags, lists, features)
      b == mac_config_flow_control(mac_config_jumbo_enable(a, m))
      c == mac_config_vlan_support(mac_config_checksum_offload(b, features), features,
                                   pd.active_vlans)
  IN  mac_enable_mac_interrupts(c)

\* mac_hw_init once the transmit queues are flushed.
mac_hw_init(r, m, n, busy) == LastPart(InitMac(InitMtl(InitDma(r, n, busy)), m))
-----------------------------------------------------------------------------
(* Starting and stopping.                                                  *)

\* mac_calc_rx_buf_size: the frame with its header, VLAN tag and FCS, between 1522
\* and a page, in units of 64.
mac_calc_rx_buf_size(m) ==
  LET s == m + 22
      c == IF s < 1522 THEN 1522 ELSE IF s > 4096 THEN 4096 ELSE s
  IN  ((c + 63) \div 64) * 64

\* (mutant) the NAPI instance is left behind when the interrupt is refused
Start_KeepsNapi(m, n, flushed, busy, irq) ==
  /\ regs' = IF flushed THEN mac_hw_init(regs, m, n, busy) ELSE regs
  /\ inited' = flushed
  /\ IF irq THEN res' = Resources /\ dma' = TRUE
     ELSE res' = {"napi"} /\ dma' = FALSE

\* mac_start: a mac_hw_init that gives up goes unnoticed, an interrupt that cannot
\* be had does not.
mac_start(m, n, flushed, busy, irq) ==
  /\ regs' = IF flushed THEN mac_hw_init(regs, m, n, busy) ELSE regs
  /\ inited' = flushed
  /\ IF irq THEN res' = Resources /\ dma' = TRUE
     ELSE res' = {} /\ dma' = FALSE

\* mac_stop can finish: napi_disable waits forever for an instance that is
\* disabled already.
CanStop == "napi" \in res

\* mac_restart_dev: nothing on a device that is not running; whether the interrupt
\* can be had again is not looked at.
mac_restart_dev(m, n, flushed, busy, irq) ==
  /\ irq \/ "irq_restart" \in Allow
  /\ IF ~running THEN UNCHANGED <<regs, inited, res, dma, state>>
     ELSE IF CanStop
     THEN mac_start(m, n, flushed, busy, irq) /\ UNCHANGED state
     ELSE state' = "hung" /\ res' = {} /\ dma' = FALSE /\ UNCHANGED <<regs, inited>>

\* mac_free_channels_and_rings; kcalloc gives no memory for zero channels.
mac_free_channels ==
  /\ head' = NULL
  /\ pd' = [pd EXCEPT !.channel_count = 0]
  /\ state' = IF head = {0} THEN "oops" ELSE state

Ready == dev /\ state = "ok"
Change == Ready /\ calls < MaxCalls /\ calls' = calls + 1

\* mac_open when the channels or the rings cannot be had: without channels the count
\* stays, without rings it goes with the channels.
OpenNoMemory ==
  /\ Ready /\ ~running
  /\ \E n \in {0, pd.channel_count} :
       pd' = [pd EXCEPT !.rx_buf_size = mac_calc_rx_buf_size(mtu), !.channel_count = n]
  /\ UNCHANGED <<calls, net, life, regs>>

\* mac_open.  INIT_WORK on pending work breaks the list it is on.
Open(flushed, busy, irq) ==
  /\ Ready /\ ~running
  /\ pd.channel_count > 0 \/ "reopen" \in Allow
  /\ ~work \/ "late_work" \in Allow
  /\ mac_start(mtu, mac_calc_rx_buf_size(mtu), flushed, busy, irq)
  /\ running' = irq
  /\ head' = IF irq THEN {pd.channel_count} ELSE NULL
  /\ pd' = [pd EXCEPT !.rx_buf_size = mac_calc_rx_buf_size(mtu),
                      !.channel_count = IF irq THEN @ ELSE 0]
  /\ state' = IF work \/ (~irq /\ pd.channel_count = 0) THEN "oops" ELSE state
  /\ UNCHANGED <<calls, net, dev, hw_feat, work>>

\* mac_close
Close ==
  /\ Ready /\ running
  /\ IF CanStop
     THEN running' = FALSE /\ res' = {} /\ dma' = FALSE /\ mac_free_channels
     ELSE state' = "hung" /\ res' = {} /\ dma' = FALSE /\ UNCHANGED <<running, head, pd>>
  /\ UNCHANGED <<calls, net, dev, hw_feat, work, regs, inited>>

\* mac_tx_timeout
TxTimeout ==
  /\ Ready /\ running
  /\ work' = TRUE
  /\ UNCHANGED <<calls, net, dev, hw_feat, running, head, res, dma, inited, state, pd, regs>>

\* mac_restart.  Nobody cancels the work: it may find the device gone.
RestartWork(flushed, busy, irq) ==
  /\ work /\ state = "ok"
  /\ work' = FALSE
  /\ IF dev THEN mac_restart_dev(mtu, pd.rx_buf_size, flushed, busy, irq)
     ELSE state' = "oops" /\ UNCHANGED <<regs, inited, res, dma>>
  /\ UNCHANGED <<calls, net, dev, hw_feat, running, head, pd>>
-----------------------------------------------------------------------------
(* Operations of the kernel and of ethtool.                                *)

\* mac_change_mtu; the MTU is taken before the restart, whatever comes of it.
ChangeMtu(m, flushed, busy, irq) ==
  /\ Change /\ m # mtu /\ m <= 9000
  /\ mtu' = m
  /\ pd' = [pd EXCEPT !.rx_buf_size = mac_calc_rx_buf_size(m)]
  /\ mac_restart_dev(m, mac_calc_rx_buf_size(m), flushed, busy, irq)
  /\ UNCHANGED <<flags, features, lists, own, dev, hw_feat, running, head, work>>

\* The kernel changes what the device is to receive, one thing at a time;
\* mac_set_rx_mode is called on a device that is up.
SetRxMode(fl, l) ==
  /\ Change
  /\ flags' = fl /\ lists' = l
  /\ regs' = IF running THEN mac_config_rx_mode(regs, fl, l, features) ELSE regs
  /\ UNCHANGED <<features, mtu, own, life, pd>>

Toggle(s, x) == IF x \in s THEN s \ {x} ELSE s \cup {x}

SetFlags == \E f \in {"PROMISC", "ALLMULTI"} : SetRxMode(Toggle(flags, f), lists)
SetLists == \E a \in Uc \cup Mc : SetRxMode(flags, Toggle(lists, a))

\* mac_vlan_rx_add_vid and mac_vlan_rx_kill_vid, called while the filter is offered.
VlanRxVid(v) ==
  /\ Change /\ "VLAN_FILTER" \in features
  /\ pd' = [pd EXCEPT !.active_vlans = Toggle(@, v)]
  /\ regs' = mac_update_vlan_hash_table(regs, pd'.active_vlans)
  /\ UNCHANGED <<net, life>>

\* What mac_init offers for the features the hardware has.
Offered(hw) ==
  {"VLAN_RX"} \cup {f \in Features : \/ f = "RXHASH" /\ "rss" \in hw
                                     \/ f = "RXCSUM" /\ "rx_coe" \in hw
                                     \/ f = "VLAN_FILTER" /\ "vlhash" \in hw}

\* The registers after the changes of mac_set_features, RSS apart.
ApplyFeatures(r, old, new) ==
  LET c == IF ("RXCSUM" \in new) # ("RXCSUM" \in old)
           THEN mac_config_checksum_offload(r, new) ELSE r
      s == IF "VLAN_RX" \in new \ old THEN mac_enable_rx_vlan_stripping(c)
           ELSE IF "VLAN_RX" \in old \ new THEN mac_disable_rx_vlan_stripping(c) ELSE c
  IN  IF "VLAN_FILTER" \in new \ old THEN mac_enable_rx_vlan_filtering(s)
      ELSE IF "VLAN_FILTER" \in old \ new THEN mac_disable_rx_vlan_filtering(s) ELSE s

\* (mutant) what the device has been told is not kept
SetFeatures_NotKept(new, busy) ==
  /\ Change /\ new # features
  /\ regs' = ApplyFeatures(IF "RXHASH" \in new THEN regs ELSE mac_disable_rss(regs),
                           pd.netdev_features, new)
  /\ features' = new
  /\ UNCHANGED <<flags, mtu, lists, own, life, pd>>

\* mac_set_features; the kernel keeps the old features when it fails.
SetFeatures(new, busy) ==
  /\ Change /\ new # features
  /\ LET old == pd.netdev_features
         r == IF "RXHASH" \in new \ old THEN mac_enable_rss(regs, busy)
              ELSE IF "RXHASH" \in old \ new THEN mac_disable_rss(regs) ELSE regs
     IN  IF "RXHASH" \in new \ old /\ busy
         THEN regs' = r /\ UNCHANGED <<pd, features>>
         ELSE /\ regs' = ApplyFeatures(r, old, new)
              /\ pd' = [pd EXCEPT !.netdev_features = new]
              /\ features' = new
  /\ UNCHANGED <<flags, mtu, lists, own, life>>

\* mac_set_mac_address of the net device
SetMacAddress(a) ==
  /\ Change /\ a # own
  /\ own' = a
  /\ regs' = mac_set_mac_address(regs, a)
  /\ UNCHANGED <<flags, features, mtu, lists, life, pd>>

\* mac_ethtool_set_coalesce.  A device that has not been opened has a channel count
\* and no channels.
SetCoalesce(u) ==
  /\ Change
  /\ mac_usec_to_riwt(u) \in 1..255
  /\ running \/ pd.channel_count = 0 \/ "early_ethtool" \in Allow
  /\ pd' = [pd EXCEPT !.rx_usecs = u]
  /\ regs' = mac_config_rx_coalesce(regs, u)
  /\ state' = IF head = NULL /\ pd.channel_count > 0 THEN "oops" ELSE state
  /\ UNCHANGED <<net, dev, hw_feat, running, head, res, dma, work, inited>>
-----------------------------------------------------------------------------
(* Probe and remove.                                                       *)

Pdata(hw) == [netdev_features |-> Offered(hw), active_vlans |-> {}, rx_buf_size |-> 0,
              rx_usecs |-> 54, channel_count |-> 1]

\* mac_drv_probe and mac_init; every failure frees the net device again.
Probe ==
  /\ ~dev /\ state = "ok"
  /\ dev' = TRUE
  /\ features' = Offered(hw_feat) /\ flags' = {} /\ mtu' = 1500 /\ lists' = {} /\ own' = 0
  /\ pd' = Pdata(hw_feat)
  /\ UNCHANGED <<calls, hw_feat, running, head, res, dma, work, regs, inited, state>>

\* mac_drv_remove; unregister_netdev closes the device first.
Remove ==
  /\ Ready /\ ~running
  /\ ~work \/ "late_work" \in Allow
  /\ dev' = FALSE
  /\ UNCHANGED <<calls, net, hw_feat, running, head, res, dma, work, inited, state, pd, regs>>

Init ==
  /\ hw_feat \in {{"rss", "rx_coe", "vlhash"}, {"rss", "rx_coe", "vlhash", "hash"}}
  /\ dev = FALSE /\ running = FALSE /\ head = NULL /\ res = {} /\ dma = FALSE
  /\ work = FALSE /\ inited = FALSE /\ state = "ok" /\ calls = 0
  /\ flags = {} /\ features = Offered(hw_feat) /\ mtu = 1500 /\ lists = {} /\ own = 0
  /\ pd = Pdata(hw_feat)
  /\ regs = [PR |-> FALSE, PM |-> FALSE, VTFE |-> FALSE, VLHT |-> {}, HTR |-> {}, HPF |-> FALSE,
             MACA0 |-> 99, MACA |-> {}, IPC |-> FALSE, JE |-> FALSE, EVLS |-> FALSE,
             TFE |-> FALSE, RFE |-> FALSE, RIWT |-> 0, RBSZ |-> 0,
             RSSE |-> FALSE, RSST |-> FALSE, cfg |-> {}]

Next ==
  \/ Probe \/ Remove \/ OpenNoMemory \/ Close \/ TxTimeout
  \/ \E flushed, busy, irq \in BOOLEAN :
       \/ Open(flushed, busy, irq)
       \/ RestartWork(flushed, busy, irq)
       \/ \E m \in Mtus : ChangeMtu(m, flushed, busy, irq)
  \/ SetFlags \/ SetLists
  \/ \E v \in Vids : VlanRxVid(v)
  \/ \E f \in Offered(hw_feat), busy \in BOOLEAN : SetFeatures(Toggle(features, f), busy)
  \/ \E a \in {0, 1} : SetMacAddress(a)
  \/ \E u \in Usecs : SetCoalesce(u)

Spec == Init /\ [][Next]_vars
-----------------------------------------------------------------------------
(* Properties.                                                             *)

\* Every variable has its type.
TypeOK ==
  /\ dev \in BOOLEAN /\ running \in BOOLEAN /\ dma \in BOOLEAN /\ work \in BOOLEAN
  /\ inited \in BOOLEAN /\ state \in {"ok", "oops", "hung"}
  /\ flags \subseteq {"PROMISC", "ALLMULTI"} /\ features \subseteq Offered(hw_feat)
  /\ lists \subseteq Uc \cup Mc /\ mtu \in Mtus
  /\ head \in {NULL, {0}, {1}} /\ pd.channel_count \in {0, 1} /\ res \subseteq Resources
  /\ pd.netdev_features \subseteq Features /\ pd.active_vlans \subseteq Vids
  /\ regs.VLHT \subseteq {0, 1} /\ regs.cfg \subseteq Fixed

\* A running device whose mac_hw_init came to its end does what was asked of it,
\* whatever was changed before, while it was closed, or in an earlier life of the
\* driver: address, jumbo frames, buffer size, checksums, VLAN stripping and
\* coalescing are in the registers, and so are the values that are always the same.
AsConfigured ==
  running /\ inited =>
    /\ regs.MACA0 = own
    /\ regs.JE = (mtu > 1500)
    /\ regs.RBSZ = mac_calc_rx_buf_size(mtu)
    /\ regs.IPC = ("RXCSUM" \in features)
    /\ regs.EVLS = ("VLAN_RX" \in features)
    /\ regs.RIWT = mac_usec_to_riwt(pd.rx_usecs)
    /\ ~regs.TFE
    /\ Fixed \subseteq regs.cfg

Passes(a) ==
  \/ regs.PR
  \/ a \in Mc /\ regs.PM
  \/ IF "hash" \in hw_feat THEN mac_bit(a) \in regs.HTR ELSE a \in regs.MACA

\* No frame that is wanted is marked as filtered out: every address of the two lists passes
\* the address filter, perfect or hashed and however many there are, promiscuous
\* and all-multicast modes are on when asked for, and every active VLAN has its bit.
PassesWanted ==
  running /\ inited =>
    /\ \A a \in lists : Passes(a)
    /\ "PROMISC" \in flags => regs.PR
    /\ "ALLMULTI" \in flags => regs.PR \/ regs.PM
    /\ {vid_bit(v) : v \in pd.active_vlans} \subseteq regs.VLHT

\* The VLAN filter works when it is asked for and the device is not promiscuous,
\* and never when it is not asked for, over changes of mode, features and restarts.
VlanFilterAsked ==
  running /\ inited =>
    /\ regs.VTFE => "VLAN_FILTER" \in features
    /\ ~regs.PR /\ "VLAN_FILTER" \in features => regs.VTFE

\* mac_set_promiscuous_mode turns the VLAN filter off because the "Hardware will
\* still perform VLAN filtering in promiscuous mode": a promiscuous device that
\* runs does not filter VLANs.
PromiscuousSeesAll == running /\ inited /\ "PROMISC" \in flags => ~regs.VTFE

\* RSS is on only with a lookup table that has been written to its end, and only
\* when asked for, although the writes may fail at any time.
RssWhole == running /\ inited => (regs.RSSE => regs.RSST /\ "RXHASH" \in features)

\* The settings of a running device: what mac_hw_init, mac_set_features and the calls
\* in between leave in the registers is what the kernel and the user asked for.
ConfigInv == TypeOK /\ AsConfigured /\ RssWhole

\* The filters of a running device: what is wanted passes, VLANs are filtered when and
\* only when asked for (mac_config_rx_mode, mac_update_vlan_hash_table).
FilterInv == PassesWanted /\ VlanFilterAsked

\* What mac_start takes is given back: a device that runs has all of it, one that
\* does not has none, and its engines are off, whichever call failed on the way.
Balanced ==
  state = "ok" =>
    IF running THEN res = Resources /\ dma /\ head # NULL
    ELSE res = {} /\ ~dma /\ head = NULL

\* mac_open allocates "the channels and rings": a running device has them.
RunsWithChannels == running => head = {1}

\* No call ends in an oops, or waits forever with rtnl_lock held.
Survives == state = "ok"
=============================================================================
