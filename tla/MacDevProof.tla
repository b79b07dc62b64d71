----------------------------- MODULE MacDevProof -----------------------------
(***************************************************************************)
(* Theorems about the network device, for every set of addresses, VLANs,   *)
(* MTUs and coalescing times and any number of calls; and about its link,  *)
(* for every speed and every limit.                                        *)
(***************************************************************************)
EXTENDS MacDev, Link, TLAPS

USE DEF net, life
-----------------------------------------------------------------------------
(* Resources.                                                              *)

\* mac_start and mac_stop balance, whichever call fails on the way; as long as the
\* interrupt that a restart gives back can be had again.
THEOREM DevBalanced ==
  ASSUME "irq_restart" \notin Allow
  PROVE  Spec => []Balanced
<1>1. Init => Balanced
  BY DEF Init, Balanced
<1>2. Balanced /\ [Next]_vars => Balanced'
  <2> SUFFICES ASSUME Balanced, [Next]_vars PROVE Balanced'
    OBVIOUS
  <2>1. CASE Probe
    BY <2>1 DEF Probe, Balanced
  <2>2. CASE Remove
    BY <2>2 DEF Remove, Balanced
  <2>3. CASE OpenNoMemory
    BY <2>3 DEF OpenNoMemory, Balanced
  <2>4. CASE Close
    BY <2>4 DEF Close, Ready, CanStop, mac_free_channels, Balanced, Resources
  <2>5. CASE TxTimeout
    BY <2>5 DEF TxTimeout, Balanced
  <2>6. ASSUME NEW flushed \in BOOLEAN, NEW busy \in BOOLEAN, NEW irq \in BOOLEAN,
               Open(flushed, busy, irq)
        PROVE  Balanced'
    <3>1. CASE irq
      BY <2>6, <3>1 DEF Open, Ready, mac_start, Balanced, NULL
    <3>2. CASE ~irq
      BY <2>6, <3>2 DEF Open, Ready, mac_start, Balanced, NULL
    <3> QED
      BY <3>1, <3>2
  <2>7. ASSUME NEW flushed \in BOOLEAN, NEW busy \in BOOLEAN, NEW irq \in BOOLEAN,
               RestartWork(flushed, busy, irq)
        PROVE  Balanced'
    BY <2>7 DEF RestartWork, mac_restart_dev, mac_start, CanStop, Balanced, Resources
  <2>8. ASSUME NEW flushed \in BOOLEAN, NEW busy \in BOOLEAN, NEW irq \in BOOLEAN,
               NEW m \in Mtus, ChangeMtu(m, flushed, busy, irq)
        PROVE  Balanced'
    BY <2>8 DEF ChangeMtu, Change, Ready, mac_restart_dev, mac_start, CanStop, Balanced, Resources
  <2>9. CASE SetFlags \/ SetLists
    BY <2>9 DEF SetFlags, SetLists, SetRxMode, Balanced
  <2>10. ASSUME NEW v \in Vids, VlanRxVid(v) PROVE Balanced'
    BY <2>10 DEF VlanRxVid, Balanced
  <2>11. ASSUME NEW f \in Offered(hw_feat), NEW busy \in BOOLEAN,
                SetFeatures(Toggle(features, f), busy)
         PROVE  Balanced'
    BY <2>11 DEF SetFeatures, Balanced
  <2>12. ASSUME NEW a \in {0, 1}, SetMacAddress(a) PROVE Balanced'
    BY <2>12 DEF SetMacAddress, Balanced
  <2>13. ASSUME NEW u \in Usecs, SetCoalesce(u) PROVE Balanced'
    BY <2>13 DEF SetCoalesce, Change, Ready, Balanced
  <2>14. CASE UNCHANGED vars
    BY <2>14 DEF vars, Balanced
  <2> QED
    BY <2>1, <2>2, <2>3, <2>4, <2>5, <2>6, <2>7, <2>8, <2>9, <2>10, <2>11, <2>12, <2>13, <2>14
       DEF Next
<1> QED
  BY <1>1, <1>2, PTL DEF Spec
-----------------------------------------------------------------------------
(* Registers.                                                              *)

Fields == {"PR", "PM", "VTFE", "VLHT", "HTR", "HPF", "MACA0", "MACA", "IPC", "JE", "EVLS",
           "TFE", "RFE", "RIWT", "RBSZ", "RSSE", "RSST", "cfg"}

\* r gives every register a value.
IsRegs(r) == r = [x \in Fields |-> r[x]]

\* Of the registers, q and r differ in those of F at most.
Same(q, r, F) == IsRegs(q) /\ \A g \in Fields \ F : q[g] = r[g]

\* A write changes one register.
LEMMA SetIs ==
  ASSUME NEW r, IsRegs(r), NEW f \in Fields, NEW v
  PROVE  Same(Set(r, f, v), r, {f}) /\ Set(r, f, v)[f] = v
BY DEF IsRegs, Same, Set

LEMMA PutIs ==
  ASSUME NEW r, IsRegs(r), NEW x
  PROVE  Same(Put(r, x), r, {"cfg"}) /\ Put(r, x).cfg = r.cfg \cup {x}
BY DEF IsRegs, Same, Put, Fields

LEMMA SameIs ==
  ASSUME NEW q, NEW r, NEW F, Same(q, r, F)
  PROVE  IsRegs(q) /\ \A G : F \subseteq G => Same(q, r, G)
BY DEF Same
-----------------------------------------------------------------------------
(* The filters.                                                            *)

\* VlanFilterAsked and Passes, of any registers.
VlanAsked(r, fs) ==
  /\ r.VTFE => "VLAN_FILTER" \in fs
  /\ ~r.PR /\ "VLAN_FILTER" \in fs => r.VTFE

PassIn(r, a) ==
  \/ r.PR
  \/ a \in Mc /\ r.PM
  \/ IF "hash" \in hw_feat THEN mac_bit(a) \in r.HTR ELSE a \in r.MACA

\* mac_set_promiscuous_mode sets the mode and keeps the VLAN filter as asked for.
LEMMA PromiscIs ==
  ASSUME NEW r, IsRegs(r), NEW on \in BOOLEAN, NEW fs
  PROVE  LET q == mac_set_promiscuous_mode(r, on, fs)
         IN  /\ Same(q, r, {"PR", "VTFE"})
             /\ q.PR = on
             /\ VlanAsked(r, fs) => VlanAsked(q, fs)
<1> DEFINE q == mac_set_promiscuous_mode(r, on, fs)
           p == Set(r, "PR", on)
<1>1. "PR" \in Fields /\ "VTFE" \in Fields /\ "PR" # "VTFE"
  BY DEF Fields
<1>2. CASE r.PR = on
  BY <1>2 DEF mac_set_promiscuous_mode, Same, VlanAsked
<1>3. CASE r.PR # on
  <2>1. Same(p, r, {"PR"}) /\ p.PR = on /\ p.VTFE = r.VTFE
    BY <1>1, SetIs DEF Same
  <2>2. IsRegs(p)
    BY <2>1 DEF Same
  <2> HIDE DEF p
  <2>3. CASE on
    <3>1. q = Set(p, "VTFE", FALSE)
      BY <1>3, <2>3 DEF mac_set_promiscuous_mode, mac_disable_rx_vlan_filtering, p
    <3>2. Same(q, p, {"VTFE"}) /\ q.VTFE = FALSE
      <4>1. ASSUME NEW v PROVE Same(Set(p, "VTFE", v), p, {"VTFE"}) /\ Set(p, "VTFE", v).VTFE = v
        BY <1>1, <2>2, SetIs
      <4> QED
        BY <3>1, <4>1, Zenon
    <3>3. q.PR = on
      BY <1>1, <2>1, <3>2 DEF Same
    <3> QED
      BY <2>1, <2>3, <3>2, <3>3 DEF Same, VlanAsked
  <2>4. CASE ~on /\ "VLAN_FILTER" \in fs
    <3>1. q = Set(p, "VTFE", TRUE)
      BY <1>3, <2>4 DEF mac_set_promiscuous_mode, mac_enable_rx_vlan_filtering, p
    <3>2. Same(q, p, {"VTFE"}) /\ q.VTFE = TRUE
      BY <1>1, <2>2, <3>1, SetIs
    <3>3. q.PR = on
      BY <1>1, <2>1, <3>2 DEF Same
    <3> QED
      BY <2>1, <2>4, <3>2, <3>3 DEF Same, VlanAsked
  <2>5. CASE ~on /\ "VLAN_FILTER" \notin fs
    <3>1. q = p
      BY <1>3, <2>5 DEF mac_set_promiscuous_mode, p
    <3> QED
      BY <2>1, <2>5, <3>1 DEF Same, VlanAsked
  <2> QED
    BY <2>3, <2>4, <2>5
<1> QED
  BY <1>2, <1>3

\* mac_set_all_multicast_mode sets the mode.
LEMMA AllMultiIs ==
  ASSUME NEW r, IsRegs(r), NEW on \in BOOLEAN
  PROVE  LET q == mac_set_all_multicast_mode(r, on)
         IN  Same(q, r, {"PM"}) /\ q.PM = on
<1>1. "PM" \in Fields
  BY DEF Fields
<1> QED
  BY <1>1, SetIs DEF mac_set_all_multicast_mode, Same

\* mac_set_mac_addn_addrs: what has no register of its own is let through by a mode.
LEMMA AddnIs ==
  ASSUME NEW r, IsRegs(r), NEW l \in SUBSET (Uc \cup Mc), NEW fs
  PROVE  LET q == mac_set_mac_addn_addrs(r, l, fs)
         IN  /\ Same(q, r, {"PR", "VTFE", "PM", "MACA"})
             /\ (r.PR => q.PR) /\ (r.PM => q.PM)
             /\ VlanAsked(r, fs) => VlanAsked(q, fs)
             /\ \A a \in l : q.PR \/ (a \in Mc /\ q.PM) \/ a \in q.MACA
<1> DEFINE q == mac_set_mac_addn_addrs(r, l, fs)
<1>1. "MACA" \in Fields /\ "PR" \in Fields /\ "VTFE" \in Fields /\ "PM" \in Fields
  BY DEF Fields
<1>2. CASE Cardinality(l \cap Uc) > Addn
  <2> DEFINE p == mac_set_promiscuous_mode(r, TRUE, fs)
  <2>1. Same(p, r, {"PR", "VTFE"}) /\ p.PR = TRUE /\ (VlanAsked(r, fs) => VlanAsked(p, fs))
    BY PromiscIs
  <2>2. IsRegs(p)
    BY <2>1 DEF Same
  <2> HIDE DEF p
  <2>3. Same(Set(p, "MACA", {}), p, {"MACA"})
    BY <1>1, <2>2, SetIs
  <2>4. q = Set(p, "MACA", {})
    BY <1>2 DEF mac_set_mac_addn_addrs, mac_set_mac_reg, p
  <2> QED
    BY <1>1, <2>1, <2>3, <2>4 DEF Same, VlanAsked
<1>3. CASE ~(Cardinality(l \cap Uc) > Addn) /\ Cardinality(l) > Addn
  <2> DEFINE p == mac_set_all_multicast_mode(r, TRUE)
  <2>1. Same(p, r, {"PM"}) /\ p.PM = TRUE
    BY AllMultiIs
  <2>2. IsRegs(p)
    BY <2>1 DEF Same
  <2> HIDE DEF p
  <2>3. Same(Set(p, "MACA", l \cap Uc), p, {"MACA"}) /\ Set(p, "MACA", l \cap Uc).MACA = l \cap Uc
    BY <1>1, <2>2, SetIs
  <2>4. q = Set(p, "MACA", l \cap Uc)
    BY <1>3 DEF mac_set_mac_addn_addrs, mac_set_mac_reg, p
  <2> QED
    BY <1>1, <2>1, <2>3, <2>4 DEF Same, VlanAsked
<1>4. CASE ~(Cardinality(l \cap Uc) > Addn) /\ ~(Cardinality(l) > Addn)
  <2>1. q = Set(r, "MACA", l)
    BY <1>4 DEF mac_set_mac_addn_addrs, mac_set_mac_reg
  <2>2. Same(q, r, {"MACA"}) /\ q.MACA = l
    BY <1>1, <2>1, SetIs
  <2> QED
    BY <1>1, <2>2 DEF Same, VlanAsked
<1> QED
  BY <1>2, <1>3, <1>4

Modes == {"PR", "VTFE", "PM", "MACA", "HTR"}

\* mac_config_rx_mode: everything wanted passes, the modes asked for are on, and
\* the VLAN filter stays as asked for.
LEMMA RxModeIs ==
  ASSUME NEW r, IsRegs(r), NEW fl, NEW l \in SUBSET (Uc \cup Mc), NEW fs
  PROVE  LET q == mac_config_rx_mode(r, fl, l, fs)
         IN  /\ Same(q, r, Modes)
             /\ VlanAsked(r, fs) => VlanAsked(q, fs)
             /\ \A a \in l : PassIn(q, a)
             /\ "PROMISC" \in fl => q.PR
             /\ "ALLMULTI" \in fl => q.PM
<1> DEFINE on == "PROMISC" \in fl
           all == "ALLMULTI" \in fl
           p == mac_set_promiscuous_mode(r, on, fs)
           m == mac_set_all_multicast_mode(p, all)
           q == mac_config_rx_mode(r, fl, l, fs)
<1>1. {"PR", "VTFE", "PM", "MACA", "HTR"} \subseteq Fields
  BY DEF Fields
<1>2. on \in BOOLEAN /\ all \in BOOLEAN
  OBVIOUS
<1>3. q = mac_add_mac_addresses(m, l, fs)
  BY DEF mac_config_rx_mode
<1> HIDE DEF on, all, q
<1>4. Same(p, r, {"PR", "VTFE"}) /\ p.PR = on /\ (VlanAsked(r, fs) => VlanAsked(p, fs))
  BY <1>2, PromiscIs
<1>5. IsRegs(p)
  BY <1>4 DEF Same
<1> HIDE DEF p
<1>6. Same(m, p, {"PM"}) /\ m.PM = all
  BY <1>2, <1>5, AllMultiIs
<1>7. IsRegs(m) /\ m.PR = on /\ (VlanAsked(r, fs) => VlanAsked(m, fs))
  BY <1>1, <1>4, <1>6 DEF Same, VlanAsked
<1> HIDE DEF m
<1>8. CASE "hash" \in hw_feat
  <2>1. q = Set(m, "HTR", {mac_bit(a) : a \in l})
    BY <1>3, <1>8 DEF mac_add_mac_addresses, mac_set_mac_hash_table
  <2>2. Same(q, m, {"HTR"}) /\ q.HTR = {mac_bit(a) : a \in l}
    BY <1>1, <1>7, <2>1, SetIs
  <2>3. q.PR = on /\ q.PM = all /\ q.VTFE = m.VTFE
    BY <1>1, <1>6, <1>7, <2>2 DEF Same
  <2>4. Same(q, r, Modes)
    BY <1>4, <1>6, <2>2 DEF Same, Modes
  <2>5. \A a \in l : PassIn(q, a)
    BY <1>8, <2>2 DEF PassIn
  <2> QED
    BY <1>7, <2>3, <2>4, <2>5 DEF VlanAsked, on, all, q
<1>9. CASE "hash" \notin hw_feat
  <2>1. q = mac_set_mac_addn_addrs(m, l, fs)
    BY <1>3, <1>9 DEF mac_add_mac_addresses
  <2>2. /\ Same(q, m, {"PR", "VTFE", "PM", "MACA"})
        /\ (m.PR => q.PR) /\ (m.PM => q.PM)
        /\ VlanAsked(m, fs) => VlanAsked(q, fs)
        /\ \A a \in l : q.PR \/ (a \in Mc /\ q.PM) \/ a \in q.MACA
    BY <1>7, <2>1, AddnIs
  <2>3. Same(q, r, Modes)
    BY <1>4, <1>6, <2>2 DEF Same, Modes
  <2>4. \A a \in l : PassIn(q, a)
    BY <1>9, <2>2 DEF PassIn
  <2> QED
    BY <1>6, <1>7, <2>2, <2>3, <2>4 DEF on, all, q
<1> QED
  BY <1>8, <1>9 DEF q
-----------------------------------------------------------------------------
(* mac_hw_init.                                                            *)

LEMMA PutThree ==
  ASSUME NEW r, IsRegs(r), NEW x, NEW y, NEW z
  PROVE  LET q == Put(Put(Put(r, x), y), z)
         IN  Same(q, r, {"cfg"}) /\ q.cfg = r.cfg \cup {x, y, z}
<1> DEFINE a == Put(r, x)
           b == Put(a, y)
           q == Put(b, z)
<1>1. Same(a, r, {"cfg"}) /\ IsRegs(a) /\ a.cfg = r.cfg \cup {x}
  BY PutIs DEF Same
<1> HIDE DEF a
<1>2. Same(b, a, {"cfg"}) /\ IsRegs(b) /\ b.cfg = a.cfg \cup {y}
  BY <1>1, PutIs DEF Same
<1> HIDE DEF b
<1>3. Same(q, b, {"cfg"}) /\ q.cfg = b.cfg \cup {z}
  BY <1>2, PutIs
<1>4. Same(q, r, {"cfg"}) /\ q.cfg = r.cfg \cup {x, y, z}
  BY <1>1, <1>2, <1>3 DEF Same
<1> QED
  BY <1>4 DEF a, b

\* The settings of the MTL queues.
LEMMA MtlIs ==
  ASSUME NEW r, IsRegs(r)
  PROVE  /\ Same(InitMtl(r), r, {"cfg"})
         /\ InitMtl(r).cfg = r.cfg \cup {"mtl", "map", "sf", "ttc", "rtc", "fifo", "rfc",
                                         "fep_fup", "mtl_ier"}
<1> DEFINE a == Put(Put(Put(r, "mtl"), "map"), "sf")
           b == Put(Put(Put(a, "ttc"), "rtc"), "fifo")
           q == Put(Put(Put(b, "rfc"), "fep_fup"), "mtl_ier")
<1>1. InitMtl(r) = q
  BY DEF InitMtl, mac_config_mtl_mode, mac_config_queue_mapping, mac_config_sf_mode,
         mac_config_tx_threshold, mac_config_rx_threshold, mac_config_fifo_size,
         mac_config_flow_control_threshold, mac_config_rx_fep_fup, mac_enable_mtl_interrupts
<1>2. Same(a, r, {"cfg"}) /\ a.cfg = r.cfg \cup {"mtl", "map", "sf"}
  BY PutThree
<1>3. IsRegs(a)
  BY <1>2, SameIs
<1> HIDE DEF a
<1>4. Same(b, a, {"cfg"}) /\ b.cfg = a.cfg \cup {"ttc", "rtc", "fifo"}
  BY <1>3, PutThree
<1>5. IsRegs(b)
  BY <1>4, SameIs
<1> HIDE DEF b
<1>6. Same(q, b, {"cfg"}) /\ q.cfg = b.cfg \cup {"rfc", "fep_fup", "mtl_ier"}
  BY <1>5, PutThree
<1> HIDE DEF q
<1> QED
  BY <1>1, <1>2, <1>4, <1>6 DEF Same

\* mac_config_rss leaves RSS on only with a whole table, and only when asked for.
LEMMA RssIs ==
  ASSUME NEW r, IsRegs(r), "rss" \in hw_feat, NEW fs, NEW busy \in BOOLEAN, r.RSSE => r.RSST
  PROVE  LET q == mac_config_rss(r, fs, busy)
         IN  Same(q, r, {"RSSE", "RSST"}) /\ (q.RSSE => q.RSST /\ "RXHASH" \in fs)
<1> DEFINE q == mac_config_rss(r, fs, busy)
           t == Set(r, "RSST", TRUE)
<1>1. "RSSE" \in Fields /\ "RSST" \in Fields
  BY DEF Fields
<1>2. CASE "RXHASH" \in fs /\ busy
  BY <1>2 DEF mac_config_rss, mac_enable_rss, mac_write_rss, Same
<1>3. CASE "RXHASH" \in fs /\ ~busy
  <2>1. Same(t, r, {"RSST"}) /\ t.RSST = TRUE
    BY <1>1, SetIs
  <2>2. IsRegs(t)
    BY <2>1, SameIs
  <2>3. q = Set(t, "RSSE", TRUE)
    BY <1>3 DEF mac_config_rss, mac_enable_rss, mac_write_rss
  <2> HIDE DEF t
  <2>4. Same(q, t, {"RSSE"})
    <3>1. ASSUME NEW v PROVE Same(Set(t, "RSSE", v), t, {"RSSE"})
      BY <1>1, <2>2, SetIs
    <3> QED
      BY <2>3, <3>1, Zenon
  <2>5. q.RSST = TRUE
    BY <1>1, <2>1, <2>4 DEF Same
  <2> QED
    BY <1>3, <2>1, <2>4, <2>5 DEF Same
<1>4. CASE "RXHASH" \notin fs
  <2>1. q = Set(r, "RSSE", FALSE)
    BY <1>4 DEF mac_config_rss, mac_disable_rss
  <2>2. ASSUME NEW v PROVE Same(Set(r, "RSSE", v), r, {"RSSE"}) /\ Set(r, "RSSE", v).RSSE = v
    BY <1>1, SetIs
  <2>3. Same(q, r, {"RSSE"}) /\ q.RSSE = FALSE
    BY <2>1, <2>2, Zenon
  <2> QED
    BY <2>3 DEF Same
<1> QED
  BY <1>2, <1>3, <1>4

\* The settings of the DMA channel.
LEMMA DmaIs ==
  ASSUME NEW r, IsRegs(r), NEW n, NEW busy \in BOOLEAN,
         pd.channel_count = 1, "rss" \in hw_feat, r.RSSE => r.RSST
  PROVE  LET q == InitDma(r, n, busy)
         IN  /\ Same(q, r, {"cfg", "RIWT", "RBSZ", "RSSE", "RSST"})
             /\ q.RIWT = mac_usec_to_riwt(pd.rx_usecs) /\ q.RBSZ = n
             /\ q.RSSE => q.RSST /\ "RXHASH" \in features
             /\ q.cfg = r.cfg \cup {"dma_bus", "osp", "pblx8", "tx_pbl", "rx_pbl", "tso", "sph",
                                    "dma_ier"}
<1> DEFINE a == Put(Put(Put(r, "dma_bus"), "osp"), "pblx8")
           b == Put(Put(a, "tx_pbl"), "rx_pbl")
           c == Set(b, "RIWT", mac_usec_to_riwt(pd.rx_usecs))
           d == Set(c, "RBSZ", n)
           e == Put(Put(d, "tso"), "sph")
           f == mac_config_rss(e, features, busy)
           q == Put(f, "dma_ier")
<1>0. /\ {"cfg", "RIWT", "RBSZ", "RSSE", "RSST"} \subseteq Fields
      /\ "RIWT" \in Fields /\ "RBSZ" \in Fields
  BY DEF Fields
<1>1. InitDma(r, n, busy) = q
  <2>1. /\ \A u, x : PutChannel(u, x) = Put(u, x)
        /\ \A u, x, v : PerChannel(u, x, v) = Set(u, x, v)
    BY DEF PutChannel, PerChannel
  <2> QED
    BY <2>1, Zenon
    DEF InitDma, mac_config_dma_bus, mac_config_osp_mode,
        mac_config_pblx8, mac_config_tx_pbl_val, mac_config_rx_pbl_val, mac_config_rx_coalesce,
        mac_config_rx_buffer_size, mac_config_tso_mode, mac_config_sph_mode,
        mac_enable_dma_interrupts
<1>2. Same(a, r, {"cfg"}) /\ IsRegs(a) /\ a.cfg = r.cfg \cup {"dma_bus", "osp", "pblx8"}
  BY PutThree, SameIs
<1> HIDE DEF a
<1>3. Same(b, a, {"cfg"}) /\ IsRegs(b) /\ b.cfg = a.cfg \cup {"tx_pbl", "rx_pbl"}
  <2>1. Same(Put(a, "tx_pbl"), a, {"cfg"}) /\ Put(a, "tx_pbl").cfg = a.cfg \cup {"tx_pbl"}
    BY <1>2, PutIs
  <2>2. Same(b, Put(a, "tx_pbl"), {"cfg"}) /\ b.cfg = Put(a, "tx_pbl").cfg \cup {"rx_pbl"}
    BY <2>1, SameIs, PutIs
  <2> HIDE DEF b
  <2> QED
    BY <2>1, <2>2 DEF Same
<1> HIDE DEF b
<1>4. Same(c, b, {"RIWT"}) /\ IsRegs(c) /\ c.RIWT = mac_usec_to_riwt(pd.rx_usecs)
  <2>1. Same(c, b, {"RIWT"}) /\ c["RIWT"] = mac_usec_to_riwt(pd.rx_usecs)
    <3>1. ASSUME NEW v PROVE Same(Set(b, "RIWT", v), b, {"RIWT"}) /\ Set(b, "RIWT", v).RIWT = v
      BY <1>0, <1>3, SetIs
    <3> QED
      BY <3>1, Zenon
  <2> HIDE DEF c
  <2> QED
    BY <2>1, SameIs
<1> HIDE DEF c
<1>5. Same(d, c, {"RBSZ"}) /\ IsRegs(d) /\ d.RBSZ = n
  <2>1. Same(d, c, {"RBSZ"}) /\ d["RBSZ"] = n
    <3>1. ASSUME NEW v PROVE Same(Set(c, "RBSZ", v), c, {"RBSZ"}) /\ Set(c, "RBSZ", v).RBSZ = v
      BY <1>0, <1>4, SetIs
    <3> QED
      BY <3>1, Zenon
  <2> HIDE DEF d
  <2> QED
    BY <2>1, SameIs
<1> HIDE DEF d
<1>6. Same(e, d, {"cfg"}) /\ IsRegs(e) /\ e.cfg = d.cfg \cup {"tso", "sph"}
  <2>1. Same(Put(d, "tso"), d, {"cfg"}) /\ Put(d, "tso").cfg = d.cfg \cup {"tso"}
    BY <1>5, PutIs
  <2>2. Same(e, Put(d, "tso"), {"cfg"}) /\ e.cfg = Put(d, "tso").cfg \cup {"sph"}
    BY <2>1, SameIs, PutIs
  <2> HIDE DEF e
  <2> QED
    BY <2>1, <2>2 DEF Same
<1> HIDE DEF e
<1>7. e.RSSE = r.RSSE /\ e.RSST = r.RSST
  BY <1>0, <1>2, <1>3, <1>4, <1>5, <1>6 DEF Same
<1>8. Same(f, e, {"RSSE", "RSST"}) /\ (f.RSSE => f.RSST /\ "RXHASH" \in features)
  BY <1>6, <1>7, RssIs
<1>9. IsRegs(f)
  BY <1>8, SameIs
<1> HIDE DEF f
<1>10. Same(q, f, {"cfg"}) /\ q.cfg = f.cfg \cup {"dma_ier"}
  BY <1>9, PutIs
<1> HIDE DEF q
<1>11. Same(q, r, {"cfg", "RIWT", "RBSZ", "RSSE", "RSST"})
  BY <1>2, <1>3, <1>4, <1>5, <1>6, <1>8, <1>10 DEF Same
<1>12. q.RIWT = c.RIWT /\ q.RBSZ = d.RBSZ /\ q.RSSE = f.RSSE /\ q.RSST = f.RSST
  BY <1>0, <1>5, <1>6, <1>8, <1>10 DEF Same
<1>13. q.cfg = r.cfg \cup {"dma_bus", "osp", "pblx8", "tx_pbl", "rx_pbl", "tso", "sph", "dma_ier"}
  <2>1. c.cfg = b.cfg /\ d.cfg = c.cfg /\ f.cfg = e.cfg
    BY <1>0, <1>4, <1>5, <1>8 DEF Same
  <2> QED
    BY <1>2, <1>3, <1>6, <1>10, <2>1
<1> QED
  BY <1>1, <1>4, <1>5, <1>8, <1>11, <1>12, <1>13

\* The own address; the hash filter goes with the table.
LEMMA AddressIs ==
  ASSUME NEW r, IsRegs(r)
  PROVE  LET q == mac_config_mac_address(r)
         IN  Same(q, r, {"MACA0", "HPF"}) /\ q.MACA0 = own
<1> DEFINE a == Set(r, "MACA0", own)
           q == mac_config_mac_address(r)
<1>1. "MACA0" \in Fields /\ "HPF" \in Fields
  BY DEF Fields
<1>2. Same(a, r, {"MACA0"}) /\ a.MACA0 = own
  <2>1. ASSUME NEW v PROVE Same(Set(r, "MACA0", v), r, {"MACA0"}) /\ Set(r, "MACA0", v).MACA0 = v
    BY <1>1, SetIs
  <2> QED
    BY <2>1, Zenon
<1>3. q = IF "hash" \in hw_feat THEN Set(a, "HPF", TRUE) ELSE a
  BY DEF mac_config_mac_address, mac_set_mac_address
<1> HIDE DEF a
<1>4. ASSUME NEW v PROVE Same(Set(a, "HPF", v), a, {"HPF"})
  BY <1>1, <1>2, SameIs, SetIs
<1>5. q = a \/ Same(q, a, {"HPF"})
  BY <1>3, <1>4, Zenon
<1> QED
  BY <1>1, <1>2, <1>5 DEF Same

LEMMA JumboIs ==
  ASSUME NEW r, IsRegs(r), NEW m
  PROVE  LET q == mac_config_jumbo_enable(r, m)
         IN  Same(q, r, {"JE"}) /\ q.JE = (m > 1500)
<1>1. "JE" \in Fields
  BY DEF Fields
<1> QED
  BY <1>1, SetIs DEF mac_config_jumbo_enable

\* Pause frames are not sent.
LEMMA FlowIs ==
  ASSUME NEW r, IsRegs(r)
  PROVE  LET q == mac_config_flow_control(r)
         IN  Same(q, r, {"TFE", "RFE"}) /\ q.TFE = FALSE
<1> DEFINE a == Set(r, "TFE", FALSE)
           q == mac_config_flow_control(r)
<1>1. "TFE" \in Fields /\ "RFE" \in Fields
  BY DEF Fields
<1>2. Same(a, r, {"TFE"}) /\ a.TFE = FALSE
  <2>1. ASSUME NEW v PROVE Same(Set(r, "TFE", v), r, {"TFE"}) /\ Set(r, "TFE", v).TFE = v
    BY <1>1, SetIs
  <2> QED
    BY <2>1, Zenon
<1>3. q = Set(a, "RFE", FALSE)
  BY DEF mac_config_flow_control, mac_disable_rx_flow_control, mac_disable_tx_flow_control
<1> HIDE DEF a
<1>4. ASSUME NEW v PROVE Same(Set(a, "RFE", v), a, {"RFE"})
  BY <1>1, <1>2, SameIs, SetIs
<1>5. Same(q, a, {"RFE"})
  BY <1>3, <1>4, Zenon
<1> QED
  BY <1>1, <1>2, <1>5 DEF Same

\* Setting a bit or clearing it is writing whether it is to be set.
LEMMA Switch ==
  ASSUME NEW r, NEW f, NEW b \in BOOLEAN
  PROVE  Set(r, f, b) = IF b THEN Set(r, f, TRUE) ELSE Set(r, f, FALSE)
<1>1. CASE b = TRUE
  BY <1>1, Zenon
<1>2. CASE b = FALSE
  BY <1>2, Zenon
<1> QED
  BY <1>1, <1>2, Zenon

LEMMA CsumIs ==
  ASSUME NEW r, IsRegs(r), NEW fs
  PROVE  LET q == mac_config_checksum_offload(r, fs)
         IN  Same(q, r, {"IPC"}) /\ q.IPC = ("RXCSUM" \in fs)
<1> DEFINE q == mac_config_checksum_offload(r, fs)
<1>1. "IPC" \in Fields
  BY DEF Fields
<1>2. q = Set(r, "IPC", "RXCSUM" \in fs)
  <2>1. ("RXCSUM" \in fs) \in BOOLEAN
    OBVIOUS
  <2>2. Set(r, "IPC", "RXCSUM" \in fs) =
          IF "RXCSUM" \in fs THEN Set(r, "IPC", TRUE) ELSE Set(r, "IPC", FALSE)
    BY <2>1, Switch, Zenon
  <2> QED
    BY <2>2, Zenon DEF mac_config_checksum_offload, mac_enable_rx_csum, mac_disable_rx_csum
<1>3. ASSUME NEW v PROVE Same(Set(r, "IPC", v), r, {"IPC"}) /\ Set(r, "IPC", v).IPC = v
  BY <1>1, SetIs
<1> QED
  BY <1>2, <1>3, Zenon

\* The table of the VLANs, their filter and the stripping of their tags.
LEMMA VlanIs ==
  ASSUME NEW r, IsRegs(r), NEW fs, NEW vlans
  PROVE  LET q == mac_config_vlan_support(r, fs, vlans)
         IN  /\ Same(q, r, {"VLHT", "VTFE", "EVLS"})
             /\ q.VLHT = {vid_bit(v) : v \in vlans}
             /\ q.VTFE = ("VLAN_FILTER" \in fs)
             /\ q.EVLS = ("VLAN_RX" \in fs)
<1> DEFINE bits == {vid_bit(v) : v \in vlans}
           h == Set(r, "VLHT", bits)
           f == Set(h, "VTFE", "VLAN_FILTER" \in fs)
           q == mac_config_vlan_support(r, fs, vlans)
<1>1. "VLHT" \in Fields /\ "VTFE" \in Fields /\ "EVLS" \in Fields
  BY DEF Fields
<1>2. q = Set(f, "EVLS", "VLAN_RX" \in fs)
  <2>1. h = mac_update_vlan_hash_table(r, vlans)
    BY DEF mac_update_vlan_hash_table
  <2> HIDE DEF h
  <2>2. f = IF "VLAN_FILTER" \in fs THEN mac_enable_rx_vlan_filtering(h)
            ELSE mac_disable_rx_vlan_filtering(h)
    <3>1. ("VLAN_FILTER" \in fs) \in BOOLEAN
      OBVIOUS
    <3>2. f = IF "VLAN_FILTER" \in fs THEN Set(h, "VTFE", TRUE) ELSE Set(h, "VTFE", FALSE)
      BY <3>1, Switch, Zenon
    <3> QED
      BY <3>2, Zenon DEF mac_enable_rx_vlan_filtering, mac_disable_rx_vlan_filtering
  <2> HIDE DEF f
  <2>3. q = IF "VLAN_RX" \in fs THEN mac_enable_rx_vlan_stripping(f)
            ELSE mac_disable_rx_vlan_stripping(f)
    BY <2>1, <2>2, Zenon DEF mac_config_vlan_support
  <2> HIDE DEF q
  <2>4. ("VLAN_RX" \in fs) \in BOOLEAN
    OBVIOUS
  <2>5. Set(f, "EVLS", "VLAN_RX" \in fs) =
          IF "VLAN_RX" \in fs THEN Set(f, "EVLS", TRUE) ELSE Set(f, "EVLS", FALSE)
    BY <2>4, Switch, Zenon
  <2> QED
    BY <2>3, <2>5, Zenon DEF mac_enable_rx_vlan_stripping, mac_disable_rx_vlan_stripping
<1> HIDE DEF q, bits
<1>3. Same(h, r, {"VLHT"}) /\ h.VLHT = bits
  <2>1. ASSUME NEW v PROVE Same(Set(r, "VLHT", v), r, {"VLHT"}) /\ Set(r, "VLHT", v).VLHT = v
    BY <1>1, SetIs
  <2> QED
    BY <2>1, Zenon
<1> HIDE DEF h
<1>4. Same(f, h, {"VTFE"}) /\ f.VTFE = ("VLAN_FILTER" \in fs)
  <2>1. ASSUME NEW v PROVE Same(Set(h, "VTFE", v), h, {"VTFE"}) /\ Set(h, "VTFE", v).VTFE = v
    BY <1>1, <1>3, SameIs, SetIs
  <2> QED
    BY <2>1, Zenon
<1> HIDE DEF f
<1>5. Same(q, f, {"EVLS"}) /\ q.EVLS = ("VLAN_RX" \in fs)
  <2>1. ASSUME NEW v PROVE Same(Set(f, "EVLS", v), f, {"EVLS"}) /\ Set(f, "EVLS", v).EVLS = v
    BY <1>1, <1>4, SameIs, SetIs
  <2> QED
    BY <1>2, <2>1, Zenon
<1>6. Same(q, r, {"VLHT", "VTFE", "EVLS"}) /\ q.VLHT = bits /\ q.VTFE = ("VLAN_FILTER" \in fs)
  BY <1>1, <1>3, <1>4, <1>5 DEF Same
<1> QED
  BY <1>5, <1>6 DEF q, bits

\* What mac_hw_init leaves behind: the settings of FieldsOf, and the filters.
Asked(q, m) ==
  /\ q.MACA0 = own
  /\ q.JE = (m > 1500)
  /\ q.IPC = ("RXCSUM" \in features)
  /\ q.EVLS = ("VLAN_RX" \in features)
  /\ ~q.TFE

Filtered(q) ==
  /\ \A a \in lists : PassIn(q, a)
  /\ "PROMISC" \in flags => q.PR
  /\ "ALLMULTI" \in flags => q.PM
  /\ q.VLHT = {vid_bit(v) : v \in pd.active_vlans}
  /\ VlanAsked(q, features)

MacFields == Modes \cup {"MACA0", "HPF", "JE", "TFE", "RFE", "IPC", "VLHT", "EVLS", "cfg"}

\* The settings of the MAC.
LEMMA MacIs ==
  ASSUME NEW r, IsRegs(r), NEW m, lists \subseteq Uc \cup Mc
  PROVE  LET q == InitMac(r, m)
         IN  /\ Same(q, r, MacFields) /\ q.cfg = r.cfg \cup {"mac_ier"}
             /\ Asked(q, m) /\ Filtered(q)
<1> DEFINE a == mac_config_mac_address(r)
           b == mac_config_rx_mode(a, flags, lists, features)
           c == mac_config_jumbo_enable(b, m)
           d == mac_config_flow_control(c)
           e == mac_config_checksum_offload(d, features)
           f == mac_config_vlan_support(e, features, pd.active_vlans)
           q == Put(f, "mac_ier")
<1>1. InitMac(r, m) = q
  BY Zenon DEF InitMac, mac_enable_mac_interrupts
<1>2. Same(a, r, {"MACA0", "HPF"}) /\ a.MACA0 = own
  BY AddressIs
<1> HIDE DEF a
<1>3. IsRegs(a)
  BY <1>2, SameIs
<1>4. /\ Same(b, a, Modes) /\ (\A x \in lists : PassIn(b, x))
      /\ ("PROMISC" \in flags => b.PR) /\ ("ALLMULTI" \in flags => b.PM)
  BY <1>3, RxModeIs
<1> HIDE DEF b
<1>5. IsRegs(b)
  BY <1>4, SameIs
<1>6. Same(c, b, {"JE"}) /\ c.JE = (m > 1500)
  BY <1>5, JumboIs
<1> HIDE DEF c
<1>7. IsRegs(c)
  BY <1>6, SameIs
<1>8. Same(d, c, {"TFE", "RFE"}) /\ d.TFE = FALSE
  BY <1>7, FlowIs, Zenon
<1> HIDE DEF d
<1>9. IsRegs(d)
  BY <1>8, SameIs
<1>10. Same(e, d, {"IPC"}) /\ e.IPC = ("RXCSUM" \in features)
  BY <1>9, CsumIs, Zenon
<1> HIDE DEF e
<1>11. IsRegs(e)
  BY <1>10, SameIs
<1>12. /\ Same(f, e, {"VLHT", "VTFE", "EVLS"})
       /\ f.VLHT = {vid_bit(v) : v \in pd.active_vlans}
       /\ f.VTFE = ("VLAN_FILTER" \in features)
       /\ f.EVLS = ("VLAN_RX" \in features)
  BY <1>11, VlanIs
<1> HIDE DEF f
<1>13. IsRegs(f)
  BY <1>12, SameIs
<1>14. Same(q, f, {"cfg"}) /\ q.cfg = f.cfg \cup {"mac_ier"}
  BY <1>13, PutIs
<1> HIDE DEF q
<1>15. Same(q, r, MacFields)
  BY <1>2, <1>4, <1>6, <1>8, <1>10, <1>12, <1>14 DEF Same, MacFields, Modes
<1>16. /\ q.MACA0 = a.MACA0 /\ q.JE = c.JE /\ q.TFE = d.TFE /\ q.IPC = e.IPC /\ q.EVLS = f.EVLS
       /\ q.VLHT = f.VLHT /\ q.VTFE = f.VTFE /\ f.cfg = r.cfg
  BY <1>2, <1>4, <1>6, <1>8, <1>10, <1>12, <1>14 DEF Same, Modes, Fields
<1>17. q.PR = b.PR /\ q.PM = b.PM /\ q.HTR = b.HTR /\ q.MACA = b.MACA
  BY <1>6, <1>8, <1>10, <1>12, <1>14 DEF Same, Fields
<1>18. Asked(q, m)
  BY <1>2, <1>6, <1>8, <1>10, <1>12, <1>16 DEF Asked
<1>19. Filtered(q)
  <2>1. \A x \in lists : PassIn(q, x)
    BY <1>4, <1>17 DEF PassIn
  <2>2. VlanAsked(q, features)
    <3>1. q.VTFE = ("VLAN_FILTER" \in features)
      BY <1>12, <1>16, Zenon
    <3> QED
      BY <3>1 DEF VlanAsked
  <2> QED
    BY <1>4, <1>12, <1>16, <1>17, <2>1, <2>2 DEF Filtered
<1> QED
  BY <1>1, <1>14, <1>15, <1>16, <1>18, <1>19

\* The rest of mac_hw_init.
LEMMA LastIs ==
  ASSUME NEW r, IsRegs(r)
  PROVE  /\ Same(LastPart(r), r, {"RFE", "cfg"})
         /\ LastPart(r).cfg = r.cfg \cup {"RA", "prio_map"}
<1> DEFINE a == Set(r, "RFE", TRUE)
           b == Put(a, "RA")
           q == Put(b, "prio_map")
<1>1. "RFE" \in Fields /\ "cfg" \in Fields
  BY DEF Fields
<1>2. Same(a, r, {"RFE"})
  <2>1. ASSUME NEW v PROVE Same(Set(r, "RFE", v), r, {"RFE"})
    BY <1>1, SetIs
  <2> QED
    BY <2>1, Zenon
<1>3. LastPart(r) = q
  BY Zenon DEF LastPart
<1> HIDE DEF a
<1>4. Same(b, a, {"cfg"}) /\ b.cfg = a.cfg \cup {"RA"}
  BY <1>2, SameIs, PutIs
<1> HIDE DEF b
<1>5. Same(q, b, {"cfg"}) /\ q.cfg = b.cfg \cup {"prio_map"}
  BY <1>4, SameIs, PutIs
<1> HIDE DEF q
<1>6. a.cfg = r.cfg
  BY <1>1, <1>2 DEF Same
<1> QED
  BY <1>2, <1>3, <1>4, <1>5, <1>6 DEF Same

\* RSS is on only with a whole table.
RssTable(r) == r.RSSE => r.RSST

\* mac_hw_init, once the queues are flushed, leaves every setting as asked for,
\* whatever was in the registers before.
LEMMA HwInitIs ==
  ASSUME NEW r, IsRegs(r), RssTable(r), r.cfg \subseteq Fixed,
         NEW m, NEW n, NEW busy \in BOOLEAN,
         pd.channel_count = 1, "rss" \in hw_feat, lists \subseteq Uc \cup Mc
  PROVE  LET q == mac_hw_init(r, m, n, busy)
         IN  /\ IsRegs(q) /\ Asked(q, m) /\ Filtered(q)
             /\ q.RBSZ = n /\ q.RIWT = mac_usec_to_riwt(pd.rx_usecs)
             /\ q.RSSE => q.RSST /\ "RXHASH" \in features
             /\ q.cfg = Fixed
<1> DEFINE a == InitDma(r, n, busy)
           b == InitMtl(a)
           c == InitMac(b, m)
           q == LastPart(c)
<1>1. mac_hw_init(r, m, n, busy) = q
  BY DEF mac_hw_init
<1>2. /\ Same(a, r, {"cfg", "RIWT", "RBSZ", "RSSE", "RSST"})
      /\ a.RIWT = mac_usec_to_riwt(pd.rx_usecs) /\ a.RBSZ = n
      /\ a.RSSE => a.RSST /\ "RXHASH" \in features
      /\ a.cfg = r.cfg \cup {"dma_bus", "osp", "pblx8", "tx_pbl", "rx_pbl", "tso", "sph", "dma_ier"}
  BY DmaIs DEF RssTable
<1> HIDE DEF a
<1>3. /\ Same(b, a, {"cfg"})
      /\ b.cfg = a.cfg \cup {"mtl", "map", "sf", "ttc", "rtc", "fifo", "rfc", "fep_fup", "mtl_ier"}
  BY <1>2, SameIs, MtlIs
<1> HIDE DEF b
<1>4. /\ Same(c, b, MacFields) /\ c.cfg = b.cfg \cup {"mac_ier"}
      /\ Asked(c, m) /\ Filtered(c)
  <2>1. IsRegs(b)
    BY <1>3, SameIs
  <2> QED
    BY <2>1, MacIs
<1> HIDE DEF c
<1>5. Same(q, c, {"RFE", "cfg"}) /\ q.cfg = c.cfg \cup {"RA", "prio_map"}
  BY <1>4, SameIs, LastIs
<1> HIDE DEF q
<1>6. /\ q.MACA0 = c.MACA0 /\ q.JE = c.JE /\ q.TFE = c.TFE /\ q.IPC = c.IPC /\ q.EVLS = c.EVLS
      /\ q.VLHT = c.VLHT /\ q.VTFE = c.VTFE /\ q.PR = c.PR /\ q.PM = c.PM /\ q.HTR = c.HTR
      /\ q.MACA = c.MACA
  BY <1>5 DEF Same, Fields
<1>7. Asked(q, m)
  BY <1>4, <1>6 DEF Asked
<1>8. Filtered(q)
  BY <1>4, <1>6 DEF Filtered, PassIn, VlanAsked
<1>9. q.RBSZ = a.RBSZ /\ q.RIWT = a.RIWT /\ q.RSSE = a.RSSE /\ q.RSST = a.RSST
  BY <1>3, <1>4, <1>5 DEF Same, Fields, MacFields, Modes
<1>10. q.cfg = Fixed
  BY <1>2, <1>3, <1>4, <1>5 DEF Fixed
<1>11. IsRegs(q)
  BY <1>5 DEF Same
<1> QED
  BY <1>1, <1>2, <1>7, <1>8, <1>9, <1>10, <1>11
-----------------------------------------------------------------------------
(* The inductive invariant.                                                *)

\* What mac_hw_init has left behind, and the calls since have kept.
Whole(q) ==
  /\ Asked(q, mtu) /\ Filtered(q)
  /\ q.RBSZ = mac_calc_rx_buf_size(mtu) /\ q.RIWT = mac_usec_to_riwt(pd.rx_usecs)
  /\ q.RSSE => "RXHASH" \in features
  /\ q.cfg = Fixed

\* pdata follows the net device: the features the driver remembers are the device's,
\* a running device is bound, has a channel and buffers of the size of its MTU.
PdInv ==
  /\ pd = [x \in {"netdev_features", "active_vlans", "rx_buf_size", "rx_usecs",
                  "channel_count"} |-> pd[x]]
  /\ pd.netdev_features = features
  /\ pd.active_vlans \subseteq Vids
  /\ pd.channel_count \in {0, 1}
  /\ running => dev /\ pd.channel_count = 1 /\ pd.rx_buf_size = mac_calc_rx_buf_size(mtu)

\* The net device.
NetInv ==
  /\ "rss" \in hw_feat
  /\ flags \subseteq {"PROMISC", "ALLMULTI"} /\ features \subseteq Offered(hw_feat)
  /\ lists \subseteq Uc \cup Mc /\ mtu \in Mtus

\* The registers, of any device and of a running one.
RegInv ==
  /\ IsRegs(regs) /\ RssTable(regs) /\ regs.VLHT \subseteq {0, 1} /\ regs.cfg \subseteq Fixed
  /\ running /\ inited => Whole(regs)

\* The rest of TypeOK.
LifeTypes ==
  /\ state \in {"ok", "oops", "hung"}
  /\ head \in {NULL, {0}, {1}} /\ res \subseteq Resources

LifeFlags ==
  /\ dev \in BOOLEAN /\ running \in BOOLEAN /\ dma \in BOOLEAN /\ work \in BOOLEAN
  /\ inited \in BOOLEAN

DevInv == PdInv /\ NetInv /\ RegInv /\ LifeTypes /\ LifeFlags

\* Every step keeps the flags Boolean.
LEMMA LifeFlagsStep ==
  ASSUME DevInv, [Next]_vars
  PROVE  LifeFlags'
<1>1. CASE Probe
  BY <1>1, Zenon DEF Probe, DevInv, LifeFlags
<1>2. CASE Remove
  BY <1>2, Zenon DEF Remove, DevInv, LifeFlags
<1>3. CASE OpenNoMemory
  BY <1>3, Zenon DEF OpenNoMemory, DevInv, LifeFlags
<1>4. CASE Close
  BY <1>4, Zenon DEF Close, mac_free_channels, DevInv, LifeFlags
<1>5. CASE TxTimeout
  BY <1>5, Zenon DEF TxTimeout, DevInv, LifeFlags
<1>6. ASSUME NEW flushed \in BOOLEAN, NEW busy \in BOOLEAN, NEW irq \in BOOLEAN,
             Open(flushed, busy, irq)
      PROVE  LifeFlags'
  BY <1>6, Zenon DEF Open, mac_start, DevInv, LifeFlags
<1>7. ASSUME NEW flushed \in BOOLEAN, NEW busy \in BOOLEAN, NEW irq \in BOOLEAN,
             RestartWork(flushed, busy, irq)
      PROVE  LifeFlags'
  BY <1>7, Zenon DEF RestartWork, mac_restart_dev, mac_start, DevInv, LifeFlags
<1>8. ASSUME NEW flushed \in BOOLEAN, NEW busy \in BOOLEAN, NEW irq \in BOOLEAN,
             NEW m \in Mtus,
             ChangeMtu(m, flushed, busy, irq)
      PROVE  LifeFlags'
  <2>1. /\ dma' = dma \/ dma' = TRUE \/ dma' = FALSE
        /\ inited' = inited \/ inited' = flushed
        /\ UNCHANGED <<dev, running, work>>
    BY <1>8 DEF ChangeMtu, mac_restart_dev, mac_start
  <2> QED
    BY <2>1, Zenon DEF DevInv, LifeFlags
<1>9. CASE SetFlags
  BY <1>9, Zenon DEF SetFlags, SetRxMode, Toggle, DevInv, LifeFlags
<1>10. CASE SetLists
  BY <1>10, Zenon DEF SetLists, SetRxMode, Toggle, DevInv, LifeFlags
<1>11. ASSUME NEW v \in Vids,
             VlanRxVid(v)
      PROVE  LifeFlags'
  BY <1>11, Zenon DEF VlanRxVid, Toggle, DevInv, LifeFlags
<1>12. ASSUME NEW f \in Offered(hw_feat), NEW busy \in BOOLEAN,
             SetFeatures(Toggle(features, f), busy)
      PROVE  LifeFlags'
  BY <1>12, Zenon DEF SetFeatures, Toggle, DevInv, LifeFlags
<1>13. ASSUME NEW a \in {0, 1},
             SetMacAddress(a)
      PROVE  LifeFlags'
  BY <1>13, Zenon DEF SetMacAddress, DevInv, LifeFlags
<1>14. ASSUME NEW u \in Usecs,
             SetCoalesce(u)
      PROVE  LifeFlags'
  BY <1>14, Zenon DEF SetCoalesce, DevInv, LifeFlags
<1>15. CASE UNCHANGED vars
  BY <1>15, Zenon DEF vars, DevInv, LifeFlags
<1> QED
  BY <1>1, <1>2, <1>3, <1>4, <1>5, <1>6, <1>7, <1>8,
     <1>9, <1>10, <1>11, <1>12, <1>13, <1>14, <1>15 DEF Next

\* Every step keeps the rest in type.
LEMMA LifeTypesStep ==
  ASSUME DevInv, [Next]_vars
  PROVE  LifeTypes'
<1>1. CASE Probe
  BY <1>1 DEF Probe, DevInv, LifeTypes, NULL
<1>2. CASE Remove
  BY <1>2 DEF Remove, DevInv, LifeTypes, NULL
<1>3. CASE OpenNoMemory
  BY <1>3 DEF OpenNoMemory, DevInv, LifeTypes, NULL
<1>4. CASE Close
  BY <1>4 DEF Close, mac_free_channels, DevInv, LifeTypes, NULL
<1>5. CASE TxTimeout
  BY <1>5 DEF TxTimeout, DevInv, LifeTypes, NULL
<1>6. ASSUME NEW flushed \in BOOLEAN, NEW busy \in BOOLEAN, NEW irq \in BOOLEAN,
             Open(flushed, busy, irq)
      PROVE  LifeTypes'
  BY <1>6 DEF Open, mac_start, PdInv, DevInv, LifeTypes, NULL
<1>7. ASSUME NEW flushed \in BOOLEAN, NEW busy \in BOOLEAN, NEW irq \in BOOLEAN,
             RestartWork(flushed, busy, irq)
      PROVE  LifeTypes'
  BY <1>7 DEF RestartWork, mac_restart_dev, mac_start, DevInv, LifeTypes, NULL
<1>8. ASSUME NEW flushed \in BOOLEAN, NEW busy \in BOOLEAN, NEW irq \in BOOLEAN,
             NEW m \in Mtus,
             ChangeMtu(m, flushed, busy, irq)
      PROVE  LifeTypes'
  BY <1>8 DEF ChangeMtu, mac_restart_dev, mac_start, DevInv, LifeTypes, NULL
<1>9. CASE SetFlags
  BY <1>9 DEF SetFlags, SetRxMode, Toggle, DevInv, LifeTypes, NULL
<1>10. CASE SetLists
  BY <1>10 DEF SetLists, SetRxMode, Toggle, DevInv, LifeTypes, NULL
<1>11. ASSUME NEW v \in Vids,
             VlanRxVid(v)
      PROVE  LifeTypes'
  BY <1>11 DEF VlanRxVid, Toggle, DevInv, LifeTypes, NULL
<1>12. ASSUME NEW f \in Offered(hw_feat), NEW busy \in BOOLEAN,
             SetFeatures(Toggle(features, f), busy)
      PROVE  LifeTypes'
  BY <1>12 DEF SetFeatures, Toggle, DevInv, LifeTypes, NULL
<1>13. ASSUME NEW a \in {0, 1},
             SetMacAddress(a)
      PROVE  LifeTypes'
  BY <1>13 DEF SetMacAddress, DevInv, LifeTypes, NULL
<1>14. ASSUME NEW u \in Usecs,
             SetCoalesce(u)
      PROVE  LifeTypes'
  BY <1>14 DEF SetCoalesce, DevInv, LifeTypes, NULL
<1>15. CASE UNCHANGED vars
  BY <1>15 DEF vars, DevInv, LifeTypes, NULL
<1> QED
  BY <1>1, <1>2, <1>3, <1>4, <1>5, <1>6, <1>7, <1>8,
     <1>9, <1>10, <1>11, <1>12, <1>13, <1>14, <1>15 DEF Next

\* The net device stays in type.
LEMMA NetStep ==
  ASSUME DevInv, [Next]_vars
  PROVE  NetInv'
<1>1. CASE Probe
  BY MacDevConstants, <1>1 DEF Probe, Offered, DevInv, NetInv
<1>2. CASE Remove
  BY MacDevConstants, <1>2 DEF Remove, DevInv, NetInv
<1>3. CASE OpenNoMemory
  BY MacDevConstants, <1>3 DEF OpenNoMemory, DevInv, NetInv
<1>4. CASE Close
  BY MacDevConstants, <1>4 DEF Close, mac_free_channels, DevInv, NetInv
<1>5. CASE TxTimeout
  BY MacDevConstants, <1>5 DEF TxTimeout, DevInv, NetInv
<1>6. ASSUME NEW flushed \in BOOLEAN, NEW busy \in BOOLEAN, NEW irq \in BOOLEAN,
             Open(flushed, busy, irq)
      PROVE  NetInv'
  BY MacDevConstants, <1>6 DEF Open, mac_start, DevInv, NetInv
<1>7. ASSUME NEW flushed \in BOOLEAN, NEW busy \in BOOLEAN, NEW irq \in BOOLEAN,
             RestartWork(flushed, busy, irq)
      PROVE  NetInv'
  BY MacDevConstants, <1>7 DEF RestartWork, mac_restart_dev, mac_start, DevInv, NetInv
<1>8. ASSUME NEW flushed \in BOOLEAN, NEW busy \in BOOLEAN, NEW irq \in BOOLEAN,
             NEW m \in Mtus,
             ChangeMtu(m, flushed, busy, irq)
      PROVE  NetInv'
  BY MacDevConstants, <1>8 DEF ChangeMtu, mac_restart_dev, mac_start, DevInv, NetInv
<1>9. CASE SetFlags
  BY MacDevConstants, <1>9 DEF SetFlags, SetRxMode, Toggle, DevInv, NetInv
<1>10. CASE SetLists
  BY MacDevConstants, <1>10 DEF SetLists, SetRxMode, Toggle, DevInv, NetInv
<1>11. ASSUME NEW v \in Vids,
             VlanRxVid(v)
      PROVE  NetInv'
  BY MacDevConstants, <1>11 DEF VlanRxVid, Toggle, DevInv, NetInv
<1>12. ASSUME NEW f \in Offered(hw_feat), NEW busy \in BOOLEAN,
             SetFeatures(Toggle(features, f), busy)
      PROVE  NetInv'
  BY MacDevConstants, <1>12 DEF SetFeatures, Toggle, DevInv, NetInv
<1>13. ASSUME NEW a \in {0, 1},
             SetMacAddress(a)
      PROVE  NetInv'
  BY MacDevConstants, <1>13 DEF SetMacAddress, DevInv, NetInv
<1>14. ASSUME NEW u \in Usecs,
             SetCoalesce(u)
      PROVE  NetInv'
  BY MacDevConstants, <1>14 DEF SetCoalesce, DevInv, NetInv
<1>15. CASE UNCHANGED vars
  BY <1>15 DEF vars, DevInv, NetInv
<1> QED
  BY <1>1, <1>2, <1>3, <1>4, <1>5, <1>6, <1>7, <1>8,
     <1>9, <1>10, <1>11, <1>12, <1>13, <1>14, <1>15 DEF Next

\* pdata follows the net device; without channels the device is not opened again.
LEMMA PdStep ==
  ASSUME "reopen" \notin Allow, DevInv, [Next]_vars
  PROVE  PdInv'
<1>1. CASE Probe
  BY <1>1 DEF Probe, Pdata, LifeFlags, DevInv, PdInv
<1>2. CASE Remove
  BY <1>2 DEF Remove, DevInv, PdInv
<1>3. CASE OpenNoMemory
  BY <1>3 DEF OpenNoMemory, DevInv, PdInv
<1>4. CASE Close
  BY <1>4 DEF Close, mac_free_channels, DevInv, PdInv
<1>5. CASE TxTimeout
  BY <1>5 DEF TxTimeout, DevInv, PdInv
<1>6. ASSUME NEW flushed \in BOOLEAN, NEW busy \in BOOLEAN, NEW irq \in BOOLEAN,
             Open(flushed, busy, irq)
      PROVE  PdInv'
  <2>1. pd.channel_count = 1 /\ dev /\ running' = irq /\ UNCHANGED <<dev, mtu, features>>
    BY <1>6 DEF Open, Ready, DevInv, PdInv
  <2>2. pd' = [pd EXCEPT !.rx_buf_size = mac_calc_rx_buf_size(mtu),
                         !.channel_count = IF irq THEN @ ELSE 0]
    BY <1>6 DEF Open
  <2>3. CASE irq
    BY <2>1, <2>2, <2>3 DEF DevInv, PdInv
  <2>4. CASE ~irq
    BY <2>1, <2>2, <2>4 DEF DevInv, PdInv
  <2> QED
    BY <2>3, <2>4
<1>7. ASSUME NEW flushed \in BOOLEAN, NEW busy \in BOOLEAN, NEW irq \in BOOLEAN,
             RestartWork(flushed, busy, irq)
      PROVE  PdInv'
  BY <1>7 DEF RestartWork, mac_restart_dev, mac_start, DevInv, PdInv
<1>8. ASSUME NEW flushed \in BOOLEAN, NEW busy \in BOOLEAN, NEW irq \in BOOLEAN,
             NEW m \in Mtus,
             ChangeMtu(m, flushed, busy, irq)
      PROVE  PdInv'
  BY <1>8 DEF ChangeMtu, mac_restart_dev, mac_start, DevInv, PdInv
<1>9. CASE SetFlags
  BY <1>9 DEF SetFlags, SetRxMode, Toggle, DevInv, PdInv
<1>10. CASE SetLists
  BY <1>10 DEF SetLists, SetRxMode, Toggle, DevInv, PdInv
<1>11. ASSUME NEW v \in Vids,
             VlanRxVid(v)
      PROVE  PdInv'
  BY <1>11 DEF VlanRxVid, Toggle, DevInv, PdInv
<1>12. ASSUME NEW f \in Offered(hw_feat), NEW busy \in BOOLEAN,
             SetFeatures(Toggle(features, f), busy)
      PROVE  PdInv'
  BY <1>12 DEF SetFeatures, Toggle, DevInv, PdInv
<1>13. ASSUME NEW a \in {0, 1},
             SetMacAddress(a)
      PROVE  PdInv'
  BY <1>13 DEF SetMacAddress, DevInv, PdInv
<1>14. ASSUME NEW u \in Usecs,
             SetCoalesce(u)
      PROVE  PdInv'
  BY <1>14 DEF SetCoalesce, DevInv, PdInv
<1>15. CASE UNCHANGED vars
  BY <1>15 DEF vars, DevInv, PdInv
<1> QED
  BY <1>1, <1>2, <1>3, <1>4, <1>5, <1>6, <1>7, <1>8,
     <1>9, <1>10, <1>11, <1>12, <1>13, <1>14, <1>15 DEF Next

-----------------------------------------------------------------------------
(* The steps that write registers.                                         *)

\* A device that does not run may have anything in its registers.
LEMMA RegOff ==
  ASSUME RegInv, UNCHANGED regs, ~running'
  PROVE  RegInv'
BY DEF RegInv

\* Whole depends on the settings only.
LEMMA RegFrame ==
  ASSUME RegInv, UNCHANGED <<regs, inited, running, mtu, own, features, flags, lists, hw_feat>>,
         pd'.rx_usecs = pd.rx_usecs, pd'.active_vlans = pd.active_vlans
  PROVE  RegInv'
BY DEF RegInv, Whole, Asked, Filtered, PassIn

\* The bits of the active VLANs are bits of the table.
LEMMA VlanBits ==
  ASSUME NEW vlans \in SUBSET Vids
  PROVE  {vid_bit(v) : v \in vlans} \subseteq {0, 1}
<1>1. ASSUME NEW v \in Vids PROVE vid_bit(v) \in {0, 1}
  BY MacDevConstants DEF vid_bit
<1> QED
  BY <1>1

\* mac_start
LEMMA StartRegs ==
  ASSUME DevInv, pd.channel_count = 1,
         NEW m, NEW flushed \in BOOLEAN, NEW busy \in BOOLEAN, NEW irq \in BOOLEAN,
         mac_start(m, mac_calc_rx_buf_size(m), flushed, busy, irq),
         mtu' = m, UNCHANGED <<own, features, flags, lists, hw_feat>>,
         pd'.rx_usecs = pd.rx_usecs, pd'.active_vlans = pd.active_vlans
  PROVE  RegInv'
<1> DEFINE q == mac_hw_init(regs, m, mac_calc_rx_buf_size(m), busy)
<1>1. CASE ~flushed
  BY <1>1 DEF mac_start, DevInv, RegInv
<1>2. CASE flushed
  <2>1. PICK x : x = q
    OBVIOUS
  <2>2. regs' = x
    BY <1>2, <2>1 DEF mac_start
  <2>3. /\ IsRegs(x) /\ Asked(x, m) /\ Filtered(x)
        /\ x.RBSZ = mac_calc_rx_buf_size(m) /\ x.RIWT = mac_usec_to_riwt(pd.rx_usecs)
        /\ x.RSSE => x.RSST /\ "RXHASH" \in features
        /\ x.cfg = Fixed
    BY <2>1, HwInitIs DEF DevInv, RegInv, NetInv
  <2> HIDE DEF q
  <2>4. x.VLHT \subseteq {0, 1}
    BY <2>3, VlanBits DEF Filtered, DevInv, PdInv
  <2>5. Asked(x, mtu)'
    BY <2>3 DEF Asked
  <2>6. Filtered(x)'
    BY <2>3 DEF Filtered, PassIn
  <2>7. Whole(x)'
    BY <2>3, <2>5, <2>6 DEF Whole
  <2>8. Whole(regs)'
    BY <2>2, <2>7
  <2> QED
    BY <2>2, <2>3, <2>4, <2>8 DEF RegInv, RssTable
<1> QED
  BY <1>1, <1>2

\* mac_set_rx_mode
LEMMA RxModeRegs ==
  ASSUME DevInv, NetInv', SetFlags \/ SetLists
  PROVE  RegInv'
<1>1. PICK fl, l : SetRxMode(fl, l)
  BY DEF SetFlags, SetLists
<1>2. /\ flags' = fl /\ lists' = l /\ UNCHANGED <<features, mtu, own, hw_feat, running, inited, pd>>
      /\ regs' = IF running THEN mac_config_rx_mode(regs, fl, l, features) ELSE regs
  BY <1>1 DEF SetRxMode
<1>3. CASE ~running
  BY <1>2, <1>3, RegOff DEF DevInv
<1>4. CASE running
  <2>1. PICK x : x = mac_config_rx_mode(regs, fl, l, features)
    OBVIOUS
  <2>2. l \in SUBSET (Uc \cup Mc) /\ IsRegs(regs)
    BY <1>2 DEF DevInv, NetInv, RegInv
  <2>3. /\ Same(x, regs, Modes)
        /\ VlanAsked(regs, features) => VlanAsked(x, features)
        /\ \A a \in l : PassIn(x, a)
        /\ "PROMISC" \in fl => x.PR
        /\ "ALLMULTI" \in fl => x.PM
    BY <2>1, <2>2, RxModeIs
  <2>4. IsRegs(x) /\ RssTable(x) /\ x.VLHT \subseteq {0, 1} /\ x.cfg \subseteq Fixed
    BY <2>3 DEF Same, Modes, Fields, RssTable, DevInv, RegInv
  <2>5. ASSUME inited PROVE Whole(x)'
    <3>1. Whole(regs)
      BY <1>4, <2>5 DEF DevInv, RegInv
    <3>2. Asked(x, mtu)'
      BY <1>2, <2>3, <3>1 DEF Whole, Asked, Same, Modes, Fields
    <3>3. Filtered(x)'
      BY <1>2, <2>3, <3>1 DEF Whole, Filtered, PassIn, Same, Modes, Fields
    <3> QED
      BY <1>2, <2>3, <3>1, <3>2, <3>3 DEF Whole, Same, Modes, Fields
  <2>6. regs' = x
    BY <1>2, <1>4, <2>1
  <2> QED
    BY <1>2, <2>4, <2>5, <2>6 DEF RegInv
<1> QED
  BY <1>3, <1>4

\* mac_vlan_rx_add_vid and mac_vlan_rx_kill_vid
LEMMA VidRegs ==
  ASSUME DevInv, PdInv', NEW v \in Vids, VlanRxVid(v)
  PROVE  RegInv'
<1>1. PICK x : x = {vid_bit(u) : u \in pd'.active_vlans}
  OBVIOUS
<1>2. /\ regs' = Set(regs, "VLHT", x)
      /\ UNCHANGED <<flags, lists, features, mtu, own, hw_feat, running, inited>>
      /\ pd' = [pd EXCEPT !.active_vlans = Toggle(@, v)]
  BY <1>1 DEF VlanRxVid, mac_update_vlan_hash_table
<1>3. "VLHT" \in Fields /\ IsRegs(regs)
  BY DEF Fields, DevInv, RegInv
<1>4. Same(regs', regs, {"VLHT"}) /\ regs'.VLHT = x
  <2>1. ASSUME NEW y PROVE Same(Set(regs, "VLHT", y), regs, {"VLHT"}) /\ Set(regs, "VLHT", y).VLHT = y
    BY <1>3, SetIs
  <2> QED
    BY <1>2, <2>1, Zenon
<1>5. x \subseteq {0, 1}
  BY <1>1, VlanBits DEF PdInv
<1>6. pd'.rx_usecs = pd.rx_usecs
  BY <1>2 DEF DevInv, PdInv
<1>7. ASSUME running, inited PROVE Whole(regs)'
  <2>1. Whole(regs)
    BY <1>7 DEF DevInv, RegInv
  <2>2. Asked(regs, mtu)'
    BY <1>2, <1>4, <2>1 DEF Whole, Asked, Same, Fields
  <2>3. Filtered(regs)'
    BY <1>1, <1>2, <1>4, <2>1 DEF Whole, Filtered, PassIn, VlanAsked, Same, Fields
  <2> QED
    BY <1>2, <1>4, <1>6, <2>1, <2>2, <2>3 DEF Whole, Same, Fields
<1> QED
  BY <1>2, <1>4, <1>5, <1>7 DEF RegInv, DevInv, RssTable, Same, Fields

\* mac_set_mac_address
LEMMA AddressRegs ==
  ASSUME DevInv, NEW a \in {0, 1}, SetMacAddress(a)
  PROVE  RegInv'
<1>1. /\ regs' = Set(regs, "MACA0", a) /\ own' = a
      /\ UNCHANGED <<flags, lists, features, mtu, hw_feat, running, inited, pd>>
  BY DEF SetMacAddress, mac_set_mac_address
<1>2. "MACA0" \in Fields /\ IsRegs(regs)
  BY DEF Fields, DevInv, RegInv
<1>3. Same(regs', regs, {"MACA0"}) /\ regs'.MACA0 = a
  <2>1. ASSUME NEW y
        PROVE  Same(Set(regs, "MACA0", y), regs, {"MACA0"}) /\ Set(regs, "MACA0", y).MACA0 = y
    BY <1>2, SetIs
  <2> QED
    BY <1>1, <2>1, Zenon
<1>4. ASSUME running, inited PROVE Whole(regs)'
  <2>1. Whole(regs)
    BY <1>4 DEF DevInv, RegInv
  <2>2. Asked(regs, mtu)'
    BY <1>1, <1>3, <2>1 DEF Whole, Asked, Same, Fields
  <2>3. Filtered(regs)'
    BY <1>1, <1>3, <2>1 DEF Whole, Filtered, PassIn, VlanAsked, Same, Fields
  <2> QED
    BY <1>1, <1>3, <2>1, <2>2, <2>3 DEF Whole, Same, Fields
<1> QED
  BY <1>1, <1>3, <1>4 DEF RegInv, DevInv, RssTable, Same, Fields

\* mac_ethtool_set_coalesce
LEMMA CoalesceRegs ==
  ASSUME DevInv, NEW u \in Usecs, SetCoalesce(u)
  PROVE  RegInv'
<1>1. PICK x : x = mac_usec_to_riwt(u)
  OBVIOUS
<1>2. /\ regs' = Set(regs, "RIWT", x) \/ (pd.channel_count = 0 /\ regs' = regs)
      /\ UNCHANGED <<flags, lists, features, mtu, own, hw_feat, running, inited>>
      /\ pd' = [pd EXCEPT !.rx_usecs = u]
  BY <1>1 DEF SetCoalesce, mac_config_rx_coalesce, PerChannel, DevInv, PdInv
<1>3. "RIWT" \in Fields /\ IsRegs(regs)
  BY DEF Fields, DevInv, RegInv
<1>4. /\ pd'.rx_usecs = u /\ pd'.active_vlans = pd.active_vlans
  BY <1>2 DEF DevInv, PdInv
<1>5. CASE pd.channel_count = 0 /\ regs' = regs
  BY <1>2, <1>5, RegOff DEF DevInv, PdInv
<1>6. CASE regs' = Set(regs, "RIWT", x)
  <2>1. Same(regs', regs, {"RIWT"}) /\ regs'.RIWT = x
    <3>1. ASSUME NEW y
          PROVE  Same(Set(regs, "RIWT", y), regs, {"RIWT"}) /\ Set(regs, "RIWT", y).RIWT = y
      BY <1>3, SetIs
    <3> QED
      BY <1>6, <3>1, Zenon
  <2>2. ASSUME running, inited PROVE Whole(regs)'
    <3>1. Whole(regs)
      BY <2>2 DEF DevInv, RegInv
    <3>2. Asked(regs, mtu)'
      BY <1>2, <2>1, <3>1 DEF Whole, Asked, Same, Fields
    <3>3. Filtered(regs)'
      BY <1>2, <1>4, <2>1, <3>1 DEF Whole, Filtered, PassIn, VlanAsked, Same, Fields
    <3> QED
      BY <1>1, <1>2, <1>4, <2>1, <3>1, <3>2, <3>3 DEF Whole, Same, Fields
  <2> QED
    BY <1>2, <2>1, <2>2 DEF RegInv, DevInv, RssTable, Same, Fields
<1> QED
  BY <1>2, <1>5, <1>6

\* mac_set_features, RSS apart: the registers go from the old features to the new.
LEMMA ApplyIs ==
  ASSUME NEW r, IsRegs(r), NEW old, NEW new
  PROVE  LET q == ApplyFeatures(r, old, new)
         IN  /\ Same(q, r, {"IPC", "EVLS", "VTFE"})
             /\ r.IPC = ("RXCSUM" \in old) => q.IPC = ("RXCSUM" \in new)
             /\ r.EVLS = ("VLAN_RX" \in old) => q.EVLS = ("VLAN_RX" \in new)
             /\ VlanAsked(r, old) => VlanAsked(q, new)
<1> DEFINE c == IF ("RXCSUM" \in new) # ("RXCSUM" \in old)
                THEN mac_config_checksum_offload(r, new) ELSE r
           s == IF "VLAN_RX" \in new \ old THEN Set(c, "EVLS", TRUE)
                ELSE IF "VLAN_RX" \in old \ new THEN Set(c, "EVLS", FALSE) ELSE c
           q == IF "VLAN_FILTER" \in new \ old THEN Set(s, "VTFE", TRUE)
                ELSE IF "VLAN_FILTER" \in old \ new THEN Set(s, "VTFE", FALSE) ELSE s
<1>1. "IPC" \in Fields /\ "EVLS" \in Fields /\ "VTFE" \in Fields /\ "PR" \in Fields
  BY DEF Fields
<1>2. ApplyFeatures(r, old, new) = q
  BY DEF ApplyFeatures, mac_enable_rx_vlan_stripping, mac_disable_rx_vlan_stripping,
         mac_enable_rx_vlan_filtering, mac_disable_rx_vlan_filtering
<1>3. Same(c, r, {"IPC"}) /\ (r.IPC = ("RXCSUM" \in old) => c.IPC = ("RXCSUM" \in new))
  <2>1. CASE ("RXCSUM" \in new) # ("RXCSUM" \in old)
    BY <2>1, CsumIs
  <2>2. CASE ("RXCSUM" \in new) = ("RXCSUM" \in old)
    BY <2>2 DEF Same
  <2> QED
    BY <2>1, <2>2
<1>4. IsRegs(c)
  BY <1>3, SameIs
<1> HIDE DEF c
<1>5. Same(s, c, {"EVLS"}) /\ (c.EVLS = ("VLAN_RX" \in old) => s.EVLS = ("VLAN_RX" \in new))
  <2>1. ASSUME NEW v PROVE Same(Set(c, "EVLS", v), c, {"EVLS"}) /\ Set(c, "EVLS", v).EVLS = v
    BY <1>1, <1>4, SetIs
  <2>2. CASE "VLAN_RX" \in new \ old
    <3>1. s = Set(c, "EVLS", TRUE)
      BY <2>2
    <3> HIDE DEF s
    <3>2. Same(s, c, {"EVLS"}) /\ s.EVLS = TRUE
      BY <3>1, <2>1, Zenon
    <3> QED
      BY <2>2, <3>2
  <2>3. CASE "VLAN_RX" \in old \ new
    <3>1. s = Set(c, "EVLS", FALSE)
      BY <2>3
    <3> HIDE DEF s
    <3>2. Same(s, c, {"EVLS"}) /\ s.EVLS = FALSE
      BY <3>1, <2>1, Zenon
    <3>3. ("VLAN_RX" \in new) = FALSE
      BY <2>3
    <3> QED
      BY <3>2, <3>3, Zenon
  <2>4. CASE "VLAN_RX" \notin new \ old /\ "VLAN_RX" \notin old \ new
    <3>1. s = c
      BY <2>4
    <3>3. "VLAN_RX" \in old <=> "VLAN_RX" \in new
      BY <2>4
    <3>4. ("VLAN_RX" \in old) = ("VLAN_RX" \in new)
      <4>1. CASE "VLAN_RX" \in old
        <5>1. ("VLAN_RX" \in old) = TRUE /\ ("VLAN_RX" \in new) = TRUE
          BY <3>3, <4>1
        <5> QED
          BY <5>1, Zenon
      <4>2. CASE "VLAN_RX" \notin old
        <5>1. ("VLAN_RX" \in old) = FALSE /\ ("VLAN_RX" \in new) = FALSE
          BY <3>3, <4>2
        <5> QED
          BY <5>1, Zenon
      <4> QED
        BY <4>1, <4>2, Zenon
    <3>2. Same(c, c, {"EVLS"})
      BY <1>4 DEF Same
    <3> HIDE DEF s
    <3> QED
      BY <3>1, <3>2, <3>4, Zenon
  <2> QED
    BY <2>2, <2>3, <2>4
<1>6. IsRegs(s)
  BY <1>5, SameIs
<1> HIDE DEF s
<1>7. Same(q, s, {"VTFE"}) /\ (VlanAsked(s, old) => VlanAsked(q, new))
  <2>1. ASSUME NEW v PROVE Same(Set(s, "VTFE", v), s, {"VTFE"}) /\ Set(s, "VTFE", v).VTFE = v
    BY <1>1, <1>6, SetIs
  <2>2. CASE "VLAN_FILTER" \in new \ old
    <3>1. q = Set(s, "VTFE", TRUE)
      BY <2>2
    <3> HIDE DEF q
    <3>2. Same(q, s, {"VTFE"}) /\ q.VTFE = TRUE
      BY <3>1, <2>1, Zenon
    <3> QED
      BY <2>2, <3>2 DEF VlanAsked
  <2>3. CASE "VLAN_FILTER" \in old \ new
    <3>1. q = Set(s, "VTFE", FALSE)
      BY <2>3
    <3> HIDE DEF q
    <3>2. Same(q, s, {"VTFE"}) /\ q.VTFE = FALSE
      BY <3>1, <2>1, Zenon
    <3> QED
      BY <2>3, <3>2 DEF VlanAsked
  <2>4. CASE "VLAN_FILTER" \notin new \ old /\ "VLAN_FILTER" \notin old \ new
    BY <1>6, <2>4 DEF Same, VlanAsked
  <2> QED
    BY <2>2, <2>3, <2>4
<1> HIDE DEF q
<1>8. Same(q, r, {"IPC", "EVLS", "VTFE"})
  BY <1>3, <1>5, <1>7 DEF Same
<1>9. /\ q.IPC = c.IPC /\ q.EVLS = s.EVLS /\ c.EVLS = r.EVLS
      /\ s.PR = r.PR /\ s.VTFE = r.VTFE
  BY <1>1, <1>3, <1>5, <1>7 DEF Same
<1> QED
  BY <1>2, <1>3, <1>5, <1>7, <1>8, <1>9 DEF VlanAsked

\* The RSS part of mac_set_features, when it succeeds.
LEMMA RssChange ==
  ASSUME NEW r, IsRegs(r), RssTable(r), NEW old, NEW new, NEW busy \in BOOLEAN,
         ~("RXHASH" \in new \ old /\ busy)
  PROVE  LET q == IF "RXHASH" \in new \ old THEN mac_enable_rss(r, busy)
                  ELSE IF "RXHASH" \in old \ new THEN mac_disable_rss(r) ELSE r
         IN  /\ Same(q, r, {"RSSE", "RSST"}) /\ RssTable(q)
             /\ (r.RSSE => "RXHASH" \in old) => (q.RSSE => "RXHASH" \in new)
<1> DEFINE t == Set(r, "RSST", TRUE)
<1>1. "RSSE" \in Fields /\ "RSST" \in Fields
  BY DEF Fields
<1>2. CASE "RXHASH" \in new \ old
  <2>1. Same(t, r, {"RSST"}) /\ t.RSST = TRUE /\ IsRegs(t)
    BY <1>1, SetIs, SameIs
  <2>2. mac_enable_rss(r, busy) = Set(t, "RSSE", TRUE)
    BY <1>2 DEF mac_enable_rss, mac_write_rss
  <2> HIDE DEF t
  <2>3. ASSUME NEW v PROVE Same(Set(t, "RSSE", v), t, {"RSSE"})
    BY <1>1, <2>1, SetIs
  <2>4. PICK q : q = mac_enable_rss(r, busy)
    OBVIOUS
  <2>5. Same(q, t, {"RSSE"})
    BY <2>2, <2>3, <2>4, Zenon
  <2>6. q.RSST = TRUE /\ Same(q, r, {"RSSE", "RSST"})
    BY <1>1, <2>1, <2>5 DEF Same
  <2> QED
    BY <1>2, <2>4, <2>6 DEF RssTable
<1>3. CASE "RXHASH" \in old \ new
  <2>1. ASSUME NEW v PROVE Same(Set(r, "RSSE", v), r, {"RSSE"}) /\ Set(r, "RSSE", v).RSSE = v
    BY <1>1, SetIs
  <2>2. PICK q : q = mac_disable_rss(r)
    OBVIOUS
  <2>3. Same(q, r, {"RSSE"}) /\ q.RSSE = FALSE
    BY <2>1, <2>2, Zenon DEF mac_disable_rss
  <2>4. Same(q, r, {"RSSE", "RSST"})
    BY <2>3, SameIs
  <2> QED
    BY <1>3, <2>2, <2>3, <2>4 DEF RssTable
<1>4. CASE "RXHASH" \notin new \ old /\ "RXHASH" \notin old \ new
  BY <1>4 DEF Same
<1> QED
  BY <1>2, <1>3, <1>4

\* mac_set_features
LEMMA FeaturesRegs ==
  ASSUME DevInv, NEW f \in Offered(hw_feat), NEW busy \in BOOLEAN,
         SetFeatures(Toggle(features, f), busy)
  PROVE  RegInv'
<1>1. PICK new : new = Toggle(features, f)
  OBVIOUS
<1>2. pd.netdev_features = features /\ IsRegs(regs) /\ RssTable(regs)
  BY DEF DevInv, PdInv, RegInv
<1>3. UNCHANGED <<flags, lists, mtu, own, hw_feat, running, inited>>
  BY DEF SetFeatures
<1>4. CASE "RXHASH" \in new \ features /\ busy
  <2>1. regs' = regs /\ UNCHANGED <<pd, features>>
    BY <1>1, <1>2, <1>4 DEF SetFeatures, mac_enable_rss, mac_write_rss
  <2> QED
    BY <1>3, <2>1, RegFrame DEF DevInv
<1>5. CASE ~("RXHASH" \in new \ features /\ busy)
  <2>1. PICK t : t = IF "RXHASH" \in new \ features THEN mac_enable_rss(regs, busy)
                     ELSE IF "RXHASH" \in features \ new THEN mac_disable_rss(regs) ELSE regs
    OBVIOUS
  <2>2. PICK q : q = ApplyFeatures(t, features, new)
    OBVIOUS
  <2>3. regs' = q /\ features' = new /\ pd' = [pd EXCEPT !.netdev_features = new]
    BY <1>1, <1>2, <1>5, <2>1, <2>2 DEF SetFeatures
  <2>4. /\ Same(t, regs, {"RSSE", "RSST"}) /\ RssTable(t)
        /\ (regs.RSSE => "RXHASH" \in features) => (t.RSSE => "RXHASH" \in new)
    BY <1>2, <1>5, <2>1, RssChange
  <2>5. IsRegs(t)
    BY <2>4, SameIs
  <2>6. /\ Same(q, t, {"IPC", "EVLS", "VTFE"})
        /\ t.IPC = ("RXCSUM" \in features) => q.IPC = ("RXCSUM" \in new)
        /\ t.EVLS = ("VLAN_RX" \in features) => q.EVLS = ("VLAN_RX" \in new)
        /\ VlanAsked(t, features) => VlanAsked(q, new)
    BY <2>2, <2>5, ApplyIs
  <2>7. pd'.rx_usecs = pd.rx_usecs /\ pd'.active_vlans = pd.active_vlans
    BY <2>3 DEF DevInv, PdInv
  <2>8. Same(q, regs, {"RSSE", "RSST", "IPC", "EVLS", "VTFE"})
    BY <2>4, <2>6 DEF Same
  <2>9. q.RSSE = t.RSSE /\ q.RSST = t.RSST /\ t.IPC = regs.IPC /\ t.EVLS = regs.EVLS
        /\ t.VTFE = regs.VTFE /\ t.PR = regs.PR
    BY <2>4, <2>6 DEF Same, Fields
  <2>10. ASSUME running, inited PROVE Whole(q)'
    <3>1. Whole(regs)
      BY <2>10 DEF DevInv, RegInv
    <3>2. Asked(q, mtu)'
      BY <1>3, <2>3, <2>6, <2>8, <2>9, <3>1 DEF Whole, Asked, Same, Fields
    <3>3. VlanAsked(q, new)
      BY <2>6, <2>9, <3>1 DEF Whole, Filtered, VlanAsked
    <3>4. /\ q.PR = regs.PR /\ q.PM = regs.PM /\ q.HTR = regs.HTR /\ q.MACA = regs.MACA
          /\ q.VLHT = regs.VLHT
      BY <2>8 DEF Same, Fields
    <3>5. Filtered(q)'
      BY <1>3, <2>3, <2>7, <3>1, <3>3, <3>4 DEF Whole, Filtered, PassIn
    <3>6. q.RSSE => "RXHASH" \in new
      BY <2>4, <2>9, <3>1 DEF Whole
    <3>7. q.RBSZ = regs.RBSZ /\ q.RIWT = regs.RIWT /\ q.cfg = regs.cfg
      BY <2>8 DEF Same, Fields
    <3> QED
      BY <1>3, <2>3, <2>7, <3>1, <3>2, <3>5, <3>6, <3>7 DEF Whole
  <2>11. IsRegs(q) /\ RssTable(q) /\ q.VLHT \subseteq {0, 1} /\ q.cfg \subseteq Fixed
    BY <2>4, <2>8, <2>9 DEF Same, Fields, RssTable, DevInv, RegInv
  <2> QED
    BY <1>3, <2>3, <2>10, <2>11 DEF RegInv
<1> QED
  BY <1>4, <1>5
-----------------------------------------------------------------------------
(* The theorems about the registers.                                       *)

\* Every step keeps the registers.  A restart that hangs would leave the old MTU in
\* them: Balanced excludes it.
LEMMA RegStep ==
  ASSUME "reopen" \notin Allow, DevInv, Balanced, [Next]_vars
  PROVE  RegInv'
<1>0. NetInv' /\ PdInv' /\ RegInv /\ PdInv
  BY NetStep, PdStep DEF DevInv
<1>1. CASE Probe
  <2>1. ~running'
    BY <1>0, <1>1 DEF Probe, PdInv
  <2> QED
    BY <1>0, <1>1, <2>1, RegOff DEF Probe
<1>2. CASE Remove
  BY <1>0, <1>2, RegOff DEF Remove
<1>3. CASE OpenNoMemory
  BY <1>0, <1>3, RegOff DEF OpenNoMemory
<1>4. CASE Close
  <2>1. CASE CanStop
    BY <1>0, <1>4, <2>1, RegOff DEF Close
  <2>2. CASE ~CanStop
    BY <1>0, <1>4, <2>2, RegFrame DEF Close
  <2> QED
    BY <2>1, <2>2
<1>5. CASE TxTimeout
  BY <1>0, <1>5, RegFrame DEF TxTimeout
<1>6. ASSUME NEW flushed \in BOOLEAN, NEW busy \in BOOLEAN, NEW irq \in BOOLEAN,
             Open(flushed, busy, irq)
      PROVE  RegInv'
  <2>1. pd.channel_count = 1
    BY <1>0, <1>6 DEF Open, PdInv
  <2>2. pd'.rx_usecs = pd.rx_usecs /\ pd'.active_vlans = pd.active_vlans
    BY <1>0, <1>6 DEF Open, PdInv
  <2>3. /\ mac_start(mtu, mac_calc_rx_buf_size(mtu), flushed, busy, irq)
        /\ UNCHANGED <<mtu, own, features, flags, lists, hw_feat>>
    BY <1>6 DEF Open
  <2> QED
    BY <2>1, <2>2, <2>3, StartRegs
<1>7. ASSUME NEW flushed \in BOOLEAN, NEW busy \in BOOLEAN, NEW irq \in BOOLEAN,
             RestartWork(flushed, busy, irq)
      PROVE  RegInv'
  <2>1. UNCHANGED <<mtu, own, features, flags, lists, hw_feat, running, pd>>
    BY <1>7 DEF RestartWork
  <2>2. CASE dev /\ running /\ CanStop
    <3>1. mac_start(mtu, mac_calc_rx_buf_size(mtu), flushed, busy, irq)
      BY <1>0, <1>7, <2>2 DEF RestartWork, mac_restart_dev, PdInv
    <3>2. pd.channel_count = 1
      BY <1>0, <2>2 DEF PdInv
    <3> QED
      BY <2>1, <3>1, <3>2, StartRegs
  <2>3. CASE ~(dev /\ running /\ CanStop)
    <3>1. UNCHANGED <<regs, inited>>
      BY <1>7, <2>3 DEF RestartWork, mac_restart_dev
    <3> QED
      BY <1>0, <2>1, <3>1, RegFrame
  <2> QED
    BY <2>2, <2>3
<1>8. ASSUME NEW flushed \in BOOLEAN, NEW busy \in BOOLEAN, NEW irq \in BOOLEAN, NEW m \in Mtus,
             ChangeMtu(m, flushed, busy, irq)
      PROVE  RegInv'
  <2>1. mtu' = m /\ UNCHANGED <<own, features, flags, lists, hw_feat, running>>
    BY <1>8 DEF ChangeMtu
  <2>2. CASE running
    <3>1. CanStop
      BY <1>8, <2>2 DEF ChangeMtu, Change, Ready, Balanced, CanStop, Resources
    <3>2. mac_start(m, mac_calc_rx_buf_size(m), flushed, busy, irq)
      BY <1>8, <2>2, <3>1 DEF ChangeMtu, mac_restart_dev
    <3>3. pd.channel_count = 1
      BY <1>0, <2>2 DEF PdInv
    <3>4. pd'.rx_usecs = pd.rx_usecs /\ pd'.active_vlans = pd.active_vlans
      BY <1>0, <1>8 DEF ChangeMtu, PdInv
    <3> QED
      BY <2>1, <3>2, <3>3, <3>4, StartRegs
  <2>3. CASE ~running
    <3>1. UNCHANGED regs
      BY <1>8, <2>3 DEF ChangeMtu, mac_restart_dev
    <3> QED
      BY <1>0, <2>1, <2>3, <3>1, RegOff
  <2> QED
    BY <2>2, <2>3
<1>9. CASE SetFlags \/ SetLists
  BY <1>0, <1>9, RxModeRegs
<1>10. ASSUME NEW v \in Vids, VlanRxVid(v) PROVE RegInv'
  BY <1>0, <1>10, VidRegs
<1>11. ASSUME NEW f \in Offered(hw_feat), NEW busy \in BOOLEAN,
              SetFeatures(Toggle(features, f), busy)
       PROVE  RegInv'
  BY <1>11, FeaturesRegs
<1>12. ASSUME NEW a \in {0, 1}, SetMacAddress(a) PROVE RegInv'
  BY <1>12, AddressRegs
<1>13. ASSUME NEW u \in Usecs, SetCoalesce(u) PROVE RegInv'
  BY <1>13, CoalesceRegs
<1>14. CASE UNCHANGED vars
  BY <1>0, <1>14, RegFrame DEF vars
<1> QED
  BY <1>1, <1>2, <1>3, <1>4, <1>5, <1>6, <1>7, <1>8, <1>9, <1>10, <1>11, <1>12, <1>13, <1>14
     DEF Next

LEMMA DevInit == Init => DevInv
<1> SUFFICES ASSUME Init PROVE DevInv
  OBVIOUS
<1>1. PdInv
  BY DEF Init, Pdata, PdInv
<1>2. NetInv
  BY MacDevConstants DEF Init, NetInv
<1>3. RegInv
  BY DEF Init, RegInv, IsRegs, Fields, RssTable
<1>4. LifeTypes
  BY DEF Init, LifeTypes, NULL
<1>5. LifeFlags
  BY Zenon DEF Init, LifeFlags
<1> QED
  BY <1>1, <1>2, <1>3, <1>4, <1>5 DEF DevInv

LEMMA DevInductive ==
  ASSUME "reopen" \notin Allow, "irq_restart" \notin Allow
  PROVE  Spec => []DevInv
<1>1. DevInv /\ Balanced /\ [Next]_vars => DevInv'
  BY NetStep, PdStep, RegStep, LifeTypesStep, LifeFlagsStep DEF DevInv
<1>2. Spec => []Balanced
  BY DevBalanced
<1> QED
  BY <1>1, <1>2, DevInit, PTL DEF Spec

\* What the kernel and the user asked for is what the registers of a running device
\* hold, after any sequence of calls, restarts and failures; as long as a device whose
\* channels are gone is not opened again, and a restart gets its interrupt back.
THEOREM DevConfig ==
  ASSUME "reopen" \notin Allow, "irq_restart" \notin Allow
  PROVE  Spec => []ConfigInv
<1>1. DevInv => ConfigInv
  <2> SUFFICES ASSUME DevInv PROVE ConfigInv
    OBVIOUS
  <2>1. TypeOK
    <3>1. pd.netdev_features \subseteq Features
      BY DEF DevInv, PdInv, NetInv, Offered, Features
    <3>2. /\ regs.VLHT \subseteq {0, 1} /\ regs.cfg \subseteq Fixed
          /\ pd.channel_count \in {0, 1} /\ pd.active_vlans \subseteq Vids
      BY DEF DevInv, PdInv, RegInv
    <3> QED
      BY <3>1, <3>2, Zenon DEF TypeOK, DevInv, NetInv, LifeTypes, LifeFlags
  <2>2. AsConfigured
    BY DEF AsConfigured, DevInv, RegInv, Whole, Asked
  <2>3. RssWhole
    BY DEF RssWhole, DevInv, RegInv, Whole, RssTable
  <2> QED
    BY <2>1, <2>2, <2>3 DEF ConfigInv
<1> QED
  BY <1>1, DevInductive, PTL

\* Nothing that is wanted is filtered out, by address or by VLAN, perfect or hashed and
\* however many addresses there are, and VLANs are filtered when and only when asked for.
THEOREM DevFilter ==
  ASSUME "reopen" \notin Allow, "irq_restart" \notin Allow
  PROVE  Spec => []FilterInv
<1>1. DevInv => FilterInv
  <2> SUFFICES ASSUME DevInv PROVE FilterInv
    OBVIOUS
  <2>1. running /\ inited => Filtered(regs)
    BY DEF DevInv, RegInv, Whole
  <2>2. PassesWanted
    BY <2>1 DEF PassesWanted, Filtered, PassIn, Passes
  <2>3. VlanFilterAsked
    BY <2>1 DEF VlanFilterAsked, Filtered, VlanAsked
  <2> QED
    BY <2>2, <2>3 DEF FilterInv
<1> QED
  BY <1>1, DevInductive, PTL
-----------------------------------------------------------------------------
(* The link: the bring-up of port 0 and the flags of rnic_link_check_timer. *)

USE DEF bring, timing, counts, pcs

\* What pcs_speed_switch and pcs_tx_eq_cfg have written into a port that was reset.
PortSwitched(eq) ==
  [type |-> speed, fec |-> {}, pll |-> MpuInit(speed),
   lane |-> IF Mode.pll = "A" THEN "10g" ELSE "25g", eq |-> eq]

\* How far the bring-up is and what it has left in the registers; the handler runs
\* only between mac_start and mac_stop.
BringInv ==
  /\ bpc # "probe" => plls = MpuInit(speed)
  /\ bpc \in {"sram", "soft", "speed"} => port = PortReset
  /\ bpc \in {"sram2", "vr", "eq"} => port = PortSwitched(FALSE)
  /\ bpc = "up" => port = PortSwitched(TRUE)
  /\ timer => bpc = "up"
  /\ pc # "idle" => timer
  /\ bpc \notin {"probe", "up"} => pcs_flags = {}

\* FlagIsRegister in the middle of the handler too.
RegisterInv == bpc = "up" => ("an_start" \in pcs_flags <=> an_ctrl)

LinkInv == LinkTypeOK /\ BringInv /\ RegisterInv /\ PhasesExclude /\ ResultEarned

\* The two halves of LinkTypeOK: the Boolean variables and the rest.
Booleans ==
  /\ timer \in BOOLEAN /\ an_ctrl \in BOOLEAN /\ tr_en \in BOOLEAN
  /\ exch \in BOOLEAN /\ signal \in BOOLEAN

Ranges ==
  /\ speed \in Speeds
  /\ bpc \in {"probe", "sram", "soft", "speed", "sram2", "vr", "eq", "up"}
  /\ plls \subseteq {"A", "B"} /\ waits \subseteq {"sram", "soft", "vr"}
  /\ pc \in {"idle", "an", "cmpl", "inc", "pg", "end"}
  /\ seen \subseteq Intr /\ intr \subseteq Intr
  /\ link_up \in 0..2 /\ down_cnt \in 0..(MaxDown - 1)
  /\ pcs_flags \subseteq Flags
  /\ rcv_cnt \in 0..(MaxRcv - 1) /\ check_cnt \in 0..(MaxCheck - 1)
  /\ sts \subseteq {"good", "bad"} /\ partner \in {"any", "good"}

LEMMA TypeParts == LinkTypeOK <=> Booleans /\ Ranges
BY DEF LinkTypeOK, Booleans, Ranges

\* Every step keeps the Boolean variables Boolean.
LEMMA BooleansStep == Booleans /\ [LinkNext]_link_vars => Booleans'
<1> SUFFICES ASSUME Booleans, [LinkNext]_link_vars PROVE Booleans'
  OBVIOUS
<1>1. ASSUME BringUp PROVE Booleans'
  <2>1. CASE MppInit
    BY <2>1, Zenon DEF MppInit, MpuForget, mpp_port_rst, Booleans
  <2>2. CASE PcsWait("sram", "sram", "soft")
    BY <2>2, Zenon DEF PcsWait, Booleans
  <2>3. CASE PcsWait("soft", "soft", "speed")
    BY <2>3, Zenon DEF PcsWait, Booleans
  <2>4. CASE SpeedSwitch
    BY <2>4, Zenon DEF SpeedSwitch, Booleans
  <2>5. CASE PcsWait("sram2", "sram", "vr")
    BY <2>5, Zenon DEF PcsWait, Booleans
  <2>6. CASE PcsWait("vr", "vr", "eq")
    BY <2>6, Zenon DEF PcsWait, Booleans
  <2>7. CASE AnCfg
    BY <2>7, Zenon DEF AnCfg, Booleans
  <2> QED
    BY <1>1, <2>1, <2>2, <2>3, <2>4, <2>5, <2>6, <2>7 DEF BringUp
<1>2. ASSUME Handler PROVE Booleans'
  <2>1. CASE LinkCheck
    BY <2>1, Zenon DEF LinkCheck, Booleans
  <2>2. CASE CheckEnd
    BY <2>2, Zenon DEF CheckEnd, pcs_an_start, pcs_krt_check_state, Booleans
  <2>3. CASE Negotiating
    BY <2>3, Zenon DEF Negotiating, AnSilent, AnLinkUpOnly, AnRead, pcs_an_disable, Booleans
  <2>4. CASE OnCmpl
    BY <2>4, Zenon DEF OnCmpl, pcs_an_int_cmpl, pcs_an_disable, pcs_krt_start, Booleans
  <2>5. CASE OnIncLink
    BY <2>5, Zenon DEF OnIncLink, pcs_an_disable, Booleans
  <2>6. ASSUME NEW x \in BOOLEAN, OnPgRcv(x) PROVE Booleans'
    BY <2>6, Zenon DEF OnPgRcv, pcs_an_pg_rcv, pcs_an_nxp_check, pcs_an_disable, pcs_krt_start, Booleans
  <2>7. CASE OnEnd
    BY <2>7, Zenon DEF OnEnd, Booleans
  <2> QED
    BY <1>2, <2>1, <2>2, <2>3, <2>4, <2>5, <2>6, <2>7 DEF Handler
<1>3. ASSUME Hardware PROVE Booleans'
  <2>1. ASSUME NEW w \in waits, HwReady(w) PROVE Booleans'
    BY <2>1, Zenon DEF HwReady, Booleans
  <2>2. ASSUME NEW b \in Intr, HwIntr(b) PROVE Booleans'
    BY <2>2, Zenon DEF HwIntr, Booleans
  <2>3. ASSUME NEW r \in {"good", "bad"}, HwTrain(r) PROVE Booleans'
    BY <2>3, Zenon DEF HwTrain, Booleans
  <2>4. CASE HwSignal
    BY <2>4, Zenon DEF HwSignal, Booleans
  <2>5. CASE PartnerGood
    BY <2>5, Zenon DEF PartnerGood, Booleans
  <2> QED
    BY <1>3, <2>1, <2>2, <2>3, <2>4, <2>5 DEF Hardware
<1>4. CASE TimerStart
  BY <1>4, Zenon DEF TimerStart, Booleans
<1>5. CASE TimerStop
  BY <1>5, Zenon DEF TimerStop, Booleans
<1>6. CASE UNCHANGED link_vars
  BY <1>6, Zenon DEF link_vars, Booleans
<1> QED
  BY <1>1, <1>2, <1>3, <1>4, <1>5, <1>6 DEF LinkNext

\* Every step keeps the counters below their limits and the rest in range.
LEMMA RangesStep == Ranges /\ [LinkNext]_link_vars => Ranges'
<1> SUFFICES ASSUME Ranges, [LinkNext]_link_vars PROVE Ranges'
  OBVIOUS
<1>1. ASSUME BringUp PROVE Ranges'
  <2>1. CASE MppInit
    BY LinkConstants, <2>1 DEF MppInit, MpuForget, mpp_port_rst, MpuInit, mpu_speed_set, Ranges, Flags, Intr
  <2>2. CASE PcsWait("sram", "sram", "soft")
    BY LinkConstants, <2>2 DEF PcsWait, Ranges, Flags, Intr
  <2>3. CASE PcsWait("soft", "soft", "speed")
    BY LinkConstants, <2>3 DEF PcsWait, Ranges, Flags, Intr
  <2>4. CASE SpeedSwitch
    BY LinkConstants, <2>4 DEF SpeedSwitch, Ranges, Flags, Intr
  <2>5. CASE PcsWait("sram2", "sram", "vr")
    BY LinkConstants, <2>5 DEF PcsWait, Ranges, Flags, Intr
  <2>6. CASE PcsWait("vr", "vr", "eq")
    BY LinkConstants, <2>6 DEF PcsWait, Ranges, Flags, Intr
  <2>7. CASE AnCfg
    BY LinkConstants, <2>7 DEF AnCfg, Ranges, Flags, Intr
  <2> QED
    BY <1>1, <2>1, <2>2, <2>3, <2>4, <2>5, <2>6, <2>7 DEF BringUp
<1>2. ASSUME Handler PROVE Ranges'
  <2>1. CASE LinkCheck
    BY LinkConstants, <2>1 DEF LinkCheck, Ranges, Flags, Intr
  <2>2. CASE CheckEnd
    <3>1. pcs_flags' \subseteq Flags
      BY <2>2 DEF CheckEnd, pcs_an_start, pcs_krt_check_state, Ranges, Flags
    <3>2. rcv_cnt' \in 0..(MaxRcv - 1) /\ check_cnt' \in 0..(MaxCheck - 1)
      BY LinkConstants, <2>2 DEF CheckEnd, pcs_an_start, pcs_krt_check_state, Ranges
    <3>3. sts' \subseteq {"good", "bad"} /\ intr' \subseteq Intr
      BY <2>2 DEF CheckEnd, pcs_an_start, pcs_krt_check_state, Ranges
    <3> QED
      BY <2>2, <3>1, <3>2, <3>3 DEF CheckEnd, Ranges
  <2>3. CASE Negotiating
    <3>1. pcs_flags' \subseteq Flags
      BY <2>3 DEF Negotiating, AnSilent, AnLinkUpOnly, AnRead, pcs_an_disable, Ranges, Flags
    <3>2. rcv_cnt' \in 0..(MaxRcv - 1) /\ check_cnt' \in 0..(MaxCheck - 1)
      BY LinkConstants, <2>3 DEF Negotiating, AnSilent, AnLinkUpOnly, AnRead, pcs_an_disable, Ranges
    <3>3. sts' \subseteq {"good", "bad"} /\ intr' \subseteq Intr
      BY <2>3 DEF Negotiating, AnSilent, AnLinkUpOnly, AnRead, pcs_an_disable, Ranges
    <3> QED
      BY <2>3, <3>1, <3>2, <3>3 DEF Negotiating, AnSilent, AnLinkUpOnly, AnRead, Ranges
  <2>4. CASE OnCmpl
    <3>1. pcs_flags' \subseteq Flags
      BY <2>4 DEF OnCmpl, pcs_an_int_cmpl, pcs_an_disable, pcs_krt_start, Ranges, Flags
    <3>2. rcv_cnt' \in 0..(MaxRcv - 1) /\ check_cnt' \in 0..(MaxCheck - 1)
      BY LinkConstants, <2>4 DEF OnCmpl, pcs_an_int_cmpl, pcs_an_disable, pcs_krt_start, Ranges
    <3>3. sts' \subseteq {"good", "bad"} /\ intr' \subseteq Intr
      BY <2>4 DEF OnCmpl, pcs_an_int_cmpl, pcs_an_disable, pcs_krt_start, Ranges
    <3> QED
      BY <2>4, <3>1, <3>2, <3>3 DEF OnCmpl, Ranges
  <2>5. CASE OnIncLink
    <3>1. pcs_flags' \subseteq Flags
      BY <2>5 DEF OnIncLink, pcs_an_disable, Ranges, Flags
    <3>2. rcv_cnt' \in 0..(MaxRcv - 1) /\ check_cnt' \in 0..(MaxCheck - 1)
      BY LinkConstants, <2>5 DEF OnIncLink, pcs_an_disable, Ranges
    <3>3. sts' \subseteq {"good", "bad"} /\ intr' \subseteq Intr
      BY <2>5 DEF OnIncLink, pcs_an_disable, Ranges
    <3> QED
      BY <2>5, <3>1, <3>2, <3>3 DEF OnIncLink, Ranges
  <2>6. ASSUME NEW x \in BOOLEAN, OnPgRcv(x) PROVE Ranges'
    <3>1. pcs_flags' \subseteq Flags
      BY <2>6 DEF OnPgRcv, pcs_an_pg_rcv, pcs_an_nxp_check, pcs_an_disable, pcs_krt_start, Ranges, Flags
    <3>2. rcv_cnt' \in 0..(MaxRcv - 1) /\ check_cnt' \in 0..(MaxCheck - 1)
      BY LinkConstants, <2>6 DEF OnPgRcv, pcs_an_pg_rcv, pcs_an_nxp_check, pcs_an_disable, pcs_krt_start, Ranges
    <3>3. sts' \subseteq {"good", "bad"} /\ intr' \subseteq Intr
      BY <2>6 DEF OnPgRcv, pcs_an_pg_rcv, pcs_an_nxp_check, pcs_an_disable, pcs_krt_start, Ranges
    <3> QED
      BY <2>6, <3>1, <3>2, <3>3 DEF OnPgRcv, Ranges
  <2>7. CASE OnEnd
    BY LinkConstants, <2>7 DEF OnEnd, Ranges, Flags, Intr
  <2> QED
    BY <1>2, <2>1, <2>2, <2>3, <2>4, <2>5, <2>6, <2>7 DEF Handler
<1>3. ASSUME Hardware PROVE Ranges'
  <2>1. ASSUME NEW w \in waits, HwReady(w) PROVE Ranges'
    BY LinkConstants, <2>1 DEF HwReady, Ranges, Flags, Intr
  <2>2. ASSUME NEW b \in Intr, HwIntr(b) PROVE Ranges'
    BY LinkConstants, <2>2 DEF HwIntr, Ranges, Flags, Intr
  <2>3. ASSUME NEW r \in {"good", "bad"}, HwTrain(r) PROVE Ranges'
    BY LinkConstants, <2>3 DEF HwTrain, Ranges, Flags, Intr
  <2>4. CASE HwSignal
    BY LinkConstants, <2>4 DEF HwSignal, Ranges, Flags, Intr
  <2>5. CASE PartnerGood
    BY LinkConstants, <2>5 DEF PartnerGood, Ranges, Flags, Intr
  <2> QED
    BY <1>3, <2>1, <2>2, <2>3, <2>4, <2>5 DEF Hardware
<1>4. CASE TimerStart
  BY LinkConstants, <1>4 DEF TimerStart, Ranges, Flags, Intr
<1>5. CASE TimerStop
  BY LinkConstants, <1>5 DEF TimerStop, Ranges, Flags, Intr
<1>6. CASE UNCHANGED link_vars
  BY <1>6 DEF link_vars, Ranges, Flags, Intr
<1> QED
  BY <1>1, <1>2, <1>3, <1>4, <1>5, <1>6 DEF LinkNext

\* What pcs_speed_switch makes of a port that was reset, once mpu_init has enabled
\* the PLLs: the parameters of both that are enabled, the lanes by the speed's own.
LEMMA Switched ==
  ASSUME plls = MpuInit(speed), NEW e,
         NEW p, p = [type |-> 0, fec |-> {"rs", "base_r"}, pll |-> {}, lane |-> None, eq |-> e]
  PROVE  pcs_per_lane_cfg(pcs_mpll_cfg(pcs_speed_set(p))) = PortSwitched(e)
<1> DEFINE q(x) == [type |-> speed, fec |-> {}, pll |-> x, lane |-> None, eq |-> e]
<1>1. pcs_speed_set(p) = q({})
  <2>1. fec_cfg(p) = [type |-> 0, fec |-> {}, pll |-> {}, lane |-> None, eq |-> e]
    BY DEF fec_cfg
  <2> QED
    BY <2>1 DEF pcs_speed_set, pcs_type_cfg
<1>2. plls \subseteq {"A", "B"} /\ "B" \in plls
  BY DEF MpuInit, mpu_speed_set
<1>3. pcs_mpll_cfg(q({})) = q(plls)
  <2> DEFINE a == IF "A" \in plls THEN pcs_mplla_cfg(q({})) ELSE q({})
             xs == plls \cap {"A"}
  <2>1. a = q(xs)
    <3>1. CASE "A" \in plls
      <4>1. pcs_mplla_cfg(q({})) = q({} \cup {"A"})
        BY DEF pcs_mplla_cfg
      <4>2. {} \cup {"A"} = xs
        BY <3>1
      <4> QED
        BY <3>1, <4>1, <4>2
    <3>2. CASE "A" \notin plls
      <4>1. xs = {}
        BY <3>2
      <4> QED
        BY <3>2, <4>1
    <3> QED
      BY <3>1, <3>2
  <2>2. pcs_mpllb_cfg(q(xs)) = q(xs \cup {"B"})
    BY DEF pcs_mpllb_cfg
  <2>3. (xs \cup {"B"}) \cap plls = plls
    BY <1>2
  <2>4. pcs_mpll_en_cfg(q(xs \cup {"B"})) = q((xs \cup {"B"}) \cap plls)
    BY DEF pcs_mpll_en_cfg
  <2> HIDE DEF q
  <2> QED
    BY <1>2, <2>1, <2>2, <2>3, <2>4 DEF pcs_mpll_cfg
<1>4. pcs_per_lane_cfg(q(plls)) = PortSwitched(e)
  BY DEF pcs_per_lane_cfg, pcs_per_lane_cfg_10g, pcs_per_lane_cfg_25g, PortSwitched
<1> HIDE DEF q
<1> QED
  BY <1>1, <1>3, <1>4

\* The bring-up goes through its stages, and the handler stays between them.
LEMMA BringStep == LinkTypeOK /\ BringInv /\ [LinkNext]_link_vars => BringInv'
<1> SUFFICES ASSUME LinkTypeOK, BringInv, [LinkNext]_link_vars PROVE BringInv'
  OBVIOUS
<1>1. ASSUME BringUp PROVE BringInv'
  <2>1. CASE MppInit
    BY <2>1 DEF MppInit, MpuForget, mpp_port_rst, BringInv, PortSwitched, PortReset, Mode
  <2>2. CASE PcsWait("sram", "sram", "soft")
    BY <2>2 DEF PcsWait, BringInv, PortSwitched, PortReset, Mode
  <2>3. CASE PcsWait("soft", "soft", "speed")
    BY <2>3 DEF PcsWait, BringInv, PortSwitched, PortReset, Mode
  <2>4. CASE SpeedSwitch
    <3>1. PortSwitched(FALSE)' = PortSwitched(FALSE) /\ MpuInit(speed)' = MpuInit(speed)
      BY <2>4 DEF SpeedSwitch, PortSwitched, MpuInit, Mode
    <3>2. port' = PortSwitched(FALSE)
      BY <2>4, Switched DEF SpeedSwitch, BringInv, PortReset
    <3> QED
      BY <2>4, <3>1, <3>2 DEF SpeedSwitch, BringInv
  <2>5. CASE PcsWait("sram2", "sram", "vr")
    BY <2>5 DEF PcsWait, BringInv, PortSwitched, PortReset, Mode
  <2>6. CASE PcsWait("vr", "vr", "eq")
    BY <2>6 DEF PcsWait, BringInv, PortSwitched, PortReset, Mode
  <2>7. CASE AnCfg
    <3>1. port' = PortSwitched(TRUE)'
      <4>1. ASSUME NEW e, NEW d PROVE [PortSwitched(e) EXCEPT !.eq = d] = PortSwitched(d)
        BY DEF PortSwitched
      <4>2. port' = PortSwitched(TRUE)
        BY <2>7, <4>1, Zenon DEF AnCfg, pcs_tx_eq_cfg, BringInv
      <4> QED
        BY <2>7, <4>2 DEF AnCfg, PortSwitched, Mode
    <3> QED
      BY <2>7, <3>1 DEF AnCfg, BringInv, MpuInit
  <2> QED
    BY <1>1, <2>1, <2>2, <2>3, <2>4, <2>5, <2>6, <2>7 DEF BringUp
<1>2. ASSUME Handler PROVE BringInv'
  <2>1. CASE LinkCheck
    BY <2>1 DEF LinkCheck, BringInv, PortSwitched, PortReset, Mode
  <2>2. CASE CheckEnd
    BY <2>2 DEF CheckEnd, pcs_an_start, pcs_krt_check_state, BringInv, PortSwitched, PortReset, Mode
  <2>3. CASE Negotiating
    BY <2>3 DEF Negotiating, AnSilent, AnLinkUpOnly, AnRead, pcs_an_disable, BringInv, PortSwitched, PortReset, Mode
  <2>4. CASE OnCmpl
    BY <2>4 DEF OnCmpl, pcs_an_int_cmpl, pcs_an_disable, pcs_krt_start, BringInv, PortSwitched, PortReset, Mode
  <2>5. CASE OnIncLink
    BY <2>5 DEF OnIncLink, pcs_an_disable, BringInv, PortSwitched, PortReset, Mode
  <2>6. ASSUME NEW x \in BOOLEAN, OnPgRcv(x) PROVE BringInv'
    BY <2>6 DEF OnPgRcv, pcs_an_pg_rcv, pcs_an_nxp_check, pcs_an_disable, pcs_krt_start, BringInv, PortSwitched, PortReset, Mode
  <2>7. CASE OnEnd
    BY <2>7 DEF OnEnd, BringInv, PortSwitched, PortReset, Mode
  <2> QED
    BY <1>2, <2>1, <2>2, <2>3, <2>4, <2>5, <2>6, <2>7 DEF Handler
<1>3. ASSUME Hardware PROVE BringInv'
  <2>1. ASSUME NEW w \in waits, HwReady(w) PROVE BringInv'
    BY <2>1 DEF HwReady, BringInv, PortSwitched, PortReset, Mode
  <2>2. ASSUME NEW b \in Intr, HwIntr(b) PROVE BringInv'
    BY <2>2 DEF HwIntr, BringInv, PortSwitched, PortReset, Mode
  <2>3. ASSUME NEW r \in {"good", "bad"}, HwTrain(r) PROVE BringInv'
    BY <2>3 DEF HwTrain, BringInv, PortSwitched, PortReset, Mode
  <2>4. CASE HwSignal
    BY <2>4 DEF HwSignal, BringInv, PortSwitched, PortReset, Mode
  <2>5. CASE PartnerGood
    BY <2>5 DEF PartnerGood, BringInv, PortSwitched, PortReset, Mode
  <2> QED
    BY <1>3, <2>1, <2>2, <2>3, <2>4, <2>5 DEF Hardware
<1>4. CASE TimerStart
  BY <1>4 DEF TimerStart, BringInv, PortSwitched, PortReset, Mode
<1>5. CASE TimerStop
  BY <1>5 DEF TimerStop, BringInv, PortSwitched, PortReset, Mode
<1>6. CASE UNCHANGED link_vars
  BY <1>6 DEF link_vars, BringInv, PortSwitched, PortReset, Mode
<1> QED
  BY <1>1, <1>2, <1>3, <1>4, <1>5, <1>6 DEF LinkNext

\* SR_AN_CTRL and pcs_0_an_start change together.
LEMMA RegisterStep == LinkTypeOK /\ BringInv /\ RegisterInv /\ [LinkNext]_link_vars => RegisterInv'
<1> SUFFICES ASSUME LinkTypeOK, BringInv, RegisterInv, [LinkNext]_link_vars PROVE RegisterInv'
  OBVIOUS
<1>1. ASSUME BringUp PROVE RegisterInv'
  <2>1. CASE MppInit
    BY <2>1 DEF MppInit, MpuForget, mpp_port_rst, LinkTypeOK, BringInv, RegisterInv
  <2>2. CASE PcsWait("sram", "sram", "soft")
    BY <2>2 DEF PcsWait, LinkTypeOK, BringInv, RegisterInv
  <2>3. CASE PcsWait("soft", "soft", "speed")
    BY <2>3 DEF PcsWait, LinkTypeOK, BringInv, RegisterInv
  <2>4. CASE SpeedSwitch
    BY <2>4 DEF SpeedSwitch, LinkTypeOK, BringInv, RegisterInv
  <2>5. CASE PcsWait("sram2", "sram", "vr")
    BY <2>5 DEF PcsWait, LinkTypeOK, BringInv, RegisterInv
  <2>6. CASE PcsWait("vr", "vr", "eq")
    BY <2>6 DEF PcsWait, LinkTypeOK, BringInv, RegisterInv
  <2>7. CASE AnCfg
    BY <2>7 DEF AnCfg, LinkTypeOK, BringInv, RegisterInv
  <2> QED
    BY <1>1, <2>1, <2>2, <2>3, <2>4, <2>5, <2>6, <2>7 DEF BringUp
<1>2. ASSUME Handler PROVE RegisterInv'
  <2>1. CASE LinkCheck
    BY <2>1 DEF LinkCheck, LinkTypeOK, BringInv, RegisterInv
  <2>2. CASE CheckEnd
    BY <2>2 DEF CheckEnd, pcs_an_start, pcs_krt_check_state, LinkTypeOK, BringInv, RegisterInv
  <2>3. CASE Negotiating
    BY <2>3 DEF Negotiating, AnSilent, AnLinkUpOnly, AnRead, pcs_an_disable, LinkTypeOK, BringInv, RegisterInv
  <2>4. CASE OnCmpl
    BY <2>4 DEF OnCmpl, pcs_an_int_cmpl, pcs_an_disable, pcs_krt_start, LinkTypeOK, BringInv, RegisterInv
  <2>5. CASE OnIncLink
    BY <2>5 DEF OnIncLink, pcs_an_disable, LinkTypeOK, BringInv, RegisterInv
  <2>6. ASSUME NEW x \in BOOLEAN, OnPgRcv(x) PROVE RegisterInv'
    BY <2>6 DEF OnPgRcv, pcs_an_pg_rcv, pcs_an_nxp_check, pcs_an_disable, pcs_krt_start, LinkTypeOK, BringInv, RegisterInv
  <2>7. CASE OnEnd
    BY <2>7 DEF OnEnd, LinkTypeOK, BringInv, RegisterInv
  <2> QED
    BY <1>2, <2>1, <2>2, <2>3, <2>4, <2>5, <2>6, <2>7 DEF Handler
<1>3. ASSUME Hardware PROVE RegisterInv'
  <2>1. ASSUME NEW w \in waits, HwReady(w) PROVE RegisterInv'
    BY <2>1 DEF HwReady, LinkTypeOK, BringInv, RegisterInv
  <2>2. ASSUME NEW b \in Intr, HwIntr(b) PROVE RegisterInv'
    BY <2>2 DEF HwIntr, LinkTypeOK, BringInv, RegisterInv
  <2>3. ASSUME NEW r \in {"good", "bad"}, HwTrain(r) PROVE RegisterInv'
    BY <2>3 DEF HwTrain, LinkTypeOK, BringInv, RegisterInv
  <2>4. CASE HwSignal
    BY <2>4 DEF HwSignal, LinkTypeOK, BringInv, RegisterInv
  <2>5. CASE PartnerGood
    BY <2>5 DEF PartnerGood, LinkTypeOK, BringInv, RegisterInv
  <2> QED
    BY <1>3, <2>1, <2>2, <2>3, <2>4, <2>5 DEF Hardware
<1>4. CASE TimerStart
  BY <1>4 DEF TimerStart, LinkTypeOK, BringInv, RegisterInv
<1>5. CASE TimerStop
  BY <1>5 DEF TimerStop, LinkTypeOK, BringInv, RegisterInv
<1>6. CASE UNCHANGED link_vars
  BY <1>6 DEF link_vars, LinkTypeOK, BringInv, RegisterInv
<1> QED
  BY <1>1, <1>2, <1>3, <1>4, <1>5, <1>6 DEF LinkNext

\* Training and negotiation stay apart.
LEMMA PhasesStep == LinkTypeOK /\ BringInv /\ PhasesExclude /\ [LinkNext]_link_vars => PhasesExclude'
<1> SUFFICES ASSUME LinkTypeOK, BringInv, PhasesExclude, [LinkNext]_link_vars PROVE PhasesExclude'
  OBVIOUS
<1>1. ASSUME BringUp PROVE PhasesExclude'
  <2>1. CASE MppInit
    BY <2>1 DEF MppInit, MpuForget, mpp_port_rst, LinkTypeOK, BringInv, PhasesExclude
  <2>2. CASE PcsWait("sram", "sram", "soft")
    BY <2>2 DEF PcsWait, LinkTypeOK, BringInv, PhasesExclude
  <2>3. CASE PcsWait("soft", "soft", "speed")
    BY <2>3 DEF PcsWait, LinkTypeOK, BringInv, PhasesExclude
  <2>4. CASE SpeedSwitch
    BY <2>4 DEF SpeedSwitch, LinkTypeOK, BringInv, PhasesExclude
  <2>5. CASE PcsWait("sram2", "sram", "vr")
    BY <2>5 DEF PcsWait, LinkTypeOK, BringInv, PhasesExclude
  <2>6. CASE PcsWait("vr", "vr", "eq")
    BY <2>6 DEF PcsWait, LinkTypeOK, BringInv, PhasesExclude
  <2>7. CASE AnCfg
    BY <2>7 DEF AnCfg, LinkTypeOK, BringInv, PhasesExclude
  <2> QED
    BY <1>1, <2>1, <2>2, <2>3, <2>4, <2>5, <2>6, <2>7 DEF BringUp
<1>2. ASSUME Handler PROVE PhasesExclude'
  <2>1. CASE LinkCheck
    BY <2>1 DEF LinkCheck, LinkTypeOK, BringInv, PhasesExclude
  <2>2. CASE CheckEnd
    BY <2>2 DEF CheckEnd, pcs_an_start, pcs_krt_check_state, LinkTypeOK, BringInv, PhasesExclude
  <2>3. CASE Negotiating
    BY <2>3 DEF Negotiating, AnSilent, AnLinkUpOnly, AnRead, pcs_an_disable, LinkTypeOK, BringInv, PhasesExclude
  <2>4. CASE OnCmpl
    BY <2>4 DEF OnCmpl, pcs_an_int_cmpl, pcs_an_disable, pcs_krt_start, LinkTypeOK, BringInv, PhasesExclude
  <2>5. CASE OnIncLink
    BY <2>5 DEF OnIncLink, pcs_an_disable, LinkTypeOK, BringInv, PhasesExclude
  <2>6. ASSUME NEW x \in BOOLEAN, OnPgRcv(x) PROVE PhasesExclude'
    BY <2>6 DEF OnPgRcv, pcs_an_pg_rcv, pcs_an_nxp_check, pcs_an_disable, pcs_krt_start, LinkTypeOK, BringInv, PhasesExclude
  <2>7. CASE OnEnd
    BY <2>7 DEF OnEnd, LinkTypeOK, BringInv, PhasesExclude
  <2> QED
    BY <1>2, <2>1, <2>2, <2>3, <2>4, <2>5, <2>6, <2>7 DEF Handler
<1>3. ASSUME Hardware PROVE PhasesExclude'
  <2>1. ASSUME NEW w \in waits, HwReady(w) PROVE PhasesExclude'
    BY <2>1 DEF HwReady, LinkTypeOK, BringInv, PhasesExclude
  <2>2. ASSUME NEW b \in Intr, HwIntr(b) PROVE PhasesExclude'
    BY <2>2 DEF HwIntr, LinkTypeOK, BringInv, PhasesExclude
  <2>3. ASSUME NEW r \in {"good", "bad"}, HwTrain(r) PROVE PhasesExclude'
    BY <2>3 DEF HwTrain, LinkTypeOK, BringInv, PhasesExclude
  <2>4. CASE HwSignal
    BY <2>4 DEF HwSignal, LinkTypeOK, BringInv, PhasesExclude
  <2>5. CASE PartnerGood
    BY <2>5 DEF PartnerGood, LinkTypeOK, BringInv, PhasesExclude
  <2> QED
    BY <1>3, <2>1, <2>2, <2>3, <2>4, <2>5 DEF Hardware
<1>4. CASE TimerStart
  BY <1>4 DEF TimerStart, LinkTypeOK, BringInv, PhasesExclude
<1>5. CASE TimerStop
  BY <1>5 DEF TimerStop, LinkTypeOK, BringInv, PhasesExclude
<1>6. CASE UNCHANGED link_vars
  BY <1>6 DEF link_vars, LinkTypeOK, BringInv, PhasesExclude
<1> QED
  BY <1>1, <1>2, <1>3, <1>4, <1>5, <1>6 DEF LinkNext

\* A training result stays earned: sts is cleared only where there is none.
LEMMA EarnedStep == LinkTypeOK /\ BringInv /\ PhasesExclude /\ ResultEarned /\ [LinkNext]_link_vars => ResultEarned'
<1> SUFFICES ASSUME LinkTypeOK, BringInv, PhasesExclude, ResultEarned, [LinkNext]_link_vars PROVE ResultEarned'
  OBVIOUS
<1>1. ASSUME BringUp PROVE ResultEarned'
  <2>1. CASE MppInit
    BY <2>1 DEF MppInit, MpuForget, mpp_port_rst, BringInv, PhasesExclude, ResultEarned, Mode
  <2>2. CASE PcsWait("sram", "sram", "soft")
    BY <2>2 DEF PcsWait, BringInv, PhasesExclude, ResultEarned, Mode
  <2>3. CASE PcsWait("soft", "soft", "speed")
    BY <2>3 DEF PcsWait, BringInv, PhasesExclude, ResultEarned, Mode
  <2>4. CASE SpeedSwitch
    BY <2>4 DEF SpeedSwitch, BringInv, PhasesExclude, ResultEarned, Mode
  <2>5. CASE PcsWait("sram2", "sram", "vr")
    BY <2>5 DEF PcsWait, BringInv, PhasesExclude, ResultEarned, Mode
  <2>6. CASE PcsWait("vr", "vr", "eq")
    BY <2>6 DEF PcsWait, BringInv, PhasesExclude, ResultEarned, Mode
  <2>7. CASE AnCfg
    BY <2>7 DEF AnCfg, BringInv, PhasesExclude, ResultEarned, Mode
  <2> QED
    BY <1>1, <2>1, <2>2, <2>3, <2>4, <2>5, <2>6, <2>7 DEF BringUp
<1>2. ASSUME Handler PROVE ResultEarned'
  <2>1. CASE LinkCheck
    BY <2>1 DEF LinkCheck, BringInv, PhasesExclude, ResultEarned, Mode
  <2>2. CASE CheckEnd
    BY <2>2 DEF CheckEnd, pcs_an_start, pcs_krt_check_state, BringInv, PhasesExclude, ResultEarned, Mode
  <2>3. CASE Negotiating
    BY <2>3 DEF Negotiating, AnSilent, AnLinkUpOnly, AnRead, pcs_an_disable, BringInv, PhasesExclude, ResultEarned, Mode
  <2>4. CASE OnCmpl
    BY <2>4 DEF OnCmpl, pcs_an_int_cmpl, pcs_an_disable, pcs_krt_start, BringInv, PhasesExclude, ResultEarned, Mode
  <2>5. CASE OnIncLink
    BY <2>5 DEF OnIncLink, pcs_an_disable, BringInv, PhasesExclude, ResultEarned, Mode
  <2>6. ASSUME NEW x \in BOOLEAN, OnPgRcv(x) PROVE ResultEarned'
    BY <2>6 DEF OnPgRcv, pcs_an_pg_rcv, pcs_an_nxp_check, pcs_an_disable, pcs_krt_start, BringInv, PhasesExclude, ResultEarned, Mode
  <2>7. CASE OnEnd
    BY <2>7 DEF OnEnd, BringInv, PhasesExclude, ResultEarned, Mode
  <2> QED
    BY <1>2, <2>1, <2>2, <2>3, <2>4, <2>5, <2>6, <2>7 DEF Handler
<1>3. ASSUME Hardware PROVE ResultEarned'
  <2>1. ASSUME NEW w \in waits, HwReady(w) PROVE ResultEarned'
    BY <2>1 DEF HwReady, BringInv, PhasesExclude, ResultEarned, Mode
  <2>2. ASSUME NEW b \in Intr, HwIntr(b) PROVE ResultEarned'
    BY <2>2 DEF HwIntr, BringInv, PhasesExclude, ResultEarned, Mode
  <2>3. ASSUME NEW r \in {"good", "bad"}, HwTrain(r) PROVE ResultEarned'
    BY <2>3 DEF HwTrain, BringInv, PhasesExclude, ResultEarned, Mode
  <2>4. CASE HwSignal
    BY <2>4 DEF HwSignal, BringInv, PhasesExclude, ResultEarned, Mode
  <2>5. CASE PartnerGood
    BY <2>5 DEF PartnerGood, BringInv, PhasesExclude, ResultEarned, Mode
  <2> QED
    BY <1>3, <2>1, <2>2, <2>3, <2>4, <2>5 DEF Hardware
<1>4. CASE TimerStart
  BY <1>4 DEF TimerStart, BringInv, PhasesExclude, ResultEarned, Mode
<1>5. CASE TimerStop
  BY <1>5 DEF TimerStop, BringInv, PhasesExclude, ResultEarned, Mode
<1>6. CASE UNCHANGED link_vars
  BY <1>6 DEF link_vars, BringInv, PhasesExclude, ResultEarned, Mode
<1> QED
  BY <1>1, <1>2, <1>3, <1>4, <1>5, <1>6 DEF LinkNext
-----------------------------------------------------------------------------
\* The invariant is inductive.
LEMMA LinkInductive == LinkSpec => []LinkInv
<1>1. LinkInit => LinkInv
  <2> SUFFICES ASSUME LinkInit PROVE LinkInv
    OBVIOUS
  <2>1. Booleans
    BY Zenon DEF LinkInit, Booleans
  <2>2. Ranges
    BY LinkConstants DEF LinkInit, Ranges, Flags, Intr
  <2>3. BringInv /\ RegisterInv /\ PhasesExclude /\ ResultEarned
    BY DEF LinkInit, BringInv, RegisterInv, PhasesExclude, ResultEarned
  <2> QED
    BY <2>1, <2>2, <2>3, TypeParts DEF LinkInv
<1>2. LinkInv /\ [LinkNext]_link_vars => LinkInv'
  <2> SUFFICES ASSUME LinkInv, [LinkNext]_link_vars PROVE LinkInv'
    OBVIOUS
  <2>1. LinkTypeOK'
    <3>1. Booleans' /\ Ranges'
      BY TypeParts, BooleansStep, RangesStep DEF LinkInv
    <3> QED
      BY <3>1 DEF LinkTypeOK, Booleans, Ranges
  <2> QED
    BY <2>1, BringStep, RegisterStep, PhasesStep, EarnedStep DEF LinkInv
<1> QED
  BY <1>1, <1>2, PTL DEF LinkSpec

\* The flags of the driver are true to the registers of the PCS and to each other in
\* every state of rnic_link_check_timer: pcs_0_an_start is SR_AN_CTRL between two
\* runs of the handler, a training under way has no result, a negotiation that has
\* succeeded does not run, and krt_success was reported by a lane; for every speed
\* and every value of the three limits.
THEOREM LinkFlags == LinkSpec => []FlagInv
<1>1. LinkInv => FlagInv
  BY DEF LinkInv, FlagInv, RegisterInv, FlagIsRegister
<1> QED
  BY <1>1, LinkInductive, PTL

\* At the end of mpp_init the lanes of the port run from a PLL that has been set up
\* and enabled, at the first bring-up and at every one mac_stop causes, for every
\* set of speeds a build may select.
THEOREM LinkClock == LinkSpec => []LanesClocked
<1>1. LinkInv => LanesClocked
  <2> SUFFICES ASSUME LinkInv, bpc = "up"
               PROVE  /\ port.eq /\ port.type = speed /\ port.fec = {}
                      /\ (IF port.lane = "10g" THEN "A" ELSE "B") \in port.pll
    BY DEF LanesClocked
  <2>1. port = PortSwitched(TRUE)
    BY DEF LinkInv, BringInv
  <2>2. port.type = speed /\ port.fec = {} /\ port.pll = {"B", Mode.pll}
    BY <2>1 DEF PortSwitched, MpuInit, Mode
  <2>3. port.lane = IF Mode.pll = "A" THEN "10g" ELSE "25g"
    BY <2>1 DEF PortSwitched
  <2>4. port.eq = TRUE
    <3>1. ASSUME NEW e PROVE PortSwitched(e).eq = e
      BY DEF PortSwitched
    <3> QED
      BY <2>1, <3>1, Zenon
  <2> QED
    BY <2>2, <2>3, <2>4
<1> QED
  BY <1>1, LinkInductive, PTL
==============================================================================
