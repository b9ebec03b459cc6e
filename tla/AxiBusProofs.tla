---------------------------- MODULE AxiBusProofs ----------------------------
(***************************************************************************)
(* BusInv is an inductive invariant of the bus with any of the three       *)
(* slaves of GolBus, for every set of lines and devices and every number   *)
(* of beats; the safety properties of AxiBus follow from it.               *)
(***************************************************************************)
EXTENDS GolBus, TLAPS

\* What Clock may choose for one edge.
Input(in) ==
  /\ in.ar \in BOOLEAN /\ in.aw \in BOOLEAN /\ in.w \in BOOLEAN
  /\ in.r \in BOOLEAN /\ in.b \in BOOLEAN
  /\ in.fetch \in Fetches(in) /\ in.access \in Accesses(in)

\* An access is of one of four kinds, and made only when nothing is waited for.
LEMMA InputAccess ==
  ASSUME NEW in, Input(in)
  PROVE  /\ \/ asks(in, "none")
            \/ asks(in, "hit")
            \/ /\ asks(in, "miss") /\ in.access.line \in DataLines
               /\ in.access.vic \in DataLines \cup {None}
            \/ asks(in, "dev") /\ in.access.addr \in Devs /\ in.access.wen \in BOOLEAN
         /\ asks(in, "none") \/ ~data_stall(in)
         /\ in.fetch = None \/ (~m0_ren /\ ~data_stall(in) /\ in.fetch \in CodeLines)
  BY DEF Input, Accesses, Fetches, NoAccess, Misses, asks

\* The initial states satisfy the invariant.
LEMMA InitBusInv == ASSUME Init PROVE BusInv
<1>1. TypeOK
  <2>1. 0 \in Beats
    BY LastBeatAssumption DEF Beats
  <2>2. icache \in [rbus_vld : BOOLEAN, line : Lines, cnt : Beats]
    BY <2>1, Zenon DEF Init, Lines
  <2>3. dcache \in [state : {"NORM", "WBUS", "RBUS"}, wbus_vld : BOOLEAN,
                    vic : Lines \cup {None}, line : Lines, cnt : Beats]
    BY <2>1, Zenon DEF Init, Lines
  <2>4. bridge \in [req_rdy : BOOLEAN, valid : BOOLEAN, wen : BOOLEAN, addr : Devs]
    BY Zenon DEF Init
  <2>5. dev_reads \in 0 .. 2 /\ cs_ff \in {"none", "mem", "dev"}
    BY DEF Init
  <2> QED BY <2>2, <2>3, <2>4, <2>5, Zenon DEF Init, TypeOK
<1>2. Waited
  <2>1. bridge.req_rdy = TRUE /\ bridge.valid = FALSE /\ dcache.state = "NORM"
    BY Zenon DEF Init
  <2> QED BY <2>1 DEF Waited
<1>3. ReadOwned /\ WriteOwned /\ ReadOnce
  BY DEF Init, ReadOwned, WriteOwned, WritesOwnBeat, ReadOnce
<1> QED BY <1>1, <1>2, <1>3 DEF BusInv

\* A read in progress for the data side excludes a write, and conversely.
LEMMA NoCross ==
  ASSUME BusInv
  PROVE  /\ m3_wen => m0_valid \/ ~ar_over
         /\ m3_ren => ~aw_over /\ ~w_over
         /\ OneClient
<1>1. m3_wen => m0_valid \/ ~ar_over
  BY DEF BusInv, ReadOwned, m3_ren
<1>2. m3_ren => ~aw_over /\ ~w_over
  BY DEF BusInv, WriteOwned, WritesOwnBeat, m3_ren
<1>3. OneClient
  BY DEF BusInv, Waited, OneClient, m1_vld, m2_vld
<1> QED BY <1>1, <1>2, <1>3

\* A client that is not answered stalls the pipeline and keeps its request.
LEMMA Unanswered ==
  ASSUME BusInv, NEW in, Input(in), Step(in), m3_ren \/ m3_wen, ~o_m3_rdy(in)
  PROVE  data_stall(in) /\ dcache' = dcache /\ bridge' = bridge
<1>1. ~m1_rdy(in) /\ ~m2_rdy(in)
  BY DEF m1_rdy, m2_rdy
<1>2. data_stall(in)
  BY <1>1 DEF BusInv, Waited, data_stall, ls_rsp_vld, br_rsp_vld, m3_ren, m3_wen, m1_vld, m2_vld
<1>3. asks(in, "none")
  BY <1>2, InputAccess
<1>4. ~takes(in, "miss") /\ ~takes(in, "dev")
  BY <1>3 DEF takes, asks
<1>5. dcache' = dcache
  BY <1>1, <1>4 DEF Step, DcacheStep, BusInv, Waited, m3_ren, m3_wen, m1_vld, m2_vld, m1_wen
<1>6. bridge' = bridge
  <2>1. bridge \in [req_rdy : BOOLEAN, valid : BOOLEAN, wen : BOOLEAN, addr : Devs]
    BY DEF BusInv, TypeOK
  <2>2. bridge' = [bridge EXCEPT
                     !.req_rdy = @ \/ (br_rsp_vld(in) /\ cs_ff = "dev" /\ ls_rsp_rdy),
                     !.valid = @ /\ ~br_done(in)]
    BY <1>4 DEF Step, BridgeStep
  <2>3. ~(br_rsp_vld(in) /\ cs_ff = "dev" /\ ls_rsp_rdy)
    BY <1>2 DEF data_stall, ls_rsp_vld
  <2>4. ~br_done(in)
    BY <1>1 DEF br_done
  <2> QED BY <2>1, <2>2, <2>3, <2>4, Zenon
<1> QED BY <1>2, <1>5, <1>6

\* While the pipeline stalls, only a beat may move.
LEMMA Stalled ==
  ASSUME BusInv, NEW in, Input(in), Step(in), data_stall(in)
  PROVE  /\ bridge' = bridge /\ cs_ff' = cs_ff /\ ls_rsp_rdy'
         /\ ~takes(in, "miss") /\ ~takes(in, "dev") /\ ~takes(in, "hit")
         /\ in.fetch = None
<1>1. asks(in, "none") /\ in.fetch = None
  BY InputAccess
<1>2. ~takes(in, "miss") /\ ~takes(in, "dev") /\ ~takes(in, "hit")
  BY <1>1 DEF takes, asks
<1>3. cs_ff' = cs_ff /\ ls_rsp_rdy'
  BY <1>1, Zenon DEF Step, LsuStep, asks
<1>4. bridge' = bridge
  <2>1. bridge \in [req_rdy : BOOLEAN, valid : BOOLEAN, wen : BOOLEAN, addr : Devs]
    BY DEF BusInv, TypeOK
  <2>2. bridge' = [bridge EXCEPT
                     !.req_rdy = @ \/ (br_rsp_vld(in) /\ cs_ff = "dev" /\ ls_rsp_rdy),
                     !.valid = @ /\ ~br_done(in)]
    BY <1>2 DEF Step, BridgeStep
  <2>3. ~(br_rsp_vld(in) /\ cs_ff = "dev" /\ ls_rsp_rdy)
    BY DEF data_stall, ls_rsp_vld
  <2>4. bridge.valid => ~br_done(in)
    BY <2>3 DEF br_done, br_rsp_vld, BusInv, Waited
  <2> QED BY <2>1, <2>2, <2>3, <2>4, Zenon
<1> QED BY <1>1, <1>2, <1>3, <1>4

\* While it does not, the D-cache is idle and the bridge is idle or answered.
LEMMA NotStalled ==
  ASSUME BusInv, NEW in, ~data_stall(in)
  PROVE  dcache.state = "NORM" /\ (bridge.valid => m2_rdy(in))
  BY DEF BusInv, Waited, TypeOK, data_stall, ls_rsp_vld, br_rsp_vld

\* An edge keeps the load/store unit waiting for the one busy client (ls_rsp_rdy,
\* cs_ff of 1toN).
LEMMA WaitedStep ==
  ASSUME BusInv, NEW in, Input(in), Step(in)
  PROVE  Waited'
<1>1. CASE data_stall(in)
  <2>1. /\ bridge' = bridge /\ cs_ff' = cs_ff /\ ls_rsp_rdy'
        /\ ~takes(in, "miss") /\ ~takes(in, "hit")
    BY <1>1, Stalled
  <2>2. dcache.state = "NORM" => dcache'.state = "NORM"
    BY <2>1 DEF Step, DcacheStep, m1_rdy, m1_vld
  <2>3. dcache'.state = "WBUS" => dcache.state = "WBUS" /\ dcache'.vic = dcache.vic
    BY <2>1 DEF Step, DcacheStep, BusInv, TypeOK
  <2>4. dc_vld_c1' => dcache'.state = "NORM"
    BY <2>1, Zenon DEF Step, DcacheStep, BusInv, TypeOK, m1_rdy, m1_vld, m1_wen
  <2> QED BY <1>1, <2>1, <2>2, <2>3, <2>4 DEF Waited, BusInv, data_stall
<1>2. CASE ~data_stall(in)
  <2>1. dcache.state = "NORM" /\ ~m1_rdy(in) /\ (bridge.valid => m2_rdy(in))
    BY <1>2, NotStalled DEF m1_rdy, m1_vld
  <2>2. ls_rsp_rdy' = (~asks(in, "none") /\ req_rdy(in))
    BY <1>2 DEF Step, LsuStep
  <2>3. dcache'.state # "NORM" => takes(in, "miss") /\ ~dc_vld_c1'
    BY <2>1, Zenon DEF Step, DcacheStep, takes, asks
  <2>4. dcache'.state = "WBUS" => dcache'.vic # None
    BY <2>1 DEF Step, DcacheStep
  <2>5. bridge'.valid => takes(in, "dev")
    BY <2>1, Zenon DEF Step, BridgeStep, br_done, BusInv, TypeOK
  <2>6. bridge'.valid <=> ~bridge'.req_rdy
    <3>1. CASE takes(in, "dev")
      BY <3>1 DEF Step, BridgeStep
    <3>2. CASE ~takes(in, "dev")
      <4>1. bridge'.req_rdy = (bridge.req_rdy \/ (br_rsp_vld(in) /\ cs_ff = "dev" /\ ls_rsp_rdy))
        BY <3>2 DEF Step, BridgeStep, BusInv, TypeOK
      <4>2. bridge.valid => br_rsp_vld(in) /\ cs_ff = "dev" /\ ls_rsp_rdy
        BY <2>1 DEF BusInv, Waited, br_rsp_vld
      <4> QED BY <2>5, <3>2, <4>1, <4>2, Zenon DEF BusInv, Waited
    <3> QED BY <3>1, <3>2
  <2>7. (takes(in, "miss") => cs_ff' = "mem") /\ (takes(in, "dev") => cs_ff' = "dev")
    BY DEF Step, LsuStep, takes, asks
  <2>8. takes(in, "miss") \/ takes(in, "dev") => ls_rsp_rdy'
    BY <2>2, Zenon DEF takes, asks
  <2> QED BY <2>3, <2>4, <2>5, <2>6, <2>7, <2>8 DEF Waited
<1> QED BY <1>1, <1>2

\* Who uses the read channel keeps it until the answer, and a fetch in progress
\* keeps its address.
LEMMA FetchKept ==
  ASSUME BusInv, NEW in, Input(in), Step(in), m0_valid, ~r_over(in), m0_ren \/ m3_ren
  PROVE  m0_rget' /\ icache' = icache
<1>1. m0_rget'
  BY Zenon DEF Step, AxiStep, m0_valid
<1>2. in.fetch = None
  <2>1. CASE m0_ren
    BY <2>1, InputAccess
  <2>2. CASE m3_ren
    <3>1. ~o_m3_rdy(in)
      BY <2>2, NoCross DEF o_m3_rdy, b_over
    <3> QED BY <2>2, <3>1, Unanswered, InputAccess
  <2> QED BY <2>1, <2>2
<1>3. icache' = icache
  BY <1>2 DEF Step, IcacheStep, o_m0_rdy
<1> QED BY <1>1, <1>3

\* A read of the data side keeps channel and address until its answer.
LEMMA ReadKept ==
  ASSUME BusInv, NEW in, Input(in), Step(in), m3_ren, m0_valid \/ ~r_over(in)
  PROVE  /\ dcache' = dcache /\ bridge' = bridge
         /\ ~m0_valid => ~m0_rget'
<1>1. ~o_m3_rdy(in)
  BY NoCross DEF o_m3_rdy, b_over
<1>2. dcache' = dcache /\ bridge' = bridge
  BY <1>1, Unanswered
<1>3. ~m0_valid => ~m0_rget'
  BY Zenon DEF Step, AxiStep, m0_valid
<1> QED BY <1>2, <1>3

\* The address offered: a beat of a line, or the device the bridge reads.
LEMMA Raddr ==
  ASSUME BusInv
  PROVE  /\ m0_addr \in Lines \X Beats
         /\ m3_ren \/ m3_wen => m3_addr \in Addrs
         /\ (m3_ren \/ m3_wen) /\ m3_addr \in Devs => m2_vld
         /\ m0_ren \/ m3_ren => raddr \in Addrs
<1>1. m0_addr \in Lines \X Beats
  BY DEF BusInv, TypeOK, m0_addr
<1>2. m1_vld => m1_addr \in Lines \X Beats
  BY DEF BusInv, TypeOK, Waited, m1_vld, m1_addr, m1_wen
<1>3. (m3_ren \/ m3_wen) /\ ~m2_vld => m1_vld
  BY DEF m3_ren, m3_wen
<1>4. m2_vld => m3_addr \in Devs
  BY DEF BusInv, TypeOK, m3_addr
<1>5. ~m2_vld => m3_addr = m1_addr
  BY DEF m3_addr
<1>6. ~m0_valid /\ m0_ren => m3_ren
  BY DEF m0_valid
<1> QED BY <1>1, <1>2, <1>3, <1>4, <1>5, <1>6, AddrAssumption DEF Addrs, raddr

\* An edge of the AXI master keeps the read in progress with its client (m0_rget,
\* ar_over).
LEMMA ReadOwnedStep ==
  ASSUME BusInv, NEW in, Input(in), Step(in)
  PROVE  ReadOwned'
<1> DEFINE accept == axi_ar_valid /\ in.ar
<1>1. ReadOwned
  BY DEF BusInv
<1>2. /\ arq' = IF accept THEN raddr ELSE IF r_over(in) THEN None ELSE arq
      /\ ar_over' = (~r_over(in) /\ (ar_over \/ accept))
  BY DEF Step, SlaveStep, AxiStep, ar_over_ns
<1>3. accept => (m0_ren \/ m3_ren) /\ ~ar_over /\ ~r_over(in) /\ raddr \in Addrs
  BY Raddr DEF axi_ar_valid, r_over
<1>4. r_over(in) => ar_over
  BY DEF r_over
<1>5. ar_over' <=> arq' # None
  BY <1>1, <1>2, <1>3, <1>4, AddrAssumption, Zenon DEF ReadOwned
<1>6. ASSUME arq' # None
      PROVE  IF m0_valid' THEN arq' = m0_addr' /\ (m0_ren' \/ m3_ren')
             ELSE m3_ren' /\ arq' = m3_addr'
  <2>1. ~r_over(in) /\ (m0_ren \/ m3_ren)
    BY <1>1, <1>2, <1>3, <1>4, <1>6 DEF ReadOwned
  <2>2. CASE m0_valid
    <3>1. m0_rget' /\ icache' = icache
      BY <2>1, <2>2, FetchKept
    <3>2. m0_valid' /\ m0_ren' = m0_ren /\ m0_addr' = m0_addr
      BY <3>1 DEF m0_valid, m0_ren, m0_addr
    <3>3. arq' = m0_addr
      BY <1>1, <1>2, <2>1, <2>2, <1>6 DEF ReadOwned, raddr
    <3>4. ~m0_ren => m3_ren'
      BY <2>1, <2>2, ReadKept DEF m3_ren, m3_wen, m1_vld, m1_wen, m2_vld
    <3> QED BY <2>1, <3>2, <3>3, <3>4
  <2>3. CASE ~m0_valid
    <3>1. m3_ren
      BY <2>1, <2>3 DEF m0_valid
    <3>2. dcache' = dcache /\ bridge' = bridge /\ ~m0_rget'
      BY <2>1, <2>3, <3>1, ReadKept
    <3>3. m3_ren' /\ m3_addr' = m3_addr
      BY <3>1, <3>2 DEF m3_ren, m3_wen, m3_addr, m1_vld, m1_wen, m1_addr, m2_vld
    <3>4. ~m0_valid'
      BY <3>2, <3>3 DEF m0_valid
    <3>5. arq' = m3_addr
      BY <1>1, <1>2, <2>1, <2>3, <1>6 DEF ReadOwned, raddr
    <3> QED BY <3>3, <3>4, <3>5
  <2> QED BY <2>2, <2>3
<1> QED BY <1>5, <1>6 DEF ReadOwned

\* A write keeps its address until it is confirmed: a read that ends meanwhile
\* is not the data side's.
LEMMA WriteKept ==
  ASSUME BusInv, NEW in, Input(in), Step(in), m3_wen, ~b_over(in)
  PROVE  m3_wen' /\ m3_addr' = m3_addr
<1>1. ~o_m3_rdy(in)
  BY NoCross DEF o_m3_rdy, r_over
<1>2. dcache' = dcache /\ bridge' = bridge
  BY <1>1, Unanswered
<1> QED BY <1>2 DEF m3_wen, m3_addr, m1_vld, m1_wen, m1_addr, m2_vld

\* An edge of the AXI master keeps the write in progress with its beat (aw_over,
\* w_over).
LEMMA WriteOwnedStep ==
  ASSUME BusInv, NEW in, Input(in), Step(in)
  PROVE  WriteOwned'
<1>1. WriteOwned /\ WritesOwnBeat
  BY DEF BusInv, WriteOwned
<1>2. m3_wen => m3_addr # None
  BY Raddr, AddrAssumption
<1>3. b_over(in) => aw_over /\ w_over
  BY DEF b_over
<1>4. (aw_over' <=> awq' # None) /\ (awq' # None => m3_wen' /\ awq' = m3_addr')
  <2> DEFINE accept == axi_aw_valid /\ in.aw
  <2>1. /\ awq' = IF accept THEN m3_addr ELSE IF b_over(in) THEN None ELSE awq
        /\ aw_over' = (~b_over(in) /\ (aw_over \/ accept))
    BY DEF Step, SlaveStep, AxiStep, aw_over_ns
  <2>2. accept => m3_wen /\ ~aw_over
    BY DEF axi_aw_valid
  <2>3. (aw_over' <=> awq' # None) /\ (awq' # None => m3_wen /\ awq' = m3_addr /\ ~b_over(in))
    BY <1>1, <1>2, <1>3, <2>1, <2>2, Zenon DEF WriteOwned, WritesOwnBeat
  <2> QED BY <2>3, WriteKept
<1>5. (w_over' <=> wq' # None) /\ (wq' # None => m3_wen' /\ wq' = m3_addr')
  <2> DEFINE accept == axi_w_valid /\ in.w
  <2>1. /\ wq' = IF accept THEN m3_addr ELSE IF b_over(in) THEN None ELSE wq
        /\ w_over' = (~b_over(in) /\ (w_over \/ accept))
    BY DEF Step, SlaveStep, AxiStep, w_over_ns
  <2>2. accept => m3_wen /\ ~w_over
    BY DEF axi_w_valid
  <2>3. (w_over' <=> wq' # None) /\ (wq' # None => m3_wen /\ wq' = m3_addr /\ ~b_over(in))
    BY <1>1, <1>2, <1>3, <2>1, <2>2, Zenon DEF WriteOwned, WritesOwnBeat
  <2> QED BY <2>3, WriteKept
<1> QED BY <1>4, <1>5 DEF WriteOwned, WritesOwnBeat

\* A device is being answered exactly while the bridge reads it.
LEMMA DeviceAnswer ==
  ASSUME BusInv, arq \in Devs
  PROVE  ar_over /\ ~m0_valid /\ m3_ren /\ m2_vld
<1>1. arq # None
  BY AddrAssumption DEF Addrs
<1>2. ar_over /\ ~m0_valid /\ m3_ren /\ arq = m3_addr
  BY <1>1, Raddr, AddrAssumption DEF BusInv, ReadOwned
<1> QED BY <1>2, Raddr

\* An edge of the bridge keeps a device from being read again after its answer.
LEMMA ReadOnceStep ==
  ASSUME BusInv, NEW in, Input(in), Step(in)
  PROVE  ReadOnce'
<1> DEFINE reads == axi_ar_valid /\ in.ar /\ raddr \in Devs
<1>1. dev_reads \in 0 .. 1 /\ ReadOnce
  BY DEF BusInv, TypeOK, ReadOnce
<1>2. CASE takes(in, "dev")
  BY <1>2 DEF Step, SlaveStep, ReadOnce
<1>3. CASE ~takes(in, "dev")
  <2>1. dev_reads' = IF reads THEN dev_reads + 1 ELSE dev_reads
    BY <1>1, <1>3 DEF Step, SlaveStep
  <2>2. /\ bridge'.valid => bridge.valid /\ ~m2_rdy(in)
        /\ bridge'.wen = bridge.wen
    BY <1>3, Zenon DEF Step, BridgeStep, br_done, BusInv, TypeOK
  <2>3. CASE reads
    <3>1. ~ar_over /\ arq' = raddr
      BY <2>3 DEF axi_ar_valid, Step, SlaveStep
    <3>2. ~m0_valid /\ raddr = m3_addr
      BY <2>3, Raddr, AddrAssumption DEF raddr
    <3>3. m3_ren /\ m2_vld
      BY <2>3, <3>2, Raddr DEF axi_ar_valid, m0_valid
    <3>4. bridge.valid /\ ~bridge.wen
      BY <3>3 DEF m3_ren, m3_wen, m2_vld
    <3>5. arq \notin Devs
      BY <3>1, DeviceAnswer
    <3>6. dev_reads = 0
      BY <1>1, <3>4, <3>5 DEF ReadOnce
    <3> QED BY <2>1, <2>3, <3>1, <3>6 DEF ReadOnce
  <2>4. CASE ~reads
    <3>1. ASSUME bridge'.valid, ~bridge'.wen, dev_reads' = 1
          PROVE  arq' \in Devs
      <4>1. arq \in Devs
        BY <1>1, <2>1, <2>2, <2>4, <3>1 DEF ReadOnce
      <4>2. ar_over /\ ~m0_valid /\ m2_vld
        BY <4>1, DeviceAnswer
      <4>3. ~r_over(in)
        BY <2>2, <3>1, <4>2 DEF m2_rdy, o_m3_rdy
      <4> QED BY <4>1, <4>2, <4>3 DEF Step, SlaveStep, axi_ar_valid
    <3> QED BY <1>1, <2>1, <2>4, <3>1 DEF ReadOnce
  <2> QED BY <2>3, <2>4
<1> QED BY <1>2, <1>3

\* An edge keeps the registers of the bus in their types.
LEMMA TypeOKStep ==
  ASSUME BusInv, NEW in, Input(in), Step(in)
  PROVE  TypeOK'
<1>1. TypeOK
  BY DEF BusInv
<1>2. \A n \in Beats : next_beat(n) \in Beats
  BY LastBeatAssumption DEF next_beat, Beats
<1>3. icache' \in [rbus_vld : BOOLEAN, line : Lines, cnt : Beats]
  <2>1. icache.cnt \in Beats /\ next_beat(icache.cnt) \in Beats /\ icache.line \in Lines
    BY <1>1, <1>2 DEF TypeOK
  <2>2. in.fetch # None => in.fetch \in Lines
    BY InputAccess DEF Lines
  <2>3. CASE in.fetch # None
    BY <2>1, <2>2, <2>3 DEF Step, IcacheStep
  <2>4. CASE in.fetch = None /\ m0_ren /\ o_m0_rdy(in)
    BY <1>1, <2>1, <2>4, Zenon DEF Step, IcacheStep, TypeOK
  <2>5. CASE in.fetch = None /\ ~(m0_ren /\ o_m0_rdy(in))
    BY <1>1, <2>5 DEF Step, IcacheStep, TypeOK
  <2> QED BY <2>3, <2>4, <2>5
<1>4. dcache' \in [state : {"NORM", "WBUS", "RBUS"}, wbus_vld : BOOLEAN,
                   vic : Lines \cup {None}, line : Lines, cnt : Beats]
  <2>1. dcache.cnt \in Beats /\ next_beat(dcache.cnt) \in Beats
    BY <1>1, <1>2 DEF TypeOK
  <2>2. CASE takes(in, "miss")
    <3>1. in.access.line \in Lines /\ in.access.vic \in Lines \cup {None}
      BY <2>2, InputAccess DEF takes, asks, Lines
    <3> QED BY <2>1, <2>2, <3>1 DEF Step, DcacheStep
  <2>3. CASE ~takes(in, "miss") /\ dcache.state = "WBUS" /\ ~dcache.wbus_vld
    <3>1. ~m1_rdy(in)
      BY <2>3 DEF m1_rdy, m1_vld
    <3> QED BY <1>1, <2>3, <3>1, Zenon DEF Step, DcacheStep, TypeOK
  <2>4. CASE ~takes(in, "miss") /\ m1_rdy(in)
    <3>1. ~(dcache.state = "WBUS" /\ ~dcache.wbus_vld)
      BY <2>4 DEF m1_rdy, m1_vld
    <3>2. m1_wen \in BOOLEAN
      BY DEF m1_wen
    <3> QED BY <1>1, <2>1, <2>4, <3>1, <3>2, ZenonT(30) DEF Step, DcacheStep, TypeOK
  <2>5. CASE /\ ~takes(in, "miss") /\ ~m1_rdy(in)
             /\ ~(dcache.state = "WBUS" /\ ~dcache.wbus_vld)
    BY <1>1, <2>5 DEF Step, DcacheStep, TypeOK
  <2> QED BY <2>2, <2>3, <2>4, <2>5
<1>5. bridge' \in [req_rdy : BOOLEAN, valid : BOOLEAN, wen : BOOLEAN, addr : Devs]
  <2>1. CASE takes(in, "dev")
    <3>1. in.access.wen \in BOOLEAN /\ in.access.addr \in Devs
      BY <2>1, InputAccess DEF takes, asks
    <3> QED BY <2>1, <3>1 DEF Step, BridgeStep
  <2>2. CASE ~takes(in, "dev")
    BY <1>1, <2>2, Zenon DEF Step, BridgeStep, TypeOK
  <2> QED BY <2>1, <2>2
<1>6. cs_ff' \in {"none", "mem", "dev"}
  BY <1>1 DEF Step, LsuStep, TypeOK, asks
<1>7. /\ arq' \in Addrs \cup {None} /\ awq' \in Addrs \cup {None}
      /\ wq' \in Addrs \cup {None}
  BY <1>1, Raddr DEF Step, SlaveStep, TypeOK, axi_ar_valid, axi_aw_valid, axi_w_valid
<1>8. dev_reads' \in 0 .. 2
  BY <1>1 DEF Step, SlaveStep, TypeOK
<1>9. /\ dc_vld_c1' \in BOOLEAN /\ ls_rsp_rdy' \in BOOLEAN /\ m0_rget' \in BOOLEAN
      /\ ar_over' \in BOOLEAN /\ aw_over' \in BOOLEAN /\ w_over' \in BOOLEAN
  BY DEF Step, DcacheStep, LsuStep, AxiStep, ar_over_ns, aw_over_ns, w_over_ns
<1> QED BY <1>3, <1>4, <1>5, <1>6, <1>7, <1>8, <1>9, Zenon DEF TypeOK

\* One clock edge is a step with some input.
LEMMA ClockInput ==
  ASSUME NEW ars \in SUBSET BOOLEAN, NEW aws \in SUBSET BOOLEAN, NEW ws \in SUBSET BOOLEAN,
         NEW rs \in SUBSET BOOLEAN, NEW bs \in SUBSET BOOLEAN,
         Clock(ars, aws, ws, rs, bs)
  PROVE  \E in : Input(in) /\ Step(in) /\ in.ar \in ars /\ in.aw \in aws
                 /\ in.w \in ws /\ in.r \in rs /\ in.b \in bs
<1>1. PICK s \in [ar : ars, aw : aws, w : ws, r : rs, b : bs] :
        \E fetch \in Fetches(s), access \in Accesses(s) :
          Step([ar |-> s.ar, aw |-> s.aw, w |-> s.w, r |-> s.r, b |-> s.b,
                fetch |-> fetch, access |-> access])
  BY DEF Clock
<1>2. PICK fetch \in Fetches(s), access \in Accesses(s) :
        Step([ar |-> s.ar, aw |-> s.aw, w |-> s.w, r |-> s.r, b |-> s.b,
              fetch |-> fetch, access |-> access])
  BY <1>1
<1> DEFINE in == [ar |-> s.ar, aw |-> s.aw, w |-> s.w, r |-> s.r, b |-> s.b,
                  fetch |-> fetch, access |-> access]
<1>3. in.r = s.r /\ in.b = s.b /\ in.fetch = fetch /\ in.access = access
  OBVIOUS
<1>4. data_stall(in) = data_stall(s)
  BY <1>3 DEF data_stall, ls_rsp_vld, br_rsp_vld, m2_rdy, o_m3_rdy, b_over, r_over
<1>5. Fetches(in) = Fetches(s) /\ Accesses(in) = Accesses(s)
  BY <1>4 DEF Fetches, Accesses
<1>6. Input(in)
  BY <1>3, <1>5 DEF Input
<1> QED BY <1>2, <1>6

\* An edge of the whole bus preserves the invariant.
LEMMA BusInvStep ==
  ASSUME BusInv, NEW in, Input(in), Step(in)
  PROVE  BusInv'
  BY TypeOKStep, WaitedStep, ReadOwnedStep, WriteOwnedStep, ReadOnceStep DEF BusInv

\* Every step of GolNext is a clock edge; the harness and the simulator answer at
\* once.
LEMMA GolInput ==
  ASSUME BusInv, GolNext
  PROVE  \E in : /\ Input(in) /\ Step(in)
                 /\ kind # "any" => /\ in.ar = axi_ar_valid /\ in.aw = axi_aw_valid
                                    /\ in.w = axi_w_valid /\ in.r = ar_over
                                    /\ in.b = b_ready
<1>1. CASE AnyNext
  <2>1. /\ ArReady \in SUBSET BOOLEAN /\ AwReady \in SUBSET BOOLEAN
        /\ WReady \in SUBSET BOOLEAN /\ RValid \in SUBSET BOOLEAN
        /\ BValid \in SUBSET BOOLEAN
    BY DEF ArReady, AwReady, WReady, RValid, BValid, If
  <2>2. Clock(ArReady, AwReady, WReady, RValid, BValid) /\ kind = "any"
    BY <1>1 DEF AnyNext, Next
  <2> QED BY <2>1, <2>2, ClockInput
<1>2. CASE HarnessNext \/ SimNext
  <2>1. /\ axi_ar_valid \in BOOLEAN /\ axi_aw_valid \in BOOLEAN /\ axi_w_valid \in BOOLEAN
        /\ ar_over \in BOOLEAN /\ b_ready \in BOOLEAN
    BY DEF BusInv, TypeOK, axi_ar_valid, axi_aw_valid, axi_w_valid, b_ready
  <2>2. Clock({axi_ar_valid}, {axi_aw_valid}, {axi_w_valid}, {ar_over}, {b_ready})
    BY <1>2 DEF HarnessNext, SimNext, RisingEdge, SimEdge, DriveAxi
  <2>3. \E in : Input(in) /\ Step(in) /\ in.ar \in {axi_ar_valid} /\ in.aw \in {axi_aw_valid}
                 /\ in.w \in {axi_w_valid} /\ in.r \in {ar_over} /\ in.b \in {b_ready}
    <3> HIDE DEF axi_ar_valid, axi_aw_valid, axi_w_valid, b_ready
    <3> QED BY <2>1, <2>2, ClockInput
  <2> QED BY <2>3
<1> QED BY <1>1, <1>2 DEF GolNext

\* The inductive invariant holds whatever the slave.
THEOREM BusCorrect == GolFairSpec => []BusInv
<1>1. GolInit => BusInv
  BY InitBusInv DEF GolInit
<1>2. BusInv /\ [GolNext]_golVars => BusInv'
  <2>1. ASSUME BusInv, GolNext
        PROVE  BusInv'
    <3>1. PICK in : Input(in) /\ Step(in)
      BY <2>1, GolInput, ZenonT(30)
    <3> QED
      BY <2>1, <3>1, BusInvStep, Zenon
  <2>2. ASSUME BusInv, UNCHANGED golVars
        PROVE  BusInv'
    BY <2>2 DEF golVars, busVars, clientVars, axiVars, BusInv, TypeOK, Waited, ReadOwned,
       WriteOwned, WritesOwnBeat, ReadOnce, m0_valid, m0_ren, m0_addr, m1_vld, m1_wen,
       m1_addr, m2_vld, m3_ren, m3_wen, m3_addr
  <2> QED BY <2>1, <2>2
<1> QED BY <1>1, <1>2, PTL DEF GolFairSpec

\* 2to1 needs no arbitration: D-cache and bridge are never active together.
THEOREM OneClientAlways == GolFairSpec => []OneClient
<1>1. BusInv => OneClient
  BY NoCross
<1> QED BY <1>1, BusCorrect, PTL

\* The answer of every read reaches the client that asked for that address,
\* although m0_rget of axi.sv outlives the fetch it was set for.
THEOREM AnswersOwned == GolFairSpec => []ReadsOwnAddress
<1>1. BusInv => ReadsOwnAddress
  BY DEF BusInv, ReadOwned, ReadsOwnAddress
<1> QED BY <1>1, BusCorrect, PTL

\* Address and data of a write belong together until the slave confirms it.
THEOREM WritesOwned == GolFairSpec => []WritesOwnBeat
<1>1. BusInv => WritesOwnBeat
  BY DEF BusInv, WriteOwned
<1> QED BY <1>1, BusCorrect, PTL

\* A load reads its device once: AtoB drops its request with the answer.
THEOREM DevicesReadOnce == GolFairSpec => []DeviceReadOnce
<1>1. BusInv => DeviceReadOnce
  BY DeviceAnswer DEF BusInv, ReadOnce, DeviceReadOnce, m2_vld
<1> QED BY <1>1, BusCorrect, PTL

\* The core keeps the AXI rule for the read address channel: what axi.sv offers
\* stays until it is taken, although the choice between the I-cache and the data
\* side is made anew every cycle.
THEOREM AddressStable == GolFairSpec => ArStable
<1>1. ASSUME BusInv, GolNext, axi_ar_valid, ~ar_over'
      PROVE  axi_ar_valid' /\ raddr' = raddr
  <2>1. PICK in : Input(in) /\ Step(in)
    BY <1>1, GolInput, Zenon
  <2>2. m0_ren \/ m3_ren
    BY <1>1 DEF axi_ar_valid
  <2>3. ~r_over(in)
    BY <1>1 DEF axi_ar_valid, r_over
  <2>4. m3_ren => m3_ren' /\ m3_addr' = m3_addr /\ (~m0_valid => ~m0_rget')
    BY <1>1, <2>1, <2>3, ReadKept
       DEF m3_ren, m3_wen, m3_addr, m1_vld, m1_wen, m1_addr, m2_vld
  <2>5. CASE m0_valid
    <3>1. m0_rget' /\ icache' = icache
      BY <1>1, <2>1, <2>2, <2>3, <2>5, FetchKept
    <3> QED BY <1>1, <2>2, <2>4, <2>5, <3>1 DEF axi_ar_valid, raddr, m0_valid, m0_ren, m0_addr
  <2>6. CASE ~m0_valid
    <3>1. m3_ren
      BY <2>2, <2>6 DEF m0_valid
    <3>2. ~m0_valid'
      BY <2>4, <2>6, <3>1 DEF m0_valid
    <3> QED BY <1>1, <2>4, <2>6, <3>1, <3>2 DEF axi_ar_valid, raddr
  <2> QED BY <2>5, <2>6
<1>2. BusInv /\ [GolNext]_golVars
      => [axi_ar_valid /\ ~ar_over' => axi_ar_valid' /\ raddr' = raddr]_busVars
  BY <1>1 DEF golVars
<1> QED BY <1>2, BusCorrect, PTL DEF GolFairSpec, ArStable

-----------------------------------------------------------------------------
(* The harness and the simulator's memory.                                   *)

\* Both write channels are taken together, and the harness has noted the
\* address of the write in progress.
CommitInv ==
  /\ {"read_address", "write_address"} \subseteq DOMAIN h
  /\ kind # "any" => (aw_over <=> w_over)
  /\ kind = "harness" => (m3_wen => h.write_address = m3_addr)
  /\ CommitsOnce

\* Nothing is committed at reset of the harness or the simulator.
LEMMA InitCommitInv == ASSUME GolInit PROVE CommitInv
<1>1. bridge.valid = FALSE /\ dcache.state = "NORM"
  BY Zenon DEF GolInit, Init
<1>2. ~m3_wen
  BY <1>1 DEF m3_wen, m1_vld, m1_wen, m2_vld
<1>3. {"read_address", "write_address"} \subseteq DOMAIN h
  BY DEF GolInit, GolHarness
<1> QED BY <1>2, <1>3 DEF GolInit, Init, CommitInv, CommitsOnce, b_ready

\* The first element of a sequence.
LEMMA AppendFirst == ASSUME NEW x PROVE Append(<<>>, x) = <<x>>
  OBVIOUS

\* A rising edge of the harness (CommitWrite) or of the simulator's memory commits
\* the write that is confirmed with it, and notes the addresses of the next.
LEMMA CommitInvStep ==
  ASSUME BusInv, BusInv', CommitInv, GolNext
  PROVE  CommitInv'
<1>1. CASE AnyNext
  BY <1>1 DEF AnyNext, CommitInv, CommitsOnce
<1>2. CASE HarnessNext \/ SimNext
  <2>1. kind # "any" /\ kind' = kind
    BY <1>2 DEF HarnessNext, SimNext
  <2>2. PICK in : /\ Input(in) /\ Step(in)
                  /\ in.ar = axi_ar_valid /\ in.aw = axi_aw_valid
                  /\ in.w = axi_w_valid /\ in.r = ar_over /\ in.b = b_ready
    BY <2>1, GolInput
  <2>3. aw_over <=> w_over
    BY <2>1 DEF CommitInv
  <2>4. b_over(in) <=> b_ready
    BY <2>2, Zenon DEF b_over, b_ready
  <2>5. /\ aw_over' <=> ~b_ready /\ m3_wen
        /\ w_over' <=> ~b_ready /\ m3_wen
    <3>1. /\ aw_over' = (~b_over(in) /\ (aw_over \/ (in.aw /\ axi_aw_valid)))
          /\ w_over' = (~b_over(in) /\ (w_over \/ (in.w /\ axi_w_valid)))
      BY <2>2 DEF Step, AxiStep, aw_over_ns, w_over_ns
    <3> QED BY <2>2, <2>3, <2>4, <3>1, Zenon DEF b_ready, axi_aw_valid, axi_w_valid
  <2>6. b_ready' <=> ~b_ready /\ m3_wen
    BY <2>5 DEF b_ready
  <2>7. ~b_ready /\ m3_wen => m3_addr' = m3_addr
    BY <2>2, <2>4, WriteKept
  <2>8. commits = IF b_ready THEN <<m3_addr>> ELSE <<>>
    BY <2>1 DEF CommitInv, CommitsOnce
  <2>9. arq' # None => arq' = raddr'
    BY DEF BusInv, ReadOwned, raddr
  <2>10. CASE HarnessNext
    <3> DEFINE o == IF commit_ready' THEN CommitWrite(h, h.write_address, h.write_data) ELSE h
    <3>1. DOMAIN o = DOMAIN h
      BY DEF CommitWrite
    <3>2. h' = [o EXCEPT !.read_address = raddr', !.write_address = m3_addr',
                         !.write_data = w_data']
      BY <2>10 DEF HarnessNext, RisingEdge
    <3>3. /\ {"read_address", "write_address"} \subseteq DOMAIN h'
          /\ h'.read_address = raddr' /\ h'.write_address = m3_addr'
      <4> HIDE DEF o
      <4> QED BY <3>1, <3>2 DEF CommitInv
    <3>4. commits' = IF b_ready' THEN Append(commits, h.write_address)
                     ELSE IF b_ready THEN <<>> ELSE commits
      BY <2>10 DEF HarnessNext, RisingEdge, commit_ready
    <3>5. b_ready' => h.write_address = m3_addr'
      BY <2>6, <2>7, <2>10 DEF CommitInv, HarnessNext
    <3>6. commits' = IF b_ready' THEN <<m3_addr'>> ELSE <<>>
      BY <2>6, <2>8, <3>4, <3>5, AppendFirst, Zenon
    <3> QED BY <2>5, <2>9, <3>3, <3>6 DEF CommitInv, CommitsOnce
  <2>11. CASE SimNext
    <3> DEFINE o == IF b_ready' THEN mem_write(h, m3_addr, w_data) ELSE h
    <3>1. DOMAIN o = DOMAIN h
      BY DEF mem_write
    <3>2. h' = [[o EXCEPT !.read_address = raddr]
                  EXCEPT !.write_address = m3_addr, !.write_data = w_data]
      BY <2>11 DEF SimNext, SimEdge, mem_read
    <3>3. {"read_address", "write_address"} \subseteq DOMAIN h' /\ h'.read_address = raddr
      <4> HIDE DEF o
      <4> QED BY <3>1, <3>2 DEF CommitInv
    <3>4. commits' = IF b_ready' THEN Append(commits, m3_addr)
                     ELSE IF b_ready THEN <<>> ELSE commits
      BY <2>11 DEF SimNext, SimEdge
    <3>5. commits' = IF b_ready' THEN <<m3_addr'>> ELSE <<>>
      BY <2>6, <2>7, <2>8, <3>4, AppendFirst, Zenon
    <3>6. arq' # None => arq' = raddr
      <4>1. arq # None => arq = raddr
        BY DEF BusInv, ReadOwned, raddr
      <4> QED BY <2>2, <4>1 DEF Step, SlaveStep
    <3> QED BY <2>1, <2>5, <2>11, <3>3, <3>5, <3>6 DEF CommitInv, CommitsOnce, SimNext
  <2> QED BY <1>2, <2>10, <2>11
<1> QED BY <1>1, <1>2 DEF GolNext

\* The Game of Life harness and the simulator commit every write once and at its
\* own address, and look up the right address for every read, although
\* both use addresses noted an edge before the answer.
THEOREM CommittedOnce == GolFairSpec => []CommitsOnce
<1>1. GolInit => CommitInv
  BY InitCommitInv
<1>2. BusInv /\ BusInv' /\ CommitInv /\ [GolNext]_golVars => CommitInv'
  <2>1. ASSUME CommitInv, UNCHANGED golVars
        PROVE  CommitInv'
    BY <2>1 DEF golVars, busVars, clientVars, axiVars, CommitInv, CommitsOnce, b_ready,
       m1_vld, m1_wen, m1_addr, m2_vld, m3_wen, m3_addr
  <2> QED BY <2>1, CommitInvStep, Zenon
<1>3. CommitInv => CommitsOnce
  BY DEF CommitInv
<1> QED BY <1>1, <1>2, <1>3, BusCorrect, PTL DEF GolFairSpec
=============================================================================
