------------------------------- MODULE AxiBus -------------------------------
(***************************************************************************)
(* The way from the caches and the uncached port to the AXI bus:           *)
(* rtl/vsrc/bus/rv64im_core_1toN.sv (address decode), AtoB.sv (bridge of   *)
(* the uncached port), 2to1.sv (D-cache and bridge), axi.sv (I-cache and   *)
(* the rest, and the five channels), as rv64im_core_top.sv connects them.  *)
(* A step is one clock edge.  The caches are their bus engines (see DCache *)
(* for the rest), the AXI slave accepts and answers when it likes.         *)
(*                                                                         *)
(* An address is <<line, beat>> or a device.  Data are represented by the  *)
(* address they were read from or are to be written to.                    *)
(***************************************************************************)
EXTENDS Naturals

CONSTANTS CodeLines, DataLines,   \* lines the I-cache and the D-cache may miss
          Devs, LastBeat, None

ASSUME LastBeatAssumption == LastBeat \in Nat

Beats == 0 .. LastBeat
Lines == CodeLines \cup DataLines
Addrs == (Lines \X Beats) \cup Devs

\* Memory and devices have addresses of their own (1toN); None is no address.
ASSUME AddrAssumption == (Lines \X Beats) \cap Devs = {} /\ None \notin Lines \cup Addrs

VARIABLES
  icache,   \* [rbus_vld, line, cnt]
  dcache,   \* [state, wbus_vld, vic, line, cnt]
  dc_vld_c1,
  bridge,   \* AtoB: [req_rdy, valid, wen, addr]
  cs_ff,    \* 1toN: the slave asked last
  ls_rsp_rdy,   \* the LSU awaits an answer
  m0_rget, ar_over, aw_over, w_over,
  arq, awq, wq, \* AXI slave: address or data accepted and not yet answered
  dev_reads     \* history: AXI reads since the bridge took its request

clientVars == <<icache, dcache, dc_vld_c1, bridge, cs_ff, ls_rsp_rdy>>
axiVars    == <<m0_rget, ar_over, aw_over, w_over, arq, awq, wq>>
busVars    == <<clientVars, axiVars, dev_reads>>

next_beat(n) == (n + 1) % (LastBeat + 1)

-----------------------------------------------------------------------------
(* Combinational signals.                                                    *)

m0_ren  == icache.rbus_vld
m0_addr == <<icache.line, icache.cnt>>

\* The D-cache's port (m1 of 2to1) and the bridge's (m2), merged into m3.
m1_vld  == IF dcache.state = "WBUS" THEN dcache.wbus_vld ELSE dcache.state = "RBUS"
m1_wen  == dcache.state = "WBUS"
m1_addr == <<IF m1_wen THEN dcache.vic ELSE dcache.line, dcache.cnt>>
m2_vld  == bridge.valid
m3_wen  == (m2_vld /\ bridge.wen) \/ (m1_vld /\ m1_wen)
m3_ren  == (m2_vld \/ m1_vld) /\ ~m3_wen
m3_addr == IF m2_vld THEN bridge.addr ELSE m1_addr

\* Mutant: an access overtakes a fetch in progress.
Mut_m0_valid == m0_ren /\ ~m3_ren

\* The read channel serves the I-cache (m0).
m0_valid == (m0_ren /\ ~m3_ren) \/ m0_rget

axi_ar_valid == (m0_ren \/ m3_ren) /\ ~ar_over
raddr        == IF m0_valid THEN m0_addr ELSE m3_addr
axi_aw_valid == m3_wen /\ ~aw_over
axi_w_valid  == m3_wen /\ ~w_over

\* `in' holds the slave's choices: ar, aw, w (ready), r, b (valid); and what the
\* core asks for: fetch, access.
r_over(in) == in.r /\ ar_over
b_over(in) == in.b /\ aw_over /\ w_over

o_m0_rdy(in) == m0_valid /\ r_over(in)

o_m3_rdy(in) == b_over(in) \/ (~m0_valid /\ r_over(in))
m1_rdy(in)   == m1_vld /\ o_m3_rdy(in)
m2_rdy(in)   == m2_vld /\ o_m3_rdy(in)

\* Answers to the LSU, and the stall of the pipeline while it has none.
br_rsp_vld(in) == ~bridge.req_rdy /\ (m2_rdy(in) \/ ~bridge.valid)
ls_rsp_vld(in) == (cs_ff = "mem" /\ dc_vld_c1) \/ (cs_ff = "dev" /\ br_rsp_vld(in))

data_stall(in) == ls_rsp_rdy /\ ~ls_rsp_vld(in)

br_done(in) == m2_rdy(in)

\* Mutant: the end of a write does not reset the data channel.
Mut_w_over_ns(in) == w_over \/ (in.w /\ axi_w_valid)

w_over_ns(in)  == ~b_over(in) /\ (w_over \/ (in.w /\ axi_w_valid))
aw_over_ns(in) == ~b_over(in) /\ (aw_over \/ (in.aw /\ axi_aw_valid))

\* Mutant: the end of a read does not reset the address channel.
Mut_ar_over_ns(in) == ar_over \/ (in.ar /\ axi_ar_valid)

ar_over_ns(in) == ~r_over(in) /\ (ar_over \/ (in.ar /\ axi_ar_valid))

\* The LSU's request is taken by a slave that is ready.
asks(in, k)  == in.access.kind = k
req_rdy(in)  == IF asks(in, "dev") THEN bridge.req_rdy ELSE dcache.state = "NORM"
takes(in, k) == asks(in, k) /\ req_rdy(in)

-----------------------------------------------------------------------------
(* Registers.                                                                *)

IcacheStep(in) ==
  icache' = IF in.fetch # None
            THEN [rbus_vld |-> TRUE, line |-> in.fetch, cnt |-> icache.cnt]
            ELSE IF m0_ren /\ o_m0_rdy(in)
            THEN [icache EXCEPT !.rbus_vld = icache.cnt # LastBeat, !.cnt = next_beat(@)]
            ELSE icache

\* A miss starts with the write-back of a dirty victim, if there is one.
DcacheStep(in) ==
  LET last == dcache.cnt = LastBeat
      miss == takes(in, "miss")
      v    == in.access.vic
  IN /\ dcache' = CASE miss -> [state |-> IF v = None THEN "RBUS" ELSE "WBUS",
                                wbus_vld |-> FALSE, vic |-> v,
                                line |-> in.access.line, cnt |-> dcache.cnt]
                    [] ~miss /\ dcache.state = "WBUS" /\ ~dcache.wbus_vld
                         -> [dcache EXCEPT !.wbus_vld = TRUE]
                    [] ~miss /\ m1_rdy(in)
                         -> [dcache EXCEPT !.cnt = next_beat(@),
                               !.wbus_vld = m1_wen /\ ~last,
                               !.state = IF ~last THEN @ ELSE IF m1_wen THEN "RBUS" ELSE "NORM"]
                    [] OTHER -> dcache
     /\ dc_vld_c1' = (takes(in, "hit") \/ (m1_rdy(in) /\ last /\ ~m1_wen))

BridgeStep(in) ==
  bridge' = IF takes(in, "dev")
            THEN [req_rdy |-> FALSE, valid |-> TRUE,
                  wen |-> in.access.wen, addr |-> in.access.addr]
            ELSE [bridge EXCEPT
                    !.req_rdy = @ \/ (br_rsp_vld(in) /\ cs_ff = "dev" /\ ls_rsp_rdy),
                    !.valid = @ /\ ~br_done(in)]

\* 1toN notes the slave that is asked, taken or not.
LsuStep(in) ==
  /\ cs_ff' = CASE asks(in, "none") -> cs_ff
              [] asks(in, "dev")  -> "dev"
              [] OTHER            -> "mem"
  /\ ls_rsp_rdy' = (data_stall(in) \/ (~asks(in, "none") /\ req_rdy(in)))

AxiStep(in) ==
  /\ m0_rget' = ((m0_ren /\ ~m3_ren) \/ (m0_rget /\ ~r_over(in)))
  /\ ar_over' = ar_over_ns(in) /\ aw_over' = aw_over_ns(in) /\ w_over' = w_over_ns(in)

\* The slave: external to the core.
SlaveStep(in) ==
  /\ arq' = IF axi_ar_valid /\ in.ar THEN raddr ELSE IF r_over(in) THEN None ELSE arq
  /\ awq' = IF axi_aw_valid /\ in.aw THEN m3_addr ELSE IF b_over(in) THEN None ELSE awq
  /\ wq'  = IF axi_w_valid /\ in.w THEN m3_addr ELSE IF b_over(in) THEN None ELSE wq
  /\ dev_reads' = IF takes(in, "dev") THEN 0
                  ELSE IF axi_ar_valid /\ in.ar /\ raddr \in Devs /\ dev_reads < 2
                  THEN dev_reads + 1 ELSE dev_reads

NoAccess == [kind |-> "none"]
Misses   == {a \in [kind : {"miss"}, line : DataLines, vic : DataLines \cup {None}] : a.vic # a.line}

\* What the core may ask for: the fetch unit and the LSU ask for nothing in a
\* cycle in which the LSU's data stall freezes the pipeline.
Fetches(in)  == IF m0_ren \/ data_stall(in) THEN {None} ELSE CodeLines \cup {None}
Accesses(in) ==
  IF data_stall(in) THEN {NoAccess}
  ELSE {NoAccess} \cup [kind : {"hit"}] \cup Misses
       \cup [kind : {"dev"}, addr : Devs, wen : BOOLEAN]

Step(in) ==
  /\ IcacheStep(in) /\ DcacheStep(in) /\ BridgeStep(in) /\ LsuStep(in)
  /\ AxiStep(in) /\ SlaveStep(in)

If(c) == IF c THEN BOOLEAN ELSE {FALSE}
RValid == If(arq # None)
BValid == If(awq # None /\ wq # None)

Clock(ars, aws, ws, rs, bs) ==
  \E slave \in [ar : ars, aw : aws, w : ws, r : rs, b : bs] :
    \E fetch \in Fetches(slave), access \in Accesses(slave) :
      Step([ar |-> slave.ar, aw |-> slave.aw, w |-> slave.w, r |-> slave.r,
            b |-> slave.b, fetch |-> fetch, access |-> access])

ArReady == If(axi_ar_valid)
AwReady == If(axi_aw_valid)
WReady  == If(axi_w_valid)

Init ==
  /\ icache \in [rbus_vld : {FALSE}, line : CodeLines, cnt : {0}]
  /\ dcache \in [state : {"NORM"}, wbus_vld : {FALSE}, vic : {None}, line : DataLines, cnt : {0}]
  /\ dc_vld_c1 = FALSE
  /\ bridge \in [req_rdy : {TRUE}, valid : {FALSE}, wen : {FALSE}, addr : Devs]
  /\ cs_ff = "none" /\ ls_rsp_rdy = FALSE
  /\ m0_rget = FALSE /\ ar_over = FALSE /\ aw_over = FALSE /\ w_over = FALSE
  /\ arq = None /\ awq = None /\ wq = None /\ dev_reads = 0

Next == Clock(ArReady, AwReady, WReady, RValid, BValid)

-----------------------------------------------------------------------------
(* Properties.                                                               *)

\* Type invariant.
TypeOK ==
  /\ icache \in [rbus_vld : BOOLEAN, line : Lines, cnt : Beats]
  /\ dcache \in [state : {"NORM", "WBUS", "RBUS"}, wbus_vld : BOOLEAN,
                 vic : Lines \cup {None}, line : Lines, cnt : Beats]
  /\ bridge \in [req_rdy : BOOLEAN, valid : BOOLEAN, wen : BOOLEAN, addr : Devs]
  /\ dc_vld_c1 \in BOOLEAN /\ ls_rsp_rdy \in BOOLEAN
  /\ cs_ff \in {"none", "mem", "dev"}
  /\ m0_rget \in BOOLEAN /\ ar_over \in BOOLEAN
  /\ aw_over \in BOOLEAN /\ w_over \in BOOLEAN
  /\ arq \in Addrs \cup {None} /\ awq \in Addrs \cup {None} /\ wq \in Addrs \cup {None}
  /\ dev_reads \in 0 .. 2

\* The D-cache and the bridge never use the bus at the same time: 2to1 merges
\* them without arbitration.
OneClient == ~(m1_vld /\ m2_vld)

\* Whoever is given the answer of a read asked for that address, although the
\* answer carries no name and m0_rget outlives the fetch it was set for.
ReadsOwnAddress ==
  arq # None => IF m0_valid THEN m0_ren => arq = m0_addr
                ELSE m3_ren /\ arq = m3_addr

\* Address and data of a write belong together and to the beat being written,
\* until the slave confirms it.
WritesOwnBeat ==
  /\ awq # None => m3_wen /\ awq = m3_addr
  /\ wq # None => m3_wen /\ wq = m3_addr

\* A load from a device reads it once: reads have side effects there.
DeviceReadOnce == dev_reads <= 1 /\ (arq \in Devs => bridge.valid)

\* At most one client of the data side is busy, it is the one the load/store
\* unit waits for, and so it stalls the pipeline until its last beat.
Waited ==
  /\ bridge.valid <=> ~bridge.req_rdy
  /\ bridge.valid => cs_ff = "dev" /\ ls_rsp_rdy
  /\ dcache.state # "NORM" => cs_ff = "mem" /\ ls_rsp_rdy /\ ~dc_vld_c1
  /\ dcache.state = "WBUS" => dcache.vic # None

\* A read that the I-cache does not wait for (m0_rget is a leftover) is only ever
\* made while the data side waits, so that no new fetch can take its answer, and
\* it reads the I-cache's address, never a device.
ReadOwned ==
  /\ ar_over <=> arq # None
  /\ arq # None => IF m0_valid
                   THEN arq = m0_addr /\ (m0_ren \/ m3_ren)
                   ELSE m3_ren /\ arq = m3_addr

\* The registers of the write channels follow the slave's.
WriteOwned == (aw_over <=> awq # None) /\ (w_over <=> wq # None) /\ WritesOwnBeat

\* A device that has been read is still being answered.
ReadOnce ==
  dev_reads <= 1 /\ (bridge.valid /\ ~bridge.wen /\ dev_reads = 1 => arq \in Devs)

\* The inductive invariant behind the properties above: who is busy is waited
\* for, and every answer outstanding on the bus belongs to its client.
BusInv == TypeOK /\ Waited /\ ReadOwned /\ WriteOwned /\ ReadOnce

\* AXI: an offered read address is neither withdrawn nor changed before the
\* slave takes it.
ArStable == [][axi_ar_valid /\ ~ar_over' => axi_ar_valid' /\ raddr' = raddr]_busVars

\* An I-cache refill is not starved by the D-cache's and the devices' transfers.
FetchServed == m0_ren ~> ~m0_ren

\* A load or store the load/store unit waits for is answered, whatever the
\* I-cache refills meanwhile.  (Accesses may follow without a gap: the D-cache's
\* answer of the cycle ends the wait as well.)
AccessServed == ls_rsp_rdy ~> dc_vld_c1 \/ ~ls_rsp_rdy
=============================================================================
