-------------------------------- MODULE Ifu --------------------------------
(***************************************************************************)
(* The instruction fetch unit, rtl/vsrc/ifu/rv64im_core_ifu.sv, in the     *)
(* configuration of rv64im_core_defines.sv (SAT_CNT, RAS, TIME_OPT).  A    *)
(* step is one rising clock edge.  Addresses are 1 .. LastPc and wrap; 0   *)
(* is the address of a bubble, as in o_if_pc.  The predictors only choose  *)
(* among addresses the execution stage checks later, so what they answer   *)
(* is an input.  Registers whose content cannot be read again (flush_addr  *)
(* once used, inst_of_stall once delivered) are cleared.                   *)
(***************************************************************************)
EXTENDS Naturals

CONSTANTS
  LastPc,   \* size of the address space, in instructions
  Insts,    \* instructions memory may hold: records with fields op and tgt
  NoInst    \* what a bubble carries (RV64IM_CORE_INST_NOP)

ASSUME LastPcAssumption == LastPc \in Nat \ {0}

PCs == 1 .. LastPc

ASSUME InstsAssumption ==
  \A i \in Insts : i # NoInst /\ (i.op \in {"bxx", "jal"} => i.tgt \in PCs)

VARIABLES
  pc,              \* address requested last
  rsp_rdy,         \* a request is outstanding at the I-cache
  flush, flush_addr,             \* a redirection that waits for the address phase
  data_stall_vld, inst_of_stall, \* an instruction that waits for the decode stage
  data_stall_pc,   \* history: the address inst_of_stall was fetched from
  want             \* history: the address of the next instruction to deliver

ifuVars ==
  <<pc, rsp_rdy, flush, flush_addr, data_stall_vld, inst_of_stall, data_stall_pc, want>>

pc_inc4(p) == IF p = LastPc THEN 1 ELSE p + 1

-----------------------------------------------------------------------------
(* Combinational signals.  irsp is i_if_rsp_vld, rdata the instruction read  *)
(* from the cache line, stall and fl are i_if_stall and i_if_flush.          *)

data_shake(irsp) == rsp_rdy /\ irsp

\* The I-cache is ready whenever it has no unanswered request (o_mem_req_rdy of
\* DCache: the answer of a request and the next request share a cycle).
i_if_req_rdy(irsp) == rsp_rdy => irsp

addr_shake(irsp, stall, fl) ==
  i_if_req_rdy(irsp) /\ ~(rsp_rdy /\ ~irsp) /\ ~(stall \/ fl)

\* Mutant: a pending redirection does not invalidate the data that arrive.
Mut_inst_ok(irsp, stall, fl) ==
  (data_shake(irsp) \/ data_stall_vld) /\ ~stall /\ ~fl

inst_ok(irsp, stall, fl) ==
  (data_shake(irsp) \/ data_stall_vld) /\ ~stall /\ ~(fl \/ flush)

o_if_inst(irsp, rdata, stall, fl) ==
  IF ~inst_ok(irsp, stall, fl) THEN NoInst
  ELSE IF data_stall_vld THEN inst_of_stall ELSE rdata

o_if_pc(irsp, stall, fl) == IF inst_ok(irsp, stall, fl) THEN pc ELSE 0

\* Direction predicted for instruction i: pt is the answer of the saturating
\* counters or, where they hold none, of the sign of the offset.
dirbrn_pt(i, pt) == i # NoInst /\ (i.op = "jal" \/ (i.op = "bxx" /\ pt))

\* Next address after instruction i; ret is the top of the return address stack,
\* 0 if it is empty or the jalr is no return.
pc_next(i, pt, ret) ==
  IF flush THEN flush_addr
  ELSE IF i # NoInst /\ i.op = "jalr" /\ ret # 0 THEN ret
  ELSE IF dirbrn_pt(i, pt) THEN i.tgt
  ELSE pc_inc4(pc)

-----------------------------------------------------------------------------
IfuInit ==
  /\ pc = LastPc /\ rsp_rdy = FALSE
  /\ flush = FALSE /\ flush_addr = 0
  /\ data_stall_vld = FALSE /\ inst_of_stall = NoInst /\ data_stall_pc = 0
  /\ want = 1

\* Data that arrive while decode is stalled are kept until it is not.
StallBuffer(irsp, rdata, stall, fl) ==
  LET if_stall == stall /\ ~fl
  IN IF data_shake(irsp) /\ if_stall
     THEN data_stall_vld' = TRUE /\ inst_of_stall' = rdata /\ data_stall_pc' = pc
     ELSE IF data_stall_vld /\ ~if_stall
     THEN data_stall_vld' = FALSE /\ inst_of_stall' = NoInst /\ data_stall_pc' = 0
     ELSE UNCHANGED <<data_stall_vld, inst_of_stall, data_stall_pc>>

\* One cycle of the fetch unit.
IfuStep(irsp, rdata, stall, fl, fl_addr, pt, ret) ==
  LET shake == addr_shake(irsp, stall, fl)
      inst  == o_if_inst(irsp, rdata, stall, fl)
      nxt   == pc_next(inst, pt, ret)
  IN /\ pc' = IF shake THEN nxt ELSE pc
     /\ rsp_rdy' = IF shake THEN TRUE ELSE rsp_rdy /\ ~data_shake(irsp)
     /\ flush' = IF fl /\ ~shake THEN TRUE ELSE flush /\ ~shake
     /\ flush_addr' = IF fl THEN fl_addr ELSE IF shake THEN 0 ELSE flush_addr
     /\ StallBuffer(irsp, rdata, stall, fl)
     /\ want' = IF fl THEN fl_addr
                ELSE IF inst_ok(irsp, stall, fl) THEN nxt ELSE want

\* The unit on its own: cache, pipeline and predictors do anything they may.
IfuNext ==
  \E irsp, stall, fl, pt \in BOOLEAN, ret \in {0} \cup PCs, a \in PCs, i \in Insts :
    IfuStep(irsp, i, stall, fl, a, pt, ret)

IfuSpec == IfuInit /\ [][IfuNext]_ifuVars

-----------------------------------------------------------------------------
\* Type invariant.
IfuTypeOK ==
  /\ pc \in PCs /\ want \in PCs
  /\ rsp_rdy \in BOOLEAN /\ flush \in BOOLEAN /\ data_stall_vld \in BOOLEAN
  /\ flush_addr \in {0} \cup PCs
  /\ inst_of_stall \in Insts \cup {NoInst} /\ data_stall_pc \in {0} \cup PCs

\* The stream of delivered instructions has no hole, no repetition and nothing
\* of an abandoned path: whatever the inputs of a cycle are, an instruction that
\* is delivered is the one wanted next.
DeliversWanted ==
  \A irsp, stall, fl \in BOOLEAN :
    inst_ok(irsp, stall, fl) => o_if_pc(irsp, stall, fl) = want

\* An instruction held back by a stall is delivered with the address it was
\* fetched from: neither the pc nor the buffer moves under it.
BufferMatchesPc == data_stall_vld => data_stall_pc = pc /\ ~rsp_rdy

\* Every delivered instruction is followed by the request for its successor in
\* the same cycle, so the predicted direction that goes down the pipeline with it
\* is the direction fetch has taken.
DeliveryRequestsNext ==
  \A irsp, stall, fl \in BOOLEAN :
    inst_ok(irsp, stall, fl) => addr_shake(irsp, stall, fl)

\* What is outstanding or buffered is the instruction wanted next, unless a
\* redirection to the wanted address is pending.
PathInv ==
  IF flush THEN want = flush_addr
  ELSE want = IF rsp_rdy \/ data_stall_vld THEN pc ELSE pc_inc4(pc)

\* The inductive invariant behind the properties above.
IfuInv == IfuTypeOK /\ PathInv /\ BufferMatchesPc
=============================================================================
