--------------------------- MODULE PipelineProofs ---------------------------
(***************************************************************************)
(* Proofs about Pipeline for every register set, value set, address space  *)
(* and set of instructions: the five safety properties of the pipeline     *)
(* hold as long as software and the interrupt line keep away from the      *)
(* known situations (Situations = {}), each of which breaks one of them.   *)
(* The fetch unit, module Ifu, comes first: its theorems need no pipeline. *)
(*                                                                         *)
(* PipeInv is the inductive invariant.  It adds to the properties what     *)
(* carries them over a clock edge: the instructions in IF, ID and EX are   *)
(* consecutive in the predicted stream (Stream), an operand in EX is right *)
(* already or arrives from MEM in time (Operands), an access belongs to    *)
(* the instruction in MEM (Ownership).  After the lemmas about one clock   *)
(* edge there is one lemma for each clause X, named XKept.                 *)
(***************************************************************************)
EXTENDS Pipeline, TLAPS

-----------------------------------------------------------------------------
(* The instruction fetch unit on its own.                                     *)

\* Sequential fetch stays in the address space.
LEMMA IncType == \A p \in PCs : pc_inc4(p) \in PCs
BY LastPcAssumption DEF pc_inc4, PCs

\* Whatever is delivered and predicted, the next address is a fetch address.
LEMMA PcNextType ==
  ASSUME IfuInv, NEW i \in Insts \cup {NoInst}, NEW pt \in BOOLEAN,
         NEW ret \in {0} \cup PCs
  PROVE  pc_next(i, pt, ret) \in PCs
<1>1. pc_inc4(pc) \in PCs
  BY IncType DEF IfuInv, IfuTypeOK
<1>2. flush => flush_addr \in PCs
  BY DEF IfuInv, IfuTypeOK, PathInv
<1>3. dirbrn_pt(i, pt) => i.tgt \in PCs
  BY InstsAssumption DEF dirbrn_pt
<1>4. ret # 0 => ret \in PCs
  OBVIOUS
<1> QED
  BY <1>1, <1>2, <1>3, <1>4 DEF pc_next

\* An instruction is delivered only in a cycle with an address phase.
LEMMA DeliveryShakes ==
  ASSUME IfuInv, NEW irsp \in BOOLEAN, NEW stall \in BOOLEAN, NEW fl \in BOOLEAN,
         inst_ok(irsp, stall, fl)
  PROVE  addr_shake(irsp, stall, fl)
BY DEF IfuInv, BufferMatchesPc, inst_ok, addr_shake, i_if_req_rdy, data_shake

\* After reset the invariant holds: fetch starts at the reset address.
LEMMA IfuInitInv == IfuInit => IfuInv
<1> SUFFICES ASSUME IfuInit PROVE IfuInv
  OBVIOUS
<1>1. LastPc \in PCs /\ 1 \in PCs /\ pc_inc4(LastPc) = 1
  BY LastPcAssumption DEF PCs, pc_inc4
<1> QED
  BY <1>1, Zenon DEF IfuInit, IfuInv, IfuTypeOK, PathInv, BufferMatchesPc

\* Every cycle keeps the invariant.
LEMMA IfuStepInv ==
  ASSUME IfuInv, NEW irsp \in BOOLEAN, NEW rdata \in Insts \cup {NoInst},
         NEW stall \in BOOLEAN, NEW fl \in BOOLEAN, NEW fl_addr, fl => fl_addr \in PCs,
         NEW pt \in BOOLEAN, NEW ret \in {0} \cup PCs,
         IfuStep(irsp, rdata, stall, fl, fl_addr, pt, ret)
  PROVE  IfuInv'
<1> DEFINE shake == addr_shake(irsp, stall, fl)
           inst  == o_if_inst(irsp, rdata, stall, fl)
           nxt   == pc_next(inst, pt, ret)
<1>1. /\ pc' = IF shake THEN nxt ELSE pc
      /\ rsp_rdy' = IF shake THEN TRUE ELSE rsp_rdy /\ ~data_shake(irsp)
      /\ flush' = IF fl /\ ~shake THEN TRUE ELSE flush /\ ~shake
      /\ flush_addr' = IF fl THEN fl_addr ELSE IF shake THEN 0 ELSE flush_addr
      /\ StallBuffer(irsp, rdata, stall, fl)
      /\ want' = IF fl THEN fl_addr
                 ELSE IF inst_ok(irsp, stall, fl) THEN nxt ELSE want
  BY DEF IfuStep
<1>2. inst \in Insts \cup {NoInst}
  BY DEF o_if_inst, IfuInv, IfuTypeOK
<1>3. nxt \in PCs
  BY <1>2, PcNextType
<1>4. shake <=> (rsp_rdy => irsp) /\ ~stall /\ ~fl
  BY DEF addr_shake, i_if_req_rdy, IfuInv, IfuTypeOK
<1>5. inst_ok(irsp, stall, fl) => shake
  BY DeliveryShakes
\* Nothing is delivered in an address phase: the next address is the wanted one.
<1>6. ASSUME shake, ~inst_ok(irsp, stall, fl) PROVE nxt = want
  <2>1. inst = NoInst
    BY <1>6 DEF o_if_inst
  <2>2. CASE flush
    BY <2>2 DEF pc_next, IfuInv, PathInv
  <2>3. CASE ~flush
    <3>1. ~rsp_rdy /\ ~data_stall_vld
      BY <1>4, <1>6, <2>3 DEF inst_ok, data_shake
    <3>2. want = pc_inc4(pc)
      BY <2>3, <3>1 DEF IfuInv, PathInv
    <3> QED
      BY <2>1, <2>3, <3>2 DEF pc_next, dirbrn_pt
  <2> QED
    BY <2>2, <2>3
<1> HIDE DEF shake, inst, nxt
<1>7. IfuTypeOK'
  <2>1. pc' \in PCs /\ want' \in PCs /\ flush_addr' \in {0} \cup PCs
    BY <1>1, <1>3 DEF IfuInv, IfuTypeOK
  <2>2. rsp_rdy' \in BOOLEAN /\ flush' \in BOOLEAN
    BY <1>1, <1>4, Zenon DEF IfuInv, IfuTypeOK, data_shake
  <2>3. /\ data_stall_vld' \in BOOLEAN /\ inst_of_stall' \in Insts \cup {NoInst}
        /\ data_stall_pc' \in {0} \cup PCs
    BY <1>1, Zenon DEF IfuInv, IfuTypeOK, StallBuffer
  <2> QED
    BY <2>1, <2>2, <2>3 DEF IfuTypeOK
<1>8. BufferMatchesPc'
  BY <1>1, <1>4, Zenon DEF IfuInv, IfuTypeOK, BufferMatchesPc, StallBuffer, data_shake
<1>9. PathInv'
  <2>1. CASE shake
    <3>1. ~flush' /\ rsp_rdy' /\ want' = pc'
      BY <1>1, <1>4, <1>6, <2>1
    <3> QED
      BY <3>1 DEF PathInv
  <2>2. CASE ~shake /\ fl
    BY <1>1, <2>2 DEF PathInv
  <2>3. CASE ~shake /\ ~fl
    <3>1. want' = want /\ pc' = pc /\ flush' = flush /\ flush_addr' = flush_addr
      BY <1>1, <1>5, <2>3 DEF IfuInv, IfuTypeOK
    <3>2. (rsp_rdy' \/ data_stall_vld') <=> (rsp_rdy \/ data_stall_vld)
      BY <1>1, <1>4, <2>3 DEF StallBuffer, data_shake, IfuInv, IfuTypeOK, BufferMatchesPc
    <3> QED
      BY <3>1, <3>2 DEF PathInv, IfuInv, pc_inc4
  <2> QED
    BY <2>1, <2>2, <2>3
<1> QED
  BY <1>7, <1>8, <1>9 DEF IfuInv

\* The invariant gives the statements a reader of the fetch unit asks for.
LEMMA IfuInvImplies == IfuInv => DeliversWanted /\ DeliveryRequestsNext
<1> SUFFICES ASSUME IfuInv PROVE DeliversWanted /\ DeliveryRequestsNext
  OBVIOUS
<1>1. DeliveryRequestsNext
  BY DeliveryShakes DEF DeliveryRequestsNext
<1>2. DeliversWanted
  BY DEF DeliversWanted, inst_ok, o_if_pc, data_shake, IfuInv, PathInv
<1> QED
  BY <1>1, <1>2

\* The fetch unit keeps its inductive invariant, for every address space and
\* every program, cache, pipeline and predictor.
THEOREM FetchInvariant == IfuSpec => []IfuInv
<1>1. IfuInv /\ [IfuNext]_ifuVars => IfuInv'
  <2> SUFFICES ASSUME IfuInv, [IfuNext]_ifuVars PROVE IfuInv'
    OBVIOUS
  <2>1. CASE IfuNext
    <3>1. PICK irsp, stall, fl, pt \in BOOLEAN, ret \in {0} \cup PCs, a \in PCs, i \in Insts :
            IfuStep(irsp, i, stall, fl, a, pt, ret)
      BY <2>1 DEF IfuNext
    <3> QED
      BY <3>1, IfuStepInv
  <2>2. CASE UNCHANGED ifuVars
    BY <2>2 DEF ifuVars, IfuInv, IfuTypeOK, PathInv, BufferMatchesPc, pc_inc4
  <2> QED
    BY <2>1, <2>2
<1> QED
  BY <1>1, IfuInitInv, PTL DEF IfuSpec

\* Fetch delivers exactly the wanted stream: no hole, no repetition, nothing of
\* an abandoned path, through every stall, late answer and redirection.
THEOREM FetchDeliversWanted == IfuSpec => []DeliversWanted
BY FetchInvariant, IfuInvImplies, PTL

\* Every delivery is followed by the request for its successor in the same cycle.
THEOREM FetchRequestsNext == IfuSpec => []DeliveryRequestsNext
BY FetchInvariant, IfuInvImplies, PTL

\* A buffered instruction keeps the address it was fetched from.
THEOREM FetchBuffer == IfuSpec => []BufferMatchesPc
<1>1. IfuInv => BufferMatchesPc
  BY DEF IfuInv
<1> QED
  BY <1>1, FetchInvariant, PTL

-----------------------------------------------------------------------------
(* The pipeline.                                                              *)

\* What the stage registers hold where there may be no instruction.
InstOrNop == Insts \cup {NoInst}
PcOrNone  == {0} \cup PCs

\* Types of the pipeline's registers.
StageTypes ==
  /\ id \in [pc : PcOrNone, inst : InstOrNop, pt : BOOLEAN]
  /\ ex \in [pc : PcOrNone, inst : InstOrNop, pt : BOOLEAN, rs1 : Vals, rs2 : Vals]
  /\ mem \in [wen : BOOLEAN, rd : RegIdx, req : BOOLEAN, load : BOOLEAN, data : Vals]
  /\ port \in [slave : Slaves \cup {"none"}, data : Vals, fast : BOOLEAN]
  /\ data_shake_done \in BOOLEAN /\ rdata_r \in Vals
  /\ wb \in [wen : BOOLEAN, rd : RegIdx, data : Vals]
  /\ regs \in [Regs -> Vals] /\ arf \in [Regs -> Vals]
  /\ mie \in BOOLEAN /\ mpie \in BOOLEAN /\ mepc \in PCs /\ apc \in PCs
  /\ acsr \in [mie : BOOLEAN, mpie : BOOLEAN, mepc : PCs]

\* A bubble is known by its address as well as by its instruction, a free port by
\* its slave; of the accesses in MEM the loads are those that write a register.
Bubbles ==
  /\ id.pc = 0 <=> id.inst = NoInst
  /\ ex.pc = 0 <=> ex.inst = NoInst
  /\ data_stall_vld => inst_of_stall # NoInst
  /\ port = NoPort <=> port.slave = "none"
  /\ mem.req => mem.wen = mem.load

\* n is the address fetch went on to after the instruction in stage register x;
\* after a jalr that is a guess, judged in EX against the address in ID.
Follows(x, n) ==
  IF x.inst.op = "jalr" THEN TRUE
  ELSE n = IF x.pt THEN x.inst.tgt ELSE pc_inc4(x.pc)

\* The prediction that travels with an instruction: a jal is always predicted
\* taken, and only direct jumps and branches are.
Predicted(x) ==
  /\ x.inst.op = "jal" => x.pt
  /\ x.pt => x.inst.op \in {"jal", "bxx"}

\* The address behind the instruction in EX: the one in ID, else the one fetch wants.
Youngest == IF id.pc # 0 THEN id.pc ELSE want

\* The stages hold consecutive instructions of the predicted stream, and its head
\* is the instruction the program executes next.
Stream ==
  /\ Predicted(id) /\ Predicted(ex)
  /\ id.pc # 0 => Follows(id, want)
  /\ IF ex.pc # 0 THEN ex.pc = apc /\ Follows(ex, Youngest) ELSE Youngest = apc

\* An access in MEM is outstanding or answered, not both, and there is no other.
Ownership ==
  /\ mem.req <=> (port # NoPort \/ data_shake_done)
  /\ ~(port # NoPort /\ data_shake_done)

\* The operand v that EX holds for register r is the architectural value, unless
\* the load in MEM is to bring it: then the bypass has it in this very cycle.
Operand(uses, r, v) ==
  uses => IF mem.req /\ mem.load /\ mem.rd # 0 /\ mem.rd = r
          THEN port # NoPort => port.fast
          ELSE v = Arf(r)

\* Both operands of the instruction in EX.
Operands ==
  /\ Operand(use_rs1(ex.inst), ex.inst.rs1, ex.rs1)
  /\ Operand(use_rs2(ex.inst), ex.inst.rs2, ex.rs2)

\* The CSRs are the architectural ones; a write of mepc that is held in EX is
\* ahead of the program.
Csrs ==
  /\ acsr.mie = mie /\ acsr.mpie = mpie
  /\ op # "mepc" => acsr.mepc = mepc

\* No two adjacent instructions are an avoided pair, so that no mstatus write
\* waits behind an access and no load waits for the device the one ahead uses.
Pairs ==
  /\ data_stall_vld => ~Avoided(id.inst, inst_of_stall)
  /\ ~Avoided(ex.inst, id.inst)
  /\ mem.req => op # "mstatus"
  /\ port # NoPort /\ op = "load" /\ ex.inst.rd # 0 /\ ex.inst.slave # "mem"
       => ex.inst.slave # port.slave

\* The inductive invariant of the pipeline.
PipeInv ==
  /\ StageTypes /\ IfuInv /\ Bubbles /\ Stream /\ Ownership /\ ResultsArrive
  /\ Operands /\ Csrs /\ Pairs
-----------------------------------------------------------------------------
(* A clock edge and its inputs.                                              *)

\* The inputs the outside may give the pipeline in a cycle.
Inputs(in) ==
  /\ in.drsp \in DRsp /\ in.hit \in Hit(in.drsp) /\ in.fin \in Fin /\ in.irq \in Irq
  /\ in.val \in Results(in.drsp)
  /\ in.taken \in (IF op = "bxx" THEN BOOLEAN ELSE {FALSE})
  /\ in.jtgt \in (IF op = "jalr" THEN PCs ELSE {0})

\* A step of the pipeline is one clock edge with inputs of the right kind.
LEMMA NextIsCycle ==
  ASSUME Next
  PROVE  \E in, irsp : Inputs(in) /\ irsp \in IRsp /\ Cycle(in, irsp)
<1>1. PICK irsp \in IRsp, drsp \in DRsp, fin \in Fin, irq \in Irq,
         taken \in (IF op = "bxx" THEN BOOLEAN ELSE {FALSE}),
         jtgt \in (IF op = "jalr" THEN PCs ELSE {0}) :
         \E hit \in Hit(drsp), val \in Results(drsp) :
           Cycle([drsp |-> drsp, hit |-> hit, fin |-> fin, irq |-> irq, val |-> val,
                  taken |-> taken, jtgt |-> jtgt], irsp)
  BY Zenon DEF Next, Clock
<1>2. PICK hit \in Hit(drsp), val \in Results(drsp) :
        Cycle([drsp |-> drsp, hit |-> hit, fin |-> fin, irq |-> irq, val |-> val,
               taken |-> taken, jtgt |-> jtgt], irsp)
  BY <1>1
<1> DEFINE in == [drsp |-> drsp, hit |-> hit, fin |-> fin, irq |-> irq, val |-> val,
                  taken |-> taken, jtgt |-> jtgt]
<1>3. Inputs(in)
  BY Zenon DEF Inputs
<1>4. Cycle(in, irsp)
  BY <1>2
<1> HIDE DEF in
<1> QED
  BY <1>3, <1>4

\* Instructions and the bubble tell each other apart.
LEMMA InstFacts ==
  /\ NoInst.op = "nop"
  /\ \A i \in Insts : /\ i # NoInst /\ i.op \in ExuOps /\ i.op # "nop"
                      /\ i.rd \in RegIdx /\ i.rs1 \in RegIdx /\ i.rs2 \in RegIdx
                      /\ i.tgt \in PCs /\ i.slave \in Slaves
BY NopAssumption, InstAssumption, InstsAssumption DEF Inst, ExuOps

\* Types of a cycle's inputs; an answer comes only to an outstanding access, and
\* to a fast one (CLINT or D-cache hit) it comes at once.
LEMMA InputTypes ==
  ASSUME StageTypes, NEW in, Inputs(in)
  PROVE  /\ in.drsp \in BOOLEAN /\ in.hit \in BOOLEAN /\ in.irq \in BOOLEAN
         /\ in.taken \in BOOLEAN /\ in.val \in Vals
         /\ op = "jalr" => in.jtgt \in PCs
         /\ in.drsp => port # NoPort
         /\ port # NoPort /\ port.fast => in.drsp
<1>1. in.drsp \in BOOLEAN /\ (in.drsp => port # NoPort) /\ (port # NoPort /\ port.fast => in.drsp)
  BY Zenon DEF Inputs, DRsp
<1>2. in.hit \in BOOLEAN
  BY Zenon DEF Inputs, Hit
<1>3. in.irq \in BOOLEAN
  BY Zenon DEF Inputs, Irq
<1>4. in.val \in Vals
  BY ValsAssumption DEF Inputs, Results
<1>5. in.taken \in BOOLEAN /\ (op = "jalr" => in.jtgt \in PCs)
  BY Zenon DEF Inputs
<1> QED
  BY <1>1, <1>2, <1>3, <1>4, <1>5

\* The stall and flush network of rv64im_core_pipe_ctrl.sv: what the combined
\* signals amount to when the invariant holds.  A trap or return never meets a
\* stall of EX, a load-use stall of ID meets one only while data is awaited, and a
\* request is accepted exactly when its instruction goes to MEM.
LEMMA Signals ==
  ASSUME Situations = {}, PipeInv, NEW in, Inputs(in)
  PROVE  /\ data_stall(in) <=> port # NoPort /\ ~in.drsp
         /\ async_intr(in) => ex.pc # 0 /\ mie /\ op \notin {"div", "mret"}
         /\ flush_mem(in) => ~stall_wb_ex(in)
         /\ op = "mstatus" => ~stall_wb_ex(in)
         /\ idu_stall(in) /\ stall_wb_ex(in) => data_stall(in)
         /\ ls_shake(in) <=> mem_req(in) /\ ~stall_wb_ex(in) /\ ~flush_mem(in)
         /\ load_use_hazard(in) /\ in.hit => op = "load"
<1> USE InputTypes DEF PipeInv
<1>1. data_stall(in) <=> port # NoPort /\ ~in.drsp
  BY DEF data_stall, Ownership
<1>2. async_intr(in) => ex.pc # 0 /\ mie /\ op \notin {"div", "mret"}
  BY Zenon DEF async_intr, Inputs, Irq
<1>3. op # "div" => (stall_wb_ex(in) <=> addr_stall(in) \/ data_stall(in))
  BY DEF stall_wb_ex, exu_stall
<1>4. addr_stall(in) => ~flush_mem(in) /\ op \in {"load", "store"} /\ ~async_intr(in)
  BY DEF addr_stall, req_vld, mem_req
<1>5. flush_mem(in) => ~stall_wb_ex(in)
  BY <1>2, <1>3, <1>4 DEF flush_mem, intr_flush
<1>6. op = "mstatus" => ~stall_wb_ex(in)
  BY <1>3, <1>4 DEF data_stall, Pairs
<1>7. addr_stall(in) => /\ port # NoPort /\ ex.inst.slave = port.slave 
                        /\ ex.inst.slave # "mem" \/ data_stall(in)
  <2> SUFFICES ASSUME addr_stall(in)
               PROVE  /\ port # NoPort /\ ex.inst.slave = port.slave 
                      /\ ex.inst.slave # "mem" \/ data_stall(in)
    OBVIOUS
  <2>1. ex.inst \in Insts
    BY <1>4, InstFacts DEF StageTypes, InstOrNop, op
  <2>2. ex.inst.slave # "none"
    BY <2>1, InstFacts DEF Slaves
  <2> QED
    BY <1>1, <2>2 DEF addr_stall, req_rdy, Bubbles
<1>8. idu_stall(in) /\ stall_wb_ex(in) => data_stall(in)
  <2> SUFFICES ASSUME idu_stall(in), stall_wb_ex(in), ~data_stall(in) PROVE FALSE
    OBVIOUS
  <2>1. op \in {"load", "mul"} /\ ex.inst.rd # 0
    BY DEF idu_stall, load_use_hazard, exu_load
  <2>2. addr_stall(in) /\ op = "load"
    BY <1>3, <1>4, <2>1
  <2> QED
    BY <1>7, <2>1, <2>2 DEF Pairs
<1>9. ls_shake(in) <=> mem_req(in) /\ ~stall_wb_ex(in) /\ ~flush_mem(in)
  BY <1>1, <1>3 DEF ls_shake, addr_stall, req_vld, mem_req, op, stall_wb_ex
<1>10. load_use_hazard(in) /\ in.hit => op = "load"
  BY Zenon DEF load_use_hazard, exu_load, Inputs, Hit
<1> QED
  BY <1>1, <1>2, <1>5, <1>6, <1>8, <1>9, <1>10

-----------------------------------------------------------------------------
(* One clock edge from a state with the invariant.                           *)

\* A clock edge with inputs in and irsp, from a state with the invariant.
Edge(in, irsp) ==
  Situations = {} /\ PipeInv /\ Inputs(in) /\ irsp \in IRsp /\ Cycle(in, irsp)

\* What a flush redirects fetch to (rv64im_core_pipe_ctrl.sv: trap handler, mepc,
\* or the address EX computed) is where the program continues.
LEMMA Redirected ==
  ASSUME NEW in, NEW irsp, Edge(in, irsp), flush_id(in)
  PROVE  redirect(in) \in PCs /\ apc' = redirect(in)
<1>0. PipeInv /\ Inputs(in) /\ ArchStep(in)
  BY DEF Edge, Cycle
<1>a. StageTypes /\ Stream /\ Csrs /\ Bubbles
  BY <1>0 DEF PipeInv
<1>1. async_intr(in) => ex.pc # 0 /\ op \notin {"div", "mret"}
  BY <1>0, Signals DEF Edge
<1>2. op # "nop" => ex.inst \in Insts /\ ex.pc \in PCs
  BY <1>a, InstFacts DEF StageTypes, Bubbles, InstOrNop, PcOrNone, op
<1>3. CASE async_intr(in)
  BY <1>0, <1>1, <1>3, MtvecAssumption DEF ArchStep, redirect, intr_flush, intr_addr
<1>4. CASE ~async_intr(in) /\ op \in {"ecall", "mret"}
  <2>1. Retires(in)
    BY <1>2, <1>4, LastPcAssumption DEF Retires, PCs
  <2>2. CASE op = "ecall"
    BY <1>0, <1>4, <2>1, <2>2, MtvecAssumption DEF ArchStep, redirect, intr_flush, intr_addr
  <2>3. CASE op = "mret"
    BY <1>0, <1>a, <1>4, <2>1, <2>3 DEF ArchStep, redirect, intr_flush, intr_addr, Csrs, StageTypes
  <2> QED
    BY <1>4, <2>2, <2>3
<1>5. CASE ~intr_flush(in) /\ exu_flush(in) /\ ~data_stall(in)
  <2>1. op \in {"bxx", "jalr"} /\ ~async_intr(in)
    BY <1>5 DEF exu_flush, intr_flush
  <2>2. ~stall_wb_ex(in)
    BY <1>5, <2>1 DEF stall_wb_ex, exu_stall, addr_stall, req_vld, mem_req
  <2>3. Retires(in) /\ ex.pc = apc /\ ex.inst.tgt \in PCs /\ pc_inc4(apc) \in PCs
    BY <1>2, <1>a, <2>1, <2>2, InstFacts, IncType, LastPcAssumption DEF Retires, PCs, Stream, StageTypes
  <2>4. redirect(in) = jump_addr(in)
    BY <1>5 DEF redirect
  <2>5. CASE op = "jalr"
    BY <1>0, <1>a, <2>1, <2>3, <2>4, <2>5, InputTypes DEF ArchStep, jump_addr
  <2>6. CASE op = "bxx"
    <3>1. in.taken \in BOOLEAN /\ ex.pt \in BOOLEAN /\ in.taken # ex.pt
      BY <1>0, <1>a, <1>5, <2>6, InputTypes DEF exu_flush, StageTypes
    <3>2. apc' = IF in.taken THEN ex.inst.tgt ELSE pc_inc4(apc)
      BY <1>0, <2>1, <2>3, <2>6 DEF ArchStep
    <3> QED
      BY <3>1, <3>2, <2>3, <2>4, <2>6 DEF jump_addr
  <2> QED
    BY <2>1, <2>5, <2>6
<1> QED
  BY <1>3, <1>4, <1>5 DEF flush_id, intr_flush

\* Decode takes the instruction fetch wanted, with its prediction.
Delivered ==
  /\ id'.pc = want /\ id'.inst \in Insts /\ id'.pt \in BOOLEAN
  /\ id' = [pc |-> id'.pc, inst |-> id'.inst, pt |-> id'.pt]
  /\ ~Avoided(id.inst, id'.inst)
  /\ Predicted(id') /\ Follows(id', want')

\* Fetch and decode at a clock edge: a flush empties decode and redirects fetch, a
\* stall keeps both, and otherwise decode takes nothing or the wanted instruction.
LEMMA Fetches ==
  ASSUME NEW in, NEW irsp, Edge(in, irsp)
  PROVE  /\ IfuInv'
         /\ flush_id(in) => id' = IdEmpty /\ want' = redirect(in)
         /\ ~flush_id(in) /\ stall_id(in) => id' = id /\ want' = want
         /\ ~flush_id(in) /\ ~stall_id(in) => (id' = IdEmpty /\ want' = want) \/ Delivered
         /\ data_stall_vld' => inst_of_stall' # NoInst /\ ~Avoided(id'.inst, inst_of_stall')
<1>0. PipeInv /\ Situations = {} /\ Inputs(in) /\ irsp \in BOOLEAN /\ (irsp => rsp_rdy)
      /\ FetchDecode(in, irsp)
  BY Zenon DEF Edge, Cycle, IRsp
<1>a. IfuInv /\ StageTypes /\ Bubbles /\ Pairs
  BY <1>0 DEF PipeInv
<1>c. stall_id(in) \in BOOLEAN /\ flush_id(in) \in BOOLEAN
  BY DEF stall_id, flush_id, stall_wb_ex, exu_stall
<1>d. PICK st \in {stall_id(in)}, fl \in {flush_id(in)} :
      \E rdata \in Fetched(irsp, fl) :
      \E i \in {o_if_inst(irsp, rdata, st, fl)} :
      \E pt \in (IF i.op = "bxx" THEN BOOLEAN ELSE {FALSE}),
         ret \in (IF i.op = "jalr" THEN {0} \cup PCs ELSE {0}) :
        /\ IfuStep(irsp, rdata, st, fl, redirect(in), pt, ret)
        /\ IduStep(o_if_pc(irsp, st, fl), i, st, fl, pt)
  BY <1>0, Zenon DEF FetchDecode
<1>b. st \in BOOLEAN /\ fl \in BOOLEAN /\ (st <=> stall_id(in)) /\ (fl <=> flush_id(in))
  BY <1>c
<1>1. PICK rdata \in Fetched(irsp, fl) :
      \E i \in {o_if_inst(irsp, rdata, st, fl)} :
      \E pt \in (IF i.op = "bxx" THEN BOOLEAN ELSE {FALSE}),
         ret \in (IF i.op = "jalr" THEN {0} \cup PCs ELSE {0}) :
        /\ IfuStep(irsp, rdata, st, fl, redirect(in), pt, ret)
        /\ IduStep(o_if_pc(irsp, st, fl), i, st, fl, pt)
  BY <1>d, Zenon
<1> DEFINE i == o_if_inst(irsp, rdata, st, fl)
<1>2. PICK pt \in BOOLEAN, ret \in {0} \cup PCs :
        /\ IfuStep(irsp, rdata, st, fl, redirect(in), pt, ret)
        /\ IduStep(o_if_pc(irsp, st, fl), i, st, fl, pt)
  BY <1>1, Zenon
<1>3. rdata \in Insts \cup {NoInst} /\ (irsp /\ ~fl => rdata \in Insts /\ ~Avoided(id.inst, rdata))
  BY DEF Fetched
<1>4. fl => redirect(in) \in PCs
  BY <1>b, Redirected
<1>5. IfuInv'
  <2>0. PICK a : a = redirect(in)
    OBVIOUS
  <2>1. IfuStep(irsp, rdata, st, fl, a, pt, ret)
    BY <1>2, <2>0 DEF IfuStep
  <2>2. IfuInv /\ irsp \in BOOLEAN /\ rdata \in Insts \cup {NoInst} /\ st \in BOOLEAN
        /\ fl \in BOOLEAN
    BY <1>a, <1>b, <1>0, <1>3
  <2>3. fl => a \in PCs
    BY <2>0, <1>4
  <2> QED
    BY ONLY <2>0, <2>1, <2>2, <2>3, pt \in BOOLEAN, ret \in {0} \cup PCs, IfuStepInv, ZenonT(60)
<1>6. inst_ok(irsp, st, fl) => /\ ~st /\ ~fl /\ ~flush /\ o_if_pc(irsp, st, fl) = want
                               /\ o_if_pc(irsp, st, fl) = pc
                               /\ addr_shake(irsp, st, fl)
  <2>1. DeliversWanted
    BY <1>a, IfuInvImplies
  <2>2. inst_ok(irsp, st, fl) => addr_shake(irsp, st, fl)
    BY <1>a, <1>0, <1>b, DeliveryShakes
  <2> QED
    BY <1>0, <1>b, <2>1, <2>2 DEF DeliversWanted, inst_ok, o_if_pc
<1>7. inst_ok(irsp, st, fl) => i \in Insts /\ ~Avoided(id.inst, i)
  BY <1>a, <1>0, <1>3, <1>6 DEF inst_ok, o_if_inst, data_shake, IfuInv, IfuTypeOK, Bubbles, Pairs
<1>8. fl => id' = IdEmpty /\ want' = redirect(in)
  BY <1>2 DEF IduStep, IfuStep
<1>9. ~fl /\ st => id' = id /\ want' = want
  BY <1>2, <1>6, Zenon DEF IduStep, IfuStep
<1>10. ASSUME ~fl, ~st PROVE (id' = IdEmpty /\ want' = want) \/ Delivered
  <2>1. id' = [pc |-> o_if_pc(irsp, st, fl), inst |-> i, pt |-> dirbrn_pt(i, pt)]
    BY <1>2, <1>10 DEF IduStep
  <2>2. CASE ~inst_ok(irsp, st, fl)
    <3>1. i = NoInst /\ o_if_pc(irsp, st, fl) = 0 /\ dirbrn_pt(i, pt) = FALSE
      BY <2>2 DEF o_if_inst, o_if_pc, dirbrn_pt
    <3>2. want' = want
      BY <1>2, <1>10, <2>2 DEF IfuStep
    <3> QED
      BY <2>1, <3>1, <3>2, Zenon DEF IdEmpty
  <2>3. CASE inst_ok(irsp, st, fl)
    <3>1. i \in Insts /\ i # NoInst /\ ~Avoided(id.inst, i) /\ ~flush
      BY <1>6, <1>7, <2>3, InstFacts
    <3>2. want' = pc_next(i, pt, ret)
      BY <1>2, <1>10, <2>3 DEF IfuStep
    <3> HIDE DEF i
    <3>3. id'.pc = want /\ id'.pc = pc /\ id'.inst = i /\ id'.pt = dirbrn_pt(i, pt)
          /\ dirbrn_pt(i, pt) \in BOOLEAN
      BY <2>1, <1>6, <2>3 DEF dirbrn_pt
    <3>4. Predicted(id')
      BY <3>1, <3>3, Zenon DEF Predicted, dirbrn_pt
    <3>5. Follows(id', want')
      BY <3>1, <3>2, <3>3, Zenon DEF Follows, pc_next
    <3> QED
      BY <2>1, <3>1, <3>3, <3>4, <3>5 DEF Delivered
  <2> QED
    BY <2>2, <2>3
<1>11. data_stall_vld' => inst_of_stall' # NoInst /\ ~Avoided(id'.inst, inst_of_stall')
  <2>1. StallBuffer(irsp, rdata, st, fl)
    BY <1>2 DEF IfuStep
  <2>2. data_stall_vld' => st /\ ~fl
    BY <2>1, <1>a, <1>b, Zenon DEF StallBuffer, IfuInv, IfuTypeOK
  <2>3. data_stall_vld' => \/ data_shake(irsp) /\ inst_of_stall' = rdata
                           \/ data_stall_vld /\ inst_of_stall' = inst_of_stall
    BY <2>1, <1>a, <1>b, Zenon DEF StallBuffer, IfuInv, IfuTypeOK
  <2> QED
    BY <2>2, <2>3, <1>9, <1>3, <1>a, InstFacts DEF data_shake, Bubbles, Pairs
<1> QED
  BY <1>b, <1>5, <1>8, <1>9, <1>10, <1>11

\* What the instruction in MEM leaves in its register.
MemValue == IF ~mem.req THEN mem.data ELSE IF data_shake_done THEN rdata_r ELSE port.data

\* A register's value in flight or at rest.
Held(r) ==
  IF mem.wen /\ mem.rd = r THEN MemValue ELSE IF wb.wen /\ wb.rd = r THEN wb.data ELSE regs[r]

\* ResultsArrive says that every register's architectural value is the one held.
LEMMA ResultsHeld == ResultsArrive <=> \A r \in Regs : arf[r] = Held(r)
BY DEF ResultsArrive, Held, MemValue

\* Whatever is not a bubble in ID or EX is one of the program's instructions.
LEMMA StageInst ==
  ASSUME StageTypes, Bubbles
  PROVE  /\ op # "nop" => ex.inst \in Insts /\ ex.pc \in PCs /\ ex.pc # 0
         /\ id.inst.op # "nop" => id.inst \in Insts /\ id.pc \in PCs /\ id.pc # 0
BY InstFacts DEF StageTypes, Bubbles, InstOrNop, PcOrNone, op

\* When MEM is not waiting, what it passes on (the answer of this cycle, the answer
\* kept from a stall, or the result of EX) is the value its instruction leaves.
LEMMA MemData ==
  ASSUME PipeInv, NEW in, Inputs(in), ~data_stall(in)
  PROVE  mem_data(in.drsp) = MemValue
<1>1. mem.req => port = NoPort \/ in.drsp
  BY DEF data_stall
<1>2. in.drsp \in BOOLEAN /\ (in.drsp => port # NoPort)
  BY InputTypes DEF PipeInv
<1> QED
  BY <1>1, <1>2 DEF PipeInv, Ownership, mem_data, ls_rdata, MemValue, StageTypes

\* What MEM holds is a register value.
LEMMA MemValueType == ASSUME StageTypes PROVE MemValue \in Vals
BY DEF StageTypes, MemValue

\* What EX computes is a register value.
LEMMA ResultType == ASSUME StageTypes, NEW in, Inputs(in) PROVE rd_data(in) \in Vals
BY InputTypes, ValsAssumption DEF rd_data

\* Whatever writes a register is an instruction that is not interrupted.
LEMMA Writer ==
  ASSUME PipeInv, NEW in, rd_wen(in)
  PROVE  ex.inst \in Insts /\ ex.pc # 0 /\ ~intr_flush(in) /\ ex.inst.rd \in RegIdx
<1>1. op \in {"alu", "jal", "jalr", "mstatus", "load", "mul", "div"} /\ ~async_intr(in)
  BY DEF rd_wen
<1>2. ex.inst \in Insts /\ ex.pc # 0
  BY <1>1, StageInst DEF PipeInv
<1> QED
  BY <1>1, <1>2, InstFacts DEF intr_flush

\* The program's registers change exactly when a writing instruction leaves EX, by
\* the value EX hands to MEM.
LEMMA ArfStep ==
  ASSUME NEW in, NEW irsp, Edge(in, irsp)
  PROVE  arf' = IF ~stall_wb_ex(in) /\ ex.inst.rd # 0 /\ rd_wen(in)
                THEN [arf EXCEPT ![ex.inst.rd] = rd_data(in)] ELSE arf
<1>1. PipeInv /\ ArchStep(in)
  BY DEF Edge, Cycle
<1>2. rd_wen(in) => ex.pc # 0 /\ ~async_intr(in) /\ op \notin {"ecall", "mret"}
  BY <1>1, Writer DEF intr_flush
<1>3. rd_wen(in) => (Retires(in) <=> ~stall_wb_ex(in))
  BY <1>2 DEF Retires
<1>4. acsr.mie = mie
  BY <1>1 DEF PipeInv, Csrs
<1> QED
  BY <1>1, <1>3, <1>4 DEF ArchStep, rd_data

\* The load/store unit at a clock edge: ownership of the access is kept, and while
\* EX stalls MEM keeps its instruction and the value it is to leave, even when the
\* answer arrives in the meantime and moves from the port to rdata_r.
LEMMA MemoryStep ==
  ASSUME NEW in, NEW irsp, Edge(in, irsp)
  PROVE  /\ Ownership' /\ (port' = NoPort <=> port'.slave = "none")
         /\ mem'.req => mem'.wen = mem'.load
         /\ stall_wb_ex(in) => mem' = mem /\ MemValue' = MemValue /\ (port' = port \/ port' = NoPort)
<1>0. PipeInv /\ Inputs(in) /\ LsuStep(in)
  BY DEF Edge, Cycle
<1>a. StageTypes /\ Bubbles /\ Ownership
  BY <1>0 DEF PipeInv
<1>b. in.drsp \in BOOLEAN /\ (in.drsp => port # NoPort)
  BY <1>0, <1>a, InputTypes
<1>1. /\ data_stall(in) <=> port # NoPort /\ ~in.drsp
      /\ flush_mem(in) => ~stall_wb_ex(in)
      /\ ls_shake(in) <=> mem_req(in) /\ ~stall_wb_ex(in) /\ ~flush_mem(in)
  BY <1>0, Signals DEF Edge
<1>2. data_stall(in) => stall_wb_ex(in)
  BY ZenonT(30) DEF stall_wb_ex
<1>3. port' = IF ls_shake(in)
              THEN [slave |-> ex.inst.slave, data |-> in.val,
                    fast |-> ex.inst.slave = "clt" \/ in.hit]
              ELSE IF in.drsp THEN NoPort ELSE port
  BY <1>0, Zenon DEF LsuStep
<1>4. /\ data_shake_done' <=> stall_wb_ex(in) /\ (in.drsp \/ data_shake_done)
      /\ data_shake_done' \in BOOLEAN
      /\ rdata_r' = IF ~data_shake_done' THEN 0 ELSE IF in.drsp THEN port.data ELSE rdata_r
  BY <1>0, ZenonT(30) DEF LsuStep
<1>5. mem' = IF flush_mem(in) THEN MemEmpty
             ELSE IF stall_wb_ex(in) THEN mem
             ELSE [wen |-> rd_wen(in), rd |-> IF rd_wen(in) THEN ex.inst.rd ELSE 0,
                   req |-> mem_req(in), load |-> op = "load",
                   data |-> IF rd_wen(in) THEN rd_data(in) ELSE 0]
  BY <1>0 DEF LsuStep
<1>6. mem_req(in) => op \in {"load", "store"} /\ ex.inst.slave # "none" /\ (rd_wen(in) <=> op = "load")
  BY <1>a, StageInst, InstFacts DEF mem_req, Slaves, rd_wen
<1>7. port' = NoPort <=> port'.slave = "none"
  <2>1. CASE ls_shake(in)
    BY <1>1, <1>3, <1>6, <2>1, Zenon DEF NoPort
  <2>2. CASE ~ls_shake(in)
    BY <1>3, <2>2, <1>a, Zenon DEF Bubbles, NoPort
  <2> QED
    BY <2>1, <2>2
<1>8. CASE stall_wb_ex(in)
  <2>1. mem' = mem /\ port' = IF in.drsp THEN NoPort ELSE port
    BY <1>1, <1>3, <1>5, <1>8
  <2>2. Ownership'
    BY <1>a, <1>b, <1>4, <1>8, <2>1 DEF Ownership
  <2>3. MemValue' = MemValue
    BY <1>a, <1>b, <1>4, <1>8, <2>1 DEF Ownership, MemValue
  <2>4. mem'.req => mem'.wen = mem'.load
    BY <1>a, <2>1 DEF Bubbles
  <2> QED
    BY <1>7, <2>1, <2>2, <2>3, <2>4, ZenonT(30)
<1>9. CASE ~stall_wb_ex(in)
  <2>1. mem'.req <=> ls_shake(in)
    BY <1>1, <1>5, <1>9, Zenon DEF MemEmpty, mem_req
  <2>2. port' # NoPort <=> ls_shake(in)
    BY <1>1, <1>2, <1>3, <1>6, <1>9, Zenon DEF NoPort
  <2>3. Ownership'
    BY <1>4, <1>9, <2>1, <2>2 DEF Ownership
  <2>4. mem'.req => mem'.wen = mem'.load
    BY <1>1, <1>5, <1>6, <1>9, <2>1, Zenon DEF rd_wen
  <2> QED
    BY <1>7, <1>9, <2>3, <2>4
<1> QED
  BY <1>8, <1>9

\* When the pipeline advances MEM takes what leaves EX.
LEMMA MemAdvance ==
  ASSUME NEW in, NEW irsp, Edge(in, irsp), ~stall_wb_ex(in)
  PROVE  /\ flush_mem(in) => mem' = MemEmpty
         /\ ~flush_mem(in) =>
              /\ mem'.wen = rd_wen(in) /\ mem'.req = mem_req(in) /\ mem'.load = (op = "load")
              /\ rd_wen(in) => mem'.rd = ex.inst.rd /\ MemValue' = rd_data(in)
              /\ ~rd_wen(in) => mem'.rd = 0
              /\ mem_req(in) => port'.slave = ex.inst.slave /\ (in.hit => port'.fast)
         /\ wb' = [wen |-> mem.wen, rd |-> mem.rd, data |-> IF mem.wen THEN MemValue ELSE 0]
         /\ regs' = IF wb.wen /\ wb.rd # 0 THEN [regs EXCEPT ![wb.rd] = wb.data] ELSE regs
<1>0. PipeInv /\ Inputs(in) /\ LsuStep(in) /\ WbuStep(in)
  BY DEF Edge, Cycle
<1>a. StageTypes /\ Bubbles /\ Ownership
  BY <1>0 DEF PipeInv
<1>1. ls_shake(in) <=> mem_req(in) /\ ~flush_mem(in)
  BY <1>0, Signals DEF Edge
<1>2. ~data_stall(in)
  BY DEF stall_wb_ex
<1>3. mem' = IF flush_mem(in) THEN MemEmpty
             ELSE [wen |-> rd_wen(in), rd |-> IF rd_wen(in) THEN ex.inst.rd ELSE 0,
                   req |-> mem_req(in), load |-> op = "load",
                   data |-> IF rd_wen(in) THEN rd_data(in) ELSE 0]
  BY <1>0, Zenon DEF LsuStep
<1>4. ls_shake(in) => port' = [slave |-> ex.inst.slave, data |-> in.val,
                               fast |-> ex.inst.slave = "clt" \/ in.hit]
  BY <1>0, Zenon DEF LsuStep
<1>5. ~data_shake_done'
  BY <1>0, Zenon DEF LsuStep
<1>6. ~flush_mem(in) /\ rd_wen(in) => MemValue' = rd_data(in)
  <2> SUFFICES ASSUME ~flush_mem(in), rd_wen(in) PROVE MemValue' = rd_data(in)
    BY Zenon
  <2>1. mem'.req = mem_req(in) /\ mem'.data = rd_data(in)
    BY <1>3, Zenon DEF rd_wen
  <2>2. CASE mem_req(in)
    BY <1>1, <1>4, <1>5, <2>1, <2>2 DEF MemValue, rd_data, mem_req
  <2>3. CASE ~mem_req(in)
    BY <2>1, <2>3, Zenon DEF MemValue
  <2> QED
    BY <2>2, <2>3
<1>7. wb' = [wen |-> mem.wen, rd |-> mem.rd, data |-> IF mem.wen THEN MemValue ELSE 0]
  <2>1. (IF mem.req THEN mem.load ELSE mem.wen) = mem.wen
    BY <1>a DEF Bubbles
  <2>2. mem_data(in.drsp) = MemValue
    BY <1>0, <1>2, MemData, Zenon
  <2> QED
    BY <1>0, <2>1, <2>2 DEF WbuStep
<1>8. regs' = IF wb.wen /\ wb.rd # 0 THEN [regs EXCEPT ![wb.rd] = wb.data] ELSE regs
  BY <1>0, Zenon DEF WbuStep
<1>9. ~flush_mem(in) /\ mem_req(in) => port'.slave = ex.inst.slave /\ (in.hit => port'.fast)
  <2>1. in.hit \in BOOLEAN
    BY <1>0, <1>a, InputTypes, Zenon
  <2> QED
    BY <1>1, <1>4, <2>1
<1>10. ~flush_mem(in) =>
         /\ mem'.wen = rd_wen(in) /\ mem'.req = mem_req(in) /\ mem'.load = (op = "load")
         /\ rd_wen(in) => mem'.rd = ex.inst.rd
         /\ ~rd_wen(in) => mem'.rd = 0
  BY <1>3, Zenon DEF rd_wen, mem_req
<1> QED
  BY <1>3, <1>6, <1>7, <1>8, <1>9, <1>10, Zenon

\* No clock edge loses a result between EX and the register file.
LEMMA ResultsKept ==
  ASSUME NEW in, NEW irsp, Edge(in, irsp)
  PROVE  ResultsArrive'
<1>0. PipeInv /\ Inputs(in) /\ WbuStep(in)
  BY DEF Edge, Cycle
<1>a. StageTypes
  BY <1>0 DEF PipeInv
<1>1. \A r \in Regs : arf[r] = Held(r)
  BY <1>0, ResultsHeld DEF PipeInv
<1>2. arf' = IF ~stall_wb_ex(in) /\ ex.inst.rd # 0 /\ rd_wen(in)
             THEN [arf EXCEPT ![ex.inst.rd] = rd_data(in)] ELSE arf
  BY ArfStep, ZenonT(30)
<1>3. CASE stall_wb_ex(in)
  <2>1. mem' = mem /\ MemValue' = MemValue
    BY <1>3, MemoryStep, Zenon
  <2>2. wb' = wb /\ regs' = regs
    BY <1>0, <1>3, Zenon DEF WbuStep
  <2> QED
    BY <1>1, <1>2, <1>3, <2>1, <2>2 DEF ResultsArrive, Held, MemValue
<1>4. CASE ~stall_wb_ex(in)
  <2> SUFFICES ASSUME NEW r \in Regs PROVE arf'[r] = Held(r)'
    BY DEF ResultsArrive, Held, MemValue
  <2>1. r # 0 /\ arf[r] = Held(r)
    BY <1>1, ValsAssumption
  <2>2. flush_mem(in) => ~rd_wen(in)
    BY <1>0, Writer DEF flush_mem
  <2>3. CASE rd_wen(in) /\ ex.inst.rd = r
    <3>1. arf'[r] = rd_data(in)
      BY <1>a, <1>2, <1>4, <2>1, <2>3, Zenon DEF StageTypes
    <3>2. mem'.wen /\ mem'.rd = r /\ MemValue' = rd_data(in)
      BY <1>4, <2>2, <2>3, MemAdvance
    <3> QED
      BY <3>1, <3>2 DEF Held
  <2>4. CASE ~(rd_wen(in) /\ ex.inst.rd = r)
    <3>1. arf'[r] = arf[r]
      BY <1>0, <1>a, <1>2, <1>4, <2>1, <2>4, Writer, Zenon DEF StageTypes
    <3>2. ~(mem'.wen /\ mem'.rd = r)
      BY <1>4, <2>1, <2>2, <2>4, MemAdvance DEF MemEmpty
    <3>3. wb' = [wen |-> mem.wen, rd |-> mem.rd, data |-> IF mem.wen THEN MemValue ELSE 0]
      BY <1>4, MemAdvance, Zenon
    <3>4. regs'[r] = IF wb.wen /\ wb.rd = r THEN wb.data ELSE regs[r]
      BY <1>a, <1>4, <2>1, MemAdvance, ZenonT(30) DEF StageTypes, RegIdx
    <3> QED
      BY <2>1, <3>1, <3>2, <3>3, <3>4, Zenon DEF Held
  <2> QED
    BY <2>3, <2>4, Zenon
<1> QED
  BY <1>3, <1>4

\* Decode reads the value the instructions ahead of it leave, unless it needs
\* the result of a load or multiplication in EX.
LEMMA Reads ==
  ASSUME NEW in, NEW irsp, Edge(in, irsp), ~stall_wb_ex(in), NEW r \in RegIdx,
         ~(r # 0 /\ rd_wen(in) /\ exu_load /\ ex.inst.rd = r)
  PROVE  rf_data(r, in) = Arf(r)' /\ rf_data(r, in) \in Vals
<1>0. PipeInv /\ Inputs(in) /\ ~data_stall(in)
  BY Zenon DEF Edge, stall_wb_ex
<1>a. StageTypes
  BY <1>0, Zenon DEF PipeInv
<1>1. CASE r = 0
  BY <1>1, ValsAssumption, Zenon DEF rf_data, Arf
<1>2. CASE r # 0
  <2>0. r \in Regs
    BY <1>2, Zenon DEF RegIdx
  <2>1. CASE rd_wen(in) /\ ex.inst.rd = r
    <3>1. rf_data(r, in) = rd_data(in)
      BY <1>2, <2>1 DEF rf_data
    <3>2. arf'[r] = rd_data(in)
      BY <1>a, <1>2, <2>0, <2>1, ArfStep DEF StageTypes
    <3> QED
      BY <1>0, <1>a, <1>2, <3>1, <3>2, ResultType, Zenon DEF Arf
  <2>2. CASE ~(rd_wen(in) /\ ex.inst.rd = r)
    <3>1. rf_data(r, in) = Held(r)
      BY <1>0, <1>2, <2>2, MemData, Zenon DEF rf_data, Held
    <3>2. arf'[r] = arf[r]
      BY <1>0, <1>a, <1>2, <2>0, <2>2, ArfStep, Writer, Zenon DEF StageTypes
    <3>3. arf[r] = Held(r) /\ arf[r] \in Vals
      BY <1>0, <1>a, <2>0, ResultsHeld DEF PipeInv, StageTypes
    <3> QED
      BY <1>2, <3>1, <3>2, <3>3, Zenon DEF Arf
  <2> QED
    BY <2>1, <2>2
<1> QED
  BY <1>1, <1>2, Zenon

\* EX is emptied, held, or takes what decode holds and reads.
LEMMA ExuAdvance ==
  ASSUME NEW in, NEW irsp, Edge(in, irsp)
  PROVE  /\ flush_ex(in) => ex' = ExEmpty
         /\ ~flush_ex(in) /\ stall_wb_ex(in) => ex' = ex /\ stall_id(in) /\ ~flush_id(in)
         /\ ~flush_ex(in) /\ ~stall_wb_ex(in) =>
              /\ ex'.pc = id.pc /\ ex'.inst = id.inst /\ ex'.pt = id.pt
              /\ ex'.rs1 = IF use_rs1(id.inst) THEN rf_data(id.inst.rs1, in) ELSE 0
              /\ ex'.rs2 = IF use_rs2(id.inst) THEN rf_data(id.inst.rs2, in) ELSE 0
              /\ ~stall_id(in) /\ ~flush_id(in) /\ ~flush_mem(in) /\ ~exu_flush(in)
              /\ load_use_hazard(in) => in.hit
<1>1. ExuStep(in)
  BY DEF Edge, Cycle
<1>2. stall_wb_ex(in) => stall_id(in)
  BY DEF stall_id
<1>3. ~flush_ex(in) => ~flush_id(in) /\ ~intr_flush(in) /\ (~idu_stall(in) \/ data_stall(in))
                       /\ (~exu_flush(in) \/ data_stall(in))
  BY Zenon DEF flush_ex, flush_id
<1>4. data_stall(in) => stall_wb_ex(in)
  BY DEF stall_wb_ex
<1> QED
  BY <1>1, <1>2, <1>3, <1>4, Zenon DEF ExuStep, stall_id, flush_mem, idu_stall

\* The operand for register r that goes to EX with an instruction is the
\* architectural value, or a load that hits brings it in the next cycle.
LEMMA OperandTaken ==
  ASSUME NEW in, NEW irsp, Edge(in, irsp), ~flush_ex(in), ~stall_wb_ex(in), NEW r \in RegIdx,
         (use_rs1(id.inst) /\ id.inst.rs1 = r) \/ (use_rs2(id.inst) /\ id.inst.rs2 = r)
  PROVE  IF mem'.req /\ mem'.load /\ mem'.rd # 0 /\ mem'.rd = r
         THEN port'.fast ELSE rf_data(r, in) = Arf(r)' /\ rf_data(r, in) \in Vals
<1>0. PipeInv /\ Inputs(in) /\ Situations = {}
  BY Zenon DEF Edge
<1>1. ~flush_mem(in) /\ (load_use_hazard(in) => in.hit)
  BY ExuAdvance, ZenonT(30)
<1>2. /\ mem'.wen = rd_wen(in) /\ mem'.req = mem_req(in) /\ mem'.load = (op = "load")
      /\ rd_wen(in) => mem'.rd = ex.inst.rd
      /\ ~rd_wen(in) => mem'.rd = 0
      /\ mem_req(in) => (in.hit => port'.fast)
  BY <1>1, MemAdvance, Zenon
<1>3. CASE r # 0 /\ rd_wen(in) /\ exu_load /\ ex.inst.rd = r
  <2>1. in.hit /\ op = "load"
    BY <1>0, <1>1, <1>3, Signals, Zenon DEF load_use_hazard
  <2>2. mem_req(in)
    BY <1>3, <2>1, Zenon DEF mem_req, rd_wen
  <2> QED
    BY <1>2, <1>3, <2>1, <2>2, Zenon
<1>4. CASE ~(r # 0 /\ rd_wen(in) /\ exu_load /\ ex.inst.rd = r)
  <2>1. rf_data(r, in) = Arf(r)' /\ rf_data(r, in) \in Vals
    BY <1>4, Reads, Zenon
  <2>2. ~(mem'.req /\ mem'.load /\ mem'.rd # 0 /\ mem'.rd = r)
    BY <1>2, <1>4, Zenon DEF exu_load
  <2> QED
    BY <2>1, <2>2, ZenonT(30)
<1> QED
  BY <1>3, <1>4, Zenon

\* Operands in EX stay right while EX is held and are right when EX is filled.
LEMMA OperandsKept ==
  ASSUME NEW in, NEW irsp, Edge(in, irsp)
  PROVE  Operands'
<1>0. PipeInv
  BY DEF Edge
<1>a. StageTypes /\ Bubbles /\ Operands
  BY <1>0 DEF PipeInv
<1>1. CASE flush_ex(in)
  <2>1. ex'.inst.op = "nop"
    BY <1>1, ExuAdvance, NopAssumption DEF ExEmpty
  <2> QED
    BY <2>1, ZenonT(30) DEF Operands, Operand, use_rs1, use_rs2
<1>2. CASE ~flush_ex(in) /\ stall_wb_ex(in)
  <2>1. ex' = ex /\ mem' = mem /\ (port' = port \/ port' = NoPort) /\ arf' = arf
    BY <1>2, ExuAdvance, MemoryStep, ArfStep, ZenonT(30)
  <2> QED
    BY <1>a, <2>1 DEF Operands, Operand, Arf, use_rs1, use_rs2
<1>3. CASE ~flush_ex(in) /\ ~stall_wb_ex(in)
  <2>1. /\ ex'.inst = id.inst
        /\ ex'.rs1 = IF use_rs1(id.inst) THEN rf_data(id.inst.rs1, in) ELSE 0
        /\ ex'.rs2 = IF use_rs2(id.inst) THEN rf_data(id.inst.rs2, in) ELSE 0
    BY <1>3, ExuAdvance, Zenon
  <2>2. use_rs1(id.inst) \/ use_rs2(id.inst) => id.inst.rs1 \in RegIdx /\ id.inst.rs2 \in RegIdx
    BY <1>a, StageInst, InstFacts, Zenon DEF use_rs1, use_rs2
  <2>3. ASSUME use_rs1(id.inst) PROVE Operand(use_rs1(ex.inst), ex.inst.rs1, ex.rs1)'
    <3>1. PICK r \in RegIdx : r = id.inst.rs1
      BY <2>2, <2>3, Zenon
    <3>2. IF mem'.req /\ mem'.load /\ mem'.rd # 0 /\ mem'.rd = r
          THEN port'.fast ELSE rf_data(r, in) = Arf(r)'
      BY <1>3, <2>3, <3>1, OperandTaken, Zenon
    <3> QED
      BY <2>1, <2>3, <3>1, <3>2, Zenon DEF Operand, Arf
  <2>4. ASSUME use_rs2(id.inst) PROVE Operand(use_rs2(ex.inst), ex.inst.rs2, ex.rs2)'
    <3>1. PICK r \in RegIdx : r = id.inst.rs2
      BY <2>2, <2>4, ZenonT(30)
    <3>2. IF mem'.req /\ mem'.load /\ mem'.rd # 0 /\ mem'.rd = r
          THEN port'.fast ELSE rf_data(r, in) = Arf(r)'
      BY <1>3, <2>4, <3>1, OperandTaken
    <3> QED
      BY <2>1, <2>4, <3>1, <3>2 DEF Operand, Arf
  <2> QED
    BY <2>1, <2>3, <2>4 DEF Operands, Operand, use_rs1, use_rs2
<1> QED
  BY <1>1, <1>2, <1>3

\* Traps, returns and CSR instructions change the CSRs as the program says.
LEMMA CsrsKept ==
  ASSUME NEW in, NEW irsp, Edge(in, irsp)
  PROVE  Csrs' /\ mie' \in BOOLEAN /\ mpie' \in BOOLEAN /\ mepc' \in PCs
         /\ acsr' \in [mie : BOOLEAN, mpie : BOOLEAN, mepc : PCs]
<1>0. PipeInv /\ Inputs(in) /\ Situations = {} /\ CsrStep(in) /\ ArchStep(in)
  BY DEF Edge, Cycle
<1>a. StageTypes /\ Bubbles /\ Csrs /\ Stream /\ Operands /\ Pairs
  BY <1>0 DEF PipeInv
<1>b. LastPc \in PCs
  BY LastPcAssumption DEF PCs
<1>1. /\ async_intr(in) => ex.pc # 0 /\ op \notin {"div", "mret"}
      /\ op = "mstatus" => ~stall_wb_ex(in)
  BY <1>0, Signals, Zenon
<1>2. op # "nop" => ex.inst \in Insts /\ ex.pc \in PCs /\ ex.pc # 0
  BY <1>a, StageInst
<1>3. ex.pc # 0 => ex.pc = apc
  BY <1>a DEF Stream
<1>4. CASE async_intr(in) \/ op = "ecall"
  <2>1. ex.pc = apc /\ apc \in PCs /\ op # "mret" /\ (async_intr(in) \/ Retires(in))
    BY <1>a, <1>1, <1>2, <1>3, <1>4 DEF Retires, StageTypes
  <2>2. mie' = FALSE /\ mpie' = mie /\ mepc' = ex.pc
    BY <1>0, <1>a, <1>4, <2>1, Zenon DEF CsrStep, intr_flush, StageTypes
  <2>3. acsr' = [mie |-> FALSE, mpie |-> acsr.mie, mepc |-> apc]
    BY <1>0, <1>4, <2>1, Zenon DEF ArchStep
  <2> QED
    BY <1>a, <2>1, <2>2, <2>3, Zenon DEF Csrs, StageTypes
<1>5. CASE ~async_intr(in) /\ op = "mret"
  <2>1. Retires(in)
    BY <1>2, <1>5 DEF Retires
  <2>2. mie' = mpie /\ mpie' = TRUE /\ mepc' = LastPc
    BY <1>0, <1>a, <1>5, Zenon DEF CsrStep, intr_flush, StageTypes
  <2>3. acsr' = [mie |-> acsr.mpie, mpie |-> TRUE, mepc |-> LastPc]
    BY <1>0, <1>5, <2>1 DEF ArchStep
  <2> QED
    BY <1>a, <1>b, <2>2, <2>3 DEF Csrs, StageTypes
<1>6. CASE ~intr_flush(in)
  <2>0. ~async_intr(in) /\ op \notin {"ecall", "mret"}
    BY <1>6 DEF intr_flush
  <2>1. CASE op = "mstatus"
    <3>1. Retires(in)
      BY <1>1, <1>2, <2>0, <2>1, Zenon DEF Retires
    <3>2. alu_rs1(in.drsp) = Arf(ex.inst.rs1)
      BY <1>a, <2>1 DEF alu_rs1, load_bypass_vld, Operands, Operand, use_rs1, Pairs, op
    <3>3. acsr' = [acsr EXCEPT !.mie = (Arf(ex.inst.rs1) = 1), !.mpie = (Arf(ex.inst.rs1) = 1)]
      BY <1>0, <2>0, <2>1, <3>1, ZenonT(30) DEF ArchStep
    <3>4. mie' = (Arf(ex.inst.rs1) = 1) /\ mpie' = (Arf(ex.inst.rs1) = 1) /\ mepc' = mepc
      BY <1>0, <1>6, <2>1, <3>2, Zenon DEF CsrStep
    <3> QED
      BY <1>a, <2>1, <3>3, <3>4, ZenonT(30) DEF Csrs, StageTypes
  <2>2. CASE op = "mepc"
    <3>1. mie' = mie /\ mpie' = mpie /\ mepc' = ex.inst.tgt /\ ex.inst.tgt \in PCs
      BY <1>0, <1>2, <1>6, <2>2, InstFacts, Zenon DEF CsrStep
    <3>2. CASE Retires(in)
      <4>1. acsr' = [acsr EXCEPT !.mepc = ex.inst.tgt]
        BY <1>0, <2>0, <2>2, <3>2, Zenon DEF ArchStep
      <4> QED
        BY <1>a, <3>1, <4>1 DEF Csrs, StageTypes
    <3>3. CASE ~Retires(in)
      <4>1. acsr' = acsr
        BY <1>0, <2>0, <2>2, <3>3 DEF ArchStep
      <4>2. stall_wb_ex(in)
        BY <1>2, <2>0, <2>2, <3>3, ZenonT(30) DEF Retires
      <4>3. ~flush_ex(in)
        BY <1>6, <2>2, <4>2, Zenon DEF flush_ex, flush_id, exu_flush, idu_stall, load_use_hazard, exu_load
      <4>4. ex' = ex
        BY <4>2, <4>3, ExuAdvance, Zenon
      <4> QED
        BY <1>a, <2>2, <3>1, <4>1, <4>4 DEF Csrs, StageTypes, op
    <3> QED
      BY <3>2, <3>3, ZenonT(30)
  <2>3. CASE op \notin {"mstatus", "mepc"}
    <3>1. mie' = mie /\ mpie' = mpie /\ mepc' = mepc
      BY <1>0, <1>6, <2>3, Zenon DEF CsrStep
    <3>2. acsr' = acsr
      BY <1>0, <2>0, <2>3, Zenon DEF ArchStep
    <3> QED
      BY <1>a, <2>3, <3>1, <3>2, ZenonT(30) DEF Csrs, StageTypes
  <2> QED
    BY <2>1, <2>2, <2>3
<1> QED
  BY <1>4, <1>5, <1>6 DEF intr_flush

\* A bubble carries no prediction.
LEMMA EmptyPredicted == Predicted(IdEmpty) /\ Predicted(ExEmpty)
BY NopAssumption DEF Predicted, IdEmpty, ExEmpty

\* An instruction that leaves EX without a flush is followed by what is behind it.
LEMMA Successor ==
  ASSUME NEW in, NEW irsp, Edge(in, irsp), ~flush_id(in), ~stall_wb_ex(in)
  PROVE  apc' = Youngest
<1>0. PipeInv /\ Inputs(in) /\ ArchStep(in)
  BY DEF Edge, Cycle
<1>a. StageTypes /\ Bubbles /\ Stream
  BY <1>0 DEF PipeInv
<1>1. ~async_intr(in) /\ op \notin {"ecall", "mret"} /\ ~exu_flush(in)
  BY DEF flush_id, intr_flush, stall_wb_ex
<1>2. CASE ex.pc = 0
  BY <1>0, <1>a, <1>1, <1>2 DEF ArchStep, Retires, Stream
<1>3. CASE ex.pc # 0
  <2>1. Retires(in) /\ ex.pc = apc /\ Follows(ex, Youngest) /\ Predicted(ex)
    BY <1>a, <1>1, <1>3 DEF Retires, Stream
  <2>2. CASE op = "jalr"
    <3>1. in.jtgt = id.pc /\ in.jtgt \in PCs
      BY <1>0, <1>a, <1>1, <2>2, InputTypes DEF exu_flush
    <3>2. Youngest = in.jtgt
      BY <3>1, LastPcAssumption DEF Youngest, PCs
    <3> QED
      BY <1>0, <1>1, <2>1, <2>2, <3>2, ZenonT(30) DEF ArchStep
  <2>3. CASE op = "jal"
    BY <1>0, <1>1, <2>1, <2>3 DEF ArchStep, Follows, Predicted, op
  <2>4. CASE op = "bxx"
    <3>1. in.taken = ex.pt
      BY <1>1, <2>4 DEF exu_flush
    <3> QED
      BY <1>0, <1>1, <2>1, <2>4, <3>1, Zenon DEF ArchStep, Follows, op
  <2>5. CASE op \notin {"jalr", "jal", "bxx"}
    BY <1>0, <1>1, <2>1, <2>5 DEF ArchStep, Follows, Predicted, op
  <2> QED
    BY <2>2, <2>3, <2>4, <2>5
<1> QED
  BY <1>2, <1>3

\* Over a clock edge the stages keep holding the predicted stream: flushed, held,
\* with a bubble after a load-use stall, or advanced by one stage.
LEMMA StreamKept ==
  ASSUME NEW in, NEW irsp, Edge(in, irsp)
  PROVE  Stream'
<1>0. PipeInv /\ Inputs(in) /\ Situations = {} /\ ArchStep(in)
  BY DEF Edge, Cycle
<1>a. StageTypes /\ Stream /\ IfuInv
  BY <1>0 DEF PipeInv
<1>b. want \in PCs /\ want # 0
  BY <1>a, LastPcAssumption DEF IfuInv, IfuTypeOK, PCs
<1>1. CASE flush_id(in)
  <2>1. id' = IdEmpty /\ want' = apc'
    BY <1>1, Fetches, Redirected
  <2>2. ex' = ExEmpty
    BY <1>1, ExuAdvance, Zenon DEF flush_ex
  <2>3. ex'.pc = 0 /\ id'.pc = 0
    BY <2>1, <2>2, ZenonT(30) DEF IdEmpty, ExEmpty
  <2> QED
    BY <2>1, <2>2, <2>3, EmptyPredicted DEF Stream, Youngest
<1>2. CASE ~flush_id(in) /\ stall_wb_ex(in)
  <2>1. ~flush_ex(in) /\ stall_id(in)
    BY <1>0, <1>2, Signals DEF flush_ex, stall_id
  <2>2. ex' = ex /\ id' = id /\ want' = want
    BY <1>2, <2>1, Fetches, ExuAdvance, Zenon
  <2>3. apc' = apc
    BY <1>0, <1>2, ZenonT(30) DEF ArchStep, Retires, flush_id, intr_flush
  <2> QED
    BY <1>a, <2>2, <2>3 DEF Stream, Youngest, Follows, Predicted, pc_inc4
<1>3. CASE ~flush_id(in) /\ ~stall_wb_ex(in) /\ idu_stall(in)
  <2>1. ex' = ExEmpty
    BY <1>3, ExuAdvance, Zenon DEF flush_ex, stall_wb_ex
  <2>2. id' = id /\ want' = want
    BY <1>3, Fetches DEF stall_id
  <2>3. apc' = Youngest
    BY <1>3, Successor
  <2>4. ex'.pc = 0 /\ Predicted(ex')
    BY <2>1, EmptyPredicted DEF ExEmpty
  <2> QED
    BY <1>a, <2>2, <2>3, <2>4 DEF Stream, Youngest, Follows, Predicted, pc_inc4
<1>4. CASE ~flush_id(in) /\ ~stall_wb_ex(in) /\ ~idu_stall(in)
  <2>1. ~flush_ex(in) /\ ~stall_id(in)
    BY <1>4 DEF flush_ex, stall_id
  <2>2. ex'.pc = id.pc /\ ex'.inst = id.inst /\ ex'.pt = id.pt
    BY <1>4, <2>1, ExuAdvance, Zenon
  <2>3. (id' = IdEmpty /\ want' = want) \/ Delivered
    BY <1>4, <2>1, Fetches
  <2>4. apc' = Youngest
    BY <1>4, Successor
  <2>5. Youngest' = want /\ Predicted(id') /\ (id'.pc # 0 => Follows(id', want'))
    <3>1. CASE id' = IdEmpty /\ want' = want
      BY <3>1, NopAssumption DEF Youngest, IdEmpty, Predicted
    <3>2. CASE Delivered
      BY <1>b, <3>2, Zenon DEF Delivered, Youngest
    <3> QED
      BY <2>3, <3>1, <3>2
  <2>6. Predicted(ex')
    BY <1>a, <2>2, Zenon DEF Stream, Predicted
  <2>7. CASE id.pc # 0
    <3>1. ex'.pc = apc' /\ Follows(ex', want)
      BY <1>a, <2>2, <2>4, <2>7, ZenonT(30) DEF Stream, Youngest, Follows
    <3> QED
      BY <2>2, <2>5, <2>6, <2>7, <3>1, Zenon DEF Stream
  <2>8. CASE id.pc = 0
    BY <2>2, <2>4, <2>5, <2>6, <2>8 DEF Stream, Youngest
  <2> QED
    BY <2>7, <2>8
<1> QED
  BY <1>1, <1>2, <1>3, <1>4

\* Adjacent instructions stay a pair that software may write.
LEMMA PairsKept ==
  ASSUME NEW in, NEW irsp, Edge(in, irsp)
  PROVE  Pairs'
<1>0. PipeInv /\ Inputs(in) /\ Situations = {}
  BY DEF Edge
<1>a. StageTypes /\ Bubbles /\ Pairs
  BY <1>0 DEF PipeInv
<1>1. data_stall_vld' => ~Avoided(id'.inst, inst_of_stall')
  BY Fetches, Zenon
<1>2. CASE flush_ex(in)
  <2>1. ex'.inst = NoInst /\ NoInst.op = "nop"
    <3>1. ex' = ExEmpty
      BY <1>2, ExuAdvance, Zenon
    <3> QED
      BY ONLY <3>1, NopAssumption DEF ExEmpty
  <2> QED
    BY <1>1, <2>1, ZenonT(30) DEF Pairs, Avoided, op
<1>3. CASE ~flush_ex(in) /\ stall_wb_ex(in)
  <2>1. ex' = ex /\ id' = id
    BY <1>3, ExuAdvance, Fetches, Zenon
  <2>2. mem' = mem /\ (port' = port \/ port' = NoPort)
    BY <1>3, MemoryStep, Zenon
  <2> QED
    BY <1>a, <1>1, <2>1, <2>2 DEF Pairs, op
<1>4. CASE ~flush_ex(in) /\ ~stall_wb_ex(in)
  <2>1. ex'.inst = id.inst /\ ~stall_id(in) /\ ~flush_id(in) /\ ~flush_mem(in)
    BY <1>4, ExuAdvance, Zenon
  <2>2. id' = IdEmpty \/ Delivered
    BY <2>1, Fetches
  <2>3. ~Avoided(ex'.inst, id'.inst)
    <3>1. IdEmpty.inst = NoInst
      BY ONLY TRUE DEF IdEmpty
    <3>2. CASE id' = IdEmpty
      BY <3>1, <3>2, NopAssumption, Zenon DEF Avoided
    <3>3. CASE Delivered
      BY <2>1, <3>3, Zenon DEF Delivered
    <3> QED
      BY <2>2, <3>2, <3>3, Zenon
  <2>4. /\ mem'.req = mem_req(in)
        /\ mem_req(in) => port'.slave = ex.inst.slave /\ op \in {"load", "store"}
    BY <1>4, <2>1, MemAdvance, Zenon DEF mem_req
  <2>5. mem'.req => op' # "mstatus"
    BY <1>0, <1>a, <2>1, <2>4, ZenonT(30) DEF Pairs, Avoided, op
  <2>6. port' # NoPort => mem'.req
    BY MemoryStep DEF Ownership
  <2>7. port' # NoPort /\ op' = "load" /\ ex'.inst.rd # 0 /\ ex'.inst.slave # "mem"
          => ex'.inst.slave # port'.slave
    BY <1>0, <1>a, <2>1, <2>4, <2>6, Zenon DEF Pairs, Avoided, op
  <2> QED
    BY <1>1, <2>3, <2>5, <2>7, Zenon DEF Pairs
<1> QED
  BY <1>2, <1>3, <1>4

\* Stages are emptied as a whole and filled as a whole.
LEMMA BubblesKept ==
  ASSUME NEW in, NEW irsp, Edge(in, irsp)
  PROVE  Bubbles'
<1>0. PipeInv
  BY DEF Edge
<1>a. Bubbles /\ IfuInv
  BY <1>0, ZenonT(30) DEF PipeInv
<1>1. /\ data_stall_vld' => inst_of_stall' # NoInst
      /\ port' = NoPort <=> port'.slave = "none"
      /\ mem'.req => mem'.wen = mem'.load
  BY Fetches, MemoryStep
<1>2. id' = IdEmpty \/ id' = id \/ Delivered
  BY Fetches
<1>3. Delivered => id'.pc # 0 /\ id'.inst # NoInst
  BY <1>a, InstFacts, LastPcAssumption DEF Delivered, IfuInv, IfuTypeOK, PCs
<1>4. id'.pc = 0 <=> id'.inst = NoInst
  BY <1>a, <1>2, <1>3 DEF IdEmpty, Bubbles
<1>5. ex' = ExEmpty \/ ex' = ex \/ (ex'.pc = id.pc /\ ex'.inst = id.inst)
  BY ExuAdvance, Zenon
<1>6. ex'.pc = 0 <=> ex'.inst = NoInst
  BY <1>a, <1>5 DEF ExEmpty, Bubbles
<1> QED
  BY <1>1, <1>4, <1>6 DEF Bubbles

\* The stage registers keep their types.
LEMMA TypesKept ==
  ASSUME NEW in, NEW irsp, Edge(in, irsp)
  PROVE  StageTypes'
<1>0. PipeInv /\ Inputs(in) /\ Situations = {} /\ ExuStep(in) /\ LsuStep(in) /\ WbuStep(in)
      /\ ArchStep(in)
  BY DEF Edge, Cycle
<1>a. StageTypes /\ Bubbles /\ IfuInv
  BY <1>0 DEF PipeInv
<1>b. 0 \in Vals /\ 0 \in RegIdx /\ 0 \in PcOrNone /\ NoInst \in InstOrNop
  BY ValsAssumption, Zenon DEF RegIdx, PcOrNone, InstOrNop
<1>1. id' \in [pc : PcOrNone, inst : InstOrNop, pt : BOOLEAN]
  <2>1. IdEmpty \in [pc : PcOrNone, inst : InstOrNop, pt : BOOLEAN]
    BY <1>b, Zenon DEF IdEmpty
  <2>2. Delivered => id' \in [pc : PcOrNone, inst : InstOrNop, pt : BOOLEAN]
    BY <1>a DEF Delivered, IfuInv, IfuTypeOK, PcOrNone, InstOrNop
  <2> QED
    BY <1>a, <2>1, <2>2, Fetches DEF StageTypes
<1>2. ex' \in [pc : PcOrNone, inst : InstOrNop, pt : BOOLEAN, rs1 : Vals, rs2 : Vals]
  <2>1. CASE flush_ex(in)
    <3>1. ex' = ExEmpty
      BY <2>1, ExuAdvance, Zenon
    <3> QED
      BY <1>b, <3>1 DEF ExEmpty
  <2>2. CASE ~flush_ex(in) /\ stall_wb_ex(in)
    BY <1>a, <2>2, ExuAdvance, ZenonT(30) DEF StageTypes
  <2>3. CASE ~flush_ex(in) /\ ~stall_wb_ex(in)
    <3>1. use_rs1(id.inst) \/ use_rs2(id.inst) => id.inst.rs1 \in RegIdx /\ id.inst.rs2 \in RegIdx
      BY <1>a, StageInst, InstFacts, Zenon DEF use_rs1, use_rs2
    <3>2. \A r \in RegIdx : rf_data(r, in) \in Vals
      <4> SUFFICES ASSUME NEW r \in RegIdx PROVE rf_data(r, in) \in Vals
        OBVIOUS
      <4>1. ~data_stall(in)
        BY <2>3 DEF stall_wb_ex
      <4>2. mem_data(in.drsp) \in Vals
        BY <1>0, <1>a, <4>1, MemData, MemValueType
      <4>3. rd_data(in) \in Vals
        BY <1>0, <1>a, ResultType
      <4> QED
        BY <1>a, <1>b, <4>2, <4>3 DEF rf_data, StageTypes, RegIdx
    <3> QED
      BY <1>0, <1>a, <1>b, <2>3, <3>1, <3>2 DEF ExuStep, StageTypes
  <2> QED
    BY <2>1, <2>2, <2>3, Zenon
<1>3. mem' \in [wen : BOOLEAN, rd : RegIdx, req : BOOLEAN, load : BOOLEAN, data : Vals]
  <2>1. rd_wen(in) \in BOOLEAN /\ mem_req(in) \in BOOLEAN
    BY DEF rd_wen, mem_req
  <2>2. rd_wen(in) => ex.inst.rd \in RegIdx /\ rd_data(in) \in Vals
    BY <1>0, <1>a, Writer, ResultType
  <2> QED
    BY <1>0, <1>a, <1>b, <2>1, <2>2, Zenon DEF LsuStep, StageTypes, MemEmpty
<1>4. port' \in [slave : Slaves \cup {"none"}, data : Vals, fast : BOOLEAN]
  <2>1. ls_shake(in) => ex.inst.slave \in Slaves
    BY <1>a, StageInst, InstFacts DEF ls_shake, req_vld, mem_req
  <2>2. in.val \in Vals /\ in.hit \in BOOLEAN
    BY <1>0, <1>a, InputTypes
  <2> QED
    BY <1>0, <1>a, <1>b, <2>1, <2>2, Zenon DEF LsuStep, StageTypes, NoPort
<1>5. data_shake_done' \in BOOLEAN /\ rdata_r' \in Vals
  BY <1>0, <1>a, <1>b, Zenon DEF LsuStep, StageTypes
<1>6. wb' \in [wen : BOOLEAN, rd : RegIdx, data : Vals] /\ regs' \in [Regs -> Vals]
  <2>1. CASE stall_wb_ex(in)
    BY <1>0, <1>a, <2>1, ZenonT(30) DEF WbuStep, StageTypes
  <2>2. CASE ~stall_wb_ex(in)
    <3>1. MemValue \in Vals
      BY <1>a, MemValueType, Zenon
    <3> QED
      <4>1. /\ wb' = [wen |-> mem.wen, rd |-> mem.rd, data |-> IF mem.wen THEN MemValue ELSE 0]
            /\ regs' = IF wb.wen /\ wb.rd # 0 THEN [regs EXCEPT ![wb.rd] = wb.data] ELSE regs
        BY <2>2, MemAdvance, Zenon
      <4>2. /\ mem.wen \in BOOLEAN /\ mem.rd \in RegIdx /\ wb.data \in Vals /\ 0 \in Vals
            /\ regs \in [Regs -> Vals]
        BY <1>a, ValsAssumption, Zenon DEF StageTypes
      <4>3. wb' \in [wen : BOOLEAN, rd : RegIdx, data : Vals]
        BY ONLY <3>1, <4>1, <4>2
      <4>4. regs' \in [Regs -> Vals]
        BY <4>1, <4>2, Zenon
      <4> QED
        BY <4>3, <4>4, Zenon
  <2> QED
    BY <2>1, <2>2
<1>7. arf' \in [Regs -> Vals]
  BY <1>0, <1>a, ArfStep, ResultType DEF StageTypes
<1>8. apc' \in PCs
  <2>1. CASE flush_id(in)
    BY <2>1, Redirected
  <2>2. CASE ~flush_id(in) /\ stall_wb_ex(in)
    BY <1>0, <1>a, <2>2, Zenon DEF ArchStep, Retires, flush_id, intr_flush, StageTypes
  <2>3. CASE ~flush_id(in) /\ ~stall_wb_ex(in)
    BY <1>a, <2>3, Successor DEF Youngest, IfuInv, IfuTypeOK, StageTypes, PcOrNone
  <2> QED
    BY <2>1, <2>2, <2>3
<1> QED
  BY <1>1, <1>2, <1>3, <1>4, <1>5, <1>6, <1>7, <1>8, CsrsKept DEF StageTypes

-----------------------------------------------------------------------------
(* The invariant and what it gives.                                          *)

\* Reset leaves the pipeline empty, which satisfies the invariant.
LEMMA PipeInitInv == Init => PipeInv
<1> SUFFICES ASSUME Init PROVE PipeInv
  OBVIOUS
<1>a. 0 \in Vals /\ 0 \in RegIdx /\ 0 \in PcOrNone /\ NoInst \in InstOrNop /\ 1 \in PCs /\ LastPc \in PCs
  BY ValsAssumption, LastPcAssumption DEF RegIdx, PcOrNone, InstOrNop, PCs
<1>1. IfuInv
  BY IfuInitInv DEF Init
<1>2. StageTypes
  BY <1>a, ZenonT(30) DEF Init, StageTypes, IdEmpty, ExEmpty, MemEmpty, NoPort, WbEmpty
<1>3. Bubbles
  BY Zenon DEF Init, IfuInit, Bubbles, IdEmpty, ExEmpty, MemEmpty, NoPort
<1>4. Stream
  BY EmptyPredicted, ZenonT(30) DEF Init, IfuInit, Stream, Youngest, IdEmpty, ExEmpty
<1>5. Ownership /\ ResultsArrive
  BY DEF Init, Ownership, ResultsArrive, MemEmpty, WbEmpty
<1>6. Operands /\ Csrs /\ Pairs
  BY NopAssumption, Zenon DEF Init, IfuInit, Operands, Operand, use_rs1, use_rs2, Csrs, Pairs, Avoided,
     ExEmpty, IdEmpty, op, MemEmpty
<1> QED
  BY <1>1, <1>2, <1>3, <1>4, <1>5, <1>6 DEF PipeInv

\* Every clock edge keeps the invariant.
LEMMA PipeStepInv == Situations = {} /\ PipeInv /\ [Next]_vars => PipeInv'
<1> SUFFICES ASSUME Situations = {}, PipeInv, [Next]_vars PROVE PipeInv'
  OBVIOUS
<1>1. CASE Next
  <2>1. PICK in, irsp : Inputs(in) /\ irsp \in IRsp /\ Cycle(in, irsp)
    BY <1>1, NextIsCycle
  <2>2. Edge(in, irsp)
    BY <2>1 DEF Edge
  <2>3. StageTypes' /\ Bubbles' /\ Stream' /\ ResultsArrive'
    BY <2>2, TypesKept, BubblesKept, StreamKept, ResultsKept
  <2>4. IfuInv' /\ Ownership' /\ Operands' /\ Csrs' /\ Pairs'
    BY <2>2, Fetches, MemoryStep, OperandsKept, CsrsKept, PairsKept, Zenon
  <2> QED
    BY <2>3, <2>4 DEF PipeInv
<1>2. CASE UNCHANGED vars
  <2> USE <1>2 DEF PipeInv, vars, ifuVars, coreVars, archVars
  <2>1. StageTypes'
    BY DEF StageTypes
  <2>2. IfuInv'
    BY Zenon DEF IfuInv, IfuTypeOK, PathInv, BufferMatchesPc, pc_inc4
  <2>3. Bubbles' /\ Ownership' /\ ResultsArrive'
    BY Zenon DEF Bubbles, Ownership, ResultsArrive
  <2>4. Stream'
    BY Zenon DEF Stream, Youngest, Follows, Predicted, pc_inc4
  <2>5. Operands'
    BY Zenon DEF Operands, Operand, Arf, use_rs1, use_rs2
  <2>6. Csrs' /\ Pairs'
    BY ZenonT(30) DEF Csrs, Pairs, op, Avoided
  <2> QED
    BY <2>1, <2>2, <2>3, <2>4, <2>5, <2>6, ZenonT(30)
<1> QED
  BY <1>1, <1>2

\* The invariant gives the properties of the pipeline.
LEMMA PipeInvImplies ==
  PipeInv => ControlFlow /\ OperandsFresh /\ ResultsArrive /\ AccessOwned /\ CsrCurrent
<1> SUFFICES ASSUME PipeInv
             PROVE  ControlFlow /\ OperandsFresh /\ ResultsArrive /\ AccessOwned /\ CsrCurrent
  OBVIOUS
<1>a. StageTypes /\ Stream /\ Ownership /\ Operands /\ Csrs /\ ResultsArrive
  BY DEF PipeInv
<1>1. ControlFlow
  BY <1>a DEF Stream, ControlFlow
<1>2. OperandsFresh
  <2> SUFFICES ASSUME NEW drsp \in DRsp
               PROVE  /\ use_rs1(ex.inst) => alu_rs1(drsp) = Arf(ex.inst.rs1)
                      /\ use_rs2(ex.inst) => alu_rs2(drsp) = Arf(ex.inst.rs2)
    BY DEF OperandsFresh
  <2>1. drsp \in BOOLEAN /\ (drsp => port # NoPort) /\ (port # NoPort /\ port.fast => drsp)
    BY Zenon DEF DRsp
  <2>2. ASSUME mem.req, mem.load, mem.rd # 0, port # NoPort => port.fast
        PROVE  load_bypass_vld(drsp) /\ (mem.wen => ls_rdata(drsp) = Arf(mem.rd))
    <3>1. CASE data_shake_done
      BY <1>a, <2>1, <2>2, <3>1 DEF load_bypass_vld, ls_rdata, Arf, ResultsArrive, StageTypes, RegIdx
    <3>2. CASE ~data_shake_done
      BY <1>a, <2>1, <2>2, <3>2, Zenon DEF load_bypass_vld, ls_rdata, Arf, ResultsArrive, StageTypes, RegIdx, Ownership
    <3> QED
      BY <3>1, <3>2, Zenon
  <2>3. mem.req => mem.wen = mem.load
    BY Zenon DEF PipeInv, Bubbles
  <2>4. use_rs1(ex.inst) => alu_rs1(drsp) = Arf(ex.inst.rs1)
    BY <1>a, <2>2, <2>3, Zenon DEF alu_rs1, Operands, Operand, load_bypass_vld
  <2>5. use_rs2(ex.inst) => alu_rs2(drsp) = Arf(ex.inst.rs2)
    BY <1>a, <2>2, <2>3, Zenon DEF alu_rs2, Operands, Operand, load_bypass_vld
  <2> QED
    BY <2>4, <2>5
<1>3. AccessOwned
  BY <1>a, Zenon DEF AccessOwned, Ownership, StageTypes
<1>4. CsrCurrent
  BY <1>a DEF CsrCurrent, Csrs, StageTypes
<1> QED
  BY <1>a, <1>1, <1>2, <1>3, <1>4

\* The invariant holds in every reachable state of the pipeline of
\* rv64im_core_core.sv, away from the known situations.
THEOREM PipelineInvariant ==
  ASSUME Situations = {}
  PROVE  Spec => []PipeInv
<1>1. PipeInv /\ [Next]_vars => PipeInv'
  BY PipeStepInv
<1> QED
  BY <1>1, PipeInitInv, PTL DEF Spec

\* Only the program's own instructions reach EX, each once and in order, whatever
\* was predicted, flushed (rv64im_core_pipe_ctrl.sv), stalled or interrupted.
THEOREM PipelineControlFlow ==
  ASSUME Situations = {}
  PROVE  Spec => []ControlFlow
BY PipelineInvariant, PipeInvImplies, PTL

\* The forwarding of rv64im_core_regfile.sv and the load bypass of
\* rv64im_core_exu.sv give every instruction in EX the values the preceding ones
\* left, in each cycle it spends there.
THEOREM PipelineOperandsFresh ==
  ASSUME Situations = {}
  PROVE  Spec => []OperandsFresh
BY PipelineInvariant, PipeInvImplies, PTL

\* No result is lost or overtaken between EX, MEM, WB and the register file,
\* whatever stalls and late answers come between.
THEOREM PipelineResultsArrive ==
  ASSUME Situations = {}
  PROVE  Spec => []ResultsArrive
BY PipelineInvariant, PipeInvImplies, PTL

\* Every access of the load/store unit belongs to the instruction in MEM; no trap or
\* flush orphans one and no answer is taken for another's.
THEOREM PipelineAccessOwned ==
  ASSUME Situations = {}
  PROVE  Spec => []AccessOwned
BY PipelineInvariant, PipeInvImplies, PTL

\* Traps, returns and CSR writes happen once and at their place in the program:
\* MIE, MPIE and mepc in EX are what the preceding instructions left.
THEOREM PipelineCsrCurrent ==
  ASSUME Situations = {}
  PROVE  Spec => []CsrCurrent
BY PipelineInvariant, PipeInvImplies, PTL
=============================================================================
