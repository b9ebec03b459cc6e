------------------------------ MODULE Pipeline ------------------------------
(***************************************************************************)
(* The five-stage pipeline of rtl/vsrc/core/rv64im_core_core.sv: fetch     *)
(* (Ifu), decode and register file, execute with divider, CSRs and         *)
(* interrupt control, load/store unit, write-back, and the stall and flush *)
(* network of rv64im_core_pipe_ctrl.sv, together with the I-cache and the  *)
(* data slaves as far as their ports show.  A step is one clock edge.      *)
(*                                                                         *)
(* Values are abstracted to Vals: what a unit computes, what memory holds, *)
(* where a jump goes and whether a branch is taken are inputs of the cycle *)
(* in which the instruction leaves the execute stage.  Whether the         *)
(* operands were right is the subject of OperandsFresh.  The architectural *)
(* state apc, arf, acsr is history: it is what the instructions executed   *)
(* so far, one after the other, make of pc, registers and CSRs.            *)
(* Data registers are 0 while nothing can read them.                       *)
(***************************************************************************)
EXTENDS Ifu

CONSTANTS
  Regs,      \* general registers other than x0
  Vals,      \* register values; 0 and 1 are among them
  Mtvec,     \* the trap handler
  AddrOr(_, _), \* bitwise or of two addresses
  Situations \* what software and the outside may do, see Avoided and Irq below

Slaves   == {"mem", "clt", "dev"}   \* D-cache, CLINT, bus devices
RegIdx   == {0} \cup Regs
ExuOps   == {"alu", "load", "store", "mul", "div", "bxx", "jal", "jalr",
             "mstatus", "mepc", "ecall", "mret"}
Inst == [op : ExuOps, rd : RegIdx, rs1 : RegIdx, rs2 : RegIdx, tgt : PCs, slave : Slaves]

ASSUME InstAssumption == Insts \subseteq Inst
ASSUME NopAssumption  == NoInst.op = "nop"
ASSUME ValsAssumption == {0, 1} \subseteq Vals /\ 0 \notin Regs
ASSUME MtvecAssumption == Mtvec \in PCs /\ \A a, b \in PCs : AddrOr(a, b) \in PCs
ASSUME SituationsAssumption ==
  Situations \subseteq {"mul_hit", "uncached_use", "irq_div", "irq_mret", "csr_hold"}

VARIABLES
  id,              \* IF/ID register: [pc, inst, pt]
  ex,              \* ID/EX register: [pc, inst, pt, rs1, rs2]
  div,             \* divider: "idle", "busy" or "ready"
  mem,             \* EX/MEM register: [wen, rd, req, load, data]
  port,            \* access outstanding at a slave: [slave, data, fast] or NoPort
  data_shake_done, rdata_r,      \* an answer that arrived during a stall
  wb,              \* MEM/WB register: [wen, rd, data]
  regs,
  mie, mpie, mepc, \* mstatus.MIE, mstatus.MPIE and mepc
  apc, arf, acsr   \* history: architectural pc, registers and CSRs

coreVars == <<id, ex, div, mem, port, data_shake_done, rdata_r, wb, regs, mie, mpie, mepc>>
archVars == <<apc, arf, acsr>>
vars == <<ifuVars, coreVars, archVars>>

NoPort   == [slave |-> "none", data |-> 0, fast |-> FALSE]
IdEmpty  == [pc |-> 0, inst |-> NoInst, pt |-> FALSE]
ExEmpty  == [pc |-> 0, inst |-> NoInst, pt |-> FALSE, rs1 |-> 0, rs2 |-> 0]
MemEmpty == [wen |-> FALSE, rd |-> 0, req |-> FALSE, load |-> FALSE, data |-> 0]
WbEmpty  == [wen |-> FALSE, rd |-> 0, data |-> 0]

op == ex.inst.op

use_rs1(i) == i.op \in {"alu", "load", "store", "mul", "div", "bxx", "jalr", "mstatus"}
use_rs2(i) == i.op \in {"alu", "store", "mul", "div", "bxx"}

-----------------------------------------------------------------------------
(* Combinational signals.  `in' is the record of a cycle's inputs other than  *)
(* those of fetch: drsp (the data slave answers), hit (i_lsu_req_hit), fin    *)
(* (the last cycle of a division), irq (an enabled interrupt source), val (a  *)
(* result), taken and jtgt (outcome of a branch).                             *)

\* Mutant: an interrupt does not wait while a bubble is executed.
Mut_async_intr(in) == in.irq /\ mie

\* Interrupt control: an interrupt waits while a bubble is executed.
async_intr(in) == in.irq /\ mie /\ ex.pc # 0

\* Mutant: an mret redirects without a flush.
Mut_intr_flush(in) == async_intr(in) \/ op = "ecall"

intr_flush(in) == async_intr(in) \/ op \in {"ecall", "mret"}

\* The flush of the execute stage resets the divider within the cycle.
div_ack(in) == div = "ready" /\ ~intr_flush(in)

\* Load/store unit, address and data phase.
mem_req(in) == op \in {"load", "store"} /\ ~async_intr(in)

\* Mutant: stores are not waited for.
Mut_data_stall(in) == mem.req /\ mem.load /\ port # NoPort /\ ~in.drsp

data_stall(in) == mem.req /\ port # NoPort /\ ~in.drsp

\* Mutant: an interrupt also empties MEM while it waits for memory.
Mut_flush_mem(in) == intr_flush(in)

flush_mem(in)   == intr_flush(in) /\ ~data_stall(in)

\* A data slave takes the next access in the cycle in which it answers if it is
\* the D-cache, and only afterwards if it is the CLINT or the bus bridge.
req_rdy(in) ==
  port.slave = ex.inst.slave => port.slave = "mem" /\ in.drsp

req_vld(in)    == mem_req(in) /\ ~data_stall(in) /\ ~flush_mem(in)
addr_stall(in) == req_vld(in) /\ ~req_rdy(in)
ls_shake(in)   == req_vld(in) /\ req_rdy(in)

\* What the execute stage tells decode about the register it writes.
rd_wen(in) ==
  /\ op \in {"alu", "jal", "jalr", "mstatus", "load", "mul"} \/ (op = "div" /\ div_ack(in))
  /\ ~async_intr(in)
exu_load == op \in {"load", "mul"}
rd_data(in) == IF op = "mstatus" THEN IF mie THEN 1 ELSE 0 ELSE in.val

\* Mutant: the second source register is not compared.
Mut_load_use_hazard(in) ==
  /\ rd_wen(in) /\ exu_load /\ ex.inst.rd # 0
  /\ use_rs1(id.inst) /\ id.inst.rs1 = ex.inst.rd

load_use_hazard(in) ==
  /\ rd_wen(in) /\ exu_load /\ ex.inst.rd # 0
  /\ \/ use_rs1(id.inst) /\ id.inst.rs1 = ex.inst.rd
     \/ use_rs2(id.inst) /\ id.inst.rs2 = ex.inst.rd

\* Decode does not wait for a load that hits: its data are bypassed into EX.
idu_stall(in) == load_use_hazard(in) /\ ~in.hit

\* Branches.  A jalr is checked against the instruction that follows it.
exu_flush(in) ==
  \/ op = "bxx" /\ in.taken # ex.pt
  \/ op = "jalr" /\ in.jtgt # id.pc
jump_addr(in) ==
  IF op = "jalr" THEN in.jtgt
  ELSE IF ex.pt THEN pc_inc4(ex.pc) ELSE ex.inst.tgt

\* The stall and flush network: stall_wb_ex freezes all five stages, stall_id
\* fetch and decode; the flushes empty IF and ID, EX, and MEM.
exu_stall(in)   == (op = "div" /\ ~div_ack(in)) \/ addr_stall(in)
stall_wb_ex(in) == exu_stall(in) \/ data_stall(in)

\* Mutant: decode moves on although execute takes a bubble.
Mut_stall_id(in) == stall_wb_ex(in)

stall_id(in)    == stall_wb_ex(in) \/ idu_stall(in)

\* Mutant: a mispredicted branch flushes although memory stalls it.
Mut_flush_id(in) == intr_flush(in) \/ exu_flush(in)

flush_id(in)    == intr_flush(in) \/ (exu_flush(in) /\ ~data_stall(in))
flush_ex(in)    == flush_id(in) \/ (idu_stall(in) /\ ~data_stall(in))

\* The trap handler and the return address are or-ed together.
intr_addr(in) ==
  IF op # "mret" THEN Mtvec
  ELSE IF async_intr(in) THEN AddrOr(Mtvec, mepc) ELSE mepc
redirect(in) == IF intr_flush(in) THEN intr_addr(in) ELSE jump_addr(in)

\* Mutant: an answer that arrived during a stall is not kept.
Mut_ls_rdata(drsp) == IF drsp THEN port.data ELSE 1 - port.data

\* Load data: the bus carries a wrong value while no slave answers.
ls_rdata(drsp) ==
  IF data_shake_done THEN rdata_r
  ELSE IF drsp THEN port.data ELSE 1 - port.data
mem_data(drsp) == IF mem.req THEN ls_rdata(drsp) ELSE mem.data

load_bypass_vld(drsp) == mem.req /\ mem.load /\ (drsp \/ data_shake_done)

\* Mutant: no bypass.
Mut_alu_rs1(drsp) == ex.rs1

\* Operands as the execute stage sees them.
alu_rs1(drsp) ==
  IF load_bypass_vld(drsp) /\ mem.rd # 0 /\ use_rs1(ex.inst) /\ ex.inst.rs1 = mem.rd
  THEN ls_rdata(drsp) ELSE ex.rs1
alu_rs2(drsp) ==
  IF load_bypass_vld(drsp) /\ mem.rd # 0 /\ use_rs2(ex.inst) /\ ex.inst.rs2 = mem.rd
  THEN ls_rdata(drsp) ELSE ex.rs2

\* The register file read by decode, with forwarding from EX, MEM and WB.
rf_data(r, in) ==
  IF r = 0 THEN 0
  ELSE IF rd_wen(in) /\ ~exu_load /\ ex.inst.rd = r THEN rd_data(in)
  ELSE IF mem.wen /\ mem.rd = r THEN mem_data(in.drsp)
  ELSE IF wb.wen /\ wb.rd = r THEN wb.data
  ELSE regs[r]

-----------------------------------------------------------------------------
(* The registers of each stage.                                              *)

\* Decode takes instruction i, fetched from pc_d and predicted as pt.
IduStep(pc_d, i, st, fl, pt) ==
  id' = IF fl THEN IdEmpty
        ELSE IF st THEN id
        ELSE [pc |-> pc_d, inst |-> i, pt |-> dirbrn_pt(i, pt)]

\* Mutant: the divider returns to idle without an acknowledge.
Mut_DivStep(in) ==
  div' = IF flush_ex(in) \/ op # "div" \/ (div = "busy" /\ in.fin) THEN "idle" ELSE "busy"

DivStep(in) ==
  div' = IF flush_ex(in) \/ op # "div" THEN "idle"
         ELSE CASE div = "idle"  -> "busy"
                [] div = "busy"  -> IF in.fin THEN "ready" ELSE "busy"
                [] div = "ready" -> IF stall_wb_ex(in) THEN "ready" ELSE "idle"

ExuStep(in) ==
  /\ ex' = IF flush_ex(in) THEN ExEmpty
           ELSE IF stall_wb_ex(in) THEN ex
           ELSE [pc |-> id.pc, inst |-> id.inst, pt |-> id.pt,
                 rs1 |-> IF use_rs1(id.inst) THEN rf_data(id.inst.rs1, in) ELSE 0,
                 rs2 |-> IF use_rs2(id.inst) THEN rf_data(id.inst.rs2, in) ELSE 0]
  /\ DivStep(in)

LsuStep(in) ==
  LET st  == stall_wb_ex(in)
      wen == rd_wen(in)
  IN /\ mem' = IF flush_mem(in) THEN MemEmpty
               ELSE IF st THEN mem
               ELSE [wen |-> wen, rd |-> IF wen THEN ex.inst.rd ELSE 0,
                     req |-> mem_req(in), load |-> op = "load",
                     data |-> IF wen THEN rd_data(in) ELSE 0]
     /\ port' = IF ls_shake(in)
                THEN [slave |-> ex.inst.slave, data |-> in.val,
                      fast |-> ex.inst.slave = "clt" \/ in.hit]
                ELSE IF in.drsp THEN NoPort ELSE port
     /\ data_shake_done' = (st /\ (in.drsp \/ data_shake_done))
     /\ rdata_r' = IF ~data_shake_done' THEN 0 ELSE IF in.drsp THEN port.data ELSE rdata_r

WbuStep(in) ==
  LET st  == stall_wb_ex(in)
      wen == IF mem.req THEN mem.load ELSE mem.wen
  IN /\ wb' = IF st THEN wb
              ELSE [wen |-> wen, rd |-> mem.rd, data |-> IF wen THEN mem_data(in.drsp) ELSE 0]
     /\ regs' = IF wb.wen /\ wb.rd # 0 /\ ~st
                THEN [regs EXCEPT ![wb.rd] = wb.data] ELSE regs

\* mstatus and mepc.  A trap takes precedence over the CSR instruction it
\* interrupts; the write of a CSR instruction is not held back by a stall.
CsrStep(in) ==
  IF intr_flush(in)
  THEN LET trap == async_intr(in) \/ op = "ecall"
       IN /\ mie'  = (op = "mret" /\ mpie)
          /\ mpie' = (op = "mret" \/ mie)
          /\ mepc' = IF trap THEN ex.pc ELSE LastPc
  ELSE /\ mie'  = IF op = "mstatus" THEN alu_rs1(in.drsp) = 1 ELSE mie
       /\ mpie' = IF op = "mstatus" THEN alu_rs1(in.drsp) = 1 ELSE mpie
       /\ mepc' = IF op = "mepc" THEN ex.inst.tgt ELSE mepc

Arf(r) == IF r = 0 THEN 0 ELSE arf[r]

\* What the program means: instructions execute one at a time, when they leave
\* the execute stage; an interrupt is taken instead of an instruction.
Retires(in) ==
  ex.pc # 0 /\ ~async_intr(in) /\ (op \in {"ecall", "mret"} \/ ~stall_wb_ex(in))

ArchStep(in) ==
  LET irq     == async_intr(in)
      retires == Retires(in)
  IN /\ apc' = IF irq THEN Mtvec
               ELSE IF ~retires THEN apc
               ELSE CASE op = "ecall" -> Mtvec
                      [] op = "mret"  -> acsr.mepc
                      [] op = "jalr"  -> in.jtgt
                      [] op = "jal" \/ (op = "bxx" /\ in.taken) -> ex.inst.tgt
                      [] OTHER -> pc_inc4(apc)
     /\ arf' = IF retires /\ ex.inst.rd # 0 /\ rd_wen(in)
               THEN [arf EXCEPT ![ex.inst.rd] =
                       IF op = "mstatus" THEN IF acsr.mie THEN 1 ELSE 0 ELSE in.val]
               ELSE arf
     /\ acsr' = IF irq \/ (retires /\ op = "ecall")
                THEN [mie |-> FALSE, mpie |-> acsr.mie, mepc |-> apc]
                ELSE IF ~retires THEN acsr
                ELSE CASE op = "mret" -> [mie |-> acsr.mpie, mpie |-> TRUE, mepc |-> LastPc]
                       [] op = "mstatus" -> LET b == Arf(ex.inst.rs1) = 1
                                            IN [acsr EXCEPT !.mie = b, !.mpie = b]
                       [] op = "mepc" -> [acsr EXCEPT !.mepc = ex.inst.tgt]
                       [] OTHER -> acsr

-----------------------------------------------------------------------------
(* Inputs.  Each set offers more than one value only where the cycle depends *)
(* on it.                                                                    *)

\* Pairs of adjacent instructions software avoids unless Situations says
\* otherwise: a load from an uncached slave after an access to the same slave,
\* and a CSR instruction after a memory access.
Avoided(first, second) ==
  /\ first.op \in {"load", "store"}
  /\ \/ /\ "uncached_use" \notin Situations
        /\ second.op = "load" /\ second.rd # 0
        /\ second.slave # "mem" /\ second.slave = first.slave
     \/ "csr_hold" \notin Situations /\ second.op = "mstatus"

\* Nothing reads what the I-cache answers in the cycle of a flush.
Fetched(irsp, fl) ==
  IF irsp /\ ~fl THEN {i \in Insts : ~Avoided(id.inst, i)} ELSE {NoInst}

DRsp == IF port = NoPort THEN {FALSE} ELSE IF port.fast THEN {TRUE} ELSE BOOLEAN

\* i_lsu_req_hit: the tag comparison of a D-cache that is ready, on the address
\* adder's output, which for a multiply is its first operand.
Hit(drsp) ==
  IF \/ op \in {"load", "store"} /\ ex.inst.slave = "mem"
     \/ op = "mul" /\ "mul_hit" \in Situations
  THEN IF port.slave = "mem" /\ ~drsp THEN {FALSE} ELSE BOOLEAN
  ELSE {FALSE}

Irq ==
  IF /\ mie
     /\ op = "div" => "irq_div" \in Situations
     /\ op = "mret" => "irq_mret" \in Situations
  THEN BOOLEAN ELSE {FALSE}

\* Nothing reads the result of an instruction that memory or the divider holds.
Results(drsp) ==
  IF /\ op \in {"alu", "load", "mul", "div", "jal", "jalr"} /\ ex.inst.rd # 0
     /\ port = NoPort \/ drsp
     /\ op = "div" => div = "ready"
  THEN Vals ELSE {0}

\* Fetch and decode (irsp, rdata, pt and ret are as in Ifu).  The predictors are
\* asked about the instruction that goes to decode.
FetchDecode(in, irsp) ==
  \E st \in {stall_id(in)}, fl \in {flush_id(in)} :
  \E rdata \in Fetched(irsp, fl) :
  \E i \in {o_if_inst(irsp, rdata, st, fl)} :
  \E pt \in (IF i.op = "bxx" THEN BOOLEAN ELSE {FALSE}),
     ret \in (IF i.op = "jalr" THEN {0} \cup PCs ELSE {0}) :
    /\ IfuStep(irsp, rdata, st, fl, redirect(in), pt, ret)
    /\ IduStep(o_if_pc(irsp, st, fl), i, st, fl, pt)

Cycle(in, irsp) ==
  /\ ExuStep(in) /\ LsuStep(in) /\ WbuStep(in) /\ CsrStep(in)
  /\ ArchStep(in)
  /\ FetchDecode(in, irsp)

\* A cycle in which the I-cache, the data slave and the divider may finish if
\* the parameters say so.
Clock(irsps, drsps, fins) ==
  \E irsp \in irsps, drsp \in drsps, fin \in fins, irq \in Irq,
     taken \in (IF op = "bxx" THEN BOOLEAN ELSE {FALSE}),
     jtgt \in (IF op = "jalr" THEN PCs ELSE {0}) :
  \E hit \in Hit(drsp), val \in Results(drsp) :
    Cycle([drsp |-> drsp, hit |-> hit, fin |-> fin, irq |-> irq, val |-> val,
           taken |-> taken, jtgt |-> jtgt], irsp)

IRsp == IF rsp_rdy THEN BOOLEAN ELSE {FALSE}
Fin  == IF div = "busy" THEN BOOLEAN ELSE {FALSE}

Init ==
  /\ IfuInit
  /\ id = IdEmpty /\ ex = ExEmpty /\ div = "idle"
  /\ mem = MemEmpty /\ port = NoPort /\ data_shake_done = FALSE /\ rdata_r = 0
  /\ wb = WbEmpty /\ regs = [r \in Regs |-> 0]
  /\ mie = FALSE /\ mpie = FALSE /\ mepc = LastPc
  /\ apc = 1 /\ arf = [r \in Regs |-> 0]
  /\ acsr = [mie |-> FALSE, mpie |-> FALSE, mepc |-> LastPc]

Next == Clock(IRsp, DRsp, Fin)

Spec == Init /\ [][Next]_vars

\* The clock runs, and the I-cache, the data slaves and the divider finish what
\* they were asked to do.
FairSpec ==
  /\ Spec
  /\ WF_vars(rsp_rdy /\ Clock({TRUE}, DRsp, Fin))
  /\ WF_vars(port # NoPort /\ Clock(IRsp, {TRUE}, Fin))
  /\ WF_vars(div = "busy" /\ Clock(IRsp, DRsp, {TRUE}))
  /\ WF_vars(Next)

-----------------------------------------------------------------------------
(* Properties.                                                               *)

\* Only the program's own instructions execute, each once and in order: the
\* instruction in EX is the one the program executes next, whatever was
\* predicted, flushed, stalled or interrupted before it.
ControlFlow == ex.pc # 0 => ex.pc = apc

\* Forwarding and the load bypass are exact: in every cycle an instruction spends
\* in EX (the divider reads its operands in the first, most others in the last)
\* its operands are the values the preceding instructions left.
OperandsFresh ==
  ex.pc # 0 => \A drsp \in DRsp :
    /\ use_rs1(ex.inst) => alu_rs1(drsp) = Arf(ex.inst.rs1)
    /\ use_rs2(ex.inst) => alu_rs2(drsp) = Arf(ex.inst.rs2)

\* No result is lost or overtaken on its way to the register file: the youngest
\* of MEM, WB and the register file holds the architectural value.
ResultsArrive ==
  \A r \in Regs :
    arf[r] = IF mem.wen /\ mem.rd = r
             THEN IF ~mem.req THEN mem.data
                  ELSE IF data_shake_done THEN rdata_r ELSE port.data
             ELSE IF wb.wen /\ wb.rd = r THEN wb.data ELSE regs[r]

\* Every access belongs to the instruction in MEM: it is outstanding at a slave,
\* or answered and waiting for the end of a stall, never both and never orphaned.
AccessOwned == mem.req <=> ((port # NoPort) # data_shake_done)

\* Traps are precise and CSR writes happen once: every instruction in EX finds
\* MIE, MPIE and mepc as the preceding instructions, interrupts and returns left
\* them; in particular mepc is the address of the instruction an interrupt came
\* before.  (A write of mepc that is held repeats itself and is left out.)
CsrCurrent ==
  ex.pc # 0 /\ op # "mepc" => acsr = [mie |-> mie, mpie |-> mpie, mepc |-> mepc]

\* The pipeline never wedges: the instruction next in program order is executed.
\* (For programs without jumps to themselves.)
Progress == \A p \in PCs : (apc = p) ~> (apc # p)
=============================================================================
