----------------------------- MODULE MCPipeline -----------------------------
(***************************************************************************)
(* Instances of Pipeline for TLC.  One general register besides x0 and two *)
(* values show every stale, lost or misdirected operand, because the       *)
(* pipeline moves values without looking at them.                          *)
(***************************************************************************)
EXTENDS Pipeline

I(o, d, s1, s2, t, k) ==
  [op |-> o, rd |-> d, rs1 |-> s1, rs2 |-> s2, tgt |-> t, slave |-> k]

\* Bitwise or on the addresses 1 .. 3.
MCOr(a, b) == IF a = b THEN a ELSE 3

MCNop == I("nop", 0, 0, 0, 1, "mem")

Alu(d, s)     == I("alu", d, s, 0, 1, "mem")
Load(d, k)    == I("load", d, 0, 0, 1, k)
Store(s, k)   == I("store", 0, 0, s, 1, k)
Mul           == I("mul", 1, 0, 1, 1, "mem")
Div           == I("div", 1, 1, 1, 1, "mem")
Branch(t)     == I("bxx", 0, 1, 0, t, "mem")
Jal(t)        == I("jal", 1, 0, 0, t, "mem")
Jalr          == I("jalr", 1, 1, 0, 1, "mem")
Sys(o)        == I(o, 0, 0, 0, 1, "mem")
SetStatus     == I("mstatus", 1, 1, 0, 1, "mem")
SetMepc(t)    == I("mepc", 0, 0, 0, t, "mem")

\* Straight-line code with cached and uncached accesses.
DataInsts ==
  {Alu(1, 1), Mul, Div, Load(0, "mem"), Load(1, "mem"), Store(1, "mem"),
   Load(1, "dev"), Store(0, "dev"), Load(1, "clt"), Store(1, "clt")}

\* Predicted branches and jumps whose operands come from loads.
JumpInsts == {Branch(2), Jal(4), Jalr, Load(0, "mem"), Load(1, "mem"), Alu(0, 1)}

\* Traps, interrupts and writes of mstatus and mepc among loads and branches.
TrapInsts ==
  {Sys("ecall"), Sys("mret"), SetStatus, SetMepc(1), Load(1, "mem"), Branch(2)}

\* Every unit that can keep the pipeline waiting.
LiveInsts == {Load(1, "mem"), Store(1, "dev"), I("div", 0, 1, 0, 1, "mem")}

\* Three of the situations the runs above leave out, one each.
MulHitInsts      == {Mul, Alu(1, 1)}
UncachedUseInsts == {Load(1, "dev"), Alu(1, 1)}
IrqDivInsts      == {Div, Alu(1, 1), SetStatus}
=============================================================================
