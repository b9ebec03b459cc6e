------------------------------- MODULE Clint -------------------------------
(***************************************************************************)
(* The core-local interruptor rtl/vsrc/bus/rv64im_core_clint.sv behind the *)
(* address decode: the timer, its compare value, the software interrupt    *)
(* and the port of the load/store unit.  A step is one clock edge.         *)
(* Registers have ClintBits bits, 64 in the code.                          *)
(***************************************************************************)
EXTENDS Integers

CONSTANT ClintBits

\* (2^n is a natural number for every n; the proof backends cannot tell.)
ASSUME ClintBitsAssumption == ClintBits \in Nat \ {0} /\ 2^ClintBits \in Nat \ {0}

VARIABLE clint   \* [mtime, mtimecmp, msip, rdata, cnt, due]; due is a history:
                 \* edges until the timer expires, counted from the last write

Times == 0 .. 2^ClintBits - 1
Regs  == {"msip", "mtimecmp", "mtime"}

NoReq == [addr |-> "none"]
Reqs  == [addr : Regs \cup {"other"}, wen : BOOLEAN, wdata : Times]

o_clt_req_rdy == clint.cnt = 0
o_clt_rsp_vld == clint.cnt = 1

\* Mutant: the interrupt comes an edge late.
Mut_o_clt_mtip == clint.mtime > clint.mtimecmp

o_clt_mtip == clint.mtime >= clint.mtimecmp

\* What the answer register takes with an access to a register; a write clears it.
rdata_next(q) == IF q.wen THEN 0 ELSE clint[q.addr]

writes(q, r) == q.addr = r /\ q.wen
increment(n) == (n + 1) % 2^ClintBits
left(time, cmp) == IF time >= cmp THEN 0 ELSE cmp - time

\* The write mask is not connected: a narrow store writes the whole register.
\* Accesses to other addresses are answered with what the register held.
ClintStep(q) ==
  LET time == IF writes(q, "mtime") THEN q.wdata ELSE increment(clint.mtime)
      cmp  == IF writes(q, "mtimecmp") THEN q.wdata ELSE clint.mtimecmp
      anew == writes(q, "mtime") \/ writes(q, "mtimecmp") \/ time = 0
  IN clint' =
       [mtime    |-> time,
        mtimecmp |-> cmp,
        msip     |-> IF writes(q, "msip") THEN q.wdata % 2 ELSE clint.msip,
        rdata    |-> IF q.addr \in Regs THEN rdata_next(q) ELSE clint.rdata,
        cnt      |-> IF q # NoReq THEN 1 ELSE 0,
        due      |-> IF anew THEN left(time, cmp)
                     ELSE IF clint.due = 0 THEN 0 ELSE clint.due - 1]

ClintInit ==
  clint = [mtime |-> 0, mtimecmp |-> 2^ClintBits - 1, msip |-> 0, rdata |-> 0, cnt |-> 0,
           due |-> 2^ClintBits - 1]

\* The load/store unit takes an answer in the cycle it is given.
ClintNext == \E q \in IF o_clt_req_rdy THEN Reqs \cup {NoReq} ELSE {NoReq} : ClintStep(q)

-----------------------------------------------------------------------------
\* The timer interrupt is raised exactly as many edges after the last write to
\* mtime or mtimecmp as the two were apart, holds until the next write (or until
\* mtime wraps), and no access to the port delays the timer.
TimerOnTime == o_clt_mtip <=> clint.due = 0
=============================================================================
