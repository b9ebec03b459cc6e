----------------------------- MODULE Simulator -----------------------------
(***************************************************************************)
(* The simulator (sim/csrc/sim_main.cpp, difftest.cpp): the loop that      *)
(* clocks the core and, at every write-back, steps a reference model and   *)
(* compares registers, and the exit status main (npc_main.cpp) makes of    *)
(* it.  The core appears as rv64im_core_sim_top.sv shows it: instructions  *)
(* leave EX in program order, pass MEM and WB, and the wrapper derives     *)
(* wb_sign, wb_intr and wb_device from their pcs.                          *)
(*                                                                         *)
(* A step of the loop is one action.  Programs are over a tiny             *)
(* architecture: pc, the exit code a0, one other register t, and mepc.     *)
(***************************************************************************)
EXTENDS Naturals

CONSTANTS Prog,       \* the program: an instruction for each pc
          mtvec,      \* pc of its interrupt handler
          TValues,    \* values of t: 0 .. TValues - 1
          MaxIntr     \* bound on interrupts

NoPc    == 99
Forever == 99

\* Programs stay in their code.  As in every program here the first write-backs
\* are not memory accesses: wb_start does not look at wb_wait, and the first
\* write-back is not compared.
ASSUME ProgAssumption ==
  /\ DOMAIN Prog \subseteq Nat \ {NoPc} /\ {0, 1, 2} \subseteq DOMAIN Prog
  /\ \A pc \in DOMAIN Prog : Prog[pc] \notin {"mret", "spin", "ebreak"} => pc + 1 \in DOMAIN Prog
  /\ {Prog[0], Prog[1], Prog[2]} \subseteq {"op", "ei"} /\ Prog[0] = "op" /\ Prog[1] = "op"

\* Interrupt handlers, as in tests/custom/timer128_interrupt_mret.S: entered by
\* interrupts alone, which their first instruction does not enable; mret is not
\* executed before the first interrupt; no ebreak at their start.
ASSUME HandlerAssumption ==
  /\ mtvec \in DOMAIN Prog /\ mtvec - 1 \in DOMAIN Prog
  /\ Prog[mtvec - 1] \in {"mret", "spin", "ebreak"}
  /\ Prog[mtvec] \notin {"mret", "spin", "ei", "ebreak"}
  /\ \A pc \in DOMAIN Prog : Prog[pc] = "mret" => pc >= mtvec

\* A result can be wrong.
ASSUME TValuesAssumption == TValues \in Nat \ {0, 1}

VARIABLES
  front,      \* state before the instruction in EX: [pc, a0, t, mepc, mie]
  mem, wbu,   \* instruction in MEM and in WB: [pc, inst, a0, t]; pc NoPc: none
  gpr,        \* the register file: [a0, t]
  wb_wait, wb_buff, intr_buff,
  cpu_state, difftest_error, wb_num, is_skip_ref,
  ref,        \* the reference's state
  left,       \* iterations of cpu_exec's loop still to do; Forever for c
  intrs, wrong, dev_intr   \* history: interrupts, pc of a wrong result, an
                           \* interrupt right after a device access

coreVars == <<front, mem, wbu, gpr, wb_wait, wb_buff, intr_buff, intrs, wrong, dev_intr>>
simVars  == <<coreVars, cpu_state, difftest_error, wb_num, is_skip_ref, ref, left>>

Bubble  == [pc |-> NoPc, inst |-> "none", a0 |-> 0, t |-> 0]
Reset   == [Bubble EXCEPT !.pc = 0]

-----------------------------------------------------------------------------
(* The architecture.  A device access leaves in t what the device answers.    *)

Exec(s, answer) ==
  LET next == [s EXCEPT !.pc = @ + 1]
  IN CASE Prog[s.pc] \in {"op", "ld"} -> [next EXCEPT !.t = (@ + 1) % TValues]
       [] Prog[s.pc] = "dev"   -> [next EXCEPT !.t = answer]
       [] Prog[s.pc] = "ei"    -> [next EXCEPT !.mie = TRUE]
       [] Prog[s.pc] = "check" -> [next EXCEPT !.a0 = IF s.t = 0 THEN 0 ELSE 1]
       [] Prog[s.pc] = "mret"  -> [s EXCEPT !.pc = s.mepc, !.mie = TRUE]
       [] Prog[s.pc] = "spin"  -> s
       [] OTHER -> next

Trap(s) == [s EXCEPT !.mepc = s.pc, !.pc = mtvec, !.mie = FALSE]

\* The reference has no devices: there a device access reads 0.
ref_difftest_exec(s) == Exec(s, 0)
ref_difftest_raise_intr(s) == Trap(s)

Start == [pc |-> 0, a0 |-> 0, t |-> 0, mepc |-> 0, mie |-> FALSE]

-----------------------------------------------------------------------------
(* What the wrapper shows.                                                    *)

wb_start  == mem.pc = 1
wb_sign   == wb_start \/ (wb_buff /\ wbu.pc # NoPc /\ ~wb_wait)
wb_intr   == intr_buff /\ wbu.pc = mtvec
wb_device == wbu.inst = "dev" /\ wbu.pc # NoPc
regs      == [a0 |-> gpr.a0, t |-> gpr.t, pc |-> wbu.pc]

\* Mutant: the ebreak is looked for in MEM, at a write-back.
Mut_is_ebreak == wb_sign /\ mem.inst = "ebreak"

is_ebreak == wbu.inst = "ebreak"

\* single_cycle: a clock edge.  EX holds an instruction or a bubble; async_intr
\* kills the instruction in EX, whose pc the wrapper clears but not its code;
\* the core may get one result wrong.  The write-back waits for a load or a
\* device in MEM; that it also waits for a division in EX, where wb_sign is low
\* for the same reason, is left out.
single_cycle(bubble, async_intr, answer, fault) ==
  LET s    == Exec(front, answer)
      done == IF fault THEN [s EXCEPT !.t = (@ + 1) % TValues] ELSE s
      goes == [pc |-> front.pc, inst |-> Prog[front.pc], a0 |-> done.a0, t |-> done.t]
  IN /\ async_intr => ~bubble /\ front.mie /\ intrs < MaxIntr
     /\ fault => wrong = NoPc /\ ~bubble /\ ~async_intr /\ ~wb_wait /\ Prog[front.pc] \in {"op", "ld"}
     /\ front' = IF async_intr THEN Trap(front)
                 ELSE IF bubble \/ wb_wait THEN front ELSE done
     /\ IF wb_wait THEN UNCHANGED <<mem, wbu, gpr>>
        ELSE /\ mem' = IF bubble THEN Bubble
                       ELSE [goes EXCEPT !.pc = IF async_intr THEN NoPc ELSE @]
             /\ wbu' = mem
             /\ gpr' = IF wbu.pc = NoPc THEN gpr ELSE [a0 |-> wbu.a0, t |-> wbu.t]
     /\ wb_wait' \in {w \in BOOLEAN : w => mem'.pc # NoPc /\ mem'.inst \in {"ld", "dev"}}
     /\ wb_buff' = (wb_buff \/ wb_start)
     /\ intr_buff' = (async_intr \/ (intr_buff /\ ~(wb_sign /\ wbu.pc = mtvec)))
     /\ intrs' = IF async_intr THEN intrs + 1 ELSE intrs
     /\ wrong' = IF fault THEN front.pc ELSE wrong
     /\ dev_intr' = (dev_intr \/ (async_intr /\ front.pc > 0 /\ Prog[front.pc - 1] = "dev"))

-----------------------------------------------------------------------------
(* The loop.                                                                  *)

\* regcpy copies registers and pc; mepc is the reference's own.
difftest_step(r) ==
  IF is_skip_ref THEN [r EXCEPT !.a0 = gpr.a0, !.t = gpr.t, !.pc = wbu.pc]
  ELSE ref_difftest_exec(r)

\* Mutant: the loop over the registers stops too early.
Mut_ref_difftest_checkregs(r) == r.a0 = gpr.a0 /\ r.pc = wbu.pc

ref_difftest_checkregs(r) == [a0 |-> r.a0, t |-> r.t, pc |-> r.pc] = regs

\* Mutant: the interrupt is injected before the last instruction ahead of it.
Mut_AfterStep == difftest_step(IF wb_intr THEN ref_difftest_raise_intr(ref) ELSE ref)

AfterStep ==
  LET r == difftest_step(ref) IN IF wb_intr THEN ref_difftest_raise_intr(r) ELSE r

compares == wb_sign /\ wb_num # 0

difftest_check(r) == ~ref_difftest_checkregs(r)   \* sets difftest_error

exec_once ==
  /\ ref' = IF compares THEN AfterStep ELSE ref
  /\ difftest_error' = (difftest_error \/ (compares /\ difftest_check(ref')))
  /\ is_skip_ref' = IF compares THEN wb_device ELSE is_skip_ref
  /\ wb_num' = IF wb_sign THEN 1 ELSE wb_num   \* 1 for "not 0"

\* cpu_exec: refuses to run a program that has stopped, else starts the loop.
refuses == cpu_state \in {"ABORT", "QUIT", "END"}

cpu_exec(n) ==
  /\ left' = IF refuses THEN 0 ELSE n
  /\ UNCHANGED <<coreVars, cpu_state, difftest_error, wb_num, is_skip_ref, ref>>

\* q makes the loop of commands end as soon as cpu_exec has returned.
quit ==
  /\ cpu_state' = "QUIT" /\ left' = 0
  /\ UNCHANGED <<coreVars, difftest_error, wb_num, is_skip_ref, ref>>

\* One iteration.  An ebreak in WB ends the program whatever exec_once found.
Iterate ==
  /\ left # 0
  /\ IF difftest_error
     THEN left' = 0 /\ UNCHANGED <<coreVars, cpu_state, difftest_error, wb_num, is_skip_ref, ref>>
     ELSE /\ exec_once
          /\ IF is_ebreak
             THEN cpu_state' = "END" /\ left' = 0 /\ UNCHANGED coreVars
             ELSE /\ cpu_state' = IF difftest_error' THEN "ABORT" ELSE cpu_state
                  /\ left' = IF left = Forever THEN Forever ELSE left - 1
                  /\ \E bubble, async_intr, fault \in BOOLEAN, answer \in 0 .. TValues - 1 :
                       single_cycle(bubble, async_intr, answer, fault)

is_exit_status_bad == ~((cpu_state = "END" /\ gpr.a0 = 0) \/ cpu_state = "QUIT")

\* main's return value.  The statuses of the monitors a build may have come
\* first; each is 0 in a build without it.
main(monitor_status, loaduse_p1_status, dependency_status) ==
  CASE monitor_status # 0 -> monitor_status
    [] monitor_status = 0 /\ loaduse_p1_status # 0 -> loaduse_p1_status
    [] monitor_status = 0 /\ loaduse_p1_status = 0 /\ dependency_status # 0 -> dependency_status
    [] OTHER -> IF is_exit_status_bad THEN 1 ELSE 0

init_difftest == ref = Start   \* the core's registers after reset

SimInit ==
  /\ front = Start /\ mem = Reset /\ wbu = Reset /\ gpr = [a0 |-> 0, t |-> 0]
  /\ wb_wait = FALSE /\ wb_buff = FALSE /\ intr_buff = FALSE
  /\ cpu_state = "RUNNING" /\ difftest_error = FALSE /\ wb_num = 0 /\ is_skip_ref = FALSE
  /\ init_difftest /\ left = 0 /\ intrs = 0 /\ wrong = NoPc /\ dev_intr = FALSE

\* The simulator under every sequence of commands.
SimNext == (\E n \in Nat : cpu_exec(n)) \/ quit \/ Iterate
SimSpec == SimInit /\ [][SimNext]_simVars

-----------------------------------------------------------------------------
\* The comparison does not cry wolf: a core that computes everything right is
\* never reported, through stalls, bubbles, interrupts and device accesses
\* with answers the reference cannot know.  An interrupt right after a device
\* access is left out: there the reference is given the pc of the handler
\* first and takes it for the interrupted pc.
NoFalseAlarm == wrong = NoPc /\ ~dev_intr => ~difftest_error

\* A run that returns 0 and was not quit has been compared with the reference
\* instruction by instruction: the core computed everything right, but for
\* the instruction before the ebreak, whose mismatch the ebreak covers up, and
\* one behind it.
GoodMeansRight ==
  (cpu_state # "QUIT" /\ \E m, l, d \in 0 .. 1 : main(m, l, d) = 0) =>
    wrong = NoPc \/ Prog[wrong + 1] = "ebreak" \/ wrong = mem.pc
=============================================================================
