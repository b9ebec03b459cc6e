--------------------------- MODULE SimulatorProofs ---------------------------
(***************************************************************************)
(* Proofs about the differential test, for every program and handler,      *)
(* however the core stalls and is interrupted: it never reports a right    *)
(* core, and a run that ends with status 0 had a right core.               *)
(*                                                                         *)
(* SimInv, for the first, relates the reference to the core through the    *)
(* instructions in flight: the state after the last write-back, followed   *)
(* by the instructions in WB and MEM, is the state before the one in EX.   *)
(* GoodInv, for the second, follows a wrong result from MEM through WB and *)
(* the register file to the comparison that finds it.                      *)
(***************************************************************************)
EXTENDS Simulator, TLAPS

\* Addresses of the program, values of t and states of the architecture.
Pcs    == DOMAIN Prog
Vals   == 0 .. TValues - 1
States == [pc : Nat, a0 : {0, 1}, t : Vals, mepc : Nat, mie : BOOLEAN]

-----------------------------------------------------------------------------
(* Instructions in flight.                                                    *)

\* State before the instruction at pc, which follows state s: interrupts, and
\* nothing else, lead to mtvec.
Enter(s, pc) == IF pc = mtvec THEN Trap(s) ELSE s

\* State after x, the content of a stage, when s is the state before; was a
\* device access the last instruction?
Past(s, x)    == IF x.pc = NoPc THEN s ELSE Exec(Enter(s, x.pc), x.t)
PastDev(d, x) == IF x.pc = NoPc THEN d ELSE x.inst = "dev"

\* The instruction at pc can follow state s, and a device access if d.
Link(s, d, pc) == IF pc = mtvec THEN s.mie /\ ~d ELSE s.pc = pc

\* x is the instruction after state s, with its right result.
Right(s, d, x) ==
  x.pc # NoPc =>
    /\ x.pc \in Pcs /\ x.inst = Prog[x.pc] /\ x.t \in Vals /\ Link(s, d, x.pc)
    /\ x.a0 = Past(s, x).a0 /\ x.t = Past(s, x).t

\* State after the last write-back, from the reference's state r before it, the
\* registers g and whether it was a device access.
Retired(r, g, d) ==
  IF d THEN [r EXCEPT !.a0 = g.a0, !.t = g.t, !.pc = @ + 1] ELSE Exec(r, 0)

\* Nothing behind an ebreak is ever compared.
Ends(x) == x.inst = "ebreak"

\* The code s is in: only a program that has been interrupted executes mret, and
\* it does not return to its first instructions or to the start of its handler.
InCode(s) ==
  /\ s \in States /\ s.pc \in Pcs /\ s.mepc \in Pcs /\ s.pc >= 2
  /\ s.mepc # mtvec
  /\ s.pc >= mtvec => s.mepc >= 2

\* From state s, after a device access if d, the instructions w in WB and m in
\* MEM lead to f, the state before the one in EX.
Flight(s, d, w, m, f) ==
  /\ Right(s, d, w)
  /\ ~Ends(w) => Right(Past(s, w), PastDev(d, w), m)
  /\ ~Ends(w) /\ ~Ends(m) =>
       LET s2 == Past(Past(s, w), m)
       IN InCode(f) /\ Link(s2, PastDev(PastDev(d, w), m), f.pc) /\ f = Enter(s2, f.pc)

\* A state after a device access is that behind its pc.
Behind(s, d) == d => s.pc > 0 /\ Prog[s.pc - 1] = "dev"

\* An instruction at mtvec in flight has set intr_buff (b), and none is in WB
\* when the next one comes.
Announced(w, m, f, b) ==
  /\ w.pc = mtvec => b
  /\ ~Ends(w) /\ m.pc = mtvec => b
  /\ ~Ends(w) /\ ~Ends(m) /\ f.pc = mtvec => b /\ w.pc # mtvec

\* From the first write-back on the comparison is one instruction behind.
Running ==
  /\ wb_buff /\ wb_num = 1 /\ is_skip_ref \in BOOLEAN /\ wb_wait \in BOOLEAN
  /\ ref \in States /\ gpr \in [a0 : {0, 1}, t : Vals]
  /\ wb_wait => mem.pc # NoPc /\ mem.inst \in {"ld", "dev"}
  /\ mem.pc # 1 /\ (~Ends(wbu) /\ Ends(mem) => front.pc # 1)
  /\ LET s == Retired(ref, gpr, is_skip_ref)
     IN /\ s \in States /\ s.a0 = gpr.a0 /\ s.t = gpr.t /\ Behind(s, is_skip_ref)
        /\ Flight(s, is_skip_ref, wbu, mem, front)
  /\ Announced(wbu, mem, front, intr_buff)

\* The first two instructions on their way to the first write-back.
Zeros == [a0 |-> 0, t |-> 0]
First  == Exec(Start, 0)
Second == Exec(First, 0)
Inst0  == [pc |-> 0, inst |-> "op", a0 |-> First.a0, t |-> First.t]
Inst1  == [pc |-> 1, inst |-> "op", a0 |-> Second.a0, t |-> Second.t]

\* What the stages hold until the first of them has been written back.
Starting ==
  /\ ~wb_buff /\ wb_num = 0 /\ is_skip_ref = FALSE /\ ~wb_wait /\ ~intr_buff /\ ref = Start
  /\ \/ front = Start /\ mem \in {Bubble, Reset} /\ wbu \in {Bubble, Reset} /\ gpr = Zeros
     \/ front = First /\ mem = Inst0 /\ wbu \in {Bubble, Reset} /\ gpr = Zeros
     \/ front = First /\ mem = Bubble /\ wbu = Inst0 /\ gpr = Zeros
     \/ front = First /\ mem = Bubble /\ wbu = Bubble /\ gpr = [a0 |-> First.a0, t |-> First.t]
     \/ front = Second /\ mem = Inst1 /\ wbu = Inst0 /\ gpr = Zeros
     \/ front = Second /\ mem = Inst1 /\ wbu = Bubble /\ gpr = [a0 |-> First.a0, t |-> First.t]

\* Once the program has ended, no cycle follows.
SimInv ==
  /\ cpu_state \in {"END", "QUIT"} => left = 0
  /\ wrong = NoPc /\ ~dev_intr =>
       ~difftest_error /\ (cpu_state \in {"END", "QUIT"} \/ Starting \/ Running)

-----------------------------------------------------------------------------
(* The architecture.                                                          *)

\* The handler lies behind the first instructions.
LEMMA Handler ==
  /\ mtvec \in Pcs /\ mtvec \in Nat /\ mtvec > 3 /\ mtvec # NoPc /\ mtvec - 1 \in Pcs
  /\ Pcs \subseteq Nat \ {NoPc} /\ 0 \in Vals /\ Vals \subseteq Nat
<1>1. mtvec - 1 \in Nat /\ mtvec \in Nat
  BY ProgAssumption, HandlerAssumption
<1>2. mtvec - 1 # 0 /\ mtvec - 1 # 1 /\ mtvec - 1 # 2
  BY ProgAssumption, HandlerAssumption
<1> QED
  BY <1>1, <1>2, ProgAssumption, HandlerAssumption, TValuesAssumption DEF Pcs, Vals

\* The handler is behind the first instructions.
LEMMA HandlerApart == mtvec # 0 /\ mtvec # 1 /\ mtvec # 2 /\ mtvec # 3
BY Handler

\* Code starts at 2.
LEMMA NotOne ==
  /\ \A n \in Nat : n >= 2 => n # 0 /\ n # 1
  /\ \A n \in {2, 3} : n # 1
OBVIOUS

\* What the empty stages are.
LEMMA EmptyStages ==
  /\ Bubble.pc = NoPc /\ Bubble.inst = "none" /\ Reset.pc = 0 /\ Reset.inst = "none"
  /\ NoPc # 0 /\ NoPc # 1
  /\ [a0 |-> Reset.a0, t |-> Reset.t] = [a0 |-> 0, t |-> 0]
BY DEF Bubble, Reset, NoPc

\* Registers and pc that compare equal are equal.
LEMMA SameRegs ==
  \A a, b, c, u, v, w :
    [a0 |-> a, t |-> b, pc |-> c] = [a0 |-> u, t |-> v, pc |-> w] => a = u /\ b = v /\ c = w
OBVIOUS

\* Two states with the same fields are one.
LEMMA SameState ==
  ASSUME NEW s \in States, NEW u \in States, s.pc = u.pc, s.a0 = u.a0, s.t = u.t,
         s.mepc = u.mepc, s.mie = u.mie
  PROVE  s = u
BY DEF States

\* What an instruction does to the fields of the state.
LEMMA ExecFields ==
  ASSUME NEW s \in States, NEW a \in Vals
  PROVE  /\ Exec(s, a) \in States
         /\ Prog[s.pc] \notin {"mret", "spin"} => Exec(s, a).pc = s.pc + 1
         /\ Prog[s.pc] = "mret" => Exec(s, a).pc = s.mepc
         /\ Prog[s.pc] = "spin" => Exec(s, a).pc = s.pc
         /\ Prog[s.pc] \notin {"mret", "ei"} => Exec(s, a).mie = s.mie
         /\ Exec(s, a).mepc = s.mepc
<1>n. PICK n \in States : /\ n = [s EXCEPT !.pc = @ + 1] /\ n.pc = s.pc + 1
                         /\ n.t = s.t /\ n.mepc = s.mepc /\ n.mie = s.mie
  <2>1. PICK n : n = [s EXCEPT !.pc = @ + 1]
    BY Zenon
  <2>2. n \in States
    BY <2>1 DEF States
  <2>3. n.pc = s.pc + 1 /\ n.t = s.t /\ n.mepc = s.mepc /\ n.mie = s.mie
    BY <2>1 DEF States
  <2> QED
    BY <2>1, <2>2, <2>3, Zenon
<1>0. (n.t + 1) % TValues \in Vals
  BY TValuesAssumption DEF States, Vals
<1>1. CASE Prog[s.pc] \in {"op", "ld"}
  <2>1. Exec(s, a) = [n EXCEPT !.t = (@ + 1) % TValues]
    BY <1>1, <1>n DEF Exec
  <2>2. PICK e : e = Exec(s, a)
    OBVIOUS
  <2>3. e \in States /\ e.pc = s.pc + 1 /\ e.mepc = s.mepc
    BY <1>0, <1>n, <2>1, <2>2, Zenon DEF States
  <2>4. Prog[s.pc] # "ei" => e.mie = s.mie
    BY <1>n, <1>1, <2>1, <2>2 DEF States
  <2> QED
    BY <1>1, <2>2, <2>3, <2>4
<1>2. CASE Prog[s.pc] = "dev"
  <2>1. Exec(s, a) = [n EXCEPT !.t = a]
    BY <1>2, <1>n DEF Exec
  <2>2. PICK e : e = Exec(s, a)
    OBVIOUS
  <2>3. e \in States /\ e.pc = s.pc + 1 /\ e.mepc = s.mepc
    BY <1>n, <2>1, <2>2, Zenon DEF States
  <2>4. Prog[s.pc] # "ei" => e.mie = s.mie
    BY <1>n, <1>2, <2>1, <2>2 DEF States
  <2> QED
    BY <1>2, <2>2, <2>3, <2>4
<1>3. CASE Prog[s.pc] = "ei"
  <2>1. Exec(s, a) = [n EXCEPT !.mie = TRUE]
    BY <1>3, <1>n DEF Exec
  <2>2. PICK e : e = Exec(s, a)
    OBVIOUS
  <2>3. e \in States /\ e.pc = s.pc + 1 /\ e.mepc = s.mepc
    BY <1>n, <2>1, <2>2, Zenon DEF States
  <2>4. Prog[s.pc] # "ei" => e.mie = s.mie
    BY <1>n, <1>3, <2>1, <2>2 DEF States
  <2> QED
    BY <1>3, <2>2, <2>3, <2>4
<1>4. CASE Prog[s.pc] = "check"
  <2>1. Exec(s, a) = [n EXCEPT !.a0 = IF s.t = 0 THEN 0 ELSE 1]
    BY <1>4, <1>n DEF Exec
  <2>2. PICK e : e = Exec(s, a)
    OBVIOUS
  <2>3. e \in States /\ e.pc = s.pc + 1 /\ e.mepc = s.mepc
    BY <1>n, <2>1, <2>2, Zenon DEF States
  <2>4. Prog[s.pc] # "ei" => e.mie = s.mie
    BY <1>n, <1>4, <2>1, <2>2 DEF States
  <2> QED
    BY <1>4, <2>2, <2>3, <2>4
<1>5. CASE Prog[s.pc] = "mret"
  BY <1>5, Zenon DEF Exec, States
<1>6. CASE Prog[s.pc] = "spin"
  BY <1>6 DEF Exec, States
<1>7. CASE Prog[s.pc] \notin {"op", "ld", "dev", "ei", "check", "mret", "spin"}
  <2>1. Exec(s, a) = n
    BY <1>n, <1>7 DEF Exec
  <2>2. PICK e : e = Exec(s, a)
    OBVIOUS
  <2>3. e \in States /\ e.pc = s.pc + 1 /\ e.mepc = s.mepc
    BY <1>n, <2>1, <2>2 DEF States
  <2>4. Prog[s.pc] # "ei" => e.mie = s.mie
    BY <1>n, <1>7, <2>1, <2>2 DEF States
  <2> QED
    BY <1>7, <2>2, <2>3, <2>4
<1> QED
  BY <1>1, <1>2, <1>3, <1>4, <1>5, <1>6, <1>7

\* Only a device access has a result the reference does not compute.
LEMMA ExecAnswer ==
  ASSUME NEW s \in States, NEW a \in Vals, NEW b \in Vals
  PROVE  /\ Prog[s.pc] # "dev" => Exec(s, a) = Exec(s, b)
         /\ Prog[s.pc] = "dev" => Exec(s, a) = [s EXCEPT !.pc = @ + 1, !.t = a]
<1>1. CASE Prog[s.pc] = "dev"
  BY <1>1 DEF Exec, States
<1>2. CASE Prog[s.pc] # "dev"
  BY <1>2 DEF Exec
<1> QED
  BY <1>1, <1>2

\* An instruction is determined by its result.
LEMMA ExecAgain ==
  ASSUME NEW s \in States, NEW a \in Vals
  PROVE  Exec(s, a).t \in Vals /\ Exec(s, Exec(s, a).t) = Exec(s, a)
<1>1. PICK b \in Vals : b = Exec(s, a).t
  BY ExecFields DEF States
<1>2. CASE Prog[s.pc] = "dev"
  <2>1. b = a
    <3>1. PICK e : e = [s EXCEPT !.pc = @ + 1, !.t = a]
      OBVIOUS
    <3>2. e.t = a
      BY ONLY <3>1, s \in States DEF States
    <3>3. Exec(s, a) = e
      BY ONLY <1>2, <3>1, ExecAnswer, s \in States, a \in Vals, Zenon
    <3> QED
      BY <1>1, <3>2, <3>3
  <2> QED
    BY <1>1, <2>1
<1>3. CASE Prog[s.pc] # "dev"
  BY <1>1, <1>3, ExecAnswer, Zenon
<1> QED
  BY <1>2, <1>3

\* Interrupts.
LEMMA TrapFields ==
  ASSUME NEW s \in States
  PROVE  /\ Trap(s) \in States /\ Trap(s).pc = mtvec /\ Trap(s).mepc = s.pc /\ Trap(s).mie = FALSE
         /\ Trap(s).a0 = s.a0 /\ Trap(s).t = s.t
BY Handler, Zenon DEF Trap, States

\* A program stays in its code, and does not run into its handler.
LEMMA ExecInCode ==
  ASSUME NEW s, InCode(s), Prog[s.pc] # "ebreak", NEW a \in Vals
  PROVE  InCode(Exec(s, a)) /\ Exec(s, a).pc # mtvec
<1>0. s \in States /\ s.pc \in Pcs /\ s.mepc \in Pcs /\ s.pc \in Nat /\ s.mepc \in Nat
  BY DEF InCode, States
<1>1. PICK e \in States : e = Exec(s, a)
  BY <1>0, ExecFields
<1>2. e.mepc = s.mepc
  BY <1>0, <1>1, ExecFields
<1>3. CASE Prog[s.pc] = "mret"
  <2>1. e.pc = s.mepc /\ s.pc >= mtvec
    BY <1>0, <1>1, <1>3, ExecFields, HandlerAssumption DEF Pcs
  <2> QED
    BY <1>0, <1>1, <1>2, <2>1 DEF InCode
<1>4. CASE Prog[s.pc] = "spin"
  <2>1. e.pc = s.pc /\ s.pc # mtvec
    BY <1>0, <1>1, <1>4, ExecFields, HandlerAssumption
  <2> QED
    BY <1>0, <1>1, <1>2, <2>1 DEF InCode
<1>5. CASE Prog[s.pc] \notin {"mret", "spin"}
  <2>1. e.pc = s.pc + 1
    BY <1>0, <1>1, <1>5, ExecFields
  <2>2. s.pc + 1 \in Pcs
    BY <1>0, <1>5, ProgAssumption DEF Pcs
  <2>3. s.pc # mtvec - 1
    BY <1>5, HandlerAssumption
  <2>4. e.pc # mtvec /\ e.pc >= 2
    BY <1>0, <2>1, <2>3, Handler DEF InCode
  <2>5. e.pc >= mtvec => e.mepc >= 2
    BY <1>0, <1>2, <2>1, <2>3, Handler DEF InCode
  <2> QED
    BY <1>0, <1>1, <1>2, <2>1, <2>2, <2>4, <2>5 DEF InCode
<1> QED
  BY <1>3, <1>4, <1>5

\* An interrupt leads from the code to its handler.
LEMMA TrapInCode ==
  ASSUME NEW s, InCode(s), s.pc # mtvec
  PROVE  InCode(Trap(s))
<1>1. s \in States /\ s.pc \in Pcs /\ s.pc >= 2
  BY DEF InCode
<1>2. PICK u \in States : u = Trap(s) /\ u.pc = mtvec /\ u.mepc = s.pc
  BY <1>1, TrapFields, Zenon
<1> QED
  BY <1>1, <1>2, Handler DEF InCode

-----------------------------------------------------------------------------
(* Instructions in flight.                                                    *)

\* The state before an instruction that can follow.
LEMMA EnterFields ==
  ASSUME NEW s \in States, NEW d, NEW pc, Link(s, d, pc)
  PROVE  /\ Enter(s, pc) \in States /\ Enter(s, pc).pc = pc
         /\ Enter(s, pc).a0 = s.a0 /\ Enter(s, pc).t = s.t
BY TrapFields, Zenon DEF Enter, Link

\* The state after a stage.
LEMMA PastState ==
  ASSUME NEW s \in States, NEW d, NEW x, Right(s, d, x)
  PROVE  Past(s, x) \in States
<1>1. CASE x.pc = NoPc
  BY <1>1 DEF Past
<1>2. CASE x.pc # NoPc
  <2>1. Enter(s, x.pc) \in States /\ x.t \in Vals
    BY <1>2, EnterFields DEF Right
  <2> QED
    BY <1>2, <2>1, ExecFields DEF Past
<1> QED
  BY <1>1, <1>2

\* ... is behind a device access if that was the last instruction.
LEMMA PastBehind ==
  ASSUME NEW s \in States, NEW d, NEW x, Right(s, d, x), Behind(s, d)
  PROVE  Behind(Past(s, x), PastDev(d, x))
<1>1. CASE x.pc = NoPc
  BY <1>1 DEF Past, PastDev
<1>2. CASE x.pc # NoPc /\ x.inst = "dev"
  <2>1. PICK e \in States : e = Enter(s, x.pc) /\ e.pc = x.pc
    BY <1>2, EnterFields DEF Right
  <2>2. x.t \in Vals /\ Prog[e.pc] = "dev" /\ e.pc \in Nat
    BY <1>2, <2>1, Handler, Zenon DEF Right
  <2>3. Exec(e, x.t).pc = e.pc + 1
    BY <2>1, <2>2, ExecFields
  <2>4. Past(s, x).pc = e.pc + 1
    BY <1>2, <2>1, <2>3 DEF Past
  <2> QED
    BY <2>2, <2>4 DEF Behind
<1>3. CASE x.pc # NoPc /\ x.inst # "dev"
  BY <1>3 DEF PastDev, Behind
<1> QED
  BY <1>1, <1>2, <1>3

\* Interrupts stay disabled through the first instruction of the handler, and
\* through a memory access.
LEMMA StaysDisabled ==
  ASSUME NEW s \in States, NEW d, NEW x, Right(s, d, x), x.pc # NoPc
  PROVE  /\ x.pc = mtvec => Past(s, x).mie = FALSE
         /\ x.inst \in {"ld", "dev"} /\ s.mie = FALSE => Past(s, x).mie = FALSE
<1>1. PICK e \in States : e = Enter(s, x.pc) /\ e.pc = x.pc
  BY EnterFields DEF Right
<1>2. x.t \in Vals /\ x.inst = Prog[e.pc] /\ Past(s, x) = Exec(e, x.t)
  BY <1>1 DEF Right, Past
<1>3. ASSUME x.pc = mtvec PROVE Past(s, x).mie = FALSE
  <2>1. e.mie = FALSE
    BY <1>1, <1>3, TrapFields, Zenon DEF Enter
  <2>2. Prog[e.pc] \notin {"mret", "ei"}
    BY <1>1, <1>3, HandlerAssumption
  <2> QED
    BY <1>2, <2>1, <2>2, ExecFields
<1>4. ASSUME x.inst \in {"ld", "dev"}, s.mie = FALSE PROVE Past(s, x).mie = FALSE
  <2>1. e.mie = FALSE
    BY <1>1, <1>4, TrapFields, Zenon DEF Enter
  <2>2. Prog[e.pc] \notin {"mret", "ei"}
    BY <1>2, <1>4
  <2> QED
    BY <1>2, <2>1, <2>2, ExecFields
<1> QED
  BY <1>3, <1>4, Zenon

\* When interrupts are enabled in EX none has just been taken, and no first
\* instruction of a handler is in MEM, or in WB behind a waiting access.
LEMMA Enabled ==
  ASSUME NEW s \in States, NEW d, NEW w, NEW m, NEW f, Flight(s, d, w, m, f),
         ~Ends(w), ~Ends(m), f.mie
  PROVE  /\ f.pc # mtvec /\ f = Past(Past(s, w), m) /\ m.pc # mtvec
         /\ m.pc # NoPc /\ m.inst \in {"ld", "dev"} => w.pc # mtvec
<1>1. PICK s1 \in States : s1 = Past(s, w) /\ Right(s, d, w) /\ Right(s1, PastDev(d, w), m)
  BY PastState DEF Flight
<1>2. PICK s2 \in States : s2 = Past(s1, m) /\ f = Enter(s2, f.pc)
  BY <1>1, PastState DEF Flight
<1>3. f.pc # mtvec /\ f = s2
  BY <1>2, TrapFields, Zenon DEF Enter
<1>4. m.pc # mtvec
  BY <1>1, <1>2, <1>3, StaysDisabled, Handler, Zenon
<1>5. ASSUME m.pc # NoPc, m.inst \in {"ld", "dev"} PROVE w.pc # mtvec
  BY <1>1, <1>2, <1>3, <1>5, StaysDisabled, Handler, ZenonT(30)
<1> QED
  BY <1>1, <1>2, <1>3, <1>4, <1>5

\* A cycle without a new instruction in MEM.
LEMMA ShiftBubble ==
  ASSUME NEW s, NEW d, NEW w, NEW m, NEW f, Flight(s, d, w, m, f), ~Ends(w),
         NEW x, x.pc = NoPc, ~Ends(x)
  PROVE  Flight(Past(s, w), PastDev(d, w), m, x, f)
BY Zenon DEF Flight, Right, Past, PastDev

\* A cycle in which an interrupt kills the instruction in EX.
LEMMA ShiftKilled ==
  ASSUME NEW s \in States, NEW d, Behind(s, d), NEW w, NEW m, NEW f, Flight(s, d, w, m, f), ~Ends(w),
         NEW x, x.pc = NoPc, ~Ends(m) => f.mie, ~(f.pc > 0 /\ Prog[f.pc - 1] = "dev")
  PROVE  Flight(Past(s, w), PastDev(d, w), m, x, Trap(f))
<1>1. PICK s1 \in States : s1 = Past(s, w) /\ Right(s, d, w) /\ Right(s1, PastDev(d, w), m)
  BY PastState DEF Flight
<1>2. PICK d1 : d1 = PastDev(d, w) /\ Behind(s1, d1)
  BY <1>1, PastBehind
<1>3. Right(Past(s1, m), PastDev(d1, m), x)
  BY DEF Right
<1>4. ASSUME ~Ends(m)
      PROVE  InCode(Trap(f)) /\ Link(Past(s1, m), PastDev(d1, m), mtvec) /\ Trap(f) = Enter(Past(s1, m), mtvec)
  <2>1. f.pc # mtvec /\ f = Past(s1, m)
    BY <1>1, <1>4, Enabled
  <2>2. InCode(f)
    BY <1>4 DEF Flight
  <2>3. Behind(f, PastDev(d1, m))
    BY <1>1, <1>2, <2>1, PastBehind
  <2>4. ~PastDev(d1, m)
    BY <2>3 DEF Behind
  <2> QED
    BY <1>4, <2>1, <2>2, <2>4, TrapInCode DEF Link, Enter
<1>5. ~Ends(m) => Trap(f).pc = mtvec
  BY TrapFields, Zenon DEF Flight, InCode
<1>6. Past(Past(s1, m), x) = Past(s1, m) /\ PastDev(PastDev(d1, m), x) = PastDev(d1, m)
  BY Zenon DEF Past, PastDev
<1> QED
  BY <1>1, <1>2, <1>3, <1>4, <1>5, <1>6 DEF Flight

\* A cycle in which the instruction leaves EX.
LEMMA ShiftIssue ==
  ASSUME NEW s \in States, NEW d, NEW w, NEW m, NEW f, Flight(s, d, w, m, f), ~Ends(w),
         NEW a \in Vals, NEW e, e = Exec(f, a),
         NEW x, x = [pc |-> f.pc, inst |-> Prog[f.pc], a0 |-> e.a0, t |-> e.t]
  PROVE  Flight(Past(s, w), PastDev(d, w), m, x, e)
<1>1. PICK s1 \in States : s1 = Past(s, w) /\ Right(s, d, w) /\ Right(s1, PastDev(d, w), m)
  BY PastState DEF Flight
<1>2. PICK d1 : d1 = PastDev(d, w)
  OBVIOUS
<1>3. ASSUME ~Ends(m)
      PROVE  /\ Right(Past(s1, m), PastDev(d1, m), x)
             /\ Past(Past(s1, m), x) = e
             /\ ~Ends(x) => InCode(e) /\ Link(e, PastDev(PastDev(d1, m), x), e.pc) /\ e = Enter(e, e.pc)
  <2>1. PICK s2 \in States : s2 = Past(s1, m)
    BY <1>1, PastState
  <2>2. InCode(f) /\ Link(s2, PastDev(d1, m), f.pc) /\ f = Enter(s2, f.pc)
    BY <1>1, <1>2, <1>3, <2>1 DEF Flight
  <2>3. f \in States /\ f.pc \in Pcs
    BY <2>2 DEF InCode
  <2>4. e.t \in Vals /\ Exec(f, e.t) = e
    BY <2>3, ExecAgain
  <2>5. x.pc = f.pc /\ x.inst = Prog[f.pc] /\ x.a0 = e.a0 /\ x.t = e.t /\ x.pc # NoPc
    BY <2>3, Handler, Zenon
  <2>6. Past(s2, x) = e
    BY <2>2, <2>4, <2>5, SMTT(30) DEF Past
  <2>7. Right(s2, PastDev(d1, m), x)
    BY <2>2, <2>3, <2>4, <2>5, <2>6 DEF Right
  <2>8. ASSUME ~Ends(x) PROVE InCode(e) /\ e.pc # mtvec
    BY <2>2, <2>5, <2>8, ExecInCode DEF Ends
  <2> QED
    BY <2>1, <2>6, <2>7, <2>8 DEF Link, Enter
<1> QED
  BY <1>1, <1>2, <1>3, Zenon DEF Flight

\* An interrupt while an access waits in MEM.
LEMMA StayTrap ==
  ASSUME NEW s \in States, NEW d, Behind(s, d), NEW w, NEW m, NEW f, Flight(s, d, w, m, f), ~Ends(w),
         ~Ends(m), f.mie, ~(f.pc > 0 /\ Prog[f.pc - 1] = "dev")
  PROVE  Flight(s, d, w, m, Trap(f))
<1>1. PICK s1 \in States : s1 = Past(s, w) /\ Right(s, d, w) /\ Right(s1, PastDev(d, w), m)
  BY PastState DEF Flight
<1>2. PICK d1 : d1 = PastDev(d, w) /\ Behind(s1, d1)
  BY <1>1, PastBehind
<1>3. f.pc # mtvec /\ f = Past(s1, m)
  BY <1>1, Enabled
<1>4. InCode(f)
  BY DEF Flight
<1>5. Behind(f, PastDev(d1, m))
  BY <1>1, <1>2, <1>3, PastBehind
<1>6. ~PastDev(d1, m)
  BY <1>5 DEF Behind
<1>7. InCode(Trap(f)) /\ Trap(f).pc = mtvec
  BY <1>3, <1>4, TrapInCode, TrapFields, Zenon DEF InCode
<1>8. Link(Past(s1, m), PastDev(d1, m), mtvec) /\ Trap(f) = Enter(Past(s1, m), mtvec)
  BY <1>3, <1>6 DEF Link, Enter
<1> QED
  BY <1>1, <1>2, <1>7, <1>8 DEF Flight

\* A handler's first instruction is announced until it is compared: cycles
\* without an interrupt.
LEMMA ShiftAnnounced ==
  ASSUME NEW s \in States, NEW d, NEW w, NEW m, NEW f, Flight(s, d, w, m, f), ~Ends(w),
         NEW b, Announced(w, m, f, b), NEW x, NEW f2,
         \/ x.pc = NoPc /\ f2.pc = f.pc
         \/ x.pc = f.pc /\ (~Ends(m) /\ ~Ends(x) => f2.pc # mtvec)
  PROVE  Announced(m, x, f2, b /\ w.pc # mtvec)
<1>1. PICK s1 \in States : s1 = Past(s, w) /\ Right(s, d, w) /\ Right(s1, PastDev(d, w), m)
  BY PastState DEF Flight
<1>2. ASSUME m.pc = mtvec PROVE b /\ w.pc # mtvec
  <2>1. s1.mie
    BY <1>1, <1>2, Handler DEF Right, Link
  <2> QED
    BY <1>1, <1>2, <2>1, StaysDisabled, Handler, Zenon DEF Announced
<1>3. ASSUME ~Ends(m), f.pc = mtvec PROVE b /\ w.pc # mtvec /\ m.pc # mtvec
  <2>1. Past(s1, m).mie
    BY <1>1, <1>3 DEF Flight, Link
  <2> QED
    BY <1>1, <1>3, <2>1, StaysDisabled, Handler, Zenon DEF Announced
<1> QED
  BY <1>2, <1>3, Handler DEF Announced

\* The reference's state after exec_once compared w, whose interrupt is announced by b.
Stepped(r, g, d, w, b) ==
  LET r1 == IF d THEN [r EXCEPT !.a0 = g.a0, !.t = g.t, !.pc = w.pc] ELSE Exec(r, 0)
  IN IF b /\ w.pc = mtvec THEN Trap(r1) ELSE r1

\* The reference, stepped at a write-back, is in the state before the
\* instruction written back, and the comparison finds it there.
LEMMA Compared ==
  ASSUME NEW r \in States, NEW g \in [a0 : {0, 1}, t : Vals], NEW d \in BOOLEAN,
         NEW s \in States, s = Retired(r, g, d), s.a0 = g.a0, s.t = g.t,
         NEW w, Right(s, d, w), w.pc # NoPc, NEW b, w.pc = mtvec => b
  PROVE  /\ Stepped(r, g, d, w, b) = Enter(s, w.pc) /\ Enter(s, w.pc) \in States
         /\ Enter(s, w.pc).a0 = g.a0 /\ Enter(s, w.pc).t = g.t /\ Enter(s, w.pc).pc = w.pc
<1>1. Link(s, d, w.pc)
  BY DEF Right
<1>0. /\ Enter(s, w.pc) \in States
      /\ Enter(s, w.pc).a0 = g.a0 /\ Enter(s, w.pc).t = g.t /\ Enter(s, w.pc).pc = w.pc
  BY <1>1, EnterFields
<1>2. CASE w.pc = mtvec
  <2>1. ~d /\ Exec(r, 0) = s
    BY <1>1, <1>2 DEF Link, Retired
  <2> QED
    BY <1>0, <1>2, <2>1 DEF Enter, Stepped
<1>3. CASE w.pc # mtvec
  <2>1. s.pc = w.pc
    BY <1>1, <1>3 DEF Link
  <2>2. CASE d
    <3>1. s = [r EXCEPT !.a0 = g.a0, !.t = g.t, !.pc = @ + 1]
      BY <2>2 DEF Retired
    <3>2. r.pc + 1 = w.pc
      BY <2>1, <3>1 DEF States
    <3> QED
      BY <1>0, <1>3, <2>1, <2>2, <3>1, <3>2, Zenon DEF Enter, Stepped
  <2>3. CASE ~d
    BY <1>0, <1>3, <2>1, <2>3, Zenon DEF Enter, Retired, Stepped
  <2> QED
    BY <2>2, <2>3
<1> QED
  BY <1>2, <1>3

\* After the write-back the state behind it is that of the register file.
LEMMA WrittenBack ==
  ASSUME NEW s \in States, NEW d, NEW w, Right(s, d, w), w.pc # NoPc,
         NEW g, g = [a0 |-> w.a0, t |-> w.t]
  PROVE  /\ g \in [a0 : {0, 1}, t : Vals]
         /\ Retired(Enter(s, w.pc), g, PastDev(d, w)) = Past(s, w)
         /\ Past(s, w).a0 = g.a0 /\ Past(s, w).t = g.t
<1>1. PICK e \in States : e = Enter(s, w.pc) /\ e.pc = w.pc
  BY EnterFields DEF Right
<1>2. /\ w.t \in Vals /\ w.inst = Prog[e.pc] /\ Past(s, w) = Exec(e, w.t)
      /\ w.a0 = Exec(e, w.t).a0 /\ w.t = Exec(e, w.t).t
  BY <1>1 DEF Right, Past
<1>3. Exec(e, w.t) \in States
  BY <1>2, ExecFields
<1>4. g \in [a0 : {0, 1}, t : Vals] /\ g.a0 = w.a0 /\ g.t = w.t
  BY <1>2, <1>3 DEF States
<1>5. PastDev(d, w) <=> Prog[e.pc] = "dev"
  BY <1>2 DEF PastDev
<1>6. CASE Prog[e.pc] # "dev"
  <2>1. Exec(e, 0) = Exec(e, w.t)
    BY <1>2, <1>6, ExecAnswer, Handler, Zenon
  <2> QED
    BY <1>1, <1>2, <1>4, <1>5, <1>6, <2>1, Zenon DEF Retired
<1>7. CASE Prog[e.pc] = "dev"
  <2>0. Exec(e, w.t) = [e EXCEPT !.pc = @ + 1, !.t = w.t]
    BY <1>2, <1>7, ExecAnswer, Zenon
  <2>1. PICK u \in States : u = Exec(e, w.t) /\ u = [e EXCEPT !.pc = @ + 1, !.t = w.t]
    BY <1>3, <2>0, Zenon
  <2>2. u.pc = e.pc + 1 /\ u.a0 = e.a0 /\ u.t = w.t /\ u.mepc = e.mepc /\ u.mie = e.mie
    BY <2>1 DEF States
  <2>3. PICK v \in States : v = [e EXCEPT !.a0 = g.a0, !.t = g.t, !.pc = @ + 1]
    <3>1. PICK a, t : a = g.a0 /\ t = g.t /\ a \in {0, 1} /\ t \in Vals
      BY <1>4
    <3>2. PICK v : v = [e EXCEPT !.a0 = a, !.t = t, !.pc = @ + 1]
      OBVIOUS
    <3>3. e.pc + 1 \in Nat /\ e = [pc |-> e.pc, a0 |-> e.a0, t |-> e.t, mepc |-> e.mepc, mie |-> e.mie]
      BY DEF States
    <3>4. v = [pc |-> e.pc + 1, a0 |-> a, t |-> t, mepc |-> e.mepc, mie |-> e.mie]
      BY <3>2, <3>3, Zenon
    <3>5. v \in States
      BY <3>1, <3>3, <3>4 DEF States
    <3> QED
      BY <3>1, <3>2, <3>5, Zenon
  <2>4. v.pc = e.pc + 1 /\ v.a0 = g.a0 /\ v.t = g.t /\ v.mepc = e.mepc /\ v.mie = e.mie
    BY <2>3 DEF States
  <2>5. v = u
    <3>1. u.a0 = w.a0
      BY <1>2, <2>1
    <3>2. v.pc = u.pc /\ v.a0 = u.a0 /\ v.t = u.t /\ v.mepc = u.mepc /\ v.mie = u.mie
      BY <1>4, <2>2, <2>4, <3>1
    <3> QED
      BY <3>2, SameState, Zenon
  <2> QED
    BY <1>1, <1>2, <1>4, <1>5, <1>7, <2>1, <2>3, <2>5 DEF Retired
<1> QED
  BY <1>6, <1>7

-----------------------------------------------------------------------------
(* The loop.                                                                  *)

\* exec_once of a running program: the comparison succeeds, and leaves the
\* reference in the state before the instruction in WB.
LEMMA RunningExec ==
  ASSUME Running, exec_once
  PROVE  /\ wb_sign <=> wbu.pc # NoPc /\ ~wb_wait
         /\ wb_num' = 1 /\ ~(compares /\ difftest_check(ref'))
         /\ wb_sign => /\ ref' = Enter(Retired(ref, gpr, is_skip_ref), wbu.pc) /\ ref' \in States
                       /\ is_skip_ref' = (wbu.inst = "dev")
         /\ ~wb_sign => ref' = ref /\ is_skip_ref' = is_skip_ref
<1>1. wb_sign <=> wbu.pc # NoPc /\ ~wb_wait
  BY DEF Running, wb_sign, wb_start
<1>2. compares <=> wb_sign
  BY DEF Running, compares
<1>3. wb_num' = 1
  BY DEF Running, exec_once
<1>4. ~wb_sign => ref' = ref /\ is_skip_ref' = is_skip_ref
  BY <1>2 DEF exec_once
<1>5. ASSUME wb_sign
      PROVE  /\ ref' = Enter(Retired(ref, gpr, is_skip_ref), wbu.pc) /\ ref' \in States
             /\ is_skip_ref' = (wbu.inst = "dev") /\ ~difftest_check(ref')
  <2>1. PICK r \in States, g \in [a0 : {0, 1}, t : Vals], d \in BOOLEAN :
          r = ref /\ g = gpr /\ d = is_skip_ref
    BY DEF Running
  <2>2. PICK s \in States : s = Retired(r, g, d) /\ s.a0 = g.a0 /\ s.t = g.t
    BY <2>1 DEF Running
  <2>3. PICK w, b : w = wbu /\ b = intr_buff
    OBVIOUS
  <2>4. Right(s, d, w) /\ w.pc # NoPc /\ (w.pc = mtvec => b)
    BY <1>1, <1>5, <2>1, <2>2, <2>3 DEF Running, Flight, Announced
  <2>7. ref' = Stepped(r, g, d, w, b)
    <3>1. wb_intr <=> b /\ w.pc = mtvec
      BY <2>3 DEF wb_intr
    <3>2. AfterStep = Stepped(r, g, d, w, b)
      BY <2>1, <2>3, <3>1, Zenon
         DEF AfterStep, Stepped, difftest_step, ref_difftest_exec, ref_difftest_raise_intr
    <3> QED
      BY <1>2, <1>5, <3>2 DEF exec_once
  <2>8. PICK r2 \in States : /\ r2 = Stepped(r, g, d, w, b) /\ r2 = Enter(s, w.pc)
                             /\ r2.a0 = g.a0 /\ r2.t = g.t /\ r2.pc = w.pc
    BY ONLY <2>2, <2>4, Compared
  <2>9. ~difftest_check(ref')
    BY <2>1, <2>3, <2>7, <2>8 DEF difftest_check, ref_difftest_checkregs, regs
  <2>10. is_skip_ref' = (wbu.inst = "dev")
    BY <1>1, <1>2, <1>5 DEF exec_once, wb_device
  <2> QED
    BY <2>1, <2>2, <2>3, <2>7, <2>8, <2>9, <2>10
<1> QED
  BY <1>1, <1>2, <1>3, <1>4, <1>5

\* Between the comparison and the next cycle the chain is one stage shorter.
LEMMA RunningShift ==
  ASSUME Running, exec_once, ~wb_wait,
         gpr' = IF wbu.pc = NoPc THEN gpr ELSE [a0 |-> wbu.a0, t |-> wbu.t],
         NEW s, NEW d, s = Retired(ref, gpr, is_skip_ref), d = is_skip_ref
  PROVE  /\ Retired(ref', gpr', is_skip_ref') = Past(s, wbu) /\ is_skip_ref' = PastDev(d, wbu)
         /\ is_skip_ref' \in BOOLEAN /\ ref' \in States /\ gpr' \in [a0 : {0, 1}, t : Vals]
         /\ Past(s, wbu) \in States /\ Past(s, wbu).a0 = gpr'.a0 /\ Past(s, wbu).t = gpr'.t
         /\ Behind(Past(s, wbu), PastDev(d, wbu))
<1>0. s \in States /\ Right(s, d, wbu) /\ Behind(s, d) /\ d \in BOOLEAN
  BY Zenon DEF Running, Flight
<1>a. PICK w : w = wbu
  BY Zenon
<1>1. Past(s, w) \in States /\ Behind(Past(s, w), PastDev(d, w))
  BY <1>0, <1>a, PastState, PastBehind, ZenonT(30)
<1>2. CASE wbu.pc = NoPc
  <2>1. ref' = ref /\ is_skip_ref' = is_skip_ref
    BY <1>2, RunningExec
  <2>2. Past(s, wbu) = s /\ PastDev(d, wbu) = d
    BY <1>2, Zenon DEF Past, PastDev
  <2> QED
    BY <1>0, <1>2, <2>1, <2>2, Zenon DEF Running
<1>3. CASE wbu.pc # NoPc
  <2>1. ref' = Enter(s, w.pc) /\ ref' \in States /\ is_skip_ref' = (w.inst = "dev")
    BY <1>3, <1>a, RunningExec
  <2>2. PastDev(d, w) = (w.inst = "dev")
    BY <1>3, <1>a DEF PastDev
  <2>3. PICK g : g = [a0 |-> w.a0, t |-> w.t] /\ g = gpr'
    BY <1>3, <1>a, Zenon
  <2>4. /\ g \in [a0 : {0, 1}, t : Vals]
        /\ Retired(Enter(s, w.pc), g, PastDev(d, w)) = Past(s, w)
        /\ Past(s, w).a0 = g.a0 /\ Past(s, w).t = g.t
    BY <1>0, <1>3, <1>a, <2>3, WrittenBack
  <2>5. Retired(ref', gpr', is_skip_ref') = Past(s, w)
    BY <2>1, <2>2, <2>3, <2>4, ZenonT(30)
  <2> QED
    BY <1>1, <1>a, <2>1, <2>2, <2>3, <2>4, <2>5
<1> QED
  BY <1>2, <1>3, ZenonT(30)

\* Behind an ebreak in MEM nothing is known, or needed.
LEMMA ShiftEnds ==
  ASSUME NEW s \in States, NEW d, NEW w, NEW m, NEW f, Flight(s, d, w, m, f), ~Ends(w), Ends(m),
         NEW b, Announced(w, m, f, b), NEW x, NEW f2
  PROVE  Flight(Past(s, w), PastDev(d, w), m, x, f2) /\ Announced(m, x, f2, b /\ w.pc # mtvec)
<1>1. PICK s1 \in States : s1 = Past(s, w) /\ Right(s, d, w) /\ Right(s1, PastDev(d, w), m)
  BY PastState DEF Flight
<1>2. ASSUME m.pc = mtvec PROVE b /\ w.pc # mtvec
  <2>1. s1.mie
    BY <1>1, <1>2, Handler DEF Right, Link
  <2> QED
    BY <1>1, <1>2, <2>1, StaysDisabled, Handler, ZenonT(30) DEF Announced
<1> QED
  BY <1>1, <1>2, Zenon DEF Flight, Announced

\* A cycle of a running program in which MEM waits.
LEMMA RunningWaits ==
  ASSUME Running, exec_once, ~is_ebreak, wb_wait,
         NEW bubble \in BOOLEAN, NEW async_intr \in BOOLEAN, NEW fault \in BOOLEAN,
         NEW answer \in Vals, single_cycle(bubble, async_intr, answer, fault), ~dev_intr'
  PROVE  Running'
<1>1. PICK s \in States, d \in BOOLEAN : s = Retired(ref, gpr, is_skip_ref) /\ d = is_skip_ref /\ Behind(s, d)
  BY DEF Running
<1>2. PICK w, m, f, b : w = wbu /\ m = mem /\ f = front /\ b = intr_buff
  OBVIOUS
<1>3. /\ Flight(s, d, w, m, f) /\ Announced(w, m, f, b) /\ ~Ends(w) /\ ~Ends(m)
      /\ m.pc # NoPc /\ m.inst \in {"ld", "dev"}
  BY <1>1, <1>2 DEF Running, is_ebreak, Ends
<1>4. /\ ref' = ref /\ is_skip_ref' = is_skip_ref /\ ~wb_sign /\ wb_num' = 1
      /\ mem' = m /\ wbu' = w /\ gpr' = gpr /\ front' = IF async_intr THEN Trap(f) ELSE f
  BY <1>2, RunningExec DEF single_cycle
<1>5. /\ wb_buff' /\ wb_wait' \in BOOLEAN /\ (wb_wait' => mem'.pc # NoPc /\ mem'.inst \in {"ld", "dev"})
      /\ intr_buff' = (async_intr \/ b)
  BY <1>2, <1>4, Zenon DEF single_cycle, Running
<1>6. Flight(s, d, w, m, front') /\ Announced(w, m, front', intr_buff')
  <2>1. CASE ~async_intr
    <3>1. front' = f /\ (intr_buff' <=> b)
      BY <1>4, <1>5, <2>1, Zenon
    <3>2. Announced(w, m, f, intr_buff')
      BY <1>3, <3>1 DEF Announced
    <3> QED
      BY <1>3, <3>1, <3>2
  <2>2. CASE async_intr
    <3>1. f.mie /\ ~(f.pc > 0 /\ Prog[f.pc - 1] = "dev")
      BY <1>2, <2>2, Zenon DEF single_cycle
    <3>2. PICK f2 : f2 = Trap(f) /\ f2 = front'
      BY <1>4, <2>2
    <3>3. Flight(s, d, w, m, f2)
      BY <1>1, <1>3, <3>1, <3>2, StayTrap, Zenon
    <3>4. w.pc # mtvec
      BY <1>3, <3>1, Enabled
    <3>5. Announced(w, m, f2, TRUE)
      BY <3>4 DEF Announced
    <3> QED
      BY <1>5, <2>2, <3>2, <3>3, <3>5, Zenon
  <2> QED
    BY <2>1, <2>2
<1>7. Retired(ref', gpr', is_skip_ref') = s /\ is_skip_ref' = d
  BY <1>1, <1>4
<1>8. mem'.pc # 1 /\ ~Ends(mem')
  BY <1>2, <1>3, <1>4 DEF Running
<1>9. s.a0 = gpr'.a0 /\ s.t = gpr'.t /\ ref' \in States /\ gpr' \in [a0 : {0, 1}, t : Vals]
  BY <1>1, <1>4 DEF Running
<1> QED
  BY <1>1, <1>2, <1>4, <1>5, <1>6, <1>7, <1>8, <1>9, Zenon DEF Running

\* A cycle of a running program in which the stages move.
LEMMA RunningMoves ==
  ASSUME Running, exec_once, ~is_ebreak, ~wb_wait,
         NEW bubble \in BOOLEAN, NEW async_intr \in BOOLEAN, NEW fault \in BOOLEAN,
         NEW answer \in Vals, single_cycle(bubble, async_intr, answer, fault), ~dev_intr', wrong' = NoPc
  PROVE  Running'
<1>1. PICK s \in States, d \in BOOLEAN : s = Retired(ref, gpr, is_skip_ref) /\ d = is_skip_ref /\ Behind(s, d)
  BY DEF Running
<1>2. PICK w, m, f, b : w = wbu /\ m = mem /\ f = front /\ b = intr_buff
  OBVIOUS
<1>3. Flight(s, d, w, m, f) /\ Announced(w, m, f, b) /\ ~Ends(w)
  BY <1>1, <1>2, ZenonT(30) DEF Running, is_ebreak, Ends
<1>4. /\ Retired(ref', gpr', is_skip_ref') = Past(s, w) /\ is_skip_ref' = PastDev(d, w)
      /\ is_skip_ref' \in BOOLEAN /\ ref' \in States /\ gpr' \in [a0 : {0, 1}, t : Vals]
      /\ Past(s, w) \in States /\ Past(s, w).a0 = gpr'.a0 /\ Past(s, w).t = gpr'.t
      /\ Behind(Past(s, w), PastDev(d, w))
  <2>1. gpr' = IF wbu.pc = NoPc THEN gpr ELSE [a0 |-> wbu.a0, t |-> wbu.t]
    BY DEF single_cycle
  <2> QED
    BY <1>1, <1>2, <2>1, RunningShift
<1>5. /\ wb_buff' /\ wb_num' = 1 /\ wb_wait' \in BOOLEAN
      /\ (wb_wait' => mem'.pc # NoPc /\ mem'.inst \in {"ld", "dev"}) /\ wbu' = m
  BY <1>2, RunningExec, Zenon DEF single_cycle, Running
<1>6. intr_buff' = (async_intr \/ (b /\ w.pc # mtvec))
  <2>1. w.pc = mtvec => wb_sign
    BY <1>2, RunningExec, Handler
  <2> QED
    BY <1>2, <2>1 DEF single_cycle
<1>7. PICK e : e = Exec(f, answer)
  BY Zenon
<1>8. PICK x, f2 :
        /\ x = mem' /\ f2 = front'
        /\ \/ bubble /\ ~async_intr /\ x = Bubble /\ f2 = f
           \/ /\ async_intr /\ ~bubble /\ x.pc = NoPc /\ f2 = Trap(f) /\ f.mie
              /\ ~(f.pc > 0 /\ Prog[f.pc - 1] = "dev")
           \/ /\ ~bubble /\ ~async_intr /\ ~fault /\ f2 = e
              /\ x = [pc |-> f.pc, inst |-> Prog[f.pc], a0 |-> e.a0, t |-> e.t]
           \/ fault /\ ~async_intr /\ x.pc = f.pc /\ f.pc = NoPc
  <2>1. CASE bubble
    BY <1>2, <2>1 DEF single_cycle
  <2>2. CASE async_intr
    BY <1>2, <2>2, ZenonT(30) DEF single_cycle
  <2>3. CASE ~bubble /\ ~async_intr /\ ~fault
    BY <1>2, <1>7, <2>3 DEF single_cycle
  <2>4. CASE ~bubble /\ ~async_intr /\ fault
    BY <1>2, <1>7, <2>4 DEF single_cycle
  <2> QED
    BY <2>1, <2>2, <2>3, <2>4
<1>9. ~Ends(m) => InCode(f) /\ f \in States /\ f.pc \in Pcs /\ f.pc # NoPc /\ f.pc >= 2 /\ f.pc \in Nat
  BY <1>3, Handler, Zenon DEF Flight, InCode
<1>10. f.pc # 1
  BY <1>2, <1>3, <1>9 DEF Running
<1>11. Flight(Past(s, w), PastDev(d, w), m, x, f2) /\ Announced(m, x, f2, intr_buff')
  <2>1. CASE Ends(m)
    <3>1. Flight(Past(s, w), PastDev(d, w), m, x, f2) /\ Announced(m, x, f2, b /\ w.pc # mtvec)
      BY ONLY <1>1, <1>3, <2>1, ShiftEnds, ZenonT(30)
    <3> QED
      BY <1>6, <3>1, Zenon DEF Announced
  <2>2. CASE ~Ends(m) /\ bubble /\ ~async_intr /\ x = Bubble /\ f2 = f
    <3>1. x.pc = NoPc /\ ~Ends(x)
      BY <2>2 DEF Bubble, Ends
    <3>2. Flight(Past(s, w), PastDev(d, w), m, x, f2)
      BY <1>3, <2>2, <3>1, ShiftBubble
    <3>3. Announced(m, x, f2, b /\ w.pc # mtvec)
      BY <1>3, <2>2, <3>1, ShiftAnnounced
    <3> QED
      BY <1>6, <2>2, <3>2, <3>3, Zenon DEF Announced
  <2>3. CASE /\ ~Ends(m) /\ async_intr /\ x.pc = NoPc /\ f2 = Trap(f) /\ f.mie
             /\ ~(f.pc > 0 /\ Prog[f.pc - 1] = "dev")
    <3>1. Flight(Past(s, w), PastDev(d, w), m, x, f2)
      BY <1>1, <1>3, <2>3, ShiftKilled
    <3>2. m.pc # mtvec
      BY <1>3, <2>3, Enabled
    <3>3. Announced(m, x, f2, TRUE)
      BY <2>3, <3>2, Handler DEF Announced
    <3> QED
      BY <1>6, <2>3, <3>1, <3>3, Zenon
  <2>4. CASE /\ ~Ends(m) /\ ~async_intr /\ f2 = e
             /\ x = [pc |-> f.pc, inst |-> Prog[f.pc], a0 |-> e.a0, t |-> e.t]
    <3>1. Flight(Past(s, w), PastDev(d, w), m, x, f2)
      BY <1>3, <1>7, <2>4, ShiftIssue, Zenon
    <3>2. x.pc = f.pc /\ x.inst = Prog[f.pc]
      BY <2>4, Zenon
    <3>3. ~Ends(x) => f2.pc # mtvec
      BY <1>7, <1>9, <2>4, <3>2, ExecInCode, Zenon DEF Ends
    <3>4. Announced(m, x, f2, b /\ w.pc # mtvec)
      BY ONLY <1>3, <3>2, <3>3, ShiftAnnounced, SMTT(30)
    <3> QED
      BY <1>6, <2>4, <3>1, <3>4, ZenonT(30) DEF Announced
  <2> QED
    BY <1>8, <1>9, <2>1, <2>2, <2>3, <2>4, Zenon
<1>12. x.pc # 1
  BY ONLY <1>8, <1>10 DEF Bubble, NoPc
<1>13. ASSUME ~Ends(m), Ends(x) PROVE f2.pc # 1
  <2>1. CASE x = Bubble
    BY <1>13, <2>1 DEF Bubble, Ends
  <2>2. CASE f2 = Trap(f)
    <3>1. Trap(f).pc = mtvec
      BY <1>9, <1>13, TrapFields, Zenon
    <3> QED
      BY <2>2, <3>1, Handler
  <2>3. CASE f2 = e /\ x = [pc |-> f.pc, inst |-> Prog[f.pc], a0 |-> e.a0, t |-> e.t]
    <3>1. Prog[f.pc] = "ebreak"
      BY <1>13, <2>3, Zenon DEF Ends
    <3>2. e.pc = f.pc + 1
      BY <1>7, <1>9, <1>13, <3>1, ExecFields
    <3> QED
      BY ONLY <1>9, <1>13, <2>3, <3>2, SMTT(30)
  <2> QED
    BY <1>8, <1>9, <1>13, <2>1, <2>2, <2>3
<1> QED
  BY <1>4, <1>5, <1>8, <1>11, <1>12, <1>13, Zenon DEF Running

-----------------------------------------------------------------------------
(* The start.                                                                 *)

\* The first two instructions, whose results no device answers.
LEMMA Firsts ==
  /\ Start \in States /\ Start.pc = 0 /\ Start.mie = FALSE
  /\ First \in States /\ First.pc = 1 /\ First.mie = FALSE /\ First.mepc = 0
  /\ Second \in States /\ Second.pc = 2 /\ Second.mie = FALSE /\ Second.mepc = 0
  /\ \A a \in Vals : Exec(Start, a) = First /\ Exec(First, a) = Second
<1>1. Start \in States /\ Start.pc = 0 /\ Start.mie = FALSE /\ Start.mepc = 0
  BY Handler DEF Start, States
<1>2. First \in States /\ First.pc = 1 /\ First.mie = FALSE /\ First.mepc = 0
  BY <1>1, Handler, ExecFields, ProgAssumption DEF First
<1>3. Second \in States /\ Second.pc = 2 /\ Second.mie = FALSE /\ Second.mepc = 0
  BY <1>2, Handler, ExecFields, ProgAssumption DEF Second
<1>4. \A a \in Vals : Exec(Start, a) = First
  BY <1>1, ProgAssumption DEF Exec, First
<1>5. \A a \in Vals : Exec(First, a) = Second
  BY <1>2, ProgAssumption, Zenon DEF Exec, Second
<1> QED
  BY <1>1, <1>2, <1>3, <1>4, <1>5

\* What a cycle of a starting program does.
LEMMA StartingEdge ==
  ASSUME Starting, exec_once,
         NEW bubble \in BOOLEAN, NEW async_intr \in BOOLEAN, NEW fault \in BOOLEAN,
         NEW answer \in Vals, single_cycle(bubble, async_intr, answer, fault), wrong' = NoPc
  PROVE  /\ front' = IF bubble THEN front ELSE Exec(front, answer)
         /\ mem' = IF bubble THEN Bubble
                   ELSE [pc |-> front.pc, inst |-> Prog[front.pc],
                         a0 |-> Exec(front, answer).a0, t |-> Exec(front, answer).t]
         /\ wbu' = mem /\ gpr' = IF wbu.pc = NoPc THEN gpr ELSE [a0 |-> wbu.a0, t |-> wbu.t]
         /\ ref' = Start /\ is_skip_ref' = FALSE /\ (difftest_error' <=> difftest_error)
         /\ wb_num' = (IF mem.pc = 1 THEN 1 ELSE 0) /\ (wb_buff' <=> mem.pc = 1) /\ ~intr_buff'
         /\ wb_wait' \in BOOLEAN /\ (wb_wait' => mem'.pc # NoPc /\ mem'.inst \in {"ld", "dev"})
<1>1. front.mie = FALSE /\ front.pc # NoPc
  BY Firsts DEF Starting, NoPc
<1>2. ~async_intr /\ ~fault /\ ~wb_wait
  BY <1>1 DEF single_cycle, Starting
<1>3. (wb_sign <=> mem.pc = 1) /\ ~compares
  BY DEF Starting, wb_sign, wb_start, compares
<1>4. PICK e : e = Exec(front, answer)
  OBVIOUS
<1>5. /\ front' = IF bubble THEN front ELSE e
      /\ mem' = IF bubble THEN Bubble ELSE [pc |-> front.pc, inst |-> Prog[front.pc], a0 |-> e.a0, t |-> e.t]
  BY <1>2, <1>4 DEF single_cycle
<1>6. /\ wbu' = mem /\ gpr' = IF wbu.pc = NoPc THEN gpr ELSE [a0 |-> wbu.a0, t |-> wbu.t]
      /\ wb_wait' \in BOOLEAN /\ (wb_wait' => mem'.pc # NoPc /\ mem'.inst \in {"ld", "dev"})
      /\ (wb_buff' <=> mem.pc = 1) /\ ~intr_buff'
  BY <1>2, Zenon DEF single_cycle, Starting, wb_start
<1>7. ref' = Start /\ is_skip_ref' = FALSE /\ wb_num' = (IF mem.pc = 1 THEN 1 ELSE 0) /\ (difftest_error' <=> difftest_error)
  BY <1>3, Zenon DEF exec_once, Starting
<1> QED
  BY <1>4, <1>5, <1>6, <1>7, Zenon

\* The first two instructions in WB and MEM, before the third.
LEMMA FirstFlight ==
  /\ Past(Start, Inst0) = First /\ PastDev(FALSE, Inst0) = FALSE
  /\ Flight(Start, FALSE, Inst0, Inst1, Second)
  /\ ~Ends(Inst0) /\ ~Ends(Inst1)
<1>0. /\ Inst0.pc = 0 /\ Inst0.inst = "op" /\ Inst0.a0 = First.a0 /\ Inst0.t = First.t
      /\ Inst1.pc = 1 /\ Inst1.inst = "op" /\ Inst1.a0 = Second.a0 /\ Inst1.t = Second.t
  BY DEF Inst0, Inst1
<1>1. First.t \in Vals /\ Second.t \in Vals
  BY Firsts DEF States
<1>2. Past(Start, Inst0) = First /\ PastDev(FALSE, Inst0) = FALSE
  <2>1. Inst0.pc # NoPc /\ Inst0.pc # mtvec /\ Inst0.inst # "dev"
    BY <1>0, Handler DEF NoPc
  <2>2. Past(Start, Inst0) = Exec(Start, First.t)
    BY <1>0, <2>1 DEF Past, Enter
  <2>3. PastDev(FALSE, Inst0) = FALSE
    BY <2>1, Zenon DEF PastDev
  <2> QED
    BY <1>1, <2>2, <2>3, Firsts, Zenon
<1>3. Past(First, Inst1) = Second /\ PastDev(FALSE, Inst1) = FALSE
  <2>1. Inst1.pc # NoPc /\ Inst1.pc # mtvec /\ Inst1.inst # "dev"
    BY <1>0, Handler DEF NoPc
  <2>2. Past(First, Inst1) = Exec(First, Second.t)
    BY <1>0, <2>1 DEF Past, Enter
  <2>3. PastDev(FALSE, Inst1) = FALSE
    BY <2>1, Zenon DEF PastDev
  <2> QED
    BY <1>1, <2>2, <2>3, Firsts, Zenon
<1>4. 0 \in Pcs /\ 1 \in Pcs /\ 2 \in Pcs /\ Prog[0] = "op" /\ Prog[1] = "op"
  BY ProgAssumption, Zenon DEF Pcs
<1>5. Right(Start, FALSE, Inst0)
  <2>2. Link(Start, FALSE, 0)
    BY HandlerApart, Firsts, Zenon DEF Link
  <2> QED
    BY <1>0, <1>1, <1>2, <1>4, <2>2, Zenon DEF Right
<1>6. Right(First, FALSE, Inst1)
  BY <1>0, <1>1, <1>3, <1>4, Firsts, Handler DEF Right, Link
<1>7. InCode(Second) /\ Link(Second, FALSE, Second.pc) /\ Second = Enter(Second, Second.pc)
  BY <1>4, Firsts, Handler DEF InCode, Link, Enter
<1> QED
  BY <1>0, <1>2, <1>3, <1>5, <1>6, <1>7, Zenon DEF Flight, Ends

\* The first write-back, which is not compared, leaves a running program.
LEMMA FirstWriteBack ==
  ASSUME Starting, exec_once, mem = Inst1, front = Second,
         IF wbu.pc = NoPc THEN gpr = [a0 |-> First.a0, t |-> First.t] ELSE wbu = Inst0,
         NEW bubble \in BOOLEAN, NEW async_intr \in BOOLEAN, NEW fault \in BOOLEAN,
         NEW answer \in Vals, single_cycle(bubble, async_intr, answer, fault), wrong' = NoPc
  PROVE  Running'
<1>1. PICK e, x : /\ e = Exec(Second, answer)
                  /\ x = [pc |-> Second.pc, inst |-> Prog[Second.pc], a0 |-> e.a0, t |-> e.t]
  BY Zenon
<1>2. front' = (IF bubble THEN Second ELSE e) /\ mem' = (IF bubble THEN Bubble ELSE x) /\ wbu' = Inst1
  <2>1. /\ front' = IF bubble THEN front ELSE Exec(front, answer)
        /\ mem' = IF bubble THEN Bubble
                  ELSE [pc |-> front.pc, inst |-> Prog[front.pc],
                        a0 |-> Exec(front, answer).a0, t |-> Exec(front, answer).t]
        /\ wbu' = mem
    BY ONLY Starting, exec_once, bubble \in BOOLEAN, async_intr \in BOOLEAN, fault \in BOOLEAN, answer \in Vals,
            single_cycle(bubble, async_intr, answer, fault), wrong' = NoPc, StartingEdge, ZenonT(30)
  <2> QED
    BY ONLY <1>1, <2>1, front = Second, mem = Inst1
<1>3. gpr' = [a0 |-> First.a0, t |-> First.t]
  <2>1. gpr' = IF wbu.pc = NoPc THEN gpr ELSE [a0 |-> wbu.a0, t |-> wbu.t]
    BY StartingEdge, Zenon
  <2> QED
    BY <2>1 DEF Inst0
<1>4. /\ ref' = Start /\ is_skip_ref' = FALSE /\ wb_buff' /\ wb_num' = 1
      /\ wb_wait' \in BOOLEAN /\ (wb_wait' => mem'.pc # NoPc /\ mem'.inst \in {"ld", "dev"})
  BY StartingEdge, Zenon DEF Inst1
<1>5. Retired(ref', gpr', is_skip_ref') = First
  BY <1>4 DEF Retired, First
<1>6. Bubble.pc = NoPc /\ Bubble.inst = "none" /\ x.pc = 2 /\ x.inst # "ebreak"
  BY <1>1, Firsts, ProgAssumption DEF Bubble
<1>7. Flight(First, FALSE, Inst1, mem', front')
  <2>1. Flight(First, FALSE, Inst1, Bubble, Second)
    BY <1>6, FirstFlight, ShiftBubble, Zenon DEF Ends
  <2>2. Flight(First, FALSE, Inst1, x, e)
    BY <1>1, Firsts, FirstFlight, ShiftIssue, ZenonT(30)
  <2> QED
    BY <1>2, <2>1, <2>2, Zenon
<1>8. e.pc = 3
  BY <1>1, Firsts, ProgAssumption, ExecFields
<1>9. mem'.pc # 1 /\ mem'.pc # mtvec /\ front'.pc \in {2, 3} /\ wbu'.pc = 1
  BY <1>2, <1>6, <1>8, Firsts, Handler DEF Inst1, NoPc
<1>10. Announced(wbu', mem', front', intr_buff')
  BY <1>9, HandlerApart, Zenon DEF Announced
<1>11. /\ ref' \in States /\ gpr' \in [a0 : {0, 1}, t : Vals] /\ First \in States
       /\ First.a0 = gpr'.a0 /\ First.t = gpr'.t /\ Behind(First, FALSE)
  BY <1>3, <1>4, Firsts DEF States, Behind
<1> QED
  <2>1. Flight(First, FALSE, wbu', mem', front') /\ front'.pc # 1
    <3>1. front'.pc # 1
      BY <1>9
    <3>2. Flight(First, FALSE, wbu', mem', front')
      BY ONLY <1>2, <1>7, Zenon
    <3> QED
      BY <3>1, <3>2, Zenon
  <2> QED
    BY <1>4, <1>5, <1>9, <1>10, <1>11, <2>1, Zenon DEF Running

\* A cycle of a starting program.
LEMMA StartingCycle ==
  ASSUME Starting, exec_once,
         NEW bubble \in BOOLEAN, NEW async_intr \in BOOLEAN, NEW fault \in BOOLEAN,
         NEW answer \in Vals, single_cycle(bubble, async_intr, answer, fault), wrong' = NoPc
  PROVE  Starting' \/ Running'
<1>1. CASE mem.pc = 1
  <2>1. mem = Inst1 /\ front = Second /\ IF wbu.pc = NoPc THEN gpr = [a0 |-> First.a0, t |-> First.t] ELSE wbu = Inst0
    BY <1>1 DEF Starting, Inst0, Inst1, Bubble, Reset, NoPc
  <2> QED
    BY <2>1, FirstWriteBack
<1>2. CASE mem.pc # 1
  <2>1. /\ ~wb_buff' /\ wb_num' = 0 /\ is_skip_ref' = FALSE /\ ~intr_buff' /\ ref' = Start /\ wbu' = mem
        /\ wb_wait' => mem'.inst \in {"ld", "dev"}
        /\ gpr' = IF wbu.pc = NoPc THEN gpr ELSE [a0 |-> wbu.a0, t |-> wbu.t]
    BY <1>2, StartingEdge, Zenon
  <2>2. /\ Bubble.pc = NoPc /\ Reset = [pc |-> 0, inst |-> "none", a0 |-> 0, t |-> 0]
        /\ Inst0.pc = 0 /\ Inst1.pc = 1 /\ Prog[0] = "op" /\ Prog[1] = "op"
    BY ProgAssumption DEF Bubble, Reset, Inst0, Inst1
  <2>3. /\ front = Start => \/ mem' = Bubble /\ front' = Start
                            \/ mem' = Inst0 /\ front' = First
        /\ front = First => \/ mem' = Bubble /\ front' = First
                            \/ mem' = Inst1 /\ front' = Second
    <3>1. PICK f, e : f = front /\ e = Exec(f, answer)
      OBVIOUS
    <3>2. /\ front' = IF bubble THEN f ELSE e
          /\ mem' = IF bubble THEN Bubble ELSE [pc |-> f.pc, inst |-> Prog[f.pc], a0 |-> e.a0, t |-> e.t]
      BY <3>1, StartingEdge, ZenonT(30)
    <3>3. CASE front = Start
      <4>1. f.pc = 0 /\ e = First
        BY <3>1, <3>3, Firsts
      <4> QED
        BY ONLY <2>2, <3>1, <3>2, <3>3, <4>1, Firsts DEF Inst0
    <3>4. CASE front = First
      <4>1. f.pc = 1 /\ e = Second
        BY <3>1, <3>4, Firsts
      <4> QED
        BY ONLY <2>2, <3>1, <3>2, <3>4, <4>1, Firsts DEF Inst1
    <3> QED
      BY <3>3, <3>4
  <2>4. front \in {Start, First}
    BY <1>2, <2>2, Zenon DEF Starting
  <2>5. ~wb_wait'
    BY <2>1, <2>3, <2>4 DEF Bubble, Inst0, Inst1
  <2>6. CASE front = Start /\ mem \in {Bubble, Reset} /\ wbu \in {Bubble, Reset} /\ gpr = Zeros
    <3>1. gpr' = Zeros
      BY <2>1, <2>2, <2>6 DEF Zeros
    <3> QED
      BY <2>1, <2>3, <2>5, <2>6, <3>1, ZenonT(30) DEF Starting
  <2>7. CASE front = First /\ mem = Inst0 /\ wbu \in {Bubble, Reset} /\ gpr = Zeros
    <3>1. gpr' = Zeros
      BY <2>1, <2>2, <2>7 DEF Zeros
    <3> QED
      BY <2>1, <2>3, <2>5, <2>7, <3>1, ZenonT(30) DEF Starting
  <2>8. CASE front = First /\ mem = Bubble /\ wbu = Inst0 /\ gpr = Zeros
    <3>1. gpr' = [a0 |-> First.a0, t |-> First.t]
      BY <2>1, <2>8 DEF Inst0, NoPc
    <3> QED
      BY <2>1, <2>3, <2>5, <2>8, <3>1, Zenon DEF Starting
  <2>9. CASE front = First /\ mem = Bubble /\ wbu = Bubble /\ gpr = [a0 |-> First.a0, t |-> First.t]
    <3>1. gpr' = [a0 |-> First.a0, t |-> First.t]
      BY <2>1, <2>2, <2>9
    <3> QED
      BY <2>1, <2>3, <2>5, <2>9, <3>1, ZenonT(30) DEF Starting
  <2>10. mem # Inst1
    BY <1>2, <2>2, Zenon
  <2> QED
    BY <2>6, <2>7, <2>8, <2>9, <2>10, Zenon DEF Starting
<1> QED
  BY <1>1, <1>2

-----------------------------------------------------------------------------
(* The invariant.                                                             *)

\* The simulator starts with the first instruction.
LEMMA SimInitInv == SimInit => SimInv
BY DEF SimInit, SimInv, Starting, init_difftest, Zeros

\* Every iteration and every command keep the invariant.
LEMMA SimStepInv == SimInv /\ [SimNext]_simVars => SimInv'
<1> SUFFICES ASSUME SimInv, [SimNext]_simVars PROVE SimInv'
  OBVIOUS
<1>1. ASSUME UNCHANGED <<coreVars, difftest_error, wb_num, is_skip_ref, ref>>,
             cpu_state' = cpu_state, left' = left \/ left' = 0 \/ cpu_state \notin {"END", "QUIT"}
      PROVE  SimInv'
  <2>1. (Starting => Starting') /\ (Running => Running')
    BY <1>1, Zenon DEF coreVars, Starting, Running
  <2> QED
    BY <1>1, <2>1, Zenon DEF coreVars, SimInv
<1>2. CASE UNCHANGED simVars
  BY <1>1, <1>2 DEF simVars
<1>3. CASE \E n \in Nat : cpu_exec(n)
  BY <1>1, <1>3 DEF cpu_exec, refuses
<1>4. CASE quit
  BY <1>4 DEF quit, coreVars, SimInv
<1>5. CASE Iterate
  <2>1. CASE difftest_error
    BY <1>1, <1>5, <2>1 DEF Iterate
  <2>2. ASSUME ~difftest_error, wrong' = NoPc, ~dev_intr'
        PROVE  ~difftest_error' /\ (cpu_state' = "END" \/ Starting' \/ Running')
    <3>0. left # 0 /\ exec_once
      BY <1>5, <2>2 DEF Iterate
    <3>1. wrong = NoPc /\ ~dev_intr
      <4>1. CASE is_ebreak
        BY <1>5, <2>2, <4>1 DEF Iterate, coreVars
      <4>2. CASE ~is_ebreak
        <5>1. PICK bubble \in BOOLEAN, async_intr \in BOOLEAN, fault \in BOOLEAN, answer \in Vals :
                single_cycle(bubble, async_intr, answer, fault)
          BY <1>5, <2>2, <4>2 DEF Iterate, Vals
        <5>2. /\ fault => wrong = NoPc
              /\ wrong' = IF fault THEN front.pc ELSE wrong
              /\ dev_intr' = (dev_intr \/ (async_intr /\ front.pc > 0 /\ Prog[front.pc - 1] = "dev"))
          BY <5>1 DEF single_cycle
        <5> QED
          BY <2>2, <5>2, Zenon
      <4> QED
        BY <4>1, <4>2
    <3>2. Starting \/ Running
      BY <3>0, <3>1 DEF SimInv
    <3>3. ~difftest_error'
      <4>1. CASE Running
        BY <2>2, <3>0, <4>1, RunningExec, Zenon DEF exec_once
      <4>2. CASE Starting
        BY <2>2, <3>0, <4>2, Zenon DEF Starting, exec_once, compares
      <4> QED
        BY <3>2, <4>1, <4>2
    <3>4. CASE is_ebreak
      BY <1>5, <2>2, <3>3, <3>4 DEF Iterate
    <3>5. CASE ~is_ebreak
      <4>1. PICK bubble \in BOOLEAN, async_intr \in BOOLEAN, fault \in BOOLEAN, answer \in Vals :
              single_cycle(bubble, async_intr, answer, fault)
        BY <1>5, <2>2, <3>5 DEF Iterate, Vals
      <4>2. CASE Starting
        BY <2>2, <3>0, <3>3, <4>1, <4>2, StartingCycle
      <4>3. CASE Running /\ wb_wait
        BY <2>2, <3>0, <3>3, <3>5, <4>1, <4>3, RunningWaits, Zenon
      <4>4. CASE Running /\ ~wb_wait
        BY <2>2, <3>0, <3>3, <3>5, <4>1, <4>4, RunningMoves, Zenon
      <4> QED
        BY <3>2, <4>2, <4>3, <4>4, Zenon
    <3> QED
      BY <3>4, <3>5
  <2>3. ASSUME ~difftest_error PROVE cpu_state' \in {"END", "QUIT"} => left' = 0
    <3>1. cpu_state \notin {"END", "QUIT"}
      BY <1>5 DEF Iterate, SimInv
    <3> QED
      BY <1>5, <2>3, <3>1 DEF Iterate
  <2> QED
    BY <2>1, <2>2, <2>3 DEF SimInv
<1> QED
  BY <1>2, <1>3, <1>4, <1>5 DEF SimNext

\* sim_main.cpp and difftest.cpp: for every program and however the core
\* stalls, is interrupted and is answered by devices, a core that computes
\* everything right is never reported.
THEOREM DifftestNeverCriesWolf == SimSpec => []NoFalseAlarm
<1>1. SimInv => NoFalseAlarm
  BY DEF SimInv, NoFalseAlarm
<1> QED
  BY <1>1, SimInitInv, SimStepInv, PTL DEF SimSpec

-----------------------------------------------------------------------------
(* A wrong result, from MEM to the comparison.                                *)

\* Types of a stage and of the simulator's variables.
StageType(x) == x.pc \in Nat /\ x.a0 \in {0, 1} /\ x.t \in Vals

\* The types of the core's and the simulator's variables.
TypeInv ==
  /\ front \in States /\ ref \in States /\ gpr \in [a0 : {0, 1}, t : Vals]
  /\ StageType(mem) /\ StageType(wbu)
  /\ is_skip_ref \in BOOLEAN /\ wb_wait \in BOOLEAN /\ wb_buff \in BOOLEAN

\* t behind the stage x, when it is v before.
Held(x, v) == IF x.pc = NoPc THEN v ELSE x.t

\* Instructions whose result can be wrong, and their right result.
Counts(pc) == pc \in Pcs /\ Prog[pc] \in {"op", "ld"}
RightT(v)  == (v + 1) % TValues

\* What can come behind the instruction at p: its successor, or a handler.
Behinds(p)        == {p + 1, mtvec}
Harmless(p, x)    == Ends(x) => Prog[p + 1] = "ebreak"
Follows(p, x, f) == Harmless(p, x) /\ (x.pc = NoPc => f.pc \in Behinds(p))

\* A signal is high.
On(b) == b = TRUE

\* The first instruction has been written back.
Early(w, m, f) == w.pc = NoPc /\ m.pc # 0 /\ f.pc # 0

\* The wrong result of the instruction at p is in MEM, in WB, or in the register
\* file with the reference before the instruction.  (v is t in the register
\* file, r the reference, d is_skip_ref, b wb_buff.)
InMem(p, w, m, f, v) ==
  m.pc = p /\ m.inst = Prog[p] /\ m.t # RightT(Held(w, v)) /\ f.pc \in Behinds(p)
InWb(p, w, m, f, v) ==
  w.pc = p /\ w.inst = Prog[p] /\ w.t # RightT(v) /\ Follows(p, m, f)
InGpr(p, w, m, f, v, r, d, b) ==
  /\ r.pc = p /\ ~On(d) /\ v # RightT(r.t)
  /\ Harmless(p, w) /\ (w.pc = NoPc => Follows(p, m, f)) /\ (~On(b) => Early(w, m, f))
Placed(p, w, m, f, v, r, d, b) ==
  InMem(p, w, m, f, v) \/ InWb(p, w, m, f, v) \/ InGpr(p, w, m, f, v, r, d, b)

\* A wrong result is somewhere between MEM and the comparison, or behind an
\* ebreak.
Tracked ==
  wrong # NoPc =>
    \/ Ends(wbu) /\ wrong = mem.pc
    \/ Counts(wrong) /\ Placed(wrong, wbu, mem, front, gpr.t, ref, is_skip_ref, wb_buff)

\* Before the first write-back the first two instructions are on their way.
Op(x, pc) == x.pc = pc /\ x.inst = "op"
None(x)   == x.pc = NoPc /\ x.inst = "none"
Beginning ==
  /\ wb_num = 0 /\ ref = Start /\ is_skip_ref = FALSE /\ ~wb_wait
  /\ front.mie = FALSE /\ front.mepc = 0
  /\ \/ /\ front.pc = 0 /\ gpr = Zeros /\ mem \in {Bubble, Reset} /\ wbu \in {Bubble, Reset}
     \/ /\ front.pc = 1 /\ gpr = Zeros /\ Op(mem, 0) /\ wbu \in {Bubble, Reset}
     \/ /\ front.pc = 1 /\ gpr = Zeros /\ None(mem) /\ Op(wbu, 0)
     \/ /\ front.pc = 1 /\ None(mem) /\ None(wbu)
     \/ /\ front.pc = 2 /\ gpr = Zeros /\ Op(mem, 1) /\ Op(wbu, 0)
     \/ /\ front.pc = 2 /\ Op(mem, 1) /\ None(wbu)

\* Later the program is in its code, up to an ebreak.
Going ==
  /\ wb_num = 1 /\ mem.pc # 1
  /\ wb_wait => mem.pc # NoPc /\ mem.inst \in {"ld", "dev"}
  /\ ~Ends(wbu) => front.pc # 1
  /\ ~Ends(wbu) /\ ~Ends(mem) => InCode(front) /\ (front.pc = mtvec => front.mie = FALSE)

\* As long as no result is wrong, t in EX is that of the last instruction.
Values ==
  wrong = NoPc /\ ~Ends(wbu) /\ ~Ends(mem) => front.t = Held(mem, Held(wbu, gpr.t))

\* The invariant while the loop runs.
Flow == TypeInv /\ (wb_buff => Going) /\ (~wb_buff => Beginning) /\ Values /\ Tracked

\* What GoodMeansRight allows to have gone wrong.
Fine == wrong = NoPc \/ Prog[wrong + 1] = "ebreak" \/ wrong = mem.pc

\* The inductive invariant: the run ends with an ebreak, or a mismatch found.
GoodInv ==
  /\ cpu_state \in {"END", "QUIT"} => left = 0
  /\ cpu_state = "END" => Fine
  /\ ~difftest_error /\ cpu_state \notin {"END", "QUIT"} => Flow

\* A wrong result differs from the right one.
LEMMA WrongDiffers ==
  ASSUME NEW v \in Vals
  PROVE  RightT(v) \in Vals /\ RightT(v) # v
BY TValuesAssumption DEF RightT, Vals

\* What an instruction whose result can be wrong does.
LEMMA CountsExec ==
  ASSUME NEW s \in States, NEW a \in Vals, Counts(s.pc)
  PROVE  Exec(s, a).t = RightT(s.t) /\ Exec(s, a).pc = s.pc + 1
<1>1. PICK n : n = [s EXCEPT !.pc = @ + 1]
  BY Zenon
<1>2. n.t = s.t /\ n = [pc |-> n.pc, a0 |-> n.a0, t |-> n.t, mepc |-> n.mepc, mie |-> n.mie]
  BY <1>1 DEF States
<1>3. Exec(s, a) = [n EXCEPT !.t = RightT(@)]
  BY <1>1 DEF Exec, Counts, RightT
<1>4. Exec(s, a).t = RightT(s.t)
  BY ONLY <1>2, <1>3, Zenon
<1>5. Exec(s, a).pc = s.pc + 1
  BY ExecFields DEF Counts
<1> QED
  BY <1>4, <1>5

\* What comes behind such an instruction is in the code.
LEMMA BehindCounts ==
  ASSUME NEW p, Counts(p)
  PROVE  Behinds(p) \subseteq Pcs /\ NoPc \notin Behinds(p)
BY Handler, ProgAssumption DEF Counts, Behinds, Pcs

\* A cycle in which MEM waits leaves a wrong result where it is.
LEMMA PlacedStays ==
  ASSUME NEW p, NEW w, NEW m, NEW f, NEW v, NEW r, NEW d, NEW b, Placed(p, w, m, f, v, r, d, b),
         NEW g, g.pc = f.pc \/ g.pc = mtvec
  PROVE  Placed(p, w, m, g, v, r, d, b)
<1>1. f.pc \in Behinds(p) => g.pc \in Behinds(p)
  BY Zenon DEF Behinds
<1>2. Follows(p, m, f) => Follows(p, m, g)
  BY <1>1, Zenon DEF Follows
<1>3. Early(w, m, f) => Early(w, m, g)
  BY Handler DEF Early
<1> QED
  BY <1>1, <1>2, <1>3, Zenon DEF Placed, InMem, InWb, InGpr

\* A cycle in which the stages move takes a wrong result along: to MEM x, with
\* g before EX.  The comparison has found the registers equal.
LEMMA PlacedMoves ==
  ASSUME NEW p, NEW w, NEW m, NEW f, NEW v, NEW r, NEW d, NEW b, Placed(p, w, m, f, v, r, d, b),
         Counts(p), ~Ends(w),
         NEW x, NEW g, f.pc \in Behinds(p) => Follows(p, x, g),
         NEW s, NEW e, NEW c,
         w.pc # NoPc => s.pc = w.pc /\ s.t = v /\ (w.inst # "dev" => ~On(e)),
         w.pc = NoPc => s = r /\ e = d,
         w.pc # NoPc /\ On(b) => ~(r.pc = p /\ ~On(d) /\ v # RightT(r.t)),
         ~On(c) => ~On(b) /\ (Early(w, m, f) \/ (w.pc = p /\ w.inst = Prog[p]) => Early(m, x, g))
  PROVE  Placed(p, m, x, g, Held(w, v), s, e, c)
<1>0. p # NoPc /\ Prog[p] # "dev"
  BY Handler, Zenon DEF Counts
<1>1. CASE InMem(p, w, m, f, v)
  BY <1>1, Zenon DEF InMem, InWb, Placed
<1>2. CASE InWb(p, w, m, f, v)
  <2>1. Held(w, v) = w.t /\ w.pc # NoPc /\ w.inst # "dev"
    BY <1>0, <1>2, Zenon DEF InWb, Held
  <2>2. s.pc = p /\ ~On(e) /\ Held(w, v) # RightT(s.t)
    BY <1>2, <2>1, Zenon DEF InWb
  <2>3. Harmless(p, m) /\ (m.pc = NoPc => Follows(p, x, g))
    BY <1>2, Zenon DEF InWb, Follows
  <2>4. ~On(c) => Early(m, x, g)
    BY <1>2, Zenon DEF InWb
  <2> QED
    BY <2>2, <2>3, <2>4, Zenon DEF InGpr, Placed
<1>3. CASE InGpr(p, w, m, f, v, r, d, b)
  <2>1. w.pc = NoPc
    BY <1>3, Zenon DEF InGpr, Early
  <2>2. Held(w, v) = v /\ s = r /\ e = d
    BY <2>1, Zenon DEF Held
  <2>3. Harmless(p, m) /\ (m.pc = NoPc => Follows(p, x, g))
    BY <1>3, <2>1, Zenon DEF InGpr, Follows
  <2>4. ~On(c) => Early(m, x, g)
    BY <1>3, Zenon DEF InGpr
  <2> QED
    BY <1>3, <2>2, <2>3, <2>4, Zenon DEF InGpr, Placed
<1> QED
  BY <1>1, <1>2, <1>3, Zenon DEF Placed

\* A cycle in which the stages move leads from f before EX to x in MEM and g
\* before EX: without an instruction, killing it, or issuing it, with a wrong
\* result if k.
Issue(f, x, g, a, k) ==
  /\ x.pc = f.pc /\ x.inst = Prog[f.pc] /\ x.t = g.t
  /\ g.pc = Exec(f, a).pc /\ g.mepc = Exec(f, a).mepc /\ g.mie = Exec(f, a).mie
  /\ k => Prog[f.pc] \in {"op", "ld"} /\ g.t = RightT(Exec(f, a).t)
Move(f, x, g, a, k) ==
  /\ StageType(x) /\ g \in States
  /\ \/ ~k /\ x = Bubble /\ g = f
     \/ ~k /\ x.pc = NoPc /\ x.inst = Prog[f.pc] /\ g = Trap(f) /\ f.mie
     \/ Issue(f, x, g, a, k)

\* single_cycle makes such a move.
LEMMA CycleMoves ==
  ASSUME TypeInv, ~wb_wait,
         NEW bubble \in BOOLEAN, NEW async_intr \in BOOLEAN, NEW fault \in BOOLEAN,
         NEW answer \in Vals, single_cycle(bubble, async_intr, answer, fault)
  PROVE  Move(front, mem', front', answer, fault)
<1>1. PICK f \in States, e \in States : f = front /\ e = Exec(f, answer)
  BY ExecFields DEF TypeInv
<1>2. PICK h \in States : h = (IF fault THEN [e EXCEPT !.t = RightT(@)] ELSE e)
  <2>1. RightT(e.t) \in Vals
    BY WrongDiffers DEF States
  <2> QED
    BY <2>1, Zenon DEF States
<1>3. /\ h.pc = e.pc /\ h.mepc = e.mepc /\ h.mie = e.mie /\ (fault => h.t = RightT(e.t))
      /\ h.a0 \in {0, 1} /\ h.t \in Vals /\ f.pc \in Nat
  BY <1>2 DEF States
<1>4. PICK x : x = [pc |-> f.pc, inst |-> Prog[f.pc], a0 |-> h.a0, t |-> h.t]
  BY Zenon
<1>5. /\ front' = IF async_intr THEN Trap(f) ELSE IF bubble THEN f ELSE h
      /\ mem' = IF bubble THEN Bubble ELSE [x EXCEPT !.pc = IF async_intr THEN NoPc ELSE @]
      /\ async_intr => ~bubble /\ f.mie
      /\ fault => ~bubble /\ ~async_intr /\ Prog[f.pc] \in {"op", "ld"}
  BY <1>1, <1>2, <1>4, ZenonT(30) DEF single_cycle, RightT
<1>6. StageType(Bubble)
  BY Handler DEF Bubble, StageType, NoPc
<1>7. CASE bubble
  BY <1>1, <1>5, <1>6, <1>7, Zenon DEF Move
<1>8. CASE async_intr
  <2>1. PICK y : y = mem' /\ y = [x EXCEPT !.pc = NoPc]
    BY <1>5, <1>8
  <2>2. y.pc = NoPc /\ y.inst = Prog[f.pc] /\ StageType(y)
    BY <1>3, <1>4, <2>1 DEF StageType, NoPc
  <2>3. front' = Trap(f) /\ Trap(f) \in States /\ f.mie /\ ~fault
    BY <1>5, <1>8, TrapFields, Zenon
  <2> QED
    BY <1>1, <2>1, <2>2, <2>3, Zenon DEF Move
<1>9. CASE ~bubble /\ ~async_intr
  <2>1. mem' = x /\ front' = h
    BY <1>4, <1>5, <1>9, Zenon
  <2>2. x.pc = f.pc /\ x.inst = Prog[f.pc] /\ x.t = h.t /\ StageType(x)
    BY <1>3, <1>4 DEF StageType
  <2>3. Issue(f, x, h, answer, fault)
    BY <1>1, <1>3, <1>5, <2>2, ZenonT(30) DEF Issue
  <2>4. Move(f, x, h, answer, fault)
    BY <2>2, <2>3 DEF Move
  <2> QED
    BY <1>1, <2>1, <2>4
<1> QED
  BY <1>7, <1>8, <1>9, Zenon

\* What leaves EX, or is killed there, behind a wrong result.
LEMMA MoveFollows ==
  ASSUME NEW p, Counts(p), NEW f \in States, f.pc \in Behinds(p),
         NEW x, NEW g, NEW a, Move(f, x, g, a, FALSE)
  PROVE  Follows(p, x, g)
<1>1. f.pc # NoPc /\ mtvec \in Behinds(p)
  BY BehindCounts DEF Behinds
<1>2. ASSUME x.inst = Prog[f.pc] PROVE Harmless(p, x)
  BY <1>2, HandlerAssumption, Zenon DEF Harmless, Ends, Behinds
<1>3. CASE x = Bubble /\ g = f
  BY <1>3 DEF Follows, Harmless, Ends, Bubble
<1>4. CASE x.inst = Prog[f.pc] /\ g = Trap(f)
  BY <1>1, <1>2, <1>4, TrapFields, ZenonT(30) DEF Follows
<1>5. CASE Issue(f, x, g, a, FALSE)
  BY <1>1, <1>2, <1>5, Zenon DEF Issue, Follows
<1> QED
  BY <1>3, <1>4, <1>5, Zenon DEF Move

\* The program stays in its code, with or without a wrong result.
LEMMA MoveInCode ==
  ASSUME NEW f, InCode(f), f.pc = mtvec => f.mie = FALSE,
         NEW x, NEW g, NEW a \in Vals, NEW k, Move(f, x, g, a, k)
  PROVE  /\ x.pc # 1 /\ g.pc # 1
         /\ ~Ends(x) => InCode(g) /\ (g.pc = mtvec => g.mie = FALSE)
<1>0. f \in States /\ f.pc \in Nat /\ f.pc >= 2
  BY Zenon DEF InCode, States
<1>1. CASE x = Bubble /\ g = f
  BY <1>0, <1>1 DEF Bubble, NoPc
<1>2. CASE x.pc = NoPc /\ g = Trap(f) /\ f.mie
  <2>1. g.pc = mtvec /\ g.mie = FALSE /\ f.pc # mtvec
    BY <1>0, <1>2, TrapFields, Zenon
  <2>2. InCode(g)
    BY <1>2, <2>1, TrapInCode
  <2> QED
    BY <1>2, <2>1, <2>2, Handler DEF NoPc
<1>3. CASE Issue(f, x, g, a, k)
  <2>1. PICK e \in States : e = Exec(f, a)
    BY <1>0, ExecFields, Zenon
  <2>2. x.pc = f.pc /\ x.inst = Prog[f.pc] /\ g.pc = e.pc /\ g.mepc = e.mepc /\ g \in States
    BY <1>3, <2>1, Zenon DEF Issue, Move
  <2>3. CASE Ends(x)
    <3>1. e.pc = f.pc + 1
      BY <1>0, <2>1, <2>2, <2>3, ExecFields, Zenon DEF Ends
    <3> QED
      BY ONLY <1>0, <2>2, <2>3, <3>1
  <2>4. CASE ~Ends(x)
    <3>1. InCode(e) /\ e.pc # mtvec
      BY <2>1, <2>2, <2>4, ExecInCode, Zenon DEF Ends
    <3>2. InCode(g) /\ g.pc # mtvec /\ g.pc # 1
      BY ONLY <2>2, <3>1 DEF InCode
    <3>3. x.pc # 1
      <4>1. f.pc # 1
        BY <1>0, NotOne, Zenon
      <4> QED
        BY <2>2, <4>1, Zenon
    <3> QED
      BY <3>2, <3>3, ZenonT(30)
  <2> QED
    BY <2>3, <2>4, Zenon
<1> QED
  BY <1>1, <1>2, <1>3, Zenon DEF Move

\* t in EX is that of the last instruction.
LEMMA MoveValues ==
  ASSUME NEW f \in States, f.pc # NoPc, NEW x, NEW g, NEW a, NEW k, Move(f, x, g, a, k)
  PROVE  g.t = Held(x, f.t)
<1>1. CASE x = Bubble /\ g = f
  BY <1>1 DEF Held, Bubble
<1>2. CASE x.pc = NoPc /\ g = Trap(f)
  BY <1>2, TrapFields, ZenonT(30) DEF Held
<1>3. CASE Issue(f, x, g, a, k)
  BY <1>3, Zenon DEF Held, Issue
<1> QED
  BY <1>1, <1>2, <1>3, Zenon DEF Move

\* A wrong result enters MEM.
LEMMA MoveWrong ==
  ASSUME NEW f \in States, f.pc \in Pcs, NEW x, NEW g, NEW a \in Vals, Move(f, x, g, a, TRUE),
         NEW w, NEW v, f.t = Held(w, v)
  PROVE  Counts(f.pc) /\ InMem(f.pc, w, x, g, v)
<1>1. Issue(f, x, g, a, TRUE)
  BY ZenonT(30) DEF Move
<1>2. Counts(f.pc)
  BY <1>1, Zenon DEF Issue, Counts
<1>3. Exec(f, a).t = RightT(f.t) /\ Exec(f, a).pc = f.pc + 1 /\ RightT(f.t) \in Vals
  BY <1>2, CountsExec, WrongDiffers, ZenonT(30) DEF States
<1>4. x.t # RightT(f.t)
  BY <1>1, <1>3, WrongDiffers, Zenon DEF Issue
<1> QED
  BY <1>1, <1>2, <1>3, <1>4, Zenon DEF Issue, InMem, Behinds

\* A cycle in which MEM waits.
LEMMA CycleWaits ==
  ASSUME TypeInv, wb_wait,
         NEW bubble \in BOOLEAN, NEW async_intr \in BOOLEAN, NEW fault \in BOOLEAN,
         NEW answer \in Vals, single_cycle(bubble, async_intr, answer, fault)
  PROVE  /\ mem' = mem /\ wbu' = wbu /\ gpr' = gpr /\ ~fault
         /\ front' = front \/ (front' = Trap(front) /\ front.mie)
         /\ front' \in States /\ front'.pc \in {front.pc, mtvec} /\ front'.t = front.t
<1>1. mem' = mem /\ wbu' = wbu /\ gpr' = gpr /\ ~fault
  BY DEF single_cycle
<1>2. front' = front \/ (front' = Trap(front) /\ front.mie)
  BY DEF single_cycle
<1>3. PICK f \in States : f = front
  BY DEF TypeInv
<1>4. front' \in States /\ front'.pc \in {f.pc, mtvec} /\ front'.t = f.t
  BY <1>2, <1>3, TrapFields, Zenon
<1> QED
  BY <1>1, <1>2, <1>3, <1>4

\* The reference steps from state to state.
LEMMA StepState ==
  ASSUME NEW r \in States, NEW g \in [a0 : {0, 1}, t : Vals], NEW pc \in Nat
  PROVE  [r EXCEPT !.a0 = g.a0, !.t = g.t, !.pc = pc] \in States
BY Zenon DEF States

\* Types are kept.
LEMMA TypeStep ==
  ASSUME TypeInv, exec_once,
         NEW bubble \in BOOLEAN, NEW async_intr \in BOOLEAN, NEW fault \in BOOLEAN,
         NEW answer \in Vals, single_cycle(bubble, async_intr, answer, fault)
  PROVE  TypeInv'
<1>1. ref' \in States
  <2>1. difftest_step(ref) \in States
    <3>1. CASE is_skip_ref
      <4>1. gpr \in [a0 : {0, 1}, t : Vals] /\ wbu.pc \in Nat /\ ref \in States
        BY DEF TypeInv, StageType
      <4> QED
        BY <3>1, <4>1, StepState, Zenon DEF difftest_step
    <3>2. CASE ~is_skip_ref
      BY <3>2, ExecFields, Handler DEF TypeInv, difftest_step, ref_difftest_exec
    <3> QED
      BY <3>1, <3>2, Zenon
  <2>2. PICK r \in States : r = difftest_step(ref)
    BY <2>1
  <2>3. AfterStep \in States
    BY <2>2, TrapFields, Zenon DEF AfterStep, ref_difftest_raise_intr
  <2> QED
    BY <2>3 DEF exec_once, TypeInv
<1>2. is_skip_ref' \in BOOLEAN /\ wb_wait' \in BOOLEAN /\ wb_buff' \in BOOLEAN
  BY Zenon DEF exec_once, single_cycle, TypeInv, wb_device, wb_start
<1>3. front' \in States /\ StageType(mem)' /\ StageType(wbu)' /\ gpr' \in [a0 : {0, 1}, t : Vals]
  <2>1. CASE wb_wait
    BY <2>1, CycleWaits, ZenonT(30) DEF TypeInv, StageType
  <2>2. CASE ~wb_wait
    <3>1. front' \in States /\ StageType(mem')
      BY <2>2, CycleMoves DEF Move
    <3>2. wbu' = mem /\ gpr' = IF wbu.pc = NoPc THEN gpr ELSE [a0 |-> wbu.a0, t |-> wbu.t]
      BY <2>2 DEF single_cycle
    <3> QED
      BY <3>1, <3>2, Zenon DEF TypeInv, StageType
  <2> QED
    BY <2>1, <2>2, Zenon
<1> QED
  BY <1>1, <1>2, <1>3, Zenon DEF TypeInv

\* A cycle after the first write-back.
LEMMA GoingStep ==
  ASSUME TypeInv, wb_buff, Going, ~Ends(wbu), exec_once,
         NEW bubble \in BOOLEAN, NEW async_intr \in BOOLEAN, NEW fault \in BOOLEAN,
         NEW answer \in Vals, single_cycle(bubble, async_intr, answer, fault)
  PROVE  wb_buff' /\ Going'
<1>1. wb_num' = 1 /\ wb_buff' /\ (wb_wait' => mem'.pc # NoPc /\ mem'.inst \in {"ld", "dev"})
  BY Zenon DEF exec_once, single_cycle, Going
<1>2. PICK f, m : f = front /\ m = mem
  BY Zenon
<1>3. CASE wb_wait
  <2>1. mem' = m /\ wbu' = wbu /\ ~Ends(m) /\ m.pc # 1 /\ (front' = f \/ (front' = Trap(f) /\ f.mie))
    BY <1>2, <1>3, CycleWaits, Zenon DEF Going, Ends
  <2>2. InCode(f) /\ (f.pc = mtvec => f.mie = FALSE)
    BY <1>2, <2>1 DEF Going
  <2>3. PICK g : g = front'
    OBVIOUS
  <2>4. InCode(g) /\ (g.pc = mtvec => g.mie = FALSE)
    <3>1. CASE g = f
      BY <2>2, <3>1
    <3>2. CASE g = Trap(f) /\ f.mie
      BY <2>2, <3>2, TrapInCode, TrapFields, Zenon DEF InCode
    <3> QED
      BY <2>1, <2>3, <3>1, <3>2, Zenon
  <2>5. g.pc # 1
    BY ONLY <2>4, SMTT(30) DEF InCode, States
  <2> QED
    BY <1>1, <2>1, <2>3, <2>4, <2>5, Zenon DEF Going
<1>4. CASE ~wb_wait
  <2>1. PICK x, g : x = mem' /\ g = front' /\ Move(f, x, g, answer, fault)
    BY <1>2, <1>4, CycleMoves
  <2>2. wbu' = m
    BY <1>2, <1>4, Zenon DEF single_cycle
  <2>3. ~Ends(m) => InCode(f) /\ (f.pc = mtvec => f.mie = FALSE)
    BY <1>2 DEF Going
  <2>4. ~Ends(m) => g.pc # 1 /\ (~Ends(x) => InCode(g) /\ (g.pc = mtvec => g.mie = FALSE))
    BY <2>1, <2>3, MoveInCode, ZenonT(30)
  <2>5. x.pc # 1
    <3>1. f.pc # 1
      BY <1>2 DEF Going
    <3> QED
      BY <2>1, <3>1, EmptyStages, Zenon DEF Move, Issue
  <2> QED
    BY <1>1, <2>1, <2>2, <2>4, <2>5, Zenon DEF Going
<1> QED
  BY <1>3, <1>4

\* A cycle before the first write-back.
LEMMA BeginningStep ==
  ASSUME TypeInv, ~wb_buff, Beginning, exec_once,
         NEW bubble \in BOOLEAN, NEW async_intr \in BOOLEAN, NEW fault \in BOOLEAN,
         NEW answer \in Vals, single_cycle(bubble, async_intr, answer, fault)
  PROVE  /\ wb_buff' <=> mem.pc = 1
         /\ wb_buff' => Going'
         /\ ~wb_buff' => Beginning'
         /\ ref' = Start /\ is_skip_ref' = FALSE /\ front.pc \in {0, 1, 2} /\ ~Ends(wbu) /\ ~Ends(mem)
<1>0. PICK f, m, w, z : f = front /\ m = mem /\ w = wbu /\ z = gpr
  OBVIOUS
<1>1. f \in States /\ f = front /\ m = mem /\ w = wbu /\ z = gpr
  BY <1>0 DEF TypeInv
<1>2. /\ f.mie = FALSE /\ f.mepc = 0 /\ f.pc \in {0, 1, 2} /\ ~wb_wait
      /\ (f.pc = 2 <=> m.pc = 1)
  BY <1>1 DEF Beginning, Op, None, Bubble, Reset, NoPc
<1>3. PICK x, g : x = mem' /\ g = front' /\ Move(f, x, g, answer, fault)
  BY <1>1, <1>2, CycleMoves, Zenon
<1>4. \/ x = Bubble /\ g = f
      \/ x.pc = f.pc /\ x.inst = Prog[f.pc] /\ g.pc = f.pc + 1 /\ g.mepc = 0 /\ (f.pc \in {0, 1} => g.mie = FALSE)
  <2>1. /\ Prog[f.pc] \notin {"mret", "spin"} /\ (f.pc \in {0, 1} => Prog[f.pc] # "ei")
    BY <1>2, ProgAssumption, Zenon
  <2>2. /\ Exec(f, answer).pc = f.pc + 1 /\ Exec(f, answer).mepc = 0
        /\ (f.pc \in {0, 1} => Exec(f, answer).mie = FALSE)
    BY <1>1, <1>2, <2>1, ExecFields, Zenon
  <2> QED
    BY <1>2, <1>3, <2>2, Zenon DEF Move, Issue
<1>5. wbu' = m /\ gpr' = IF w.pc = NoPc THEN z ELSE [a0 |-> w.a0, t |-> w.t]
  BY <1>1, <1>2 DEF single_cycle
<1>6. ref' = Start /\ is_skip_ref' = FALSE /\ wb_num' = (IF m.pc = 1 THEN 1 ELSE 0) /\ (wb_buff' <=> m.pc = 1)
  BY <1>1, ZenonT(30) DEF exec_once, single_cycle, Beginning, compares, wb_sign, wb_start
<1>7. wb_wait' => x.pc # NoPc /\ x.inst \in {"ld", "dev"}
  BY <1>3 DEF single_cycle
<1>8. Prog[0] = "op" /\ Prog[1] = "op" /\ Prog[2] \in {"op", "ei"} /\ 2 \in Pcs
  BY ProgAssumption, Zenon DEF Pcs
<1>9. Bubble.pc = NoPc /\ Bubble.inst = "none"
  BY DEF Bubble
<1>10. ~wb_wait'
  BY <1>2, <1>4, <1>7, <1>8, <1>9
<1>11. ~Ends(w) /\ ~Ends(m)
  <2>2. m.inst \in {"op", "none"} /\ w.inst \in {"op", "none"}
    BY <1>1, EmptyStages, ZenonT(30) DEF Beginning, Op, None
  <2> QED
    BY <2>2, Zenon DEF Ends
<1>12. CASE m.pc = 1
  <2>1. f.pc = 2 /\ x.pc # 1 /\ ~Ends(x) /\ g.pc \in {2, 3} /\ g.mepc = 0 /\ g \in States
    BY ONLY <1>2, <1>3, <1>4, <1>8, <1>9, <1>12, SMTT(30) DEF Ends, Move, NoPc
  <2>2. g.pc \in Pcs /\ 0 \in Pcs
    BY <1>4, <1>8, <2>1, ProgAssumption, Zenon DEF Pcs
  <2>3. InCode(g) /\ g.pc # mtvec
    BY ONLY <2>1, <2>2, Handler DEF InCode
  <2> QED
    <3>1. g.pc # 1
      BY <2>1, NotOne, Zenon
    <3> QED
      BY <1>1, <1>2, <1>3, <1>5, <1>6, <1>10, <1>11, <1>12, <2>1, <2>3, <3>1, Zenon DEF Going
<1>13. CASE m.pc # 1
  <2>1. f.pc \in {0, 1} /\ g.mie = FALSE /\ g.mepc = 0
    BY <1>2, <1>4, <1>13, Zenon
  <2>2. \/ None(x) /\ x = Bubble /\ g.pc = f.pc
        \/ f.pc = 0 /\ Op(x, 0) /\ g.pc = 1
        \/ f.pc = 1 /\ Op(x, 1) /\ g.pc = 2
    BY <1>4, <1>8, <1>9, <2>1 DEF None, Op
  <2>3. /\ m \in {Bubble, Reset} => None(m) \/ m.pc = 0
        /\ w \in {Bubble, Reset} /\ z = Zeros => gpr' = Zeros
    BY <1>5, EmptyStages, Zenon DEF None, Zeros
  <2>4. \/ f.pc = 0 /\ z = Zeros /\ m \in {Bubble, Reset} /\ w \in {Bubble, Reset}
        \/ f.pc = 1 /\ z = Zeros /\ Op(m, 0) /\ w \in {Bubble, Reset}
        \/ f.pc = 1 /\ z = Zeros /\ None(m) /\ Op(w, 0)
        \/ f.pc = 1 /\ None(m) /\ None(w)
    BY <1>1, <1>13 DEF Beginning, Op
  <2>5. \/ /\ g.pc = 0 /\ gpr' = Zeros /\ x \in {Bubble, Reset} /\ m \in {Bubble, Reset}
        \/ /\ g.pc = 1 /\ gpr' = Zeros /\ Op(x, 0) /\ m \in {Bubble, Reset}
        \/ /\ g.pc = 1 /\ gpr' = Zeros /\ None(x) /\ Op(m, 0)
        \/ /\ g.pc = 1 /\ None(x) /\ None(m)
        \/ /\ g.pc = 2 /\ gpr' = Zeros /\ Op(x, 1) /\ Op(m, 0)
        \/ /\ g.pc = 2 /\ Op(x, 1) /\ None(m)
    BY <2>2, <2>3, <2>4, ZenonT(30)
  <2>6. ~wb_buff' /\ Beginning'
    BY <1>3, <1>5, <1>6, <1>10, <1>13, <2>1, <2>5, ZenonT(30) DEF Beginning, Op, None
  <2> QED
    BY <1>1, <1>2, <1>6, <1>11, <1>13, <2>6, Zenon
<1> QED
  BY <1>12, <1>13, Zenon

\* Where the next instruction is before an ebreak: in the code.
LEMMA FrontInCode ==
  ASSUME Flow, ~Ends(wbu), ~Ends(mem)
  PROVE  front \in States /\ front.pc \in Pcs /\ front.pc # NoPc
<1>1. CASE wb_buff
  BY <1>1, Handler, Zenon DEF Flow, Going, InCode
<1>2. CASE ~wb_buff
  <2>1. front.pc \in {0, 1, 2}
    BY <1>2, Zenon DEF Flow, Beginning
  <2> QED
    BY <2>1, ProgAssumption, ZenonT(30) DEF Flow, TypeInv, Pcs, NoPc
<1> QED
  BY <1>1, <1>2

\* A cycle keeps the value in EX that of the last instruction.
LEMMA ValuesStep ==
  ASSUME Flow, ~Ends(wbu),
         NEW bubble \in BOOLEAN, NEW async_intr \in BOOLEAN, NEW fault \in BOOLEAN,
         NEW answer \in Vals, single_cycle(bubble, async_intr, answer, fault)
  PROVE  Values'
<1> SUFFICES ASSUME wrong' = NoPc, ~Ends(wbu'), ~Ends(mem')
             PROVE  front'.t = Held(mem', Held(wbu', gpr'.t))
  BY DEF Values
<1>1. PICK f, m, w, v : f = front /\ m = mem /\ w = wbu /\ v = gpr.t
  BY ZenonT(30)
<1>2. CASE wb_wait
  <2>1. mem' = m /\ wbu' = w /\ gpr'.t = v /\ front'.t = f.t /\ wrong = NoPc
    BY <1>1, <1>2, CycleWaits, Zenon DEF Flow, single_cycle
  <2>2. f.t = Held(m, Held(w, v))
    BY <1>1, <2>1, ZenonT(30) DEF Flow, Values
  <2> QED
    BY <2>1, <2>2
<1>3. CASE ~wb_wait
  <2>1. PICK x, g : x = mem' /\ g = front' /\ Move(f, x, g, answer, fault)
    BY <1>1, <1>3, CycleMoves, Zenon DEF Flow
  <2>2. wbu' = m /\ gpr'.t = Held(w, v)
    <3>1. wbu' = m /\ gpr' = IF w.pc = NoPc THEN gpr ELSE [a0 |-> w.a0, t |-> w.t]
      BY <1>1, <1>3, Zenon DEF single_cycle
    <3>2. CASE w.pc = NoPc
      BY <1>1, <3>1, <3>2, Zenon DEF Held
    <3>3. CASE w.pc # NoPc
      <4>1. gpr' = [a0 |-> w.a0, t |-> w.t]
        BY <3>1, <3>3, Zenon
      <4>2. gpr'.t = w.t
        BY <4>1, Zenon
      <4> QED
        BY <3>1, <3>3, <4>2, Zenon DEF Held
    <3> QED
      BY <3>2, <3>3, Zenon
  <2>3. f \in States /\ f.pc # NoPc
    BY <1>1, <2>2, FrontInCode, Zenon
  <2>4. wrong = NoPc
    BY <1>1, <2>3, Zenon DEF single_cycle
  <2>5. f.t = Held(m, Held(w, v))
    BY <1>1, <2>2, <2>4, Zenon DEF Flow, Values
  <2>6. g.t = Held(x, f.t)
    BY <2>1, <2>3, MoveValues, Zenon
  <2> QED
    BY <2>1, <2>2, <2>5, <2>6, Zenon
<1> QED
  BY <1>2, <1>3, Zenon

\* What a comparison that finds nothing says.
LEMMA ComparedEqual ==
  ASSUME TypeInv, wb_buff, Going, ~wb_wait, wbu.pc # NoPc, exec_once, ~difftest_error'
  PROVE  /\ ref'.pc = wbu.pc /\ ref'.t = gpr.t /\ is_skip_ref' = (wbu.inst = "dev")
         /\ ~(Counts(ref.pc) /\ ~On(is_skip_ref) /\ gpr.t # RightT(ref.t))
<1>1. compares /\ ref' = AfterStep /\ is_skip_ref' = (wbu.inst = "dev")
  BY DEF exec_once, compares, wb_sign, Going, wb_device
<1>2. [a0 |-> ref'.a0, t |-> ref'.t, pc |-> ref'.pc] = [a0 |-> gpr.a0, t |-> gpr.t, pc |-> wbu.pc]
  BY <1>1, ZenonT(30) DEF exec_once, difftest_check, ref_difftest_checkregs, regs
<1>3. ref'.pc = wbu.pc /\ ref'.t = gpr.t
  BY <1>2, SameRegs, Zenon
<1>4. ASSUME Counts(ref.pc), ~is_skip_ref PROVE gpr.t = RightT(ref.t)
  <2>1. PICK e \in States : e = Exec(ref, 0) /\ e.t = RightT(ref.t)
    BY <1>4, CountsExec, ExecFields, Handler DEF TypeInv
  <2>2. ref' = IF wb_intr THEN Trap(e) ELSE e
    BY <1>1, <1>4, <2>1 DEF AfterStep, difftest_step, ref_difftest_exec, ref_difftest_raise_intr
  <2>3. ref'.t = e.t
    BY <2>2, TrapFields, Zenon
  <2> QED
    BY <1>3, <2>1, <2>3, ZenonT(30)
<1> QED
  BY <1>1, <1>3, <1>4, Zenon DEF On, TypeInv

\* A cycle takes a wrong result on towards the comparison, or makes one.
LEMMA TrackedStep ==
  ASSUME Flow, ~Ends(wbu), exec_once, ~difftest_error',
         NEW bubble \in BOOLEAN, NEW async_intr \in BOOLEAN, NEW fault \in BOOLEAN,
         NEW answer \in Vals, single_cycle(bubble, async_intr, answer, fault)
  PROVE  Tracked'
<1>1. PICK f, m, w, v, r, d, b, p :
        /\ f = front /\ m = mem /\ w = wbu /\ v = gpr.t /\ r = ref /\ d = is_skip_ref /\ b = wb_buff
        /\ p = wrong
  OBVIOUS
<1>2. PICK x, g, s, e, c : x = mem' /\ g = front' /\ s = ref' /\ e = is_skip_ref' /\ c = wb_buff'
  OBVIOUS
<1>3. TypeInv /\ f \in States
  BY <1>1 DEF Flow, TypeInv
<1>4. CASE wrong = NoPc /\ fault
  <2>1. ~wb_wait /\ wrong' = f.pc /\ wbu' = m /\ gpr'.t = Held(w, v)
    BY <1>1, <1>4 DEF single_cycle, Held
  <2>2. Move(f, x, g, answer, TRUE)
    BY <1>1, <1>2, <1>3, <1>4, <2>1, CycleMoves, Zenon
  <2>3. CASE Ends(m)
    <3>1. x.pc = f.pc
      BY <2>2, Zenon DEF Move, Issue
    <3> QED
      BY <1>2, <2>1, <2>3, <3>1, Zenon DEF Tracked
  <2>4. CASE ~Ends(m)
    <3>1. f.pc \in Pcs /\ f.t = Held(m, Held(w, v))
      BY <1>1, <1>4, <2>4, FrontInCode, Zenon DEF Flow, Values
    <3>2. PICK u : u = Held(w, v)
      OBVIOUS
    <3>3. Counts(f.pc) /\ InMem(f.pc, m, x, g, u)
      BY <1>3, <2>2, <3>1, <3>2, MoveWrong, Zenon
    <3>4. Placed(f.pc, m, x, g, u, s, e, c)
      BY <3>3, Zenon DEF Placed
    <3> QED
      BY <1>2, <2>1, <3>2, <3>3, <3>4, ZenonT(30) DEF Tracked
  <2> QED
    BY <2>3, <2>4, Zenon
<1>5. CASE wrong = NoPc /\ ~fault
  BY <1>5 DEF Tracked, single_cycle
<1>6. CASE wrong # NoPc
  <2>1. ~fault /\ wrong' = p /\ Counts(p) /\ Placed(p, w, m, f, v, r, d, b)
    BY <1>1, <1>6, Zenon DEF Flow, Tracked, single_cycle
  <2>2. CASE wb_wait
    <3>1. wb_buff /\ Going
      BY <2>2, Zenon DEF Flow, TypeInv, Beginning
    <3>2. x = m /\ wbu' = w /\ gpr'.t = v /\ g.pc \in {f.pc, mtvec}
      BY <1>1, <1>2, <1>3, <2>2, CycleWaits, Zenon
    <3>3. s = r /\ e = d /\ b = TRUE /\ c = TRUE
      <4>1. ~compares
        BY <2>2, <3>1, Zenon DEF compares, wb_sign, wb_start, Going
      <4>2. ref' = ref /\ is_skip_ref' = is_skip_ref
        BY <4>1 DEF exec_once
      <4>3. wb_buff = TRUE /\ wb_buff' = TRUE
        BY <1>3, <3>1, Zenon DEF single_cycle, TypeInv
      <4> QED
        BY <1>1, <1>2, <3>1, <4>2, <4>3, Zenon
    <3>4. Placed(p, w, m, g, v, r, d, b)
      <4>1. Placed(p, w, m, f, v, r, d, b) /\ (g.pc = f.pc \/ g.pc = mtvec)
        BY <2>1, <3>2, <3>3, Zenon
      <4> QED
        BY ONLY <4>1, PlacedStays, ZenonT(30)
    <3>5. Placed(p, w, m, g, v, r, d, c)
      BY <3>3, <3>4, ZenonT(30) DEF Placed, InGpr
    <3> QED
      BY <1>2, <2>1, <3>2, <3>3, <3>5, Zenon DEF Tracked
  <2>3. CASE ~wb_wait
    <3>1. Move(f, x, g, answer, FALSE) /\ wbu' = m /\ gpr'.t = Held(w, v)
      <4>1. Move(f, x, g, answer, FALSE)
        BY <1>1, <1>2, <1>3, <2>1, <2>3, CycleMoves, Zenon
      <4>2. wbu' = mem /\ gpr' = IF wbu.pc = NoPc THEN gpr ELSE [a0 |-> wbu.a0, t |-> wbu.t]
        BY <2>3, ZenonT(30) DEF single_cycle
      <4>3. gpr'.t = Held(w, v)
        BY <1>1, <4>2 DEF Held
      <4> QED
        BY <1>1, <4>1, <4>2, <4>3, Zenon
    <3>2. f.pc \in Behinds(p) => Follows(p, x, g)
      BY <1>3, <2>1, <3>1, MoveFollows, Zenon
    <3>3. /\ w.pc # NoPc => s.pc = w.pc /\ s.t = v /\ (w.inst # "dev" => ~On(e))
          /\ w.pc = NoPc => s = r /\ e = d
          /\ w.pc # NoPc /\ On(b) => ~(r.pc = p /\ ~On(d) /\ v # RightT(r.t))
          /\ ~On(c) => ~On(b) /\ (Early(w, m, f) \/ (w.pc = p /\ w.inst = Prog[p]) => Early(m, x, g))
      <4>1. CASE wb_buff
        <5>1. Going /\ c = TRUE /\ b = TRUE
          BY <1>1, <1>2, <1>3, <4>1, ZenonT(30) DEF Flow, single_cycle, TypeInv
        <5>2. w.pc = NoPc => s = r /\ e = d
          BY <1>1, <1>2, <4>1, <5>1 DEF exec_once, compares, wb_sign, wb_start, Going
        <5>3. w.pc # NoPc => /\ s.pc = w.pc /\ s.t = v /\ e = (w.inst = "dev")
                             /\ ~(Counts(r.pc) /\ ~On(d) /\ v # RightT(r.t))
          BY <1>1, <1>2, <1>3, <2>3, <4>1, <5>1, ComparedEqual, Zenon
        <5> QED
          BY <2>1, <5>1, <5>2, <5>3, Zenon DEF On
      <4>2. CASE ~wb_buff
        <5>1. Beginning
          BY <4>2 DEF Flow
        <5>2. s = Start /\ e = FALSE /\ r = Start /\ d = FALSE /\ (m.pc = 1 => c = TRUE) /\ f.pc \in {0, 1, 2}
          <6>1. m.pc = 1 => wb_buff' = TRUE
            BY <1>1, Zenon DEF single_cycle, wb_start
          <6> QED
            BY <1>1, <1>2, <1>3, <4>2, <5>1, <6>1, BeginningStep, Zenon DEF Beginning
        <5>3. p \in {0, 1, 2} => Prog[p] # "none"
          BY ProgAssumption
        <5>4. w.pc # NoPc => w.pc = 0 /\ v = 0
          BY <1>1, <5>1 DEF Beginning, Op, None, Bubble, Reset, Zeros
        <5>5. ASSUME m.pc # 1, Early(w, m, f) \/ (w.pc = p /\ w.inst = Prog[p])
              PROVE  f.pc = 1 /\ m.pc = NoPc
          BY <1>1, <2>1, <5>1, <5>3, <5>5 DEF Beginning, Op, None, Bubble, Reset, Early, Counts, NoPc
        <5>6. f.pc = 1 => x.pc # 0 /\ g.pc # 0
          <6>1. CASE x = Bubble /\ g = f
            BY ONLY <6>1 DEF Bubble, NoPc
          <6>2. CASE x.pc = NoPc /\ g = Trap(f)
            <7>1. Trap(f).pc = mtvec
              BY <1>3, TrapFields, ZenonT(30)
            <7> QED
              BY <6>2, <7>1, Handler DEF NoPc
          <6>3. CASE Issue(f, x, g, answer, FALSE) /\ f.pc = 1
            <7>1. Exec(f, answer).pc = 2
              BY <1>3, <6>3, ProgAssumption, ExecFields
            <7> QED
              <8>1. x.pc = 1 /\ g.pc = 2
                BY <6>3, <7>1, ZenonT(30) DEF Issue
              <8> QED
                BY ONLY <8>1
          <6> QED
            BY <3>1, <6>1, <6>2, <6>3, ZenonT(30) DEF Move
        <5> QED
          BY <1>1, <4>2, <5>2, <5>4, <5>5, <5>6, Zenon DEF Early, Start, On
      <4> QED
        BY <4>1, <4>2, Zenon
    <3>4. Placed(p, m, x, g, Held(w, v), s, e, c)
      <4>1. Counts(p) /\ Placed(p, w, m, f, v, r, d, b) /\ ~Ends(w)
        BY <1>1, <2>1
      <4> QED
        BY ONLY <3>2, <3>3, <4>1, PlacedMoves, ZenonT(30)
    <3> QED
      BY <1>2, <2>1, <3>1, <3>4 DEF Tracked
  <2> QED
    BY <2>2, <2>3, Zenon
<1> QED
  BY <1>4, <1>5, <1>6, Zenon

\* The simulator starts with a wrong result nowhere.
LEMMA GoodInitInv == SimInit => GoodInv
<1> SUFFICES ASSUME SimInit PROVE GoodInv
  OBVIOUS
<1>1. TypeInv
  BY Firsts, Handler, Zenon DEF SimInit, init_difftest, TypeInv, StageType, Reset, Bubble
<1>2. Beginning /\ ~wb_buff /\ Tracked
  BY Zenon DEF SimInit, init_difftest, Beginning, Zeros, Start, Tracked
<1>3. Values
  BY DEF SimInit, Values, Held, Reset, Bubble, Start, NoPc
<1> QED
  BY <1>1, <1>2, <1>3 DEF GoodInv, Flow, SimInit

\* An ebreak in WB ends the program with a wrong result at most right before
\* it, or behind it.
LEMMA EndFine ==
  ASSUME Flow, Ends(wbu)
  PROVE  Fine
<1>1. PICK p : p = wrong
  OBVIOUS
<1>2. CASE p = NoPc
  BY <1>1, <1>2 DEF Fine
<1>3. CASE p # NoPc /\ wrong = mem.pc
  BY <1>3 DEF Fine
<1>4. CASE Counts(p) /\ Placed(p, wbu, mem, front, gpr.t, ref, is_skip_ref, wb_buff)
  <2>1. ~InWb(p, wbu, mem, front, gpr.t)
    BY <1>4, Zenon DEF InWb, Ends, Counts
  <2>2. mem.pc = p \/ Prog[p + 1] = "ebreak"
    BY <1>4, <2>1, Zenon DEF Placed, InMem, InGpr, Harmless
  <2> QED
    BY <1>1, <2>2, Zenon DEF Fine
<1> QED
  BY <1>1, <1>2, <1>3, <1>4 DEF Flow, Tracked

\* Every iteration and every command keep the invariant.
LEMMA GoodStepInv == GoodInv /\ [SimNext]_simVars => GoodInv'
<1> SUFFICES ASSUME GoodInv, [SimNext]_simVars PROVE GoodInv'
  OBVIOUS
<1>1. ASSUME UNCHANGED <<coreVars, difftest_error, wb_num, is_skip_ref, ref>>
      PROVE  (Flow => Flow') /\ (Fine => Fine')
  <2>1. (TypeInv => TypeInv') /\ (Going => Going') /\ (Beginning => Beginning')
    BY <1>1, Zenon DEF coreVars, TypeInv, Going, Beginning
  <2>2. (Values => Values') /\ (Tracked => Tracked') /\ (Fine => Fine')
    BY <1>1, Zenon DEF coreVars, Values, Tracked, Fine
  <2> QED
    BY <1>1, <2>1, <2>2, Zenon DEF coreVars, Flow
<1>2. CASE UNCHANGED simVars
  BY <1>1, <1>2, Zenon DEF simVars, GoodInv
<1>3. CASE \E n \in Nat : cpu_exec(n)
  BY <1>1, <1>3 DEF cpu_exec, refuses, GoodInv
<1>4. CASE quit
  BY <1>4 DEF quit, GoodInv
<1>5. CASE Iterate
  <2>0. cpu_state \notin {"END", "QUIT"} /\ left # 0
    BY <1>5, Zenon DEF Iterate, GoodInv
  <2>1. CASE difftest_error
    BY <1>1, <1>5, <2>0, <2>1 DEF Iterate, GoodInv
  <2>2. CASE ~difftest_error
    <3>1. Flow /\ exec_once
      BY <1>5, <2>0, <2>2 DEF Iterate, GoodInv
    <3>2. CASE is_ebreak
      <4>1. Fine /\ UNCHANGED coreVars /\ cpu_state' = "END" /\ left' = 0
        BY <1>5, <2>2, <3>1, <3>2, EndFine, Zenon DEF Iterate, is_ebreak, Ends
      <4>2. Fine'
        BY <4>1 DEF Fine, coreVars
      <4> QED
        BY <4>1, <4>2, Zenon DEF GoodInv
    <3>3. CASE ~is_ebreak
      <4>1. PICK bubble \in BOOLEAN, async_intr \in BOOLEAN, fault \in BOOLEAN, answer \in Vals :
              single_cycle(bubble, async_intr, answer, fault)
        BY <1>5, <2>2, <3>3, Zenon DEF Iterate, Vals
      <4>2. cpu_state' \notin {"END", "QUIT"}
        BY <1>5, <2>0, <2>2, <3>3, Zenon DEF Iterate
      <4>3. ASSUME ~difftest_error' PROVE Flow'
        <5>0. ~Ends(wbu) /\ TypeInv
          BY <3>1, <3>3 DEF is_ebreak, Ends, Flow
        <5>1. TypeInv'
          BY <3>1, <4>1, <5>0, TypeStep
        <5>2. (wb_buff' => Going') /\ (~wb_buff' => Beginning')
          <6>1. CASE wb_buff
            BY <3>1, <4>1, <5>0, <6>1, GoingStep DEF Flow
          <6>2. CASE ~wb_buff
            BY <3>1, <4>1, <5>0, <6>2, BeginningStep, Zenon DEF Flow
          <6> QED
            BY <6>1, <6>2, Zenon
        <5>3. Values'
          BY <3>1, <4>1, <5>0, ValuesStep, Zenon
        <5>4. Tracked'
          BY <3>1, <4>1, <4>3, <5>0, TrackedStep, Zenon
        <5> QED
          BY <5>1, <5>2, <5>3, <5>4 DEF Flow
      <4> QED
        BY <4>2, <4>3, Zenon DEF GoodInv
    <3> QED
      BY <3>2, <3>3, Zenon
  <2> QED
    BY <2>1, <2>2, Zenon
<1> QED
  BY <1>2, <1>3, <1>4, <1>5 DEF SimNext

\* sim_main.cpp, difftest.cpp and npc_main.cpp: for every program and whatever
\* the core does, the exit status 0 of a run that was not quit means that every
\* result was right, up to the instruction before the ebreak and one behind it.
THEOREM ExitStatusSound == SimSpec => []GoodMeansRight
<1>1. GoodInv => GoodMeansRight
  <2> SUFFICES ASSUME GoodInv, cpu_state # "QUIT", NEW m \in 0 .. 1, NEW l \in 0 .. 1, NEW d \in 0 .. 1,
                      main(m, l, d) = 0
               PROVE  Fine
    BY DEF GoodMeansRight, Fine
  <2>1. ~is_exit_status_bad
    BY DEF main
  <2> QED
    BY <2>1, Zenon DEF is_exit_status_bad, GoodInv
<1> QED
  BY <1>1, GoodInitInv, GoodStepInv, PTL DEF SimSpec
=============================================================================
