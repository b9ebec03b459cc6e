------------------------------- MODULE MCSdb -------------------------------
(***************************************************************************)
(* Instance of Sdb for TLC: a program with operations, a load, a device    *)
(* access, an ebreak with a load behind it, and an interrupt handler; four *)
(* watchpoints; 8-bit expressions of up to four operands.                  *)
(***************************************************************************)
EXTENDS Sdb

Code == <<"op", "op", "ei", "ld", "dev", "check", "op", "ebreak", "ld", "spin", "op", "mret">>
MCProg == [pc \in 0 .. Len(Code) - 1 |-> Code[pc + 1]]

Gpr == [r \in 0 .. 32 |-> IF r = 10 THEN 254 ELSE r]
Mem == 0 :> 5 @@ 2 :> 9 @@ 3 :> 250

Reg(r) == [type |-> "reg", val |-> r]
Hex(n) == [type |-> "hex", val |-> n]

G0 == Atoms({3}, {2}, {10})
G1 == G0 \cup Parenthesized(G0) \cup Dereferenced(G0) \cup Binary(G0, G0)
G2 == Binary(G1, G1) \cup Parenthesized(G1) \cup Dereferenced(G1)

Ask(E) == {[tok |-> e.tok, val |-> e.val] : e \in E}

\* Expressions that leave the static variables in different states, with two
\* hexadecimal numbers or with t6, which have no value to compare with.
Before(ts) == {[tok |-> t, val |-> 0] : t \in ts}

MCAsked ==
  <<Before({<<Hex(7), Symbol("+"), Hex(9)>>, <<Reg(10), Symbol("-"), Reg(32)>>, <<Reg(31)>>}),
    Before({<<Reg(31), Symbol("*"), Reg(10), Symbol("+"), Hex(9), Symbol("+"), Hex(7)>>}),
    Ask({e \in G1 \cup G2 : WellDefined(e)})>>
MCWatched == {<<Hex(7)>>, <<Reg(31)>>}
=============================================================================
