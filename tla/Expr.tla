-------------------------------- MODULE Expr --------------------------------
(***************************************************************************)
(* The debugger's expressions (sim/csrc/expr.cpp).  A token is [type, val]:*)
(* a decimal number, a hexadecimal number, a register name or an operator  *)
(* (val 0).  Splitting the text into tokens is left to the regular         *)
(* expression library.  Words have WordBits bits instead of 32.            *)
(***************************************************************************)
EXTENDS Integers, Sequences, SequencesExt

CONSTANTS WordBits,
          cpu_gpr,  \* values of the registers 0 .. 31 and of pc, 32
          Memory    \* words of memory by address

Word == 2 ^ WordBits

int32(u)  == IF u >= Word \div 2 THEN u - Word ELSE u
uint32(i) == i % Word
Truth(b)  == IF b THEN 1 ELSE 0

paddr_read(addr) == IF addr \in DOMAIN Memory THEN Memory[addr] ELSE 0

\* C's division truncates towards zero.
Quotient(a, b) ==
  LET abs(i) == IF i < 0 THEN -i ELSE i
      q == abs(a) \div abs(b)
  IN IF b = 0 THEN 0 ELSE IF (a < 0) = (b < 0) THEN q ELSE -q

Apply(op, u1, u2) ==
  LET val1 == int32(u1)
      val2 == int32(u2)
  IN uint32(CASE op = "+"  -> val1 + val2
              [] op = "-"  -> val1 - val2
              [] op = "*"  -> val1 * val2
              [] op = "/"  -> Quotient(val1, val2)
              [] op = "==" -> Truth(val1 = val2)
              [] op = "!=" -> Truth(val1 # val2)
              [] op = "&&" -> Truth(val1 # 0 /\ val2 # 0)
              [] OTHER     -> 0)

-----------------------------------------------------------------------------
(* expr: the texts of the tokens.  str is a static array of pointers, each    *)
(* to the token's own text ("tok"), to the buffer s1 all hexadecimal numbers  *)
(* are written to, to s2 for the registers, or NULL; S is [str, s1, s2].      *)

NoText == [str |-> <<>>, s1 |-> 0, s2 |-> 0]

\* The loop over the names ends before the last register, t6.
isa_reg_str2val(r) == [success |-> r \in (0 .. 30) \cup {32}, val |-> uint32(cpu_gpr[r])]

Convert(S, tokens) ==
  LET known(t) == t.type = "reg" /\ isa_reg_str2val(t.val).success
      hexes == SelectSeq(tokens, LAMBDA t : t.type = "hex")
      regs  == SelectSeq(tokens, known)
      old(i) == IF i \in DOMAIN S.str THEN S.str[i] ELSE "NULL"
  IN [str |-> [i \in 1 .. Len(tokens) |->
                 CASE tokens[i].type = "hex" -> "s1"
                   [] known(tokens[i])       -> "s2"
                   [] tokens[i].type = "reg" /\ ~known(tokens[i]) -> old(i)
                   [] OTHER                  -> "tok"]
               \o SubSeq(S.str, Len(tokens) + 1, Len(S.str)),
      s1 |-> IF hexes = <<>> THEN S.s1 ELSE Last(hexes).val,
      s2 |-> IF regs = <<>> THEN S.s2 ELSE isa_reg_str2val(Last(regs).val).val]

Texts(S, tokens) ==
  [i \in 1 .. Len(tokens) |->
     CASE S.str[i] = "s1"  -> [type |-> "num", val |-> S.s1]
       [] S.str[i] = "s2"  -> [type |-> "num", val |-> S.s2]
       [] S.str[i] = "tok" -> tokens[i]
       [] OTHER            -> [type |-> "NULL", val |-> 0]]

\* strtoul: text that is no number is 0.
strtoul(text) == IF text.type = "num" THEN uint32(text.val) ELSE 0

check_parentheses(s, p, q) ==
  LET n[i \in p .. q] ==
        IF i = p THEN 0
        ELSE IF s[i].type = "(" THEN n[i - 1] + 1
        ELSE IF s[i].type = ")" /\ n[i - 1] # 0 THEN n[i - 1] - 1
        ELSE n[i - 1]
  IN s[p].type = "(" /\ s[q].type = ")" /\ n[q - 1] = 0

\* Positions outside parentheses of one of the operators.
Outside(s, p, q, ops) ==
  LET n[i \in p - 1 .. q] ==
        IF i = p - 1 THEN 0
        ELSE IF s[i].type = "(" THEN n[i - 1] + 1
        ELSE IF s[i].type = ")" THEN n[i - 1] - 1 ELSE n[i - 1]
  IN {i \in p .. q - 1 : n[i] = 0 /\ s[i].type \in ops}

LowestFirst == <<{"&&"}, {"==", "!="}, {"+", "-"}, {"*", "/"}>>

\* Mutant: the first operator instead of the last.
Mut_split(s, p, q) ==
  LET at(k) == Min(Outside(s, p, q, LowestFirst[k]) \cup {q}) % q
      found == SelectSeq([k \in 1 .. 4 |-> at(k)], LAMBDA i : i > p)
  IN IF found = <<>> THEN p ELSE Head(found)

\* The operator to split at: the last one of the lowest precedence outside
\* parentheses, p if there is none.  An operator at p counts as none, and the
\* test of the token before a * or / is always true.
split(s, p, q) ==
  LET at(k) == Max(Outside(s, p, q, LowestFirst[k]) \cup {p})
      found == SelectSeq([k \in 1 .. 4 |-> at(k)], LAMBDA i : i # p)
  IN IF found = <<>> THEN p ELSE Head(found)

RECURSIVE eval(_, _, _)
eval(s, p, q) ==
  CASE p > q -> 0
    [] p = q -> strtoul(s[p])
    [] p < q /\ check_parentheses(s, p, q) -> eval(s, p + 1, q - 1)
    [] OTHER ->
         LET op == split(s, p, q)
         IN IF op = p /\ s[p].type = "*" THEN paddr_read(eval(s, p + 1, q))
            ELSE Apply(s[op].type, eval(s, p, op - 1), eval(s, op + 1, q))

\* The value of an expression and what is left behind in the static variables.
\* A NULL text is read sooner or later: the program crashes.
expr(S, tokens) ==
  LET S1 == Convert(S, tokens)
      s  == Texts(S1, tokens)
  IN [S      |-> S1,
      crash  |-> \E i \in DOMAIN s : s[i].type = "NULL",
      result |-> eval(s, 1, Len(s))]

-----------------------------------------------------------------------------
(* Reference: the expressions of the grammar with the precedences of the       *)
(* comment at expr.cpp:42, each with its value.  lvl is the precedence of the  *)
(* outermost operator, 0 for a number, a register and parentheses, 1 for       *)
(* dereferencing.                                                              *)

Precedence == [o \in {"*", "/", "+", "-", "==", "!=", "&&"} |->
                 CASE o \in {"*", "/"} -> 2 [] o \in {"+", "-"} -> 3
                   [] o \in {"==", "!="} -> 4 [] OTHER -> 5]

Symbol(o) == [type |-> o, val |-> 0]

Binary(As, Bs) ==
  {[tok |-> c[1].tok \o <<Symbol(c[2])>> \o c[3].tok, lvl |-> Precedence[c[2]],
    val |-> Apply(c[2], c[1].val, c[3].val)] :
     c \in {x \in As \X (DOMAIN Precedence) \X Bs :
             x[1].lvl <= Precedence[x[2]] /\ x[3].lvl < Precedence[x[2]]}}

Parenthesized(As) ==
  {[tok |-> <<Symbol("(")>> \o a.tok \o <<Symbol(")")>>, lvl |-> 0, val |-> a.val] : a \in As}

Dereferenced(As) ==
  {[tok |-> <<Symbol("*")>> \o a.tok, lvl |-> 1, val |-> paddr_read(a.val)] :
     a \in {x \in As : x.lvl = 0}}

Atoms(nums, hexes, regs) ==
  {[tok |-> <<[type |-> "num", val |-> n]>>, lvl |-> 0, val |-> n] : n \in nums}
  \cup {[tok |-> <<[type |-> "hex", val |-> n]>>, lvl |-> 0, val |-> n] : n \in hexes}
  \cup {[tok |-> <<[type |-> "reg", val |-> r]>>, lvl |-> 0, val |-> uint32(cpu_gpr[r])] : r \in regs}

\* Left out: a dereference right after * or / (its star is taken for the
\* operator), more than one hexadecimal number or register (they share a
\* buffer), and t6.
WellDefined(e) ==
  LET count(type) == Len(SelectSeq(e.tok, LAMBDA t : t.type = type))
  IN /\ count("hex") <= 1 /\ count("reg") <= 1
     /\ \A i \in DOMAIN e.tok : e.tok[i].type = "reg" => isa_reg_str2val(e.tok[i].val).success
     /\ \A i \in 2 .. Len(e.tok) :
          ~(e.tok[i].type = "*" /\ e.tok[i - 1].type \in {"*", "/"})
=============================================================================
