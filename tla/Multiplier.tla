----------------------------- MODULE Multiplier -----------------------------
(***************************************************************************)
(* The multiplier: Booth recoding and partial products of                  *)
(* rtl/vsrc/exu/rv64im_core_booth_mul.sv, the carry-save tree of           *)
(* units/rv64im_core_compress_34to2.sv, and the final addition in MEM      *)
(* (mem/rv64im_core_ls.sv).  Words have MulBits bits, 64 in the code; a    *)
(* row of the tree is a function from bit positions to {0, 1}.             *)
(***************************************************************************)
EXTENDS Integers, Sequences

LOCAL INSTANCE FiniteSetsExt

CONSTANT MulBits

ASSUME MulBitsAssumption == MulBits \in {2, 4, 6, 8}

VARIABLE mul   \* the multiplication: [stage, op, rs1, rs2, res1, res2]

MulOps == {"mul", "mulh", "mulhsu", "mulhu", "mulw"}
MulWords == 0 .. 2^MulBits - 1

Digits == MulBits \div 2          \* 32 Booth digits
RowBits == 2 * MulBits + 2        \* 130 columns
Columns == 0 .. RowBits - 1

-----------------------------------------------------------------------------
\* Operands have one more bit, the sign where the operation has one.
top(x) == x >= 2^(MulBits - 1)
mul_op1(op, x) == IF op # "mulhu" /\ top(x) THEN x + 2^MulBits ELSE x
mul_op2(op, x) == IF op \notin {"mulhu", "mulhsu"} /\ top(x) THEN x + 2^MulBits ELSE x

\* The row of an n-bit word, sign-extended and shifted left.
Row(x, n, shift) ==
  [i \in Columns |->
     IF i < shift THEN 0
     ELSE (x \div 2^(IF i - shift < n THEN i - shift ELSE n - 1)) % 2]

booth(y, i) == (y \div 2^(2 * i)) % 8

\* MulBits + 2 bits: 0, x, 2x or their complements.
booth_res(x, b) ==
  LET ones == 2^(MulBits + 2) - 1
      ext  == IF x >= 2^MulBits THEN x + 2^(MulBits + 1) ELSE x
  IN CASE b \in {0, 7} -> 0
       [] b \in {1, 2} -> ext
       [] b \in {5, 6} -> ones - ext
       [] b = 3 -> 2 * x
       [] b = 4 -> ones - 2 * x

\* Mutant: the complement of 2x is not completed.
Mut_booth_add1(b) == b \in {5, 6}

booth_add1(b) == b \in {4, 5, 6}

\* One row per digit, the row of -y0 x, and the ones that complete the complements.
partial_data(x, y) ==
  LET minus == Row(2^(MulBits + 1) - 1 - x, MulBits + 1, 0)
      adds(i) == IF i = 0 THEN y % 2
                 ELSE IF i % 2 = 1 /\ i < MulBits /\ booth_add1(booth(y, (i - 1) \div 2)) THEN 1
                 ELSE 0
  IN [i \in 1 .. Digits |-> Row(booth_res(x, booth(y, i - 1)), MulBits + 2, 2 * i - 1)]
     \o <<IF y % 2 = 1 THEN minus ELSE Row(0, 1, 0), [i \in Columns |-> adds(i)]>>

\* A full adder per column turns three rows into sums and carries.
ones_of(a, b, c, i) == a[i] + b[i] + c[i]
add_full_sum(a, b, c) == [i \in Columns |-> ones_of(a, b, c, i) % 2]
add_full_co(a, b, c) ==
  [i \in Columns |-> IF i = 0 THEN 0 ELSE ones_of(a, b, c, i - 1) \div 2]

\* One stage of the tree: carries, then the rows left over, then the sums.
Stage(in) ==
  LET q == Len(in) \div 3
      full(f(_, _, _)) == [k \in 1 .. q |-> f(in[3 * k - 2], in[3 * k - 1], in[3 * k])]
  IN full(add_full_co) \o SubSeq(in, 3 * q + 1, Len(in)) \o full(add_full_sum)

RECURSIVE compress_34to2(_)
compress_34to2(in) == IF Len(in) = 2 THEN in ELSE compress_34to2(Stage(in))

\* The low 2 * MulBits bits of a row, as a number.
Number(row) == MapThenSumSet(LAMBDA i : row[i] * 2^i, 0 .. 2 * MulBits - 1)

-----------------------------------------------------------------------------
MulIdle == [stage |-> "idle"]

\* EX: the two rows are put into the registers of MEM.
MulExecute ==
  /\ mul = MulIdle
  /\ \E op \in MulOps, a, b \in MulWords :
       LET rows == compress_34to2(partial_data(mul_op1(op, a), mul_op2(op, b)))
       IN mul' = [stage |-> "mem", op |-> op, rs1 |-> a, rs2 |-> b,
                  res1 |-> Number(rows[2]), res2 |-> Number(rows[1])]

\* MEM: the sum of the two rows is the product, and part of it the result.
mul_res == (mul.res1 + mul.res2) % 2^(2 * MulBits)
alutord_data ==
  LET half == 2^(MulBits \div 2)
      low  == mul_res % half
  IN CASE mul.op = "mulw" -> IF 2 * low >= half THEN low + 2^MulBits - half ELSE low
       [] mul.op = "mul"  -> mul_res % 2^MulBits
       [] OTHER           -> mul_res \div 2^MulBits

MulWriteBack == mul.stage = "mem" /\ mul' = MulIdle

MulInit == mul = MulIdle
MulNext == MulExecute \/ MulWriteBack

-----------------------------------------------------------------------------
\* What the RISC-V M extension asks for.
MulSpec ==
  LET value(x, signed) == IF signed /\ top(x) THEN x - 2^MulBits ELSE x
      full == value(mul.rs1, mul.op # "mulhu") * value(mul.rs2, mul.op \notin {"mulhu", "mulhsu"})
      half == 2^(MulBits \div 2)
  IN CASE mul.op = "mul"  -> full % 2^MulBits
       [] mul.op = "mulw" -> IF 2 * (full % half) >= half
                             THEN (full % half) + 2^MulBits - half ELSE full % half
       [] OTHER           -> (full \div 2^MulBits) % 2^MulBits

\* Booth digits, sign extensions, completing ones and the carries of the tree,
\* which drops what leaves the top column, give the product of every pair of
\* operands, in each of the five forms.
ProductRight == mul.stage = "mem" => alutord_data = MulSpec
=============================================================================
