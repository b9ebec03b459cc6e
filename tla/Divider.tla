------------------------------- MODULE Divider -------------------------------
(***************************************************************************)
(* The iterative divider rtl/vsrc/exu/rv64im_core_div.sv with the part of  *)
(* rv64im_core_alu.sv that drives it.  A step is one clock edge.  Words    *)
(* have W bits (64 in the code, W a power of two here as well: ~n on a     *)
(* counter of log2(W) bits is W - 1 - n).                                  *)
(*                                                                         *)
(* Dividend and divisor are shifted until their leading ones are in the    *)
(* top bit; then one bit of the quotient is found per cycle, for as many   *)
(* cycles as the leading ones were apart.                                  *)
(***************************************************************************)
EXTENDS Integers

CONSTANTS
  W,      \* bits of a word
  Words,  \* operands
  WForms  \* whether the *w instructions occur: a subset of BOOLEAN

ASSUME WAssumption == W \in {2, 4, 8, 16, 32, 64}

\* 2^n, in halves of a word of the code.
pow(n) == IF n <= 32 THEN 2^n ELSE 2^32 * 2^(n - 32)

Val == 0 .. pow(W) - 1
Cnt == 0 .. W - 1

ASSUME WordsAssumption == Words \subseteq Val /\ WForms \subseteq BOOLEAN

VARIABLES
  ex,                              \* the division in EX, or NoDiv
  busy, cnt, div_ready,
  fast_div_r, rvld_cnt_r, dvld_cnt_r, op1_signed, op2_signed,
  rem_reg, div_reg, res_reg

ctlVars  == <<busy, cnt, div_ready>>
opVars   == <<fast_div_r, rvld_cnt_r, dvld_cnt_r, op1_signed, op2_signed>>
dataVars == <<rem_reg, div_reg, res_reg>>
vars == <<ex, ctlVars, opVars, dataVars>>

Divs  == [rs1 : Words, rs2 : Words, is_signed : BOOLEAN, sext_w : WForms]
NoDiv == [rs1 |-> 0, rs2 |-> 0, is_signed |-> FALSE, sext_w |-> FALSE, none |-> TRUE]

req == ex # NoDiv

-----------------------------------------------------------------------------
(* Words.                                                                    *)

neg(x)     == (pow(W) - x) % pow(W)
sign(x)    == x >= 2^(W - 1)
abs(x)     == IF ex.is_signed /\ sign(x) THEN neg(x) ELSE x
shl(x, n)  == (x * 2^n) % 2^W
shr(x, n)  == x \div 2^n

\* The bits of x with no one above them, and the number of the leading one.
vld_dec(x) == {i \in Cnt : x < pow(i + 1)}
vld_cnt(x) == IF x = 0 THEN 0 ELSE CHOOSE i \in Cnt : pow(i) <= x /\ x < pow(i + 1)

rs1_abs == abs(ex.rs1)
rs2_abs == abs(ex.rs2)

\* Mutant: a divisor of zero is divided by.
Mut_fast_div == vld_dec(rs2_abs) \subseteq vld_dec(rs1_abs) /\ vld_dec(rs1_abs) # vld_dec(rs2_abs)

\* No iterations: the dividend has fewer bits, or the divisor is zero.
fast_div ==
  \/ vld_dec(rs2_abs) \subseteq vld_dec(rs1_abs) /\ vld_dec(rs1_abs) # vld_dec(rs2_abs)
  \/ rs2_abs = 0

-----------------------------------------------------------------------------
(* One step of the iteration.                                                *)

\* Mutant: one iteration too many.
Mut_div_done == (rvld_cnt_r + W - dvld_cnt_r + 1) % W = cnt \/ fast_div_r

div_done == (rvld_cnt_r + W - dvld_cnt_r) % W = cnt \/ fast_div_r

fits == rem_reg >= div_reg     \* the subtraction has no borrow

quotient_ns == (2 * res_reg + (IF fits THEN 1 ELSE 0)) % 2^W

\* Mutant: the sign is corrected by the dividend's alone.
Mut_sign_correction == busy /\ ~div_ready /\ div_done /\ ~fast_div_r /\ op1_signed

sign_correction ==
  busy /\ ~div_ready /\ div_done /\ ~fast_div_r /\ (op1_signed # op2_signed)

data_upd_en(stall) == IF div_ready THEN ~stall ELSE req \/ busy

\* Results.
div_res == IF fast_div_r THEN IF dvld_cnt_r = 0 THEN 2^W - 1 ELSE 0 ELSE res_reg
div_rem == LET r == shr(rem_reg, W - 1 - rvld_cnt_r)
           IN IF op1_signed THEN neg(r) ELSE r

\* The low half of x, sign-extended.
H == W \div 2
sext(x) == LET l == x % 2^H IN IF l >= 2^(H - 1) THEN l + 2^W - 2^H ELSE l
muldiv_to_rd(x) == IF ex.sext_w THEN sext(x) ELSE x

-----------------------------------------------------------------------------
(* Registers.                                                                *)

BusyStep(stall, flush) ==
  busy' = (~flush /\ IF div_ready THEN busy /\ stall ELSE busy \/ req)

ReadyStep(stall, flush) ==
  /\ div_ready' = (~flush /\ IF div_ready THEN stall ELSE busy /\ div_done)
  /\ cnt' = IF flush THEN 0
            ELSE IF div_ready THEN IF stall THEN cnt ELSE 0
            ELSE IF busy THEN (cnt + 1) % W ELSE cnt

Latch(flush) ==
  IF flush
  THEN /\ fast_div_r' = FALSE /\ rvld_cnt_r' = 0 /\ dvld_cnt_r' = 0
       /\ op1_signed' = FALSE /\ op2_signed' = FALSE
  ELSE IF req /\ ~busy
  THEN /\ fast_div_r' = fast_div
       /\ rvld_cnt_r' = vld_cnt(rs1_abs) /\ dvld_cnt_r' = vld_cnt(rs2_abs)
       /\ op1_signed' = (ex.is_signed /\ sign(ex.rs1))
       /\ op2_signed' = (ex.is_signed /\ sign(ex.rs2))
  ELSE UNCHANGED opVars

Load ==
  /\ rem_reg' = shl(rs1_abs, W - 1 - vld_cnt(rs1_abs))
  /\ div_reg' = shl(rs2_abs, W - 1 - vld_cnt(rs2_abs))
  /\ res_reg' = 0

Iterate ==
  /\ rem_reg' = IF fits /\ ~fast_div_r THEN rem_reg - div_reg ELSE rem_reg
  /\ div_reg' = shr(div_reg, 1)
  /\ res_reg' = IF sign_correction THEN neg(quotient_ns) ELSE quotient_ns

\* A flush resets busy and div_ready within the cycle, the data registers never.
Data(stall, flush) ==
  CASE flush /\ req -> Load
    [] ~flush /\ data_upd_en(stall) /\ ~busy -> Load
    [] ~flush /\ data_upd_en(stall) /\ busy -> Iterate
    [] OTHER -> UNCHANGED dataVars

\* EX keeps a division until it is acknowledged and nothing else stalls, or
\* until a flush empties it.
ExStep(stall, flush) ==
  IF flush THEN ex' = NoDiv
  ELSE IF req /\ (~div_ready \/ stall) THEN ex' = ex
  ELSE ex' \in Divs \cup {NoDiv}

Clock(stall, flush) ==
  /\ ExStep(stall, flush) /\ BusyStep(stall, flush) /\ ReadyStep(stall, flush)
  /\ Latch(flush) /\ Data(stall, flush)

\* The data registers have no reset: any value would do.
Init ==
  /\ ex = NoDiv
  /\ busy = FALSE /\ cnt = 0 /\ div_ready = FALSE
  /\ fast_div_r = FALSE /\ rvld_cnt_r = 0 /\ dvld_cnt_r = 0
  /\ op1_signed = FALSE /\ op2_signed = FALSE
  /\ rem_reg = 0 /\ div_reg = 0 /\ res_reg = 0

Next == \E stall, flush \in BOOLEAN : Clock(stall, flush)

Spec == Init /\ [][Next]_vars

-----------------------------------------------------------------------------
(* Properties.                                                               *)

\* The integer a word of n bits stands for.
Int_of(x, n, signed) == IF signed /\ x >= 2^(n - 1) THEN x - 2^n ELSE x

Mag(i) == IF i < 0 THEN -i ELSE i

\* What the RISC-V M extension asks of quotient and remainder in n bits.
IsQuotient(n, signed, a, b, q) ==
  LET A == Int_of(a, n, signed)
      B == Int_of(b, n, signed)
      Q == Int_of(q, n, signed)
      r == A - Q * B
  IN IF b = 0 THEN q = 2^n - 1
     ELSE IF signed /\ A = -(2^(n - 1)) /\ B = -1 THEN q = a
     ELSE Mag(r) < Mag(B) /\ (r = 0 \/ (r < 0 <=> A < 0))
IsRemainder(n, signed, a, b, r) ==
  LET A == Int_of(a, n, signed)
      B == Int_of(b, n, signed)
      R == Int_of(r, n, signed)
  IN IF b = 0 THEN r = a
     ELSE /\ (A - R) % Mag(B) = 0
          /\ Mag(R) < Mag(B) /\ (R = 0 \/ (R < 0 <=> A < 0))

\* An acknowledged division has the quotient and the remainder of its own operands,
\* as long as the pipeline holds it, whatever was divided, held or flushed before.
DivisionRight ==
  div_ready /\ ~ex.sext_w => /\ IsQuotient(W, ex.is_signed, ex.rs1, ex.rs2, div_res)
                             /\ IsRemainder(W, ex.is_signed, ex.rs1, ex.rs2, div_rem)

\* The iterations never run past the last bit of the quotient: div_done tests for
\* equality, so a division that missed it would wrap the counter.
StopsInTime ==
  busy /\ ~div_ready => cnt <= (IF fast_div_r THEN 0 ELSE rvld_cnt_r - dvld_cnt_r)

\* What makes it so: an idle divider has its counter at zero, whatever was held or
\* flushed, and a division that iterates has latched a dividend at least as long
\* as its divisor.
DivInv ==
  /\ ex \in Divs \cup {NoDiv}
  /\ busy \in BOOLEAN /\ div_ready \in BOOLEAN /\ fast_div_r \in BOOLEAN
  /\ cnt \in Cnt /\ rvld_cnt_r \in Cnt /\ dvld_cnt_r \in Cnt
  /\ ~busy => cnt = 0 /\ ~div_ready
  /\ busy => fast_div_r \/ dvld_cnt_r <= rvld_cnt_r
  /\ StopsInTime

\* divw and remw divide the full registers; of words in the sign-extended form that
\* every 32-bit instruction leaves in a register they give the right word.
SignedWordRight ==
  div_ready /\ ex.sext_w /\ ex.is_signed /\ sext(ex.rs1) = ex.rs1 /\ sext(ex.rs2) = ex.rs2 =>
    LET a == ex.rs1 % 2^H
        b == ex.rs2 % 2^H
    IN /\ IsQuotient(H, TRUE, a, b, muldiv_to_rd(div_res) % 2^H)
       /\ IsRemainder(H, TRUE, a, b, muldiv_to_rd(div_rem) % 2^H)
=============================================================================
