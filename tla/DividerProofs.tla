---------------------------- MODULE DividerProofs ----------------------------
(***************************************************************************)
(* The divider's iteration ends: its counter reaches the value that        *)
(* div_done compares it with and does not run past it, for every word      *)
(* size of WAssumption and any set of operands.                            *)
(***************************************************************************)
EXTENDS Divider, TLAPS

-----------------------------------------------------------------------------
(* Powers of two.                                                            *)

\* Powers of two up to half the width of the code.
LEMMA Powers ==
  /\ pow(0) = 1 /\ pow(1) = 2 /\ pow(2) = 4 /\ pow(3) = 8 /\ pow(4) = 16 /\ pow(5) = 32
  /\ pow(6) = 64 /\ pow(7) = 128 /\ pow(8) = 256 /\ pow(9) = 512 /\ pow(10) = 1024
  /\ pow(11) = 2048 /\ pow(12) = 4096 /\ pow(13) = 8192 /\ pow(14) = 16384
  /\ pow(15) = 32768 /\ pow(16) = 65536 /\ pow(17) = 131072 /\ pow(18) = 262144
  /\ pow(19) = 524288 /\ pow(20) = 1048576 /\ pow(21) = 2097152 /\ pow(22) = 4194304
  /\ pow(23) = 8388608 /\ pow(24) = 16777216 /\ pow(25) = 33554432
  /\ pow(26) = 67108864 /\ pow(27) = 134217728 /\ pow(28) = 268435456
  /\ pow(29) = 536870912 /\ pow(30) = 1073741824 /\ pow(31) = 2147483648
  /\ pow(32) = 4294967296
BY SMT DEF pow

\* Powers of two up to the width of the code.
LEMMA HighPowers ==
  /\ pow(33) = 8589934592 /\ pow(34) = 17179869184 /\ pow(35) = 34359738368
  /\ pow(36) = 68719476736 /\ pow(37) = 137438953472 /\ pow(38) = 274877906944
  /\ pow(39) = 549755813888 /\ pow(40) = 1099511627776 /\ pow(41) = 2199023255552
  /\ pow(42) = 4398046511104 /\ pow(43) = 8796093022208 /\ pow(44) = 17592186044416
  /\ pow(45) = 35184372088832 /\ pow(46) = 70368744177664 /\ pow(47) = 140737488355328
  /\ pow(48) = 281474976710656 /\ pow(49) = 562949953421312
  /\ pow(50) = 1125899906842624 /\ pow(51) = 2251799813685248
  /\ pow(52) = 4503599627370496 /\ pow(53) = 9007199254740992
  /\ pow(54) = 18014398509481984 /\ pow(55) = 36028797018963968
  /\ pow(56) = 72057594037927936 /\ pow(57) = 144115188075855872
  /\ pow(58) = 288230376151711744 /\ pow(59) = 576460752303423488
  /\ pow(60) = 1152921504606846976 /\ pow(61) = 2305843009213693952
  /\ pow(62) = 2 * pow(61) /\ pow(63) = 4 * pow(61) /\ pow(64) = 8 * pow(61)
BY SMT DEF pow

\* They are numbers.
LEMMA PowerType == \A i \in 0 .. W : pow(i) \in Nat
BY Powers, HighPowers, WAssumption, SMT

\* They grow with their exponent.
LEMMA PowersGrow == \A i, j \in 0 .. W : i < j => pow(i + 1) <= pow(j)
BY Powers, HighPowers, WAssumption, SMTT(60)

-----------------------------------------------------------------------------
(* Leading ones.                                                             *)

\* Every word but zero has a leading one, and vld_cnt (rvld_cnt, dvld_cnt) is its
\* number.
LEMMA LeadingOne ==
  ASSUME NEW x \in Val, x # 0
  PROVE  /\ vld_cnt(x) \in Cnt
         /\ pow(vld_cnt(x)) <= x /\ x < pow(vld_cnt(x) + 1)
<1>1. \E i \in Cnt : pow(i) <= x /\ x < pow(i + 1)
  BY Powers, HighPowers, WAssumption, SMTT(60) DEF Cnt, Val
<1> QED
  BY <1>1 DEF vld_cnt

\* vld_cnt is a bit number for zero as well.
LEMMA CountType == ASSUME NEW x \in Val PROVE vld_cnt(x) \in Cnt
<1>1. CASE x = 0
  BY <1>1, WAssumption DEF vld_cnt, Cnt
<1>2. CASE x # 0
  BY <1>2, LeadingOne
<1> QED
  BY <1>1, <1>2

\* The absolute value of an operand is a word.
LEMMA AbsType == ASSUME NEW x \in Val PROVE abs(x) \in Val
<1>1. neg(x) \in Val
  BY PowerType, WAssumption, SMT DEF neg, Val
<1> QED
  BY <1>1 DEF abs

\* A division that is not a fast one has a divisor no longer than its dividend:
\* the comparison of the decoded vectors (fast_div) is one of lengths.
LEMMA NotFastLonger ==
  ASSUME rs1_abs \in Val, rs2_abs \in Val, ~fast_div
  PROVE  vld_cnt(rs2_abs) <= vld_cnt(rs1_abs)
<1> DEFINE r == rs1_abs
           d == rs2_abs
           rv == vld_cnt(r)
           dv == vld_cnt(d)
<1>1. d # 0
  BY DEF fast_div
<1>2. dv \in Cnt /\ pow(dv) <= d /\ d < pow(dv + 1)
  BY <1>1, LeadingOne
<1>3. rv \in Cnt /\ r < pow(rv + 1)
  <2>1. CASE r = 0
    BY <2>1, Powers, HighPowers, WAssumption, SMT DEF vld_cnt, Cnt
  <2>2. CASE r # 0
    BY <2>2, LeadingOne
  <2> QED
    BY <2>1, <2>2
<1>4. SUFFICES ASSUME rv < dv PROVE FALSE
  BY <1>2, <1>3, WAssumption DEF Cnt
<1>5. pow(rv + 1) <= pow(dv)
  BY <1>2, <1>3, <1>4, PowersGrow, WAssumption DEF Cnt
<1>6. vld_dec(d) \subseteq vld_dec(r)
  <2> SUFFICES ASSUME NEW i \in Cnt, d < pow(i + 1)
               PROVE  r < pow(i + 1)
    BY DEF vld_dec
  <2>1. pow(i + 1) \in Nat /\ pow(rv + 1) \in Nat /\ pow(dv) \in Nat /\ r \in Nat /\ d \in Nat
    BY <1>2, <1>3, PowerType, WAssumption DEF Cnt, Val
  <2> QED
    BY <2>1, <1>2, <1>3, <1>5
<1>7. rv \in vld_dec(r) /\ rv \notin vld_dec(d)
  <2>1. pow(rv + 1) \in Nat /\ pow(dv) \in Nat /\ d \in Nat
    BY <1>2, <1>3, PowerType, WAssumption DEF Cnt, Val
  <2> QED
    BY <2>1, <1>2, <1>3, <1>5 DEF vld_dec
<1> QED
  BY <1>6, <1>7 DEF fast_div

-----------------------------------------------------------------------------
(* The invariant.                                                            *)

\* The state after reset, and before the first division.
LEMMA InitDivInv == Init => DivInv
<1>1. 0 \in Cnt
  BY WAssumption DEF Cnt
<1> QED
  BY <1>1, Zenon DEF Init, DivInv, StopsInTime

\* The operands of a division are words.
LEMMA OperandTypes == ex \in Divs => rs1_abs \in Val /\ rs2_abs \in Val
<1> SUFFICES ASSUME ex \in Divs PROVE rs1_abs \in Val /\ rs2_abs \in Val
  OBVIOUS
<1>1. ex.rs1 \in Val /\ ex.rs2 \in Val
  BY WordsAssumption DEF Divs
<1> QED
  BY <1>1, AbsType DEF rs1_abs, rs2_abs

\* What an idle divider latches of a division (rvld_cnt_r, dvld_cnt_r, fast_div_r).
LEMMA Latched ==
  ASSUME ex \in Divs, fast_div_r' = fast_div, rvld_cnt_r' = vld_cnt(rs1_abs),
         dvld_cnt_r' = vld_cnt(rs2_abs)
  PROVE  /\ fast_div_r' \in BOOLEAN /\ rvld_cnt_r' \in Cnt /\ dvld_cnt_r' \in Cnt
         /\ fast_div_r' \/ dvld_cnt_r' <= rvld_cnt_r'
<1>1. rvld_cnt_r' \in Cnt /\ dvld_cnt_r' \in Cnt
  BY OperandTypes, CountType
<1>2. fast_div_r' \in BOOLEAN
  BY DEF fast_div
<1>3. fast_div_r' \/ dvld_cnt_r' <= rvld_cnt_r'
  BY OperandTypes, NotFastLonger
<1> QED
  BY <1>1, <1>2, <1>3

\* A division that has not ended is below its last iteration, so that the counter
\* neither passes it nor wraps.
LEMMA Below ==
  ASSUME DivInv, busy, ~div_ready, ~div_done
  PROVE  ~fast_div_r /\ cnt + 1 <= rvld_cnt_r - dvld_cnt_r /\ (cnt + 1) % W = cnt + 1
<1>1. ~fast_div_r /\ dvld_cnt_r <= rvld_cnt_r /\ cnt <= rvld_cnt_r - dvld_cnt_r
  BY DEF DivInv, StopsInTime, div_done
<1>2. (rvld_cnt_r + W - dvld_cnt_r) % W = rvld_cnt_r - dvld_cnt_r
  BY <1>1, WAssumption, SMT DEF DivInv, Cnt
<1>3. cnt # rvld_cnt_r - dvld_cnt_r
  BY <1>2 DEF div_done
<1> QED
  BY <1>1, <1>3, WAssumption, SMT DEF DivInv, Cnt

\* Every clock edge preserves the invariant, whatever stalls and flushes.
LEMMA DivInvStep ==
  ASSUME DivInv, NEW stall \in BOOLEAN, NEW flush \in BOOLEAN, Clock(stall, flush)
  PROVE  DivInv'
<1> USE DEF Clock
<1>1. ex' \in Divs \cup {NoDiv}
  BY DEF ExStep, DivInv
<1>2. CASE flush
  <2>1. ~busy' /\ ~div_ready' /\ cnt' = 0 /\ busy' \in BOOLEAN /\ div_ready' \in BOOLEAN
    BY <1>2, Zenon DEF BusyStep, ReadyStep
  <2>2. ~fast_div_r' /\ rvld_cnt_r' = 0 /\ dvld_cnt_r' = 0 /\ fast_div_r' \in BOOLEAN
    BY <1>2, Zenon DEF Latch
  <2> QED
    BY <1>1, <2>1, <2>2, WAssumption DEF DivInv, StopsInTime, Cnt
<1>3. CASE ~flush /\ ~busy /\ ~req
  <2>1. ~busy' /\ ~div_ready' /\ cnt' = cnt /\ busy' \in BOOLEAN /\ div_ready' \in BOOLEAN
    BY <1>3 DEF BusyStep, ReadyStep, DivInv
  <2>2. UNCHANGED opVars
    BY <1>3 DEF Latch
  <2> QED
    BY <1>1, <1>3, <2>1, <2>2 DEF DivInv, StopsInTime, opVars
<1>4. CASE ~flush /\ ~busy /\ req
  <2>1. busy' /\ ~div_ready' /\ cnt' = 0 /\ busy' \in BOOLEAN /\ div_ready' \in BOOLEAN
    BY <1>4, Zenon DEF BusyStep, ReadyStep, DivInv
  <2>2. ex \in Divs
    BY <1>4 DEF DivInv, req
  <2>3. /\ fast_div_r' \in BOOLEAN /\ rvld_cnt_r' \in Cnt /\ dvld_cnt_r' \in Cnt
        /\ fast_div_r' \/ dvld_cnt_r' <= rvld_cnt_r'
    BY <1>4, <2>2, Latched DEF Latch
  <2>4. cnt' \in Cnt
    BY <2>1, WAssumption DEF Cnt
  <2>5. ~fast_div_r' => cnt' <= rvld_cnt_r' - dvld_cnt_r'
    <3>1. rvld_cnt_r' \in Int /\ dvld_cnt_r' \in Int
      BY <2>3, WAssumption DEF Cnt
    <3>2. ~fast_div_r' => dvld_cnt_r' <= rvld_cnt_r'
      BY <2>3, Zenon
    <3>3. cnt' = 0
      BY <2>1
    <3>4. \A a, b \in Int : b <= a => 0 <= a - b
      OBVIOUS
    <3>5. dvld_cnt_r' <= rvld_cnt_r' => cnt' <= rvld_cnt_r' - dvld_cnt_r'
      BY <3>1, <3>3, <3>4, Zenon
    <3> QED
      BY <3>2, <3>5, Zenon
  <2>6. StopsInTime'
    BY <2>1, <2>5, WAssumption, SMT DEF StopsInTime
  <2> QED
    BY <1>1, <2>1, <2>3, <2>4, <2>6, Zenon DEF DivInv
<1>5. CASE ~flush /\ busy /\ div_ready
  <2>1. /\ busy' \in BOOLEAN /\ div_ready' \in BOOLEAN /\ (busy' <=> stall) /\ (div_ready' <=> stall)
        /\ cnt' = IF stall THEN cnt ELSE 0
    BY <1>5 DEF BusyStep, ReadyStep
  <2>2. UNCHANGED opVars
    BY <1>5 DEF Latch
  <2> QED
    BY <1>1, <1>5, <2>1, <2>2, WAssumption DEF DivInv, StopsInTime, opVars, Cnt
<1>6. CASE ~flush /\ busy /\ ~div_ready
  <2>1. /\ busy' /\ busy' \in BOOLEAN /\ div_ready' \in BOOLEAN /\ (div_ready' <=> div_done)
        /\ cnt' = (cnt + 1) % W
    BY <1>6, Zenon DEF BusyStep, ReadyStep, div_done
  <2>2. UNCHANGED opVars
    BY <1>6 DEF Latch
  <2>3. cnt' \in Cnt
    BY <2>1, WAssumption, SMT DEF DivInv, Cnt
  <2>4. ~div_ready' => cnt' <= rvld_cnt_r - dvld_cnt_r /\ ~fast_div_r
    BY <1>6, <2>1, Below
  <2> QED
    BY <1>1, <1>6, <2>1, <2>2, <2>3, <2>4 DEF DivInv, StopsInTime, opVars
<1> QED
  BY <1>2, <1>3, <1>4, <1>5, <1>6

\* The divider's invariant holds in every reachable state: an idle divider starts
\* from zero after any sequence of stalls and flushes.
THEOREM DividerCorrect == Spec => []DivInv
<1>1. DivInv /\ [Next]_vars => DivInv'
  <2> SUFFICES ASSUME DivInv, [Next]_vars PROVE DivInv'
    OBVIOUS
  <2>1. CASE Next
    BY <2>1, DivInvStep DEF Next
  <2>2. CASE UNCHANGED vars
    BY <2>2 DEF vars, ctlVars, opVars, DivInv, StopsInTime
  <2> QED
    BY <2>1, <2>2
<1> QED
  BY InitDivInv, <1>1, PTL DEF Spec

\* The iteration never runs past the last bit of the quotient, so that div_done,
\* a test for equality, is not missed: at the width of the code as at smaller ones.
THEOREM IterationStops == Spec => []StopsInTime
<1>1. DivInv => StopsInTime
  BY DEF DivInv
<1> QED
  BY DividerCorrect, <1>1, PTL
=============================================================================
