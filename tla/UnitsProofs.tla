----------------------------- MODULE UnitsProofs -----------------------------
(***************************************************************************)
(* Proofs about the small units of the core, each under its own            *)
(* specification and for every size.                                       *)
(***************************************************************************)
EXTENDS Clint, Predictor, ByteLanes, SequenceTheorems, TLAPS

-----------------------------------------------------------------------------
(* The timer of the CLINT.                                                   *)

\* The CLINT under every sequence of accesses.
ClintSpec == ClintInit /\ [][ClintNext]_clint

\* The history variable is the distance from mtime to mtimecmp, and nothing but
\* a write, or mtime wrapping, changes it otherwise than by counting down.
ClintInv ==
  /\ clint.mtime \in Times /\ clint.mtimecmp \in Times
  /\ clint.due = left(clint.mtime, clint.mtimecmp)

\* The counter register counts up and wraps.
LEMMA IncrementWraps ==
  ASSUME NEW n \in Times
  PROVE  increment(n) \in Times /\ (increment(n) = 0 \/ increment(n) = n + 1)
<1>1. PICK m \in Nat \ {0} : m = 2^ClintBits
  BY ClintBitsAssumption
<1>2. n \in 0 .. m - 1
  BY <1>1 DEF Times
<1>3. (n + 1) % m \in 0 .. m - 1 /\ ((n + 1) % m = 0 \/ (n + 1) % m = n + 1)
  BY <1>2
<1> QED
  BY <1>1, <1>3 DEF increment, Times

\* Reset satisfies the invariant.
LEMMA ClintInitInv == ClintInit => ClintInv
<1>1. PICK m \in Nat \ {0} : m = 2^ClintBits
  BY ClintBitsAssumption
<1> QED
  BY <1>1 DEF ClintInit, ClintInv, Times, left

\* Every clock edge keeps the invariant, with whatever access comes along.
LEMMA ClintStepInv == ClintInv /\ [ClintNext]_clint => ClintInv'
<1> SUFFICES ASSUME ClintInv, [ClintNext]_clint PROVE ClintInv'
  OBVIOUS
<1>1. CASE UNCHANGED clint
  BY <1>1 DEF ClintInv
<1>2. ASSUME NEW q, q \in Reqs \/ q = NoReq, ClintStep(q) PROVE ClintInv'
  <2> DEFINE time == IF writes(q, "mtime") THEN q.wdata ELSE increment(clint.mtime)
             cmp  == IF writes(q, "mtimecmp") THEN q.wdata ELSE clint.mtimecmp
             anew == writes(q, "mtime") \/ writes(q, "mtimecmp") \/ time = 0
  <2>1. /\ clint'.mtime = time /\ clint'.mtimecmp = cmp
        /\ clint'.due = IF anew THEN left(time, cmp)
                        ELSE IF clint.due = 0 THEN 0 ELSE clint.due - 1
    BY <1>2 DEF ClintStep
  <2>2. writes(q, "mtime") \/ writes(q, "mtimecmp") => q.wdata \in Times
    BY <1>2 DEF writes, Reqs, NoReq
  <2>3. time \in Times /\ cmp \in Times
    BY <2>2, IncrementWraps DEF ClintInv
  <2>4. CASE anew
    BY <2>1, <2>3, <2>4 DEF ClintInv
  <2>5. CASE ~anew
    <3>1. time = clint.mtime + 1 /\ cmp = clint.mtimecmp
      BY <2>5, IncrementWraps DEF ClintInv
    <3>2. PICK m \in Nat \ {0} : m = 2^ClintBits
      BY ClintBitsAssumption
    <3>3. clint.mtime \in 0 .. m - 1 /\ clint.mtimecmp \in 0 .. m - 1
      BY <3>2 DEF ClintInv, Times
    <3>4. clint'.due = left(time, cmp)
      BY <2>1, <2>5, <3>1, <3>3 DEF ClintInv, left
    <3> QED
      BY <2>1, <2>3, <3>4 DEF ClintInv
  <2> QED
    BY <2>4, <2>5
<1> QED
  BY <1>1, <1>2 DEF ClintNext

\* The timer interrupt of rv64im_core_clint.sv comes exactly as many edges after
\* the last write as mtime and mtimecmp were apart, for every register width and
\* whatever accesses the port serves meanwhile.
THEOREM TimerExact == ClintSpec => []TimerOnTime
<1>1. ClintInv => TimerOnTime
  <2>1. PICK m \in Nat \ {0} : m = 2^ClintBits
    BY ClintBitsAssumption
  <2> QED
    BY <2>1 DEF ClintInv, TimerOnTime, o_clt_mtip, left, Times
<1> QED
  BY <1>1, ClintInitInv, ClintStepInv, PTL DEF ClintSpec

-----------------------------------------------------------------------------
(* The branch counters.                                                      *)

\* The counters under every sequence of branches and lookups.
SatSpec == SatInit /\ [][SatNext]_sat

\* The outcomes remembered of an entry, and how far the last of them has moved
\* the counter.
OutcomesInv(i) ==
  LET o == sat.recent[i]
      n == sat.sat_cnt[i]
  IN /\ n \in 0 .. 3 /\ o.count \in 0 .. 2 /\ o.last \in BOOLEAN /\ o.before \in BOOLEAN
     /\ sat.cnt_vld[i] <=> o.count > 0
     /\ o.count > 0 => IF o.last THEN n >= 1 ELSE n <= 2
     /\ o.count = 2 /\ o.last = o.before => IF o.last THEN n >= 2 ELSE n <= 1

\* Every entry but the last, which is never written.
SatInv == \A i \in Entries \ {LastEntry} : OutcomesInv(i)

\* The counters of satcnt saturate.
LEMMA Trained ==
  ASSUME NEW n \in 0 .. 3, NEW pt \in BOOLEAN
  PROVE  /\ trained(n, pt) \in 0 .. 3
         /\ IF pt THEN trained(n, pt) >= 1 ELSE trained(n, pt) <= 2
         /\ pt /\ n >= 1 => trained(n, pt) >= 2
         /\ ~pt /\ n <= 2 => trained(n, pt) <= 1
BY DEF trained

\* After reset nothing is remembered, and the counters are at two.
LEMMA SatInitInv == SatInit => SatInv
<1> SUFFICES ASSUME SatInit, NEW i \in Entries \ {LastEntry} PROVE OutcomesInv(i)
  BY DEF SatInv
<1>1. PICK n \in 0 .. 3, v \in BOOLEAN : sat = SatReset(n, v)
  BY DEF SatInit
<1>2. sat.recent[i] = NoOutcome /\ sat.sat_cnt[i] = 2 /\ ~sat.cnt_vld[i]
  BY <1>1, Zenon DEF SatReset
<1> QED
  BY <1>2 DEF OutcomesInv, NoOutcome

\* Training an entry keeps its invariant and does not touch another's.
LEMMA SatStepInv == SatInv /\ [SatNext]_sat => SatInv'
<1> SUFFICES ASSUME SatInv, [SatNext]_sat, NEW i \in Entries \ {LastEntry} PROVE OutcomesInv(i)'
  BY DEF SatInv
<1>0. OutcomesInv(i)
  BY DEF SatInv
<1>1. CASE UNCHANGED sat
  BY <1>0, <1>1 DEF OutcomesInv
<1>2. ASSUME NEW bx \in Branches \cup {NoBranch}, NEW pred_pc \in 0 .. SatDepth,
             SatStep(bx, pred_pc)
      PROVE  OutcomesInv(i)'
  <2>1. CASE i # bx.pc
    <3>1. /\ sat'.recent[i] = sat.recent[i] /\ sat'.sat_cnt[i] = sat.sat_cnt[i]
          /\ sat'.cnt_vld[i] <=> sat.cnt_vld[i]
      BY <1>2, <2>1, Zenon DEF SatStep
    <3> QED
      BY <1>0, <3>1 DEF OutcomesInv
  <2>2. CASE i = bx.pc
    <3>1. bx.pt \in BOOLEAN
      BY <2>2, SizesAssumption DEF Branches, NoBranch, Entries, LastEntry
    <3>2. /\ sat'.recent[i] = remember(sat.recent[i], bx.pt)
          /\ sat'.sat_cnt[i] = trained(sat.sat_cnt[i], bx.pt)
          /\ sat'.cnt_vld[i]
      BY <1>2, <2>2, Zenon DEF SatStep
    <3>3. /\ sat'.recent[i].count = (IF sat.recent[i].count = 0 THEN 1 ELSE 2)
          /\ sat'.recent[i].last = bx.pt /\ sat'.recent[i].before = sat.recent[i].last
      BY <3>2 DEF remember
    <3> QED
      BY <1>0, <3>1, <3>2, <3>3, Trained DEF OutcomesInv
  <2> QED
    BY <2>1, <2>2
<1> QED
  BY <1>1, <1>2 DEF SatNext

\* Two equal outcomes in a row decide the prediction of rv64im_core_satcnt.sv,
\* for every number of entries; the last entry, which is never trained, excepted.
THEOREM TwoOutcomesEnough == SatSpec => []TwoOutcomesDecide
<1>1. SatInv => TwoOutcomesDecide
  BY DEF SatInv, OutcomesInv, TwoOutcomesDecide
<1> QED
  BY <1>1, SatInitInv, SatStepInv, PTL DEF SatSpec

-----------------------------------------------------------------------------
(* Sequences.                                                                *)

\* The end of a sequence.
LEMMA EndOf ==
  ASSUME NEW S, NEW s \in Seq(S), NEW m \in 1 .. Len(s) + 1
  PROVE  /\ SubSeq(s, m, Len(s)) \in Seq(S)
         /\ Len(SubSeq(s, m, Len(s))) = Len(s) - m + 1
         /\ \A i \in 1 .. Len(s) - m + 1 : SubSeq(s, m, Len(s))[i] = s[m + i - 1]
<1>1. Len(s) \in Nat /\ \A i \in 1 .. Len(s) : s[i] \in S
  BY LenProperties, ElementOfSeq
<1>2. PICK n \in Nat : n = Len(s)
  BY <1>1
<1>3. m \in Int /\ n \in Int /\ (\A i \in m .. n : s[i] \in S)
  BY <1>1, <1>2
<1>4. SubSeq(s, m, n) \in Seq(S)
  BY <1>3, SubSeqProperties
<1>5. Len(SubSeq(s, m, n)) = IF m <= n THEN n - m + 1 ELSE 0
  BY <1>3, SubSeqProperties
<1>6. \A i \in 1 .. n - m + 1 : SubSeq(s, m, n)[i] = s[m + i - 1]
  BY <1>3, SubSeqProperties
<1> QED
  BY <1>2, <1>4, <1>5, <1>6

\* A sequence with an element added at its end.
LEMMA Extended ==
  ASSUME NEW S, NEW c \in Seq(S), NEW u \in Seq(S), Len(u) = 1
  PROVE  /\ c \o u \in Seq(S) /\ Len(c \o u) = Len(c) + 1 /\ (c \o u)[Len(c) + 1] = u[1]
         /\ \A i \in 1 .. Len(c) : (c \o u)[i] = c[i]
<1>2. /\ c \o u \in Seq(S) /\ Len(c \o u) = Len(c) + Len(u)
      /\ \A i \in 1 .. Len(c) + Len(u) : (c \o u)[i] = IF i <= Len(c) THEN c[i] ELSE u[i - Len(c)]
  BY ConcatProperties, Zenon
<1>3. PICK s \in Seq(S) : s = c \o u
  BY <1>2, Zenon
<1>4. Len(c) \in Nat
  BY LenProperties
<1>5. Len(s) = Len(c) + 1 /\ s[Len(c) + 1] = u[1] /\ \A i \in 1 .. Len(c) : s[i] = c[i]
  BY <1>2, <1>3, <1>4
<1> QED
  BY <1>3, <1>5

\* A sequence without its last element.
LEMMA Shortened ==
  ASSUME NEW S, NEW c \in Seq(S), c # <<>>
  PROVE  \E s \in Seq(S) : /\ s = SubSeq(c, 1, Len(c) - 1) /\ Len(s) = Len(c) - 1
                           /\ \A i \in 1 .. Len(c) - 1 : s[i] = c[i]
<1>1. PICK n \in Nat : n = Len(c) - 1 /\ \A i \in 1 .. n : c[i] \in S
  <2>1. Len(c) \in Nat \ {0}
    BY EmptySeq
  <2>2. \A i \in 1 .. Len(c) : c[i] \in S
    BY ElementOfSeq
  <2> QED
    BY <2>1, <2>2
<1>2. SubSeq(c, 1, n) \in Seq(S)
  BY <1>1, SubSeqProperties
<1>3. Len(SubSeq(c, 1, n)) = n
  BY <1>1, SubSeqProperties
<1>4. \A i \in 1 .. n : SubSeq(c, 1, n)[i] = c[i]
  BY <1>1, SubSeqProperties
<1> QED
  BY <1>1, <1>2, <1>3, <1>4, Zenon

-----------------------------------------------------------------------------
(* The return-address stack.                                                 *)

\* The stack under every sequence of calls and returns.
RasSpec == RasInit /\ [][RasNext]_ras

\* How many calls ago slot s was written, when w is the write pointer; 0 is the
\* top of the stack.
Age(w, s) == IF s < w THEN w - 1 - s ELSE w + Depth - 1 - s

\* The slots hold the calls c not yet returned from, the younger the nearer to
\* the top, and no others are valid.
Stacked(w, vld, tgt, c) ==
  /\ w \in Slots /\ c \in Seq(Targets) /\ Len(c) <= Depth
  /\ vld \in [Slots -> BOOLEAN] /\ tgt \in [Slots -> Targets]
  /\ \A s \in Slots : vld[s] <=> Age(w, s) < Len(c)
  /\ \A s \in Slots : vld[s] => tgt[s] = c[Len(c) - Age(w, s)]

\* That is so while every call and return was counted once.
RasInv ==
  /\ ras.exact \in BOOLEAN
  /\ ras.exact => Stacked(ras.wptr, ras.tgt_vld, ras.ret_tgt, ras.calls)

\* Recent leaves a sequence that is short enough alone.
LEMMA RecentShort ==
  ASSUME NEW S, NEW s \in Seq(S), Len(s) <= Depth
  PROVE  Recent(s) = s
<1>1. Len(s) \in Nat
  BY LenProperties
<1>2. PICK r : r = SubSeq(s, 1, Len(s))
  OBVIOUS
<1>3. r \in Seq(S)
  BY <1>1, <1>2, EndOf
<1>4. Len(r) = Len(s)
  BY <1>1, <1>2, EndOf
<1>5. \A i \in 1 .. Len(s) : r[i] = s[i]
  BY <1>1, <1>2, EndOf
<1>6. r = s
  BY <1>3, <1>4, <1>5, SeqEqual
<1>7. ~(Len(s) > Depth)
  BY <1>1, SizesAssumption DEF Depth
<1> QED
  BY <1>2, <1>6, <1>7 DEF Recent

\* Recent drops the oldest element of a sequence that is one too long.
LEMMA RecentLong ==
  ASSUME NEW S, NEW s \in Seq(S), Len(s) = Depth + 1
  PROVE  /\ Recent(s) \in Seq(S) /\ Len(Recent(s)) = Depth
         /\ \A i \in 1 .. Depth : Recent(s)[i] = s[i + 1]
<1>0. Depth \in Nat \ {0}
  BY SizesAssumption DEF Depth
<1>1. PICK r : r = SubSeq(s, 2, Len(s))
  BY Zenon
<1>2. Recent(s) = r
  BY <1>0, <1>1 DEF Recent
<1>3. r \in Seq(S)
  BY <1>0, <1>1, EndOf
<1>4. Len(r) = Depth
  BY <1>0, <1>1, EndOf
<1>5. \A i \in 1 .. Depth : r[i] = s[i + 1]
  BY <1>0, <1>1, EndOf
<1> QED
  BY <1>2, <1>3, <1>4, <1>5

\* The slot below the write pointer is the top of the stack.
LEMMA TopAge ==
  ASSUME NEW w \in Slots
  PROVE  /\ (w + Depth - 1) % Depth \in Slots
         /\ (w + Depth - 1) % Depth = (IF w = 0 THEN Depth - 1 ELSE w - 1)
         /\ Age(w, (w + Depth - 1) % Depth) = 0
<1>0. Depth \in Nat \ {0}
  BY SizesAssumption DEF Depth
<1>1. (w + Depth - 1) % Depth = (IF w = 0 THEN Depth - 1 ELSE w - 1)
  <2>1. w \in 0 .. Depth - 1
    BY DEF Slots
  <2>2. CASE w = 0
    <3>1. w + Depth - 1 = Depth - 1
      BY <1>0, <2>2
    <3>2. (Depth - 1) % Depth = Depth - 1
      BY <1>0
    <3> QED
      BY <2>2, <3>1, <3>2
  <2>3. CASE w # 0
    <3>1. PICK n \in 0 .. Depth - 1 : n = w - 1 /\ w + Depth - 1 = n + Depth
      BY <1>0, <2>1, <2>3
    <3>2. (n + Depth) % Depth = n
      BY <1>0, <3>1
    <3> QED
      BY <2>3, <3>1, <3>2
  <2> QED
    BY <2>2, <2>3
<1>2. PICK p : p = (w + Depth - 1) % Depth
  OBVIOUS
<1>3. p \in Slots /\ Age(w, p) = 0
  BY <1>0, <1>1, <1>2 DEF Age, Slots
<1> QED
  BY <1>1, <1>2, <1>3

\* The ages are the numbers below Depth.
LEMMA AgeType ==
  ASSUME NEW w \in Slots, NEW s \in Slots
  PROVE  /\ Age(w, s) \in 0 .. Depth - 1
         /\ Age(w, s) = 0 <=> s = (IF w = 0 THEN Depth - 1 ELSE w - 1)
         /\ Age(w, s) = Depth - 1 <=> s = w
<1>0. Depth \in Nat \ {0}
  BY SizesAssumption DEF Depth
<1> QED
  BY <1>0 DEF Age, Slots

\* One slot further the write pointer makes each slot one older, and the oldest the top.
LEMMA AgePush ==
  ASSUME NEW w \in Slots, NEW s \in Slots, NEW w2, w2 = (IF w = Depth - 1 THEN 0 ELSE w + 1)
  PROVE  Age(w2, s) = (IF s = w THEN 0 ELSE Age(w, s) + 1)
<1>0. Depth \in Nat \ {0}
  BY SizesAssumption DEF Depth
<1>1. PICK n \in Nat \ {0} : n = Depth
  BY <1>0
<1>2. w \in 0 .. n - 1 /\ s \in 0 .. n - 1 /\ w2 = (IF w = n - 1 THEN 0 ELSE w + 1)
  BY <1>1 DEF Slots
<1>3. /\ Age(w2, s) = (IF s < w2 THEN w2 - 1 - s ELSE w2 + n - 1 - s)
      /\ Age(w, s) = (IF s < w THEN w - 1 - s ELSE w + n - 1 - s)
  BY <1>1 DEF Age
<1> QED
  BY ONLY n \in Nat \ {0}, <1>2, <1>3

\* One slot back it makes each slot one younger, and the top the oldest.
LEMMA AgePop ==
  ASSUME NEW w \in Slots, NEW s \in Slots, NEW p, p = (IF w = 0 THEN Depth - 1 ELSE w - 1)
  PROVE  Age(p, s) = (IF s = p THEN Depth - 1 ELSE Age(w, s) - 1)
<1>0. Depth \in Nat \ {0}
  BY SizesAssumption DEF Depth
<1>1. PICK n \in Nat \ {0} : n = Depth
  BY <1>0
<1>2. w \in 0 .. n - 1 /\ s \in 0 .. n - 1 /\ p = (IF w = 0 THEN n - 1 ELSE w - 1)
  BY <1>1 DEF Slots
<1>3. /\ Age(p, s) = (IF s < p THEN p - 1 - s ELSE p + n - 1 - s)
      /\ Age(w, s) = (IF s < w THEN w - 1 - s ELSE w + n - 1 - s)
  BY <1>1 DEF Age
<1>4. Age(p, s) = (IF s = p THEN n - 1 ELSE Age(w, s) - 1)
  BY ONLY n \in Nat \ {0}, <1>2, <1>3
<1> QED
  BY <1>1, <1>4

\* A call pushed on the calls that are kept: it is the last, and the Depth - 1
\* before it keep their distance to the end.
LEMMA CallsPushed ==
  ASSUME NEW c \in Seq(Targets), Len(c) <= Depth, NEW t \in Targets
  PROVE  \E d \in Seq(Targets) :
            /\ d = Recent(c \o <<t>>)
            /\ Len(d) = (IF Len(c) = Depth THEN Depth ELSE Len(c) + 1)
            /\ d[Len(d)] = t
            /\ \A a \in 0 .. Len(d) - 2 : d[Len(d) - 1 - a] = c[Len(c) - a]
<1>0. Depth \in Nat \ {0}
  BY SizesAssumption DEF Depth
<1>a. Len(c) \in Nat
  BY LenProperties
<1>1. PICK e \in Seq(Targets) : /\ e = c \o <<t>> /\ Len(e) = Len(c) + 1 /\ e[Len(e)] = t
                                /\ \A i \in 1 .. Len(c) : e[i] = c[i]
  <2>1. PICK u \in Seq(Targets) : u = <<t>> /\ Len(u) = 1 /\ u[1] = t
    <3>1. <<t>> \in Seq(Targets)
      OBVIOUS
    <3>2. Len(<<t>>) = 1 /\ <<t>>[1] = t
      OBVIOUS
    <3> QED
      BY <3>1, <3>2, Zenon
  <2>2. Len(u) = 1
    BY <2>1
  <2>3. c \o u \in Seq(Targets)
    BY ONLY <2>2, c \in Seq(Targets), u \in Seq(Targets), Extended
  <2>4. Len(c \o u) = Len(c) + 1
    BY ONLY <2>2, c \in Seq(Targets), u \in Seq(Targets), Extended
  <2>5. (c \o u)[Len(c) + 1] = u[1]
    BY ONLY <2>2, c \in Seq(Targets), u \in Seq(Targets), Extended
  <2>6. \A i \in 1 .. Len(c) : (c \o u)[i] = c[i]
    BY ONLY <2>2, c \in Seq(Targets), u \in Seq(Targets), Extended
  <2> QED
    BY <2>1, <2>3, <2>4, <2>5, <2>6, Zenon
<1>2. PICK n \in Nat : n = Len(c)
  BY <1>a
<1>3. CASE n = Depth
  <2>0. Len(e) = Depth + 1
    BY <1>1, <1>2, <1>3
  <2>1. PICK d : d = Recent(e)
    OBVIOUS
  <2>2. d \in Seq(Targets) /\ Len(d) = Depth /\ \A i \in 1 .. Depth : d[i] = e[i + 1]
    BY <2>0, <2>1, RecentLong, Zenon
  <2>3. d[Depth] = t
    <3>1. d[Depth] = e[Depth + 1]
      BY <1>0, <2>2
    <3> QED
      BY <1>1, <2>0, <3>1
  <2>4. ASSUME NEW a \in 0 .. Depth - 2 PROVE d[Depth - 1 - a] = c[Depth - a]
    <3>1. PICK i \in 1 .. Depth : i = Depth - 1 - a /\ i + 1 = Depth - a /\ i + 1 \in 1 .. Depth
      BY <1>0
    <3>2. d[i] = e[i + 1]
      BY <2>2, <3>1, Zenon
    <3>3. e[i + 1] = c[i + 1]
      BY <1>1, <1>2, <1>3, <3>1
    <3> QED
      BY <3>1, <3>2, <3>3
  <2>5. \A a \in 0 .. Len(d) - 2 : d[Len(d) - 1 - a] = c[Len(c) - a]
    BY <1>2, <1>3, <2>2, <2>4
  <2>6. Len(d) = (IF Len(c) = Depth THEN Depth ELSE Len(c) + 1) /\ d[Len(d)] = t
    BY <1>2, <1>3, <2>2, <2>3
  <2> QED
    BY <1>1, <2>1, <2>2, <2>5, <2>6, Zenon
<1>4. CASE n # Depth
  <2>0. Len(e) <= Depth
    BY <1>0, <1>1, <1>2, <1>4
  <2>1. Recent(e) = e
    BY <2>0, RecentShort, Zenon
  <2>2. ASSUME NEW a \in 0 .. Len(e) - 2 PROVE e[Len(e) - 1 - a] = c[Len(c) - a]
    <3>0. Len(e) = n + 1 /\ Len(c) = n
      BY <1>1, <1>2
    <3>1. PICK i \in 1 .. n : i = n + 1 - 1 - a /\ i = n - a
      BY <3>0
    <3> QED
      BY <1>1, <3>0, <3>1
  <2>3. Len(e) = (IF Len(c) = Depth THEN Depth ELSE Len(c) + 1)
    BY <1>1, <1>2, <1>4
  <2> QED
    BY <1>1, <2>1, <2>2, <2>3, Zenon
<1> QED
  BY <1>3, <1>4, Zenon

\* The read pointer when w is the write pointer.
Below(w) == (w + Depth - 1) % Depth

\* The calls c after a return, as RasStep computes them.
Popped(c) == Recent((IF c # <<>> THEN SubSeq(c, 1, Len(c) - 1) ELSE c) \o <<>>)

\* A return taken off the calls: the others are one nearer to the end.
LEMMA CallsPopped ==
  ASSUME NEW c \in Seq(Targets), Len(c) <= Depth
  PROVE  \E d \in Seq(Targets) :
            /\ d = Popped(c)
            /\ Len(d) = (IF Len(c) = 0 THEN 0 ELSE Len(c) - 1)
            /\ \A i \in 1 .. Len(c) - 1 : d[i] = c[i]
<1>0. Depth \in Nat \ {0}
  BY SizesAssumption DEF Depth
<1>a. Len(c) \in Nat
  BY LenProperties
<1>1. PICK d \in Seq(Targets) :
        /\ d = (IF c # <<>> THEN SubSeq(c, 1, Len(c) - 1) ELSE c)
        /\ Len(d) = (IF Len(c) = 0 THEN 0 ELSE Len(c) - 1)
        /\ \A i \in 1 .. Len(c) - 1 : d[i] = c[i]
  <2>1. CASE c = <<>>
    <3>1. Len(c) = 0
      BY <2>1, EmptySeq
    <3>2. Len(c) = (IF Len(c) = 0 THEN 0 ELSE Len(c) - 1)
      BY <3>1
    <3> QED
      BY <2>1, <3>2, Zenon
  <2>2. CASE c # <<>>
    <3>1. Len(c) # 0
      BY <2>2, EmptySeq
    <3>2. PICK d \in Seq(Targets) : /\ d = SubSeq(c, 1, Len(c) - 1) /\ Len(d) = Len(c) - 1
                                    /\ \A i \in 1 .. Len(c) - 1 : d[i] = c[i]
      BY <2>2, Shortened, Zenon
    <3> QED
      BY <2>2, <3>1, <3>2, Zenon
  <2> QED
    BY <2>1, <2>2
<1>2. d \o <<>> = d
  BY ConcatEmptySeq
<1>3. Len(d) <= Depth
  BY <1>0, <1>a, <1>1
<1>4. Recent(d) = d
  BY <1>3, RecentShort
<1> QED
  BY <1>1, <1>2, <1>4, Zenon DEF Popped

\* A call: every slot is one call older, and the oldest becomes the top.
LEMMA PushStacked ==
  ASSUME NEW w, NEW v, NEW r, NEW c, Stacked(w, v, r, c), NEW t \in Targets
  PROVE  Stacked((w + 1) % Depth, [i \in Slots |-> IF i = w THEN TRUE ELSE v[i]],
                 [r EXCEPT ![w] = t], Recent(c \o <<t>>))
<1>0. Depth \in Nat \ {0}
  BY SizesAssumption DEF Depth
<1>a. w \in Slots /\ c \in Seq(Targets) /\ Len(c) <= Depth /\ v \in [Slots -> BOOLEAN] /\ r \in [Slots -> Targets]
  BY DEF Stacked
<1>1. PICK d \in Seq(Targets) :
        /\ d = Recent(c \o <<t>>)
        /\ Len(d) = (IF Len(c) = Depth THEN Depth ELSE Len(c) + 1)
        /\ d[Len(d)] = t
        /\ \A a \in 0 .. Len(d) - 2 : d[Len(d) - 1 - a] = c[Len(c) - a]
  BY <1>a, CallsPushed, Zenon
<1>2. PICK n \in 0 .. Depth : n = Len(c)
  <2>1. Len(c) \in Nat
    BY <1>a, LenProperties
  <2> QED
    BY <1>0, <1>a, <2>1
<1>3. PICK m \in 1 .. Depth : m = Len(d) /\ m = (IF n = Depth THEN Depth ELSE n + 1)
  BY <1>0, <1>1, <1>2
<1>4. PICK w2 \in Slots : w2 = (w + 1) % Depth /\ w2 = (IF w = Depth - 1 THEN 0 ELSE w + 1)
  <2>1. w \in 0 .. Depth - 1
    BY <1>a DEF Slots
  <2>2. (w + 1) % Depth = (IF w = Depth - 1 THEN 0 ELSE w + 1)
    BY <1>0, <2>1
  <2>3. (IF w = Depth - 1 THEN 0 ELSE w + 1) \in Slots
    BY <1>0, <2>1 DEF Slots
  <2> QED
    BY <2>2, <2>3
<1>5. PICK v2 \in [Slots -> BOOLEAN], r2 \in [Slots -> Targets] :
        /\ v2 = [i \in Slots |-> IF i = w THEN TRUE ELSE v[i]]
        /\ r2 = [r EXCEPT ![w] = t]
  BY <1>a, Zenon
<1>6. ASSUME NEW s \in Slots
      PROVE  (v2[s] <=> Age(w2, s) < m) /\ (v2[s] => r2[s] = d[m - Age(w2, s)])
  <2>0. Age(w, s) \in 0 .. Depth - 1 /\ (Age(w, s) = Depth - 1 <=> s = w)
    BY <1>a, AgeType
  <2>1. CASE s = w
    <3>1. v2[s] /\ r2[s] = t
      BY <1>a, <1>5, <2>1
    <3>2. Age(w2, s) = 0
      BY <1>a, <1>4, <2>1, AgePush
    <3> QED
      BY <1>1, <1>3, <3>1, <3>2
  <2>2. CASE s # w
    <3>1. v2[s] = v[s] /\ r2[s] = r[s]
      BY <1>a, <1>5, <2>2
    <3>2. Age(w2, s) = Age(w, s) + 1
      BY <1>a, <1>4, <2>2, AgePush
    <3>3. (v[s] <=> Age(w, s) < n) /\ (v[s] => r[s] = c[n - Age(w, s)])
      BY <1>2 DEF Stacked
    <3>4. PICK a \in 0 .. Depth - 2 : a = Age(w, s)
      BY <1>0, <2>0, <2>2
    <3>5. a < n <=> a + 1 < m
      BY <1>0, <1>3
    <3>6. ASSUME a < n PROVE d[m - (a + 1)] = c[n - a]
      <4>1. a \in 0 .. m - 2 /\ m - (a + 1) = m - 1 - a
        BY <1>0, <1>3, <3>5, <3>6
      <4> QED
        BY <1>1, <1>2, <1>3, <4>1, Zenon
    <3> QED
      BY <3>1, <3>2, <3>3, <3>4, <3>5, <3>6
  <2> QED
    BY <2>1, <2>2
<1>7. Stacked(w2, v2, r2, d)
  BY <1>3, <1>6 DEF Stacked
<1> QED
  BY <1>1, <1>4, <1>5, <1>7, Zenon

\* A return: the top is given up and every other slot is one call younger.
LEMMA PopStacked ==
  ASSUME NEW w, NEW v, NEW r, NEW c, Stacked(w, v, r, c)
  PROVE  Stacked(Below(w), [i \in Slots |-> IF i = Below(w) THEN FALSE ELSE v[i]], r, Popped(c))
<1>0. Depth \in Nat \ {0}
  BY SizesAssumption DEF Depth
<1>a. w \in Slots /\ c \in Seq(Targets) /\ Len(c) <= Depth /\ v \in [Slots -> BOOLEAN] /\ r \in [Slots -> Targets]
  BY DEF Stacked
<1>1. PICK d \in Seq(Targets) :
        /\ d = Popped(c)
        /\ Len(d) = (IF Len(c) = 0 THEN 0 ELSE Len(c) - 1)
        /\ \A i \in 1 .. Len(c) - 1 : d[i] = c[i]
  BY <1>a, CallsPopped, Zenon
<1>2. PICK n \in 0 .. Depth : n = Len(c)
  <2>1. Len(c) \in Nat
    BY <1>a, LenProperties
  <2> QED
    BY <1>0, <1>a, <2>1
<1>3. PICK m \in 0 .. Depth - 1 : m = Len(d) /\ m = (IF n = 0 THEN 0 ELSE n - 1)
  <2>1. (IF n = 0 THEN 0 ELSE n - 1) \in 0 .. Depth - 1
    BY <1>0
  <2> QED
    BY <1>1, <1>2, <2>1
<1>4. PICK p \in Slots : p = Below(w) /\ p = (IF w = 0 THEN Depth - 1 ELSE w - 1)
  BY <1>a, TopAge DEF Below
<1>5. PICK v2 \in [Slots -> BOOLEAN] : v2 = [i \in Slots |-> IF i = p THEN FALSE ELSE v[i]]
  BY <1>a, Zenon
<1>6. ASSUME NEW s \in Slots
      PROVE  (v2[s] <=> Age(p, s) < m) /\ (v2[s] => r[s] = d[m - Age(p, s)])
  <2>0. Age(w, s) \in 0 .. Depth - 1 /\ (Age(w, s) = 0 <=> s = p)
    BY <1>a, <1>4, AgeType
  <2>1. CASE s = p
    <3>1. Age(p, s) = Depth - 1
      BY <1>4, <2>1, AgeType
    <3> QED
      BY <1>0, <1>3, <1>5, <2>1, <3>1
  <2>2. CASE s # p
    <3>1. v2[s] = v[s]
      BY <1>5, <2>2
    <3>2. Age(p, s) = Age(w, s) - 1
      BY <1>a, <1>4, <2>2, AgePop
    <3>3. (v[s] <=> Age(w, s) < n) /\ (v[s] => r[s] = c[n - Age(w, s)])
      BY <1>2 DEF Stacked
    <3>4. PICK a \in 1 .. Depth - 1 : a = Age(w, s)
      BY <1>0, <2>0, <2>2
    <3>5. a < n <=> a - 1 < m
      BY <1>0, <1>3
    <3>6. ASSUME a < n PROVE d[m - (a - 1)] = c[n - a]
      <4>1. m - (a - 1) = n - a /\ n - a \in 1 .. n - 1
        BY <1>0, <1>3, <3>5, <3>6
      <4> QED
        BY <1>1, <1>2, <4>1
    <3> QED
      BY <3>1, <3>2, <3>3, <3>4, <3>5, <3>6
  <2> QED
    BY <2>1, <2>2
<1>7. Len(d) <= Depth
  BY <1>0, <1>3
<1>8. Stacked(p, v2, r, d)
  BY <1>a, <1>3, <1>4, <1>6, <1>7 DEF Stacked
<1> QED
  BY <1>1, <1>4, <1>5, <1>8, Zenon

\* After reset the stack is empty.
LEMMA RasInitInv == RasInit => RasInv
<1> SUFFICES ASSUME RasInit PROVE RasInv
  OBVIOUS
<1>0. Depth \in Nat \ {0}
  BY SizesAssumption DEF Depth
<1>1. PICK slots \in [Slots -> Targets] : ras = RasReset(slots)
  BY DEF RasInit
<1>2. /\ ras.wptr = 0 /\ ras.tgt_vld = [i \in Slots |-> FALSE] /\ ras.ret_tgt = slots
      /\ ras.calls = <<>> /\ ras.exact = TRUE
  BY <1>1 DEF RasReset
<1>3. 0 \in Slots
  BY <1>0 DEF Slots
<1>4. PICK c \in Seq(Targets) : c = <<>> /\ Len(c) = 0
  BY EmptySeq, Zenon
<1>5. \A s \in Slots : ~(Age(0, s) < 0)
  BY <1>0, <1>3, AgeType
<1>6. Stacked(0, [i \in Slots |-> FALSE], slots, c)
  BY <1>0, <1>3, <1>4, <1>5 DEF Stacked
<1> QED
  BY <1>2, <1>4, <1>6, Zenon DEF RasInv

\* Every clock edge keeps the invariant.
LEMMA RasStepInv == RasInv /\ [RasNext]_ras => RasInv'
<1> SUFFICES ASSUME RasInv, [RasNext]_ras PROVE RasInv'
  OBVIOUS
<1>1. CASE UNCHANGED ras
  BY <1>1 DEF RasInv
<1>2. ASSUME NEW push \in BOOLEAN, NEW pop \in BOOLEAN, NEW again \in BOOLEAN, NEW t \in Targets,
             push \/ pop, RasStep(push, pop, t, again)
      PROVE  RasInv'
  <2>0. ras'.exact = (ras.exact /\ ~again /\ ~(push /\ pop))
    BY <1>2 DEF RasStep
  <2>a. PICK w, v, r, c : w = ras.wptr /\ v = ras.tgt_vld /\ r = ras.ret_tgt /\ c = ras.calls
    OBVIOUS
  <2>b. rptr = Below(w)
    BY <2>a DEF rptr, Below
  <2>1. CASE ~ras.exact \/ again \/ (push /\ pop)
    BY <2>0, <2>1, Zenon DEF RasInv
  <2>2. CASE ras.exact /\ ~again /\ push /\ ~pop
    <3>1. Stacked(w, v, r, c)
      BY <2>2, <2>a DEF RasInv
    <3>2. Stacked((w + 1) % Depth, [i \in Slots |-> IF i = w THEN TRUE ELSE v[i]],
                  [r EXCEPT ![w] = t], Recent(c \o <<t>>))
      BY <3>1, PushStacked, Zenon
    <3>3. /\ ras'.wptr = (w + 1) % Depth
          /\ ras'.tgt_vld = [i \in Slots |-> IF i = w THEN TRUE ELSE v[i]]
          /\ ras'.ret_tgt = [r EXCEPT ![w] = t] /\ ras'.calls = Recent(c \o <<t>>)
      BY <1>2, <2>2, <2>a DEF RasStep, wptr_next
    <3> QED
      BY <2>0, <3>2, <3>3, Zenon DEF RasInv
  <2>3. CASE ras.exact /\ ~again /\ ~push /\ pop
    <3>1. Stacked(w, v, r, c)
      BY <2>3, <2>a DEF RasInv
    <3>2. Stacked(Below(w), [i \in Slots |-> IF i = Below(w) THEN FALSE ELSE v[i]], r, Popped(c))
      BY <3>1, PopStacked, Zenon
    <3>3. /\ ras'.wptr = Below(w)
          /\ ras'.tgt_vld = [i \in Slots |-> IF i = Below(w) THEN FALSE ELSE v[i]]
          /\ ras'.ret_tgt = r
          /\ ras'.calls = Popped(c)
      BY <1>2, <2>3, <2>a, <2>b DEF Popped, RasStep, wptr_next
    <3> QED
      BY <2>0, <3>2, <3>3, Zenon DEF RasInv
  <2> QED
    BY <1>2, <2>1, <2>2, <2>3 DEF RasInv
<1> QED
  BY <1>1, <1>2 DEF RasNext

\* The prediction of rv64im_core_ras.sv is the return address of the innermost
\* call not yet returned from, for every depth of the stack and across overflow
\* and underflow, as long as each call and return was in EX for one cycle.
THEOREM TopIsInnermost == RasSpec => []TopIsLastCall
<1>1. RasInv => TopIsLastCall
  <2> SUFFICES ASSUME RasInv, ras.exact
               PROVE  /\ o_pop_vld <=> ras.calls # <<>>
                      /\ o_pop_vld => o_pop_tgt = ras.calls[Len(ras.calls)]
    BY DEF TopIsLastCall
  <2>a. PICK w, v, r, c : w = ras.wptr /\ v = ras.tgt_vld /\ r = ras.ret_tgt /\ c = ras.calls
    OBVIOUS
  <2>0. Stacked(w, v, r, c)
    BY <2>a DEF RasInv
  <2>1. PICK p \in Slots : p = (w + Depth - 1) % Depth /\ Age(w, p) = 0
    BY <2>0, TopAge DEF Stacked
  <2>2. c \in Seq(Targets)
    BY <2>0 DEF Stacked
  <2>3. Len(c) \in Nat
    BY <2>2, LenProperties
  <2>4. c # <<>> <=> Len(c) # 0
    BY <2>2, EmptySeq
  <2>5. (v[p] <=> 0 < Len(c)) /\ (v[p] => r[p] = c[Len(c) - 0])
    BY <2>0, <2>1 DEF Stacked
  <2>6. rptr = p
    BY <2>a, <2>1 DEF rptr
  <2>7. (v[p] <=> c # <<>>) /\ (v[p] => r[p] = c[Len(c)])
    BY <2>3, <2>4, <2>5
  <2> QED
    BY <2>a, <2>6, <2>7, Zenon DEF o_pop_vld, o_pop_tgt
<1> QED
  BY <1>1, RasInitInv, RasStepInv, PTL DEF RasSpec

-----------------------------------------------------------------------------
(* The byte lanes of loads and stores.                                       *)

\* The lanes under every sequence of stores and loads.
LanesSpec == LanesInit /\ [][LanesNext]_ls

\* Where a store is and how many bytes it has.
Accesses == [off : Offsets, len : Lens]

\* Byte a of memory is b, and b is what the last of the stores st that covers a
\* left there, or the first content of memory when none does.
Holds(st, a, b) ==
  \/ b = Old(a) /\ \A n \in 1 .. Len(st) : ~Covers(st[n], a)
  \/ \E n \in 1 .. Len(st) :
       /\ Covers(st[n], a) /\ b = Byte(n, a - st[n].off)
       /\ \A m \in 1 .. Len(st) : Covers(st[m], a) => m <= n

\* No store is made while a load is answered, so the answer is still that of
\* the memory as it stands.
LanesInv ==
  /\ ls = [mem |-> ls.mem, stores |-> ls.stores, load |-> ls.load]
  /\ ls.stores \in Seq(Accesses)
  /\ \A a \in Offsets : Holds(ls.stores, a, ls.mem[a])
  /\ ls.load # NoLoad =>
       \E off \in Offsets, len \in Lens, sign \in BOOLEAN :
         ls.load = [off |-> off, len |-> len, sign |-> sign,
                    data |-> memtord_data(ls.mem, off, len, sign)]

\* A store writes the bytes it covers and leaves the others as they were.
LEMMA StoreHolds ==
  ASSUME NEW st \in Seq(Accesses), NEW b, NEW a \in Offsets, Holds(st, a, b),
         NEW off \in Offsets, NEW len \in Lens
  PROVE  Holds(Append(st, [off |-> off, len |-> len]), a,
               IF a \in mem_wmask(off, len) THEN mem_wdata(off, len, Len(st) + 1)[a] ELSE b)
<1>1. PICK x \in Accesses : x = [off |-> off, len |-> len] /\ x.off = off /\ x.len = len
  <2>1. PICK y : y = [off |-> off, len |-> len]
    BY Zenon
  <2>2. y \in Accesses /\ y.off = off /\ y.len = len
    BY <2>1 DEF Accesses
  <2> QED
    BY <2>1, <2>2
<1>2. PICK k \in Nat : k = Len(st)
  BY LenProperties
<1>3. PICK t : t = Append(st, x)
  BY Zenon
<1>4. Len(t) = k + 1
  BY <1>2, <1>3, AppendProperties
<1>5. t[k + 1] = x
  BY <1>2, <1>3, AppendProperties
<1>6. \A i \in 1 .. k : t[i] = st[i]
  BY <1>2, <1>3, AppendProperties
<1>7. off \in Nat /\ len \in Nat \ {0} /\ a \in Nat
  BY DEF Offsets, Lens
<1>8. a \in mem_wmask(off, len) <=> Covers(x, a)
  <2>1. a \in off .. off + len - 1 <=> off <= a /\ a < off + len
    BY <1>7
  <2>2. off \in indices(len) <=> off % len = 0
    BY DEF indices
  <2> QED
    BY <1>1, <2>1, <2>2 DEF mem_wmask, Covers
<1>9. CASE Covers(x, a)
  <2>1. mem_wdata(off, len, k + 1)[a] = Byte(k + 1, a - off)
    BY <1>1, <1>7, <1>9 DEF mem_wdata, indices, Covers
  <2>2. k + 1 \in 1 .. Len(t) /\ \A m \in 1 .. Len(t) : m <= k + 1
    BY <1>4
  <2>3. Covers(t[k + 1], a) /\ Byte(k + 1, a - t[k + 1].off) = Byte(k + 1, a - off)
    BY <1>1, <1>5, <1>9, Zenon
  <2>4. Holds(t, a, Byte(k + 1, a - off))
    BY <2>2, <2>3 DEF Holds
  <2> QED
    BY <1>1, <1>2, <1>3, <1>8, <1>9, <2>1, <2>4
<1>10. CASE ~Covers(x, a)
  <2>1. Holds(t, a, b)
    <3>0. \A n \in 1 .. Len(t) : n \in 1 .. k \/ (n = k + 1 /\ t[n] = x)
      BY ONLY <1>4, <1>5
    <3>1. CASE b = Old(a) /\ \A n \in 1 .. Len(st) : ~Covers(st[n], a)
      <4>1. \A n \in 1 .. Len(t) : ~Covers(t[n], a)
        BY <1>2, <1>6, <1>10, <3>0, <3>1
      <4> QED
        BY <3>1, <4>1 DEF Holds
    <3>2. ASSUME NEW n \in 1 .. Len(st), Covers(st[n], a), b = Byte(n, a - st[n].off),
                 \A m \in 1 .. Len(st) : Covers(st[m], a) => m <= n
          PROVE  Holds(t, a, b)
      <4>1. n \in 1 .. Len(t) /\ t[n] = st[n]
        BY <1>2, <1>4, <1>6
      <4>2. \A m \in 1 .. Len(t) : Covers(t[m], a) => m <= n
        BY <1>2, <1>6, <1>10, <3>0, <3>2
      <4> QED
        BY <3>2, <4>1, <4>2 DEF Holds
    <3> QED
      BY <3>1, <3>2 DEF Holds
  <2> QED
    BY <1>1, <1>3, <1>8, <1>10, <2>1, Zenon
<1> QED
  BY <1>9, <1>10

\* What the invariant says of a byte is what the property says of it.
LEMMA HeldIsLast ==
  ASSUME NEW st \in Seq(Accesses), NEW a, NEW b, Holds(st, a, b)
  PROVE  b = LastByte(st, a)
<1>1. DOMAIN st = 1 .. Len(st) /\ Len(st) \in Nat
  BY LenProperties
<1>2. CASE b = Old(a) /\ \A n \in 1 .. Len(st) : ~Covers(st[n], a)
  <2>1. Writers(st, a) = {}
    BY <1>1, <1>2 DEF Writers
  <2> QED
    BY <1>2, <2>1 DEF LastByte
<1>3. ASSUME NEW n \in 1 .. Len(st), Covers(st[n], a), b = Byte(n, a - st[n].off),
             \A m \in 1 .. Len(st) : Covers(st[m], a) => m <= n
      PROVE  b = LastByte(st, a)
  <2>1. PICK W : W = Writers(st, a)
    OBVIOUS
  <2>2. n \in W /\ (\A m \in W : m <= n) /\ W \subseteq Nat
    BY <1>1, <1>3, <2>1 DEF Writers
  <2>3. PICK c : c = CHOOSE i \in W : \A m \in W : m <= i
    OBVIOUS
  <2>4. c \in W /\ \A m \in W : m <= c
    BY <2>2, <2>3, Zenon
  <2>5. c = n
    BY <2>2, <2>4
  <2>6. LastByte(st, a) = Byte(c, a - st[c].off)
    BY <2>1, <2>2, <2>3 DEF LastByte
  <2> QED
    BY <1>3, <2>5, <2>6
<1> QED
  BY <1>2, <1>3 DEF Holds

\* The bytes of an aligned access are bytes of its doubleword.
LEMMA AlignedFits ==
  ASSUME NEW off \in Offsets, NEW len \in Lens, off % len = 0
  PROVE  /\ off \in indices(len) /\ off + len - 1 \in Offsets /\ (len = 8 => off = 0)
         /\ \A i \in Offsets : i < len => off + i \in Offsets
<1>1. off + len <= 8
  <2>1. CASE len = 1
    BY <2>1 DEF Offsets
  <2>2. CASE len = 2
    BY <2>2 DEF Offsets
  <2>3. CASE len = 4
    BY <2>3 DEF Offsets
  <2>4. CASE len = 8
    BY <2>4 DEF Offsets
  <2> QED
    BY <2>1, <2>2, <2>3, <2>4 DEF Lens
<1>2. off \in indices(len)
  BY DEF indices
<1>3. len \in Nat /\ len >= 1
  BY DEF Lens
<1> QED
  BY <1>1, <1>2, <1>3 DEF Offsets

\* An aligned load of a memory that holds what the stores left.
LEMMA LoadRight ==
  ASSUME NEW st, NEW mem, \A a \in Offsets : mem[a] = LastByte(st, a),
         NEW off \in Offsets, NEW len \in Lens, NEW sign \in BOOLEAN, off % len = 0,
         NEW i \in Offsets
  PROVE  memtord_data(mem, off, len, sign)[i] =
           IF i < len THEN LastByte(st, off + i)
           ELSE IF sign THEN SignOf(LastByte(st, off + len - 1)) ELSE Zero
<1>1. /\ off \in indices(len) /\ off + len - 1 \in Offsets /\ (len = 8 => off = 0)
      /\ i < len => off + i \in Offsets
  BY AlignedFits
<1>2. len = 8 => off + i = i /\ i < len
  BY <1>1 DEF Offsets
<1> QED
  BY <1>1, <1>2 DEF memtord_data

\* Before the first store, memory has its first content.
LEMMA LanesInitInv == LanesInit => LanesInv
<1> SUFFICES ASSUME LanesInit PROVE LanesInv
  OBVIOUS
<1>1. ls.mem = [i \in Offsets |-> Old(i)] /\ ls.stores = <<>> /\ ls.load = NoLoad
  BY DEF LanesInit
<1>2. <<>> \in Seq(Accesses) /\ Len(<<>>) = 0
  BY EmptySeq
<1>3. \A a \in Offsets : Holds(<<>>, a, Old(a))
  BY <1>2 DEF Holds
<1>4. ls = [mem |-> ls.mem, stores |-> ls.stores, load |-> ls.load]
  BY <1>1 DEF LanesInit
<1>5. \A a \in Offsets : Holds(ls.stores, a, ls.mem[a])
  BY <1>1, <1>3
<1> QED
  BY <1>1, <1>2, <1>4, <1>5, Zenon DEF LanesInv

\* Every access keeps the invariant.
LEMMA LanesStepInv == LanesInv /\ [LanesNext]_ls => LanesInv'
<1> SUFFICES ASSUME LanesInv, [LanesNext]_ls PROVE LanesInv'
  OBVIOUS
<1>1. CASE UNCHANGED ls
  BY <1>1 DEF LanesInv
<1>2. CASE Store
  <2>1. PICK off \in Offsets, len \in Lens :
          ls' = [ls EXCEPT !.stores = Append(@, [off |-> off, len |-> len]),
                   !.mem = [i \in Offsets |-> IF i \in mem_wmask(off, len)
                                              THEN mem_wdata(off, len, Len(ls.stores) + 1)[i] ELSE @[i]]]
    BY <1>2, Zenon DEF Store
  <2>2. /\ ls'.stores = Append(ls.stores, [off |-> off, len |-> len]) /\ ls'.load = ls.load
        /\ ls'.mem = [i \in Offsets |-> IF i \in mem_wmask(off, len)
                                        THEN mem_wdata(off, len, Len(ls.stores) + 1)[i] ELSE ls.mem[i]]
    BY <2>1 DEF LanesInv
  <2>3. ls'.load = NoLoad
    BY <1>2, <2>2 DEF Store
  <2>4. PICK st, mem : st \in Seq(Accesses) /\ st = ls.stores /\ mem = ls.mem /\ \A a \in Offsets : Holds(st, a, mem[a])
    BY DEF LanesInv
  <2>5. Append(st, [off |-> off, len |-> len]) \in Seq(Accesses)
    <3>1. [off |-> off, len |-> len] \in Accesses
      BY DEF Accesses
    <3>2. PICK x \in Accesses : x = [off |-> off, len |-> len]
      BY <3>1
    <3>3. Append(st, x) \in Seq(Accesses)
      BY <2>4, <3>2, AppendProperties
    <3> QED
      BY <3>2, <3>3
  <2>6. ASSUME NEW a \in Offsets PROVE Holds(ls'.stores, a, ls'.mem[a])
    <3>1. Holds(Append(st, [off |-> off, len |-> len]), a,
                IF a \in mem_wmask(off, len) THEN mem_wdata(off, len, Len(st) + 1)[a] ELSE mem[a])
      BY <2>4, StoreHolds
    <3>2. ls'.mem[a] = IF a \in mem_wmask(off, len) THEN mem_wdata(off, len, Len(st) + 1)[a] ELSE mem[a]
      BY <2>2, <2>4
    <3> QED
      BY <2>2, <2>4, <3>1, <3>2
  <2>7. ls' = [mem |-> ls'.mem, stores |-> ls'.stores, load |-> ls'.load]
    BY <2>1, Zenon DEF LanesInv
  <2>8. ls'.stores \in Seq(Accesses)
    BY <2>2, <2>4, <2>5
  <2> QED
    BY <2>3, <2>6, <2>7, <2>8, ZenonT(30) DEF LanesInv
<1>3. CASE LoadBytes
  <2>1. PICK off \in Offsets, len \in Lens, sign \in BOOLEAN :
          ls' = [ls EXCEPT !.load = [off |-> off, len |-> len, sign |-> sign,
                                     data |-> memtord_data(ls.mem, off, len, sign)]]
    BY <1>3 DEF LoadBytes
  <2>2. /\ ls'.stores = ls.stores /\ ls'.mem = ls.mem
        /\ ls'.load = [off |-> off, len |-> len, sign |-> sign,
                       data |-> memtord_data(ls.mem, off, len, sign)]
    BY <2>1 DEF LanesInv
  <2>3. ls' = [mem |-> ls'.mem, stores |-> ls'.stores, load |-> ls'.load]
    BY <2>1 DEF LanesInv
  <2>4. ls'.stores \in Seq(Accesses) /\ \A a \in Offsets : Holds(ls'.stores, a, ls'.mem[a])
    BY <2>2 DEF LanesInv
  <2> QED
    BY <2>2, <2>3, <2>4, Zenon DEF LanesInv
<1>4. CASE LoadDone
  <2>1. ls'.stores = ls.stores /\ ls'.mem = ls.mem /\ ls'.load = NoLoad
    BY <1>4 DEF LoadDone, LanesInv
  <2>2. ls' = [mem |-> ls'.mem, stores |-> ls'.stores, load |-> ls'.load]
    BY <1>4 DEF LoadDone, LanesInv
  <2>3. ls'.stores \in Seq(Accesses) /\ \A a \in Offsets : Holds(ls'.stores, a, ls'.mem[a])
    BY <2>1 DEF LanesInv
  <2> QED
    BY <2>1, <2>2, <2>3, Zenon DEF LanesInv
<1> QED
  BY <1>1, <1>2, <1>3, <1>4 DEF LanesNext

\* The masks and lanes of rv64im_core_ls.sv, whatever aligned and unaligned
\* stores went before: an aligned load returns the bytes last stored.
THEOREM LoadsSeeStores == LanesSpec => []LastStoreLoaded
<1>1. LanesInv => LastStoreLoaded
  <2> SUFFICES ASSUME LanesInv, ls.load # NoLoad, ls.load.off % ls.load.len = 0, NEW i \in Offsets
               PROVE  ls.load.data[i] =
                        IF i < ls.load.len THEN LastByte(ls.stores, ls.load.off + i)
                        ELSE IF ls.load.sign THEN SignOf(LastByte(ls.stores, ls.load.off + ls.load.len - 1))
                             ELSE Zero
    BY DEF LastStoreLoaded
  <2>1. PICK st, mem : st \in Seq(Accesses) /\ st = ls.stores /\ mem = ls.mem /\ \A a \in Offsets : Holds(st, a, mem[a])
    BY DEF LanesInv
  <2>2. \A a \in Offsets : mem[a] = LastByte(st, a)
    BY <2>1, HeldIsLast
  <2>3. PICK off \in Offsets, len \in Lens, sign \in BOOLEAN :
          ls.load = [off |-> off, len |-> len, sign |-> sign, data |-> memtord_data(mem, off, len, sign)]
    BY <2>1 DEF LanesInv
  <2>4. /\ ls.load.off = off /\ ls.load.len = len /\ ls.load.sign = sign
        /\ ls.load.data = memtord_data(mem, off, len, sign) /\ off % len = 0
    BY <2>3
  <2>5. memtord_data(mem, off, len, sign)[i] =
           IF i < len THEN LastByte(st, off + i)
           ELSE IF sign THEN SignOf(LastByte(st, off + len - 1)) ELSE Zero
    BY <2>2, <2>4, LoadRight
  <2> QED
    BY <2>1, <2>4, <2>5
<1> QED
  BY <1>1, LanesInitInv, LanesStepInv, PTL DEF LanesSpec
=============================================================================
