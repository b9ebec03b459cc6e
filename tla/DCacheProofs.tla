---------------------------- MODULE DCacheProofs ----------------------------
(***************************************************************************)
(* Proofs about DCache for every set of tags, indexes, lanes, byte values  *)
(* and requests: its invariants, and that it implements AtomicMemory.      *)
(***************************************************************************)
EXTENDS DCache, TLAPS

\* The pseudo-LRU tree never points at the way it was updated with: plru_up of
\* the source turns the tree away from that way.
LEMMA PlruTurnsAway ==
  ASSUME NEW p \in SUBSET (0 .. 2), NEW w \in Ways
  PROVE  /\ plru_up(p, w) \in SUBSET (0 .. 2)
         /\ way_vic(plru_up(p, w)) # w
<1>1. CASE w = 0
  BY <1>1 DEF plru_up, way_vic, Ways
<1>2. CASE w = 1
  BY <1>2 DEF plru_up, way_vic, Ways
<1>3. CASE w = 2
  BY <1>3 DEF plru_up, way_vic, Ways
<1>4. CASE w = 3
  BY <1>4 DEF plru_up, way_vic, Ways
<1> QED
  BY <1>1, <1>2, <1>3, <1>4 DEF Ways

\* The tree always points at one of the four ways.
LEMMA VictimIsWay == \A p : way_vic(p) \in Ways
BY DEF way_vic, Ways

\* The two-bit beat counters count up and wrap.
LEMMA CounterStep ==
  /\ \A n \in 0 .. 2 : beat_up(n) = n + 1
  /\ beat_up(3) = 0
  /\ \A n \in 0 .. 3 : beat_up(n) \in 0 .. 3
BY DEF beat_up

\* The first beat, before which there is none.
LEMMA FirstBeat ==
  /\ beat_up(0) = 1
  /\ \A b \in Banks : ~(b < 0)
  /\ \A n \in 0 .. 2 : ~(n < n)
BY DEF beat_up, Banks

\* Two lines with the same words are the same line.
LEMMA EqualLines ==
  ASSUME NEW x \in Line, NEW y \in Line, \A b \in Banks : x[b] = y[b]
  PROVE  x = y
BY DEF Line

\* Merging lanes of two words gives a word.
LEMMA MergeType ==
  ASSUME NEW m, NEW x \in Word, NEW y \in Word
  PROVE  Merge(m, x, y) \in Word
BY DEF Merge, Word

\* After reset every clause of the invariant holds.
LEMMA InitIInv == Init => IInv
<1> SUFFICES ASSUME Init PROVE IInv
  OBVIOUS
<1> USE DEF Init
<1>1. TypeOK
  <2>1. mem \in [Idxs -> [Tags -> Line]] /\ ram \in [Idxs -> [Ways -> Line]]
    BY MemInitsAssumption, RamInitsAssumption
  <2>2. data_of_bus \in Word /\ tag_arry \in [Idxs -> [Ways -> Tags]]
    BY ZeroAssumption DEF Word
  <2>3. /\ vld \in [Idxs -> SUBSET Ways] /\ dry \in [Idxs -> SUBSET Ways]
        /\ plru \in [Idxs -> SUBSET (0 .. 2)]
    OBVIOUS
  <2>4. /\ wcnt \in 0 .. 3 /\ rram_cnt \in 0 .. 3 /\ rcnt \in 0 .. 3
        /\ state \in {"NORM", "WBUS", "RBUS"}
    OBVIOUS
  <2> QED
    BY <2>1, <2>2, <2>3, <2>4, Zenon DEF TypeOK
<1>2. OneHotHit /\ CleanMatchesMemory /\ AnsweredLineNotVictim
  BY DEF OneHotHit, CleanMatchesMemory, AnsweredLineNotVictim
<1>3. IdleInv /\ WbusInv /\ RbusInv /\ MissInv /\ AnswerInv
  BY DEF IdleInv, WbusInv, RbusInv, MissInv, AnswerInv
<1> QED
  BY <1>1, <1>2, <1>3 DEF IInv

\* A cycle without an accepted request keeps the invariant.
LEMMA NoRequestIInv ==
  ASSUME IInv, NEW rsp_rdy \in BOOLEAN, NoRequest(rsp_rdy)
  PROVE  IInv'
<1> USE DEF NoRequest, C1Stage, stall_c1, cacheVars, wbusVars, rbusVars
<1>1. TypeOK'
  BY Zenon DEF IInv, TypeOK
<1>2. OneHotHit' /\ CleanMatchesMemory'
  BY DEF IInv, OneHotHit, CleanMatchesMemory, Refilling
<1>3. AnsweredLineNotVictim'
  BY Zenon DEF IInv, AnsweredLineNotVictim, way_hit
<1>4. IdleInv' /\ WbusInv' /\ RbusInv' /\ MissInv'
  BY DEF IInv, IdleInv, WbusInv, RbusInv, MissInv
<1>5. AnswerInv'
  BY Zenon DEF IInv, AnswerInv, way_hit, o_mem_rdata, TypeOK
<1> QED
  BY <1>1, <1>2, <1>3, <1>4, <1>5 DEF IInv

\* An accepted request that hits keeps the invariant: OneHotHit makes the hit
\* way the only holder of the line, so writing it and turning the PLRU tree
\* away from it cannot disturb any other line.
LEMMA ReqHitIInv ==
  ASSUME IInv, NEW r \in Reqs, NEW w \in Ways, NEW rsp_rdy \in BOOLEAN,
         ReqHit(r, w, rsp_rdy)
  PROVE  IInv'
<1>r. r \in Request /\ r.idx \in Idxs /\ r.tag \in Tags /\ r.bank \in Banks
      /\ r.wen \in BOOLEAN /\ r.wdata \in Word
  BY ReqsAssumption DEF Request
<1>n. r # NoReq
  BY <1>r, NoneAssumption
<1>s. state = "NORM" /\ state' = "NORM" /\ miss' = miss /\ vld_c1' = TRUE
      /\ rbus_done_ff' = FALSE /\ c1_req' = r /\ w \in vld[r.idx] /\ tag_arry[r.idx][w] = r.tag
      /\ tag_arry' = tag_arry /\ vld' = vld /\ mem' = mem
      /\ UNCHANGED <<wbusVars, rbusVars>>
  BY Zenon DEF IInv, AnswerInv, TypeOK, ReqHit, o_mem_req_rdy, stall_c1, C1Stage, way_hit
<1>t. tag_arry \in [Idxs -> [Ways -> Tags]] /\ vld \in [Idxs -> SUBSET Ways]
      /\ dry \in [Idxs -> SUBSET Ways] /\ plru \in [Idxs -> SUBSET (0 .. 2)]
      /\ ram \in [Idxs -> [Ways -> Line]]
  BY DEF IInv, TypeOK
<1>p. /\ plru' = [plru EXCEPT ![r.idx] = plru_up(@, w)]
      /\ dry' \in [Idxs -> SUBSET Ways]
      /\ \A i \in Idxs : dry[i] \subseteq dry'[i]
      /\ r.wen => w \in dry'[r.idx]
  BY <1>r, <1>t, Zenon DEF ReqHit, dry_up
<1>m. /\ ram' \in [Idxs -> [Ways -> Line]]
      /\ \A i \in Idxs, v \in Ways : (i # r.idx \/ v # w \/ ~r.wen) => ram'[i][v] = ram[i][v]
  <2>1. Merge(r.wmask, r.wdata, ram[r.idx][w][r.bank]) \in Word
    BY <1>r, <1>t, MergeType DEF Line
  <2> QED
    BY <2>1, <1>r, <1>t DEF ReqHit, Line
<1>1. TypeOK'
  <2>1. plru' \in [Idxs -> SUBSET (0 .. 2)]
    BY <1>p, <1>t, <1>r, PlruTurnsAway, Zenon
  <2>2. ram_rdata' \in Word
    BY <1>r, <1>t DEF ReqHit, Line
  <2> QED
    BY <2>1, <2>2, <1>r, <1>s, <1>p, <1>m, Zenon DEF IInv, TypeOK, wbusVars, rbusVars
<1>2. OneHotHit'
  BY <1>s DEF IInv, OneHotHit
<1>3. CleanMatchesMemory'
  BY <1>s, <1>p, <1>m, <1>t, <1>r DEF IInv, CleanMatchesMemory, Refilling
<1>4. AnsweredLineNotVictim'
  <2>1. way_hit(r.idx, r.tag)' = {w}
    BY <1>r, <1>s, <1>t DEF IInv, OneHotHit, way_hit
  <2>2. way_vic(plru'[r.idx]) # w
    BY <1>p, <1>t, <1>r, PlruTurnsAway, Zenon
  <2> QED
    BY <2>1, <2>2, <1>s, <1>r DEF AnsweredLineNotVictim, way_hit
<1>5. IdleInv' /\ WbusInv' /\ RbusInv' /\ MissInv'
  BY <1>s, Zenon DEF IInv, IdleInv, WbusInv, RbusInv, MissInv, wbusVars, rbusVars
<1>6. AnswerInv'
  <2>1. ~r.wen => o_mem_rdata' = ram'[r.idx][w][r.bank]
    BY <1>s, <1>m, <1>r DEF ReqHit, o_mem_rdata
  <2>2. w \in way_hit(r.idx, r.tag)'
    BY <1>s DEF way_hit
  <2> QED
    BY <2>1, <2>2, <1>s, <1>n DEF AnswerInv, way_hit
<1> QED
  BY <1>1, <1>2, <1>3, <1>4, <1>5, <1>6 DEF IInv

\* An accepted request that misses keeps the invariant: the response stage is
\* empty afterwards, and the victim is dirty exactly when a write-back starts.
LEMMA ReqMissIInv ==
  ASSUME IInv, NEW r \in Reqs, NEW rsp_rdy \in BOOLEAN, ReqMiss(r, rsp_rdy)
  PROVE  IInv'
<1>r. r \in Request /\ r.idx \in Idxs /\ r.tag \in Tags
  BY ReqsAssumption, Zenon DEF Request
<1> DEFINE v == way_vic(plru[r.idx])
<1>d. ~stall_c1(rsp_rdy) /\ state = "NORM" /\ (rbus_done_ff => vld_c1) /\ rbus_done_ff \in BOOLEAN
  BY DEF IInv, AnswerInv, TypeOK, ReqMiss, o_mem_req_rdy
<1>e. vld_c1' = FALSE /\ rbus_done_ff' = FALSE /\ c1_req' = NoReq
  BY <1>d, Zenon DEF ReqMiss, stall_c1, C1Stage
<1>s. state = "NORM" /\ state' \in {"WBUS", "RBUS"} /\ (state' = "WBUS" <=> vic_dry(r.idx))
      /\ (wbus_en_ff' <=> vic_dry(r.idx)) /\ (rbus_vld' <=> ~vic_dry(r.idx))
      /\ way_hit(r.idx, r.tag) = {}
      /\ UNCHANGED <<cacheVars, wcnt, rram_cnt, wbus_vld, rcnt, data_of_bus, mem>>
  BY <1>d, Zenon DEF ReqMiss
<1>v. v \in Ways /\ tag_arry[r.idx][v] \in Tags
  <2>1. v \in Ways
    BY VictimIsWay, Zenon
  <2>2. tag_arry \in [Idxs -> [Ways -> Tags]]
    BY Zenon DEF IInv, TypeOK
  <2> QED
    BY <2>1, <2>2, <1>r, Zenon
<1>m. miss' = [req |-> r, way |-> v, vic_tag |-> tag_arry[r.idx][v]]
      /\ miss' \in Miss /\ miss' # NoMiss
      /\ miss'.req = r /\ miss'.way = v /\ miss'.vic_tag = tag_arry[r.idx][v]
  BY <1>r, <1>v, NoneAssumption DEF ReqMiss, Miss
<1>b. wbus_en_ff' \in BOOLEAN /\ rbus_vld' \in BOOLEAN
  BY DEF ReqMiss, vic_dry
<1>c. wcnt' = 0 /\ rram_cnt' = 0 /\ rcnt' = 0 /\ ~wbus_vld'
  BY <1>s DEF IInv, IdleInv
<1>1. TypeOK'
  BY <1>s, <1>e, <1>m, <1>b, Zenon DEF IInv, TypeOK, cacheVars
<1>2. OneHotHit'
  BY <1>s DEF IInv, OneHotHit, cacheVars
<1>3. CleanMatchesMemory'
  BY <1>s DEF IInv, CleanMatchesMemory, Refilling, cacheVars
<1>4. AnsweredLineNotVictim' /\ AnswerInv'
  BY <1>e DEF AnsweredLineNotVictim, AnswerInv
<1>5. IdleInv'
  BY <1>s, SMTT(20) DEF IdleInv
<1>6. WbusInv'
  <2>1. vic_dry(r.idx) => v \in vld[r.idx]
    BY DEF vic_dry
  <2>2. \A b \in Banks : ~(b < 0)
    BY FirstBeat, Zenon
  <2> QED
    BY <2>1, <2>2, <1>s, <1>m, <1>c, Zenon DEF WbusInv, cacheVars
<1>7. RbusInv'
  <2>1. \A b \in Banks : ~(b < 0)
    BY FirstBeat, Zenon
  <2>2. r.bank \in Banks
    BY <1>r, Zenon DEF Request
  <2> QED
    BY <2>1, <2>2, <1>s, <1>m, <1>c DEF RbusInv
<1>8. MissInv'
  BY <1>s, <1>e, <1>m DEF MissInv, way_hit, cacheVars
<1> QED
  BY <1>1, <1>2, <1>3, <1>4, <1>5, <1>6, <1>7, <1>8 DEF IInv

\* What the miss registers hold while a write-back or refill runs.
LEMMA MissFields ==
  ASSUME IInv, state # "NORM"
  PROVE  /\ miss \in Miss /\ miss.req \in Reqs /\ miss.req \in Request
         /\ miss.way \in Ways /\ miss.vic_tag \in Tags
         /\ miss.req.idx \in Idxs /\ miss.req.tag \in Tags
         /\ miss.req.bank \in Banks /\ miss.req.wen \in BOOLEAN
         /\ miss.req.wdata \in Word
         /\ ~vld_c1 /\ ~rbus_done_ff /\ c1_req = NoReq
         /\ way_hit(miss.req.idx, miss.req.tag) = {}
<1>1. miss \in Miss /\ miss.req \in Reqs /\ ~vld_c1 /\ ~rbus_done_ff
      /\ way_hit(miss.req.idx, miss.req.tag) = {}
  BY DEF IInv, TypeOK, MissInv
<1>2. c1_req = NoReq
  BY <1>1 DEF IInv, AnswerInv
<1> QED
  BY <1>1, <1>2 DEF Miss, Request

\* While a miss runs the response stage stays empty unless the refill ends.
LEMMA C1StageIdle ==
  ASSUME ~vld_c1, ~rbus_done_ff, c1_req = NoReq, NEW rsp_rdy \in BOOLEAN,
         C1Stage(rsp_rdy, FALSE, FALSE, NoReq)
  PROVE  vld_c1' = FALSE /\ rbus_done_ff' = FALSE /\ c1_req' = NoReq
BY Zenon DEF C1Stage, stall_c1

\* Reading bank 0 of the victim keeps the invariant.
LEMMA WbusFetchIInv ==
  ASSUME IInv, NEW rsp_rdy \in BOOLEAN, WbusFetch(rsp_rdy)
  PROVE  IInv'
<1>s. state = "WBUS" /\ wbus_en_ff /\ wcnt = 0 /\ rram_cnt = 0 /\ state' = state
      /\ rram_cnt' = 1 /\ wcnt' = 0 /\ wbus_en_ff' = FALSE /\ wbus_vld' = TRUE
      /\ UNCHANGED <<tag_arry, vld, dry, plru, ram, miss, rbusVars, mem>>
      /\ ram_rdata' = ram[miss.req.idx][miss.way][0]
  BY FirstBeat, Zenon DEF WbusFetch, IInv, WbusInv
<1>f. /\ miss \in Miss /\ miss.req \in Reqs /\ miss.way \in Ways /\ miss.req.idx \in Idxs
      /\ way_hit(miss.req.idx, miss.req.tag) = {}
  BY <1>s, MissFields
<1>c. vld_c1' = FALSE /\ rbus_done_ff' = FALSE /\ c1_req' = NoReq
  BY <1>s, MissFields, C1StageIdle, Zenon DEF WbusFetch
<1>1. TypeOK'
  <2>1. ram_rdata' \in Word
    BY <1>s, <1>f, SMTT(30) DEF IInv, TypeOK, Line, Banks
  <2>2. wcnt' \in 0 .. 3 /\ rram_cnt' \in 0 .. 3
    BY <1>s
  <2> QED
    BY <2>1, <2>2, <1>s, <1>c, Zenon DEF IInv, TypeOK, rbusVars
<1>2. OneHotHit' /\ CleanMatchesMemory'
  BY <1>s DEF IInv, OneHotHit, CleanMatchesMemory, Refilling
<1>3. AnsweredLineNotVictim' /\ AnswerInv' /\ IdleInv' /\ RbusInv'
  BY <1>s, <1>c, Zenon DEF AnsweredLineNotVictim, AnswerInv, IdleInv, RbusInv
<1>4. WbusInv'
  <2>1. \A b \in Banks : ~(b < 0)
    BY FirstBeat, Zenon
  <2> QED
    BY <2>1, <1>s, FirstBeat, Zenon DEF IInv, WbusInv, rbusVars
<1>5. MissInv'
  BY <1>s, <1>f, <1>c, Zenon DEF IInv, MissInv, way_hit
<1> QED
  BY <1>1, <1>2, <1>3, <1>4, <1>5, Zenon DEF IInv

\* A write-back beat keeps the invariant: it copies the word the RAM output
\* holds to the victim's place in memory, and after the last one the whole
\* victim line is there, so the refill may overwrite the way.
LEMMA WbusBeatIInv ==
  ASSUME IInv, NEW rsp_rdy \in BOOLEAN, WbusBeat(rsp_rdy)
  PROVE  IInv'
<1> DEFINE i == miss.req.idx
           w == miss.way
           t == miss.vic_tag
<1>s. /\ state = "WBUS" /\ wbus_vld /\ ~wbus_en_ff /\ ~rbus_vld /\ rcnt = 0
      /\ wcnt \in 0 .. 3 /\ rram_cnt = beat_up(wcnt)
      /\ w \in vld[i] /\ t = tag_arry[i][w] /\ ram_rdata = ram[i][w][wcnt]
      /\ \A b \in Banks : b < wcnt => mem[i][t][b] = ram[i][w][b]
  BY Zenon DEF IInv, WbusInv, TypeOK, WbusBeat
<1>w. wcnt \in Banks /\ (wcnt = 3 \/ wcnt \in 0 .. 2)
  BY DEF IInv, TypeOK, Banks
<1>u. /\ mem' = [mem EXCEPT ![i][t][wcnt] = ram_rdata]
      /\ UNCHANGED <<tag_arry, vld, dry, plru, ram, miss, wbus_en_ff, rcnt, data_of_bus>>
  BY Zenon DEF WbusBeat
<1>f. /\ miss \in Miss /\ miss # NoMiss /\ miss.req \in Reqs /\ w \in Ways /\ i \in Idxs /\ t \in Tags
      /\ miss.req.tag \in Tags /\ miss.req.bank \in Banks /\ way_hit(i, miss.req.tag) = {}
  BY <1>s, MissFields, NoneAssumption, Zenon
<1>c. vld_c1' = FALSE /\ rbus_done_ff' = FALSE /\ c1_req' = NoReq
  BY <1>s, MissFields, C1StageIdle, Zenon DEF WbusBeat
<1>t. /\ mem \in [Idxs -> [Tags -> Line]] /\ ram \in [Idxs -> [Ways -> Line]]
      /\ ram_rdata \in Word
  BY DEF IInv, TypeOK
<1>m. /\ mem' \in [Idxs -> [Tags -> Line]]
      /\ \A j \in Idxs, u \in Tags : (j # i \/ u # t) => mem'[j][u] = mem[j][u]
      /\ \A b \in Banks : mem'[i][t][b] = IF b = wcnt THEN ram_rdata ELSE mem[i][t][b]
  <2> DEFINE l == [mem[i][t] EXCEPT ![wcnt] = ram_rdata]
             m == [mem[i] EXCEPT ![t] = l]
  <2>1. mem' = [mem EXCEPT ![i] = m]
    BY <1>u, Zenon
  <2>2. l \in Line /\ \A b \in Banks : l[b] = IF b = wcnt THEN ram_rdata ELSE mem[i][t][b]
    <3>1. mem[i][t] \in Line
      BY <1>t, <1>f, ZenonT(30)
    <3> QED
      BY ONLY <3>1, <1>t, <1>w DEF Line
  <2>3. m \in [Tags -> Line] /\ m[t] = l /\ \A u \in Tags : u # t => m[u] = mem[i][u]
    BY <1>t, <1>f, <2>2
  <2> HIDE DEF l, m
  <2>4. mem' \in [Idxs -> [Tags -> Line]] /\ mem'[i] = m /\ \A j \in Idxs : j # i => mem'[j] = mem[j]
    BY <2>1, <2>3, <1>t, <1>f
  <2> QED
    BY <2>2, <2>3, <2>4
<1>n. \/ /\ wcnt \in 0 .. 2 /\ wcnt' = wcnt + 1 /\ state' = "WBUS" /\ wbus_vld' /\ ~rbus_vld'
         /\ ram_rdata' = ram[i][w][wcnt'] /\ rram_cnt' = beat_up(wcnt')
         /\ wbus_vld' = TRUE /\ rbus_vld' = rbus_vld
      \/ /\ wcnt = 3 /\ wcnt' = 0 /\ state' = "RBUS" /\ wbus_vld' = FALSE /\ rbus_vld' = TRUE
         /\ rram_cnt' = 0 /\ ram_rdata' = ram_rdata
  <2>1. CASE wcnt = 3
    BY <2>1, <1>s, CounterStep, Zenon DEF WbusBeat, wbus_done
  <2>2. CASE wcnt \in 0 .. 2
    <3>0. wcnt # 3 /\ beat_up(wcnt) = wcnt + 1
      BY <2>2, CounterStep
    <3>1. wcnt # 3 /\ rram_cnt = wcnt + 1 /\ wcnt' = wcnt + 1
      BY <3>0, <1>s, Zenon DEF WbusBeat
    <3>2. wbus_vld' = wbus_vld /\ rbus_vld' = rbus_vld /\ state' = state
          /\ rram_cnt' = beat_up(rram_cnt) /\ ram_rdata' = ram[i][w][rram_cnt]
      BY <3>1, Zenon DEF WbusBeat, wbus_done
    <3>3. wbus_vld = TRUE
      BY <1>s, Zenon DEF IInv, TypeOK
    <3> QED
      BY <3>1, <3>2, <3>3, <2>2, <1>s, Zenon
  <2> QED
    BY <2>1, <2>2, <1>w, Zenon
<1>1. TypeOK'
  <2>1. wcnt' \in 0 .. 3 /\ rram_cnt' \in 0 .. 3
    BY <1>n, CounterStep
  <2>2. ram_rdata' \in Word
    BY <1>n, <1>t, <1>f DEF Line, Banks
  <2>3. wbus_vld' \in BOOLEAN /\ rbus_vld' \in BOOLEAN /\ state' \in {"NORM", "WBUS", "RBUS"}
    BY <1>n, Zenon DEF IInv, TypeOK
  <2> QED
    BY <2>1, <2>2, <2>3, <1>u, <1>c, <1>m, Zenon DEF IInv, TypeOK
<1>2. OneHotHit'
  BY <1>u DEF IInv, OneHotHit
<1>3. CleanMatchesMemory'
  <2> SUFFICES ASSUME NEW j \in Idxs, NEW v \in vld'[j] \ dry'[j], ~Refilling(j, v)'
               PROVE  ram'[j][v] = mem'[j][tag_arry'[j][v]]
    BY Zenon DEF CleanMatchesMemory
  <2> SUFFICES ram[j][v] = mem'[j][tag_arry[j][v]]
    BY <1>u, Zenon
  <2>v. v \in vld[j] \ dry[j]
    BY <1>u, Zenon
  <2>0. v \in Ways /\ tag_arry[j][v] \in Tags
    <3>1. vld[j] \subseteq Ways /\ tag_arry[j] \in [Ways -> Tags]
      BY Zenon DEF IInv, TypeOK
    <3> QED
      BY <3>1, <2>v, Zenon
  <2>1. ram[j][v] = mem[j][tag_arry[j][v]]
    BY <2>v, <1>s, Zenon DEF IInv, CleanMatchesMemory, Refilling
  <2>2. CASE j # i \/ tag_arry[j][v] # t
    BY <2>0, <2>1, <2>2, <1>m, Zenon
  <2>3. CASE j = i /\ tag_arry[j][v] = t
    <3>0. v \in vld[i] /\ w \in vld[i] /\ tag_arry[i][v] = tag_arry[i][w]
      BY <2>3, <2>v, <1>s, <1>f, Zenon
    <3>o. OneHotHit
      BY Zenon DEF IInv
    <3>1. v = w
      BY <3>0, <3>o, <1>f, Zenon DEF OneHotHit
    <3>a. mem[i][t] \in Line /\ mem'[i][t] \in Line
      BY <1>m, <1>t, <1>f
    <3>b. ram_rdata = mem[i][t][wcnt]
      BY <3>1, <2>1, <2>3, <1>s, Zenon
    <3>c. \A b \in Banks : mem'[i][t][b] = mem[i][t][b]
      BY <3>b, <1>m, Zenon
    <3>3. mem'[i][t] = mem[i][t]
      BY <3>a, <3>c, EqualLines, Zenon
    <3> QED
      BY <3>3, <2>1, <2>3, SMTT(30)
  <2> QED
    BY <2>2, <2>3, Zenon
<1>4. AnsweredLineNotVictim' /\ AnswerInv' /\ IdleInv'
  BY <1>n, <1>c DEF AnsweredLineNotVictim, AnswerInv, IdleInv
<1>5. WbusInv'
  <2> SUFFICES ASSUME state' = "WBUS" PROVE WbusInv'
    BY Zenon DEF WbusInv
  <2>1. wcnt \in 0 .. 2 /\ wcnt' = wcnt + 1
    BY <1>n
  <2>2. \A b \in Banks : b < wcnt' => b = wcnt \/ b < wcnt
    BY <2>1 DEF Banks
  <2>3. \A b \in Banks : b < wcnt' => mem'[i][t][b] = ram[i][w][b]
    BY <2>2, <1>m, <1>s, Zenon
  <2> QED
    BY <2>3, <1>n, <1>s, <1>u, Zenon DEF WbusInv
<1>6. RbusInv'
  <2>1. \A b \in Banks : ~(b < 0)
    BY FirstBeat, Zenon
  <2> QED
    BY <2>1, <1>n, <1>s, <1>u, <1>f, Zenon DEF RbusInv
<1>7. MissInv'
  BY <1>n, <1>f, <1>c, <1>u, Zenon DEF MissInv, way_hit
<1> QED
  BY <1>1, <1>2, <1>3, <1>4, <1>5, <1>6, <1>7, SMTT(30) DEF IInv

\* What a refill beat does to the RAM and to data_of_bus: only bank rcnt of the
\* victim way changes, and it receives the refilled word.
LEMMA RefillEffect ==
  ASSUME IInv, RefillBeat
  PROVE  LET i == miss.req.idx
             w == miss.way
         IN /\ ram' \in [Idxs -> [Ways -> Line]]
            /\ \A j \in Idxs, v \in Ways : (j # i \/ v # w) => ram'[j][v] = ram[j][v]
            /\ \A b \in Banks : ram'[i][w][b] = IF b = rcnt THEN Refilled(rcnt) ELSE ram[i][w][b]
            /\ ram_rdata' \in Word /\ data_of_bus' \in Word
<1> DEFINE i == miss.req.idx
           w == miss.way
           q == miss.req
<1>s. state = "RBUS" /\ rcnt \in Banks
  BY DEF RefillBeat, IInv, TypeOK, Banks
<1>f. i \in Idxs /\ w \in Ways /\ q.tag \in Tags /\ q.wdata \in Word
  BY <1>s, MissFields
<1>t. mem \in [Idxs -> [Tags -> Line]] /\ ram \in [Idxs -> [Ways -> Line]] /\ data_of_bus \in Word
  BY DEF IInv, TypeOK
<1>d. mem[i][q.tag][rcnt] \in Word /\ ram[i][w][rcnt] \in Word
  <2>1. mem[i][q.tag] \in Line /\ ram[i][w] \in Line
    BY <1>f, <1>t, Zenon
  <2> QED
    BY <2>1, <1>s, Zenon DEF Line
<1>x. rbus_data = Refilled(rcnt) /\ rbus_data \in Word
  BY <1>d, <1>f, MergeType, Zenon DEF rbus_data, Refilled
<1> DEFINE l == [ram[i][w] EXCEPT ![rcnt] = rbus_data]
           m == [ram[i] EXCEPT ![w] = l]
<1>1. ram' = [ram EXCEPT ![i] = m]
  BY Zenon DEF RefillBeat
<1>2. l \in Line /\ \A b \in Banks : l[b] = IF b = rcnt THEN rbus_data ELSE ram[i][w][b]
  <2>1. ram[i][w] \in Line
    BY <1>t, <1>f, Zenon
  <2> QED
    BY ONLY <2>1, <1>s, <1>x DEF Line
<1>3. m \in [Ways -> Line] /\ m[w] = l /\ \A u \in Ways : u # w => m[u] = ram[i][u]
  BY <1>t, <1>f, <1>2, Zenon
<1>6. ram_rdata' \in Word /\ data_of_bus' \in Word
  BY <1>d, <1>t, Zenon DEF RefillBeat
<1> HIDE DEF l, m
<1>4. ram' \in [Idxs -> [Ways -> Line]] /\ ram'[i] = m /\ \A j \in Idxs : j # i => ram'[j] = ram[j]
  BY <1>1, <1>3, <1>t, <1>f
<1> QED
  BY <1>2, <1>3, <1>4, <1>6, <1>x, ZenonT(30)

\* A refill beat before the last keeps the invariant.
LEMMA RbusBeatIInv ==
  ASSUME IInv, NEW rsp_rdy \in BOOLEAN, RbusBeat(rsp_rdy)
  PROVE  IInv'
<1> DEFINE q == miss.req
           i == miss.req.idx
           w == miss.way
<1>u. /\ UNCHANGED <<state, tag_arry, vld, dry, plru, miss, wbusVars, rbus_vld, mem>>
      /\ RefillBeat /\ rcnt # 3
  BY Zenon DEF RbusBeat
<1>s. state = "RBUS" /\ rbus_vld /\ rcnt \in 0 .. 2 /\ rcnt' = rcnt + 1
  <2>1. rcnt \in 0 .. 3
    BY DEF IInv, TypeOK
  <2> QED
    BY <2>1, <1>u, CounterStep DEF RefillBeat
<1>f. /\ miss.req \in Reqs /\ w \in Ways /\ i \in Idxs /\ q.bank \in Banks
      /\ way_hit(i, q.tag) = {}
  BY <1>s, MissFields
<1>c. vld_c1' = FALSE /\ rbus_done_ff' = FALSE /\ c1_req' = NoReq
  BY <1>s, MissFields, C1StageIdle, Zenon DEF RbusBeat
<1>e. /\ ram' \in [Idxs -> [Ways -> Line]]
      /\ \A j \in Idxs, v \in Ways : (j # i \/ v # w) => ram'[j][v] = ram[j][v]
      /\ \A b \in Banks : ram'[i][w][b] = IF b = rcnt THEN Refilled(rcnt) ELSE ram[i][w][b]
      /\ ram_rdata' \in Word /\ data_of_bus' \in Word
  BY <1>u, RefillEffect
<1>1. TypeOK'
  <2>1. rcnt' \in 0 .. 3
    BY <1>s
  <2> QED
    BY <2>1, <1>u, <1>e, <1>c, Zenon DEF IInv, TypeOK, wbusVars
<1>2. OneHotHit'
  BY <1>u, ZenonT(30) DEF IInv, OneHotHit
<1>3. CleanMatchesMemory'
  <2> SUFFICES ASSUME NEW j \in Idxs, NEW v \in vld[j] \ dry[j], ~Refilling(j, v)'
               PROVE  ram'[j][v] = mem[j][tag_arry[j][v]]
    BY <1>u DEF CleanMatchesMemory
  <2>1. v \in Ways
    BY DEF IInv, TypeOK
  <2>2. ~Refilling(j, v) /\ (j # i \/ v # w)
    BY <1>u, <1>s, Zenon DEF Refilling
  <2> QED
    BY <2>1, <2>2, <1>e DEF IInv, CleanMatchesMemory
<1>4. AnsweredLineNotVictim' /\ AnswerInv' /\ IdleInv' /\ WbusInv'
  BY <1>s, <1>u, <1>c, Zenon DEF AnsweredLineNotVictim, AnswerInv, IdleInv, WbusInv
<1>5. RbusInv'
  <2>1. \A b \in Banks : b < rcnt' => b = rcnt \/ b < rcnt
    BY <1>s DEF Banks
  <2>2. \A b \in Banks : Refilled(b)' = Refilled(b)
    BY <1>u, Zenon DEF Refilled
  <2>3. \A b \in Banks : b < rcnt' => ram'[i][w][b] = Refilled(b)'
    <3>1. \A b \in Banks : b < rcnt => ram[i][w][b] = Refilled(b)
      BY <1>s, Zenon DEF IInv, RbusInv
    <3> QED
      BY <3>1, <2>1, <2>2, <1>e, Zenon
  <2>4. ~q.wen /\ q.bank < rcnt' => data_of_bus' = mem[i][q.tag][q.bank]
    <3> SUFFICES ASSUME ~q.wen, q.bank < rcnt'
                 PROVE  data_of_bus' = mem[i][q.tag][q.bank]
      BY Zenon
    <3>1. CASE q.bank = rcnt
      BY <3>1, <1>u, Zenon DEF RefillBeat
    <3>2. CASE q.bank < rcnt
      <4>1. q.bank # rcnt
        BY <3>2, <1>s, FirstBeat, Zenon
      <4> QED
        BY <4>1, <3>2, <1>u, <1>s, Zenon DEF RefillBeat, IInv, RbusInv
    <3> QED
      BY <3>1, <3>2, <2>1, <1>f, Zenon
  <2> QED
    BY <2>3, <2>4, <1>u, <1>s, Zenon DEF RbusInv, IInv, wbusVars
<1>6. MissInv'
  BY <1>u, <1>s, <1>f, <1>c DEF IInv, MissInv, way_hit
<1> QED
  BY <1>1, <1>2, <1>3, <1>4, <1>5, <1>6 DEF IInv

\* The last refill beat keeps the invariant: the tag it installs was in no way
\* of the set, and the line it completes equals memory unless a store dirtied it.
LEMMA RbusDoneIInv ==
  ASSUME IInv, NEW rsp_rdy \in BOOLEAN, RbusDone(rsp_rdy)
  PROVE  IInv'
<1> DEFINE q == miss.req
           i == miss.req.idx
           w == miss.way
<1>s. state = "RBUS" /\ rcnt = 3 /\ RefillBeat /\ state' = "NORM" /\ miss' = NoMiss
      /\ rbus_vld' = FALSE /\ mem' = mem /\ UNCHANGED wbusVars
  BY SMTT(30) DEF RbusDone, RefillBeat
<1>f. /\ q \in Reqs /\ q \in Request /\ w \in Ways /\ i \in Idxs /\ q.tag \in Tags /\ q.bank \in Banks
      /\ q.wen \in BOOLEAN /\ q # NoReq /\ way_hit(i, q.tag) = {}
  BY <1>s, MissFields, NoneAssumption
<1>c. vld_c1' = TRUE /\ rbus_done_ff' = TRUE /\ c1_req' = q
  BY <1>s, MissFields, Zenon DEF RbusDone, C1Stage, stall_c1
<1>e. /\ ram' \in [Idxs -> [Ways -> Line]]
      /\ \A j \in Idxs, v \in Ways : (j # i \/ v # w) => ram'[j][v] = ram[j][v]
      /\ \A b \in Banks : ram'[i][w][b] = IF b = rcnt THEN Refilled(rcnt) ELSE ram[i][w][b]
      /\ ram_rdata' \in Word /\ data_of_bus' \in Word
  BY <1>s, RefillEffect, Zenon
<1>r. \A b \in Banks : ram'[i][w][b] = Refilled(b)
  <2>1. \A b \in Banks : b = rcnt \/ b < rcnt
    BY <1>s DEF Banks
  <2> QED
    BY <2>1, <1>e, <1>s, Zenon DEF IInv, RbusInv
<1>t. tag_arry \in [Idxs -> [Ways -> Tags]] /\ vld \in [Idxs -> SUBSET Ways]
      /\ dry \in [Idxs -> SUBSET Ways] /\ plru \in [Idxs -> SUBSET (0 .. 2)]
      /\ mem \in [Idxs -> [Tags -> Line]]
  BY Zenon DEF IInv, TypeOK
<1>g. /\ tag_arry' \in [Idxs -> [Ways -> Tags]] /\ tag_arry'[i][w] = q.tag
      /\ \A j \in Idxs, v \in Ways : (j # i \/ v # w) => tag_arry'[j][v] = tag_arry[j][v]
  BY <1>t, <1>f, Zenon DEF RbusDone
<1>v. /\ vld' \in [Idxs -> SUBSET Ways] /\ vld'[i] = vld[i] \cup {w}
      /\ \A j \in Idxs : j # i => vld'[j] = vld[j]
  BY <1>t, <1>f, ZenonT(30) DEF RbusDone
<1>y. /\ dry' \in [Idxs -> SUBSET Ways]
      /\ \A j \in Idxs : dry[j] \subseteq dry'[j]
      /\ q.wen => w \in dry'[i]
  BY <1>t, <1>f DEF RbusDone, dry_up
<1>p. plru' \in [Idxs -> SUBSET (0 .. 2)] /\ way_vic(plru'[i]) # w
  <2>1. plru' = [plru EXCEPT ![i] = plru_up(plru[i], w)] /\ plru[i] \in SUBSET (0 .. 2)
    BY <1>t, <1>f, Zenon DEF RbusDone
  <2> QED
    BY <2>1, <1>t, <1>f, PlruTurnsAway, Zenon
<1>h. {x \in vld'[i] : tag_arry'[i][x] = q.tag} = {w}
  <2>1. ASSUME NEW x \in vld'[i], tag_arry'[i][x] = q.tag, x # w
        PROVE  FALSE
    <3>1. x \in vld[i] /\ x \in Ways
      BY <2>1, <1>v, <1>t, <1>f, Zenon
    <3>2. x \in way_hit(i, q.tag)
      BY <3>1, <2>1, <1>g, <1>f, Zenon DEF way_hit
    <3> QED
      BY <3>2, <1>f, Zenon
  <2>2. w \in vld'[i]
    BY <1>v, Zenon
  <2> QED
    BY <2>1, <2>2, <1>g, Zenon
<1>n. rcnt' = 0
  BY <1>s, CounterStep DEF RefillBeat
<1>1. TypeOK'
  <2>1. /\ state' \in {"NORM", "WBUS", "RBUS"} /\ miss' \in Miss \cup {NoMiss}
        /\ wcnt' \in 0 .. 3 /\ rram_cnt' \in 0 .. 3 /\ rcnt' \in 0 .. 3
        /\ mem' \in [Idxs -> [Tags -> Line]]
    BY <1>s, <1>n DEF IInv, TypeOK, wbusVars
  <2>2. /\ wbus_en_ff' \in BOOLEAN /\ wbus_vld' \in BOOLEAN /\ rbus_vld' \in BOOLEAN
        /\ vld_c1' \in BOOLEAN /\ rbus_done_ff' \in BOOLEAN
        /\ c1_req' \in Request \cup {NoReq}
    BY <1>s, <1>c, <1>f, Zenon DEF IInv, TypeOK, wbusVars
  <2> QED
    BY <2>1, <2>2, <1>e, <1>g, <1>v, <1>y, <1>p, Zenon DEF TypeOK
<1>2. OneHotHit'
  <2> SUFFICES ASSUME NEW j \in Idxs, NEW x \in vld'[j], NEW y \in vld'[j],
                      tag_arry'[j][x] = tag_arry'[j][y]
               PROVE  x = y
    BY DEF OneHotHit
  <2>1. x \in Ways /\ y \in Ways
    BY <1>v, SMTT(30)
  <2>2. CASE j # i
    <3>1. x \in vld[j] /\ y \in vld[j]
      BY <2>2, <1>v, Zenon
    <3>2. tag_arry[j][x] = tag_arry[j][y]
      BY <2>1, <2>2, <1>g, Zenon
    <3> QED
      BY <3>1, <3>2, Zenon DEF IInv, OneHotHit
  <2>3. CASE j = i /\ x # w /\ y # w
    <3>1. x \in vld[i] /\ y \in vld[i]
      BY <2>3, <1>v, Zenon
    <3>2. tag_arry[i][x] = tag_arry[i][y]
      BY <2>1, <2>3, <1>f, <1>g, Zenon
    <3> QED
      BY <3>1, <3>2, <1>f, Zenon DEF IInv, OneHotHit
  <2>4. CASE j = i /\ (x = w \/ y = w)
    <3>1. tag_arry'[i][x] = q.tag /\ tag_arry'[i][y] = q.tag
      BY <2>4, <1>g, Zenon
    <3>2. x \in {w} /\ y \in {w}
      BY <3>1, <2>4, <1>h, Zenon
    <3> QED
      BY <3>2, Zenon
  <2> QED
    BY <2>2, <2>3, <2>4
<1>3. CleanMatchesMemory'
  <2> SUFFICES ASSUME NEW j \in Idxs, NEW v \in vld'[j] \ dry'[j]
               PROVE  ram'[j][v] = mem[j][tag_arry'[j][v]]
    BY <1>s DEF CleanMatchesMemory
  <2>1. v \in Ways
    BY <1>v, Zenon
  <2>2. CASE j # i \/ v # w
    <3>1. v \in vld[j] \ dry[j] /\ ~Refilling(j, v)
      BY <2>2, <1>v, <1>y, Zenon DEF Refilling
    <3> QED
      <4>1. ram[j][v] = mem[j][tag_arry[j][v]]
        BY <3>1, Zenon DEF IInv, CleanMatchesMemory
      <4> QED
        BY <4>1, <2>1, <2>2, <1>e, <1>g, Zenon
  <2>3. CASE j = i /\ v = w
    <3>1. ~q.wen
      BY <2>3, <1>y, Zenon
    <3>2. \A b \in Banks : ram'[i][w][b] = mem[i][q.tag][b]
      BY <3>1, <1>r, Zenon DEF Refilled
    <3>3. ram'[i][w] \in Line /\ mem[i][q.tag] \in Line
      BY <1>e, <1>t, <1>f, ZenonT(30)
    <3>4. ram'[i][w] = mem[i][q.tag]
      BY <3>2, <3>3, EqualLines, Zenon
    <3> QED
      BY <3>4, <2>3, <1>g
  <2> QED
    BY <2>2, <2>3
<1>4. AnsweredLineNotVictim'
  BY <1>c, <1>h, <1>p DEF AnsweredLineNotVictim, way_hit
<1>5. IdleInv' /\ WbusInv' /\ RbusInv' /\ MissInv'
  BY <1>s, <1>n, ZenonT(30) DEF IInv, IdleInv, WbusInv, RbusInv, MissInv, wbusVars
<1>6. AnswerInv'
  <2>1. ~q.wen => data_of_bus' = mem[i][q.tag][q.bank]
    <3>1. CASE q.bank = rcnt
      BY <3>1, <1>s, Zenon DEF RefillBeat
    <3>2. CASE q.bank # rcnt
      <4>1. q.bank < rcnt
        BY <3>2, <1>s, <1>f DEF Banks
      <4> QED
        BY <4>1, <3>2, <1>s, Zenon DEF RefillBeat, IInv, RbusInv
    <3> QED
      BY <3>1, <3>2, Zenon
  <2>2. ~q.wen => o_mem_rdata' = ram'[i][w][q.bank]
    BY <2>1, <1>r, <1>f, <1>c, Zenon DEF Refilled, o_mem_rdata
  <2>3. w \in vld'[i] /\ tag_arry'[i][w] = q.tag
    BY <1>h
  <2> QED
    BY <2>2, <2>3, <1>c, <1>f, Zenon DEF AnswerInv, way_hit
<1> QED
  BY <1>1, <1>2, <1>3, <1>4, <1>5, <1>6, ZenonT(30) DEF IInv

\* A clock edge that changes nothing keeps the invariant.
LEMMA StutterIInv ==
  ASSUME IInv, UNCHANGED vars
  PROVE  IInv'
<1> USE DEF vars, cacheVars, wbusVars, rbusVars, c1Vars
<1>1. TypeOK' /\ OneHotHit'
  BY SMTT(30) DEF IInv, TypeOK, OneHotHit
<1>2. CleanMatchesMemory' /\ AnsweredLineNotVictim'
  BY ZenonT(30) DEF IInv, CleanMatchesMemory, Refilling, AnsweredLineNotVictim, way_hit
<1>3. IdleInv' /\ WbusInv' /\ RbusInv'
  BY Zenon DEF IInv, IdleInv, WbusInv, RbusInv, Refilled
<1>4. MissInv' /\ AnswerInv'
  BY Zenon DEF IInv, MissInv, AnswerInv, way_hit, o_mem_rdata
<1> QED
  BY <1>1, <1>2, <1>3, <1>4, Zenon DEF IInv

\* Every reachable state of the cache satisfies the inductive invariant, for
\* any tags, sets, lanes, byte values, requests and initial memory.
THEOREM Invariance == Spec => []IInv
<1>1. ASSUME IInv, [Next]_vars
      PROVE  IInv'
  <2>1. CASE UNCHANGED vars
    BY <1>1, <2>1, StutterIInv
  <2>2. CASE Next
    <3>1. PICK rsp_rdy \in BOOLEAN :
             \/ NoRequest(rsp_rdy)
             \/ \E r \in Reqs : \/ \E w \in Ways : ReqHit(r, w, rsp_rdy)
                                \/ ReqMiss(r, rsp_rdy)
             \/ WbusFetch(rsp_rdy)
             \/ WbusBeat(rsp_rdy)
             \/ RbusBeat(rsp_rdy)
             \/ RbusDone(rsp_rdy)
      BY <2>2 DEF Next
    <3> QED
      BY <1>1, <3>1, NoRequestIInv, ReqHitIInv, ReqMissIInv, WbusFetchIInv,
         WbusBeatIInv, RbusBeatIInv, RbusDoneIInv
  <2> QED
    BY <1>1, <2>1, <2>2
<1> QED
  BY <1>1, InitIInv, PTL DEF Spec

\* The registers keep their declared widths.
THEOREM TypeCorrect == Spec => []TypeOK
BY Invariance, PTL DEF IInv

\* No two valid ways of a set ever hold the same tag.
THEOREM HitIsOneHot == Spec => []OneHotHit
BY Invariance, PTL DEF IInv

\* A valid line without the dirty bit always equals memory, so dropping it
\* loses no store.
THEOREM CleanLinesMatch == Spec => []CleanMatchesMemory
BY Invariance, PTL DEF IInv

\* The line being answered is never the next victim of its set.
THEOREM PlruSparesAnswer == Spec => []AnsweredLineNotVictim
BY Invariance, PTL DEF IInv

-----------------------------------------------------------------------------
(* The cache and the memory behind it implement AtomicMemory.                 *)
(*                                                                           *)
(* The refinement mapping is that of DCache: a line is read from the way     *)
(* that holds it, else from memory, and the way a refill is overwriting      *)
(* holds nothing.  A hit is an acceptance performed at once, a miss one that *)
(* the last refill beat completes, and every write-back or other refill beat *)
(* is a stuttering step: it moves words without changing what the master     *)
(* would read.                                                               *)

\* Line t of set i as the master sees it.
LogicalLine(i, t) ==
  IF Holding(i, t) = {} THEN mem[i][t] ELSE ram[i][CHOOSE w \in Holding(i, t) : TRUE]

\* The line is in the way that holds it, whichever way that is, as OneHotHit says.
LineIsHeld ==
  \A i \in Idxs, t \in Tags : \A w \in Holding(i, t) : LogicalLine(i, t) = ram[i][w]

\* The refinement mapping, line by line.
LEMMA LogicalMemIs == LogicalMem = [i \in Idxs |-> [t \in Tags |-> LogicalLine(i, t)]]
BY DEF LogicalMem, LogicalLine

\* By OneHotHit no two ways hold a line, so that it does not matter which is read.
LEMMA HeldLine == IInv => LineIsHeld
<1> SUFFICES ASSUME IInv, NEW i \in Idxs, NEW t \in Tags, NEW w \in Holding(i, t)
             PROVE  LogicalLine(i, t) = ram[i][w]
  BY DEF LineIsHeld
<1>1. \A v \in Holding(i, t) : v = w
  BY DEF IInv, OneHotHit, Holding, way_hit
<1>2. (CHOOSE v \in Holding(i, t) : TRUE) = w
  BY <1>1
<1> QED
  BY <1>2, Zenon DEF LogicalLine

\* The same in the next state.
LEMMA HeldLineNext == IInv' => LineIsHeld'
BY HeldLine, PTL

\* What the master sees is unchanged when no line of it changes.
LEMMA SameMemory ==
  ASSUME \A i \in Idxs, t \in Tags : LogicalLine(i, t)' = LogicalLine(i, t)
  PROVE  LogicalMem' = LogicalMem
BY DEF LogicalMem, LogicalLine

\* What the master sees when request r is performed on line r.tag of set r.idx.
LEMMA PerformedMemory ==
  ASSUME IInv, NEW r \in Request,
         \A i \in Idxs, t \in Tags :
           i # r.idx \/ t # r.tag => LogicalLine(i, t)' = LogicalLine(i, t),
         LogicalLine(r.idx, r.tag)' =
           IF r.wen THEN [LogicalLine(r.idx, r.tag) EXCEPT ![r.bank] = Merge(r.wmask, r.wdata, @)]
           ELSE LogicalLine(r.idx, r.tag)
  PROVE  LogicalMem' = IF r.wen
                       THEN [LogicalMem EXCEPT ![r.idx][r.tag][r.bank] = Merge(r.wmask, r.wdata, @)]
                       ELSE LogicalMem
<1>0. r.idx \in Idxs /\ r.tag \in Tags
  BY DEF Request
<1>1. CASE ~r.wen
  BY <1>0, <1>1, SameMemory
<1>2. CASE r.wen
  <2> DEFINE L == [LogicalLine(r.idx, r.tag) EXCEPT ![r.bank] = Merge(r.wmask, r.wdata, @)]
             M == [t \in Tags |-> LogicalLine(r.idx, t)]
             New == [LogicalMem EXCEPT ![r.idx][r.tag][r.bank] = Merge(r.wmask, r.wdata, @)]
  <2>1. LogicalMem[r.idx] = M /\ M[r.tag] = LogicalLine(r.idx, r.tag)
    BY <1>0, LogicalMemIs
  <2>2. New = [LogicalMem EXCEPT ![r.idx] = [M EXCEPT ![r.tag] = L]]
    BY <2>1, Zenon
  <2>3. LogicalLine(r.idx, r.tag)' = L
    BY <1>2
  <2> HIDE DEF L
  <2>4. \A t \in Tags : LogicalLine(r.idx, t)' = [M EXCEPT ![r.tag] = L][t]
    BY <1>0, <2>3
  <2>5. [t \in Tags |-> LogicalLine(r.idx, t)'] = [M EXCEPT ![r.tag] = L]
    BY <2>4, ZenonT(30)
  <2>6. LogicalMem' = [i \in Idxs |-> [t \in Tags |-> LogicalLine(i, t)']]
    BY DEF LogicalMem, LogicalLine
  <2> HIDE DEF M, New
  <2>7. LogicalMem' = [LogicalMem EXCEPT ![r.idx] = [M EXCEPT ![r.tag] = L]]
    BY <1>0, <2>5, <2>6, LogicalMemIs
  <2> QED
    BY <1>2, <2>2, <2>7 DEF New
<1> QED
  BY <1>1, <1>2 DEF Request

\* Reset: every way is empty, so the master sees the memory.
LEMMA InitRefines == Init => Atomic!AInit
<1> SUFFICES ASSUME Init PROVE Atomic!AInit
  OBVIOUS
<1>1. \A i \in Idxs, t \in Tags : LogicalLine(i, t) = mem[i][t]
  BY DEF Init, LogicalLine, Holding, way_hit
<1>2. mem \in [Idxs -> [Tags -> Line]] /\ mem \in MemInits
  BY MemInitsAssumption DEF Init
<1>3. LogicalMem = mem
  BY <1>1, <1>2, LogicalMemIs
<1>4. Pending = NoReq /\ Response = NoReq
  BY DEF Init, Pending, Response
<1> QED
  BY <1>2, <1>3, <1>4 DEF Atomic!AInit

\* Nothing is pending between two misses, and nothing is answered during one.
PendingIsMiss ==
  /\ state = "NORM" => Pending = NoReq
  /\ state # "NORM" => Pending = miss.req /\ Pending # NoReq /\ Response = NoReq

\* The miss registers hold a request exactly while a miss is handled, and the
\* response stage is empty then (MissInv).
LEMMA MissPending == IInv => PendingIsMiss
<1> SUFFICES ASSUME IInv PROVE PendingIsMiss
  OBVIOUS
<1>1. state = "NORM" => Pending = NoReq
  BY DEF IInv, MissInv, Pending
<1>2. ASSUME state # "NORM" PROVE Pending = miss.req /\ Pending # NoReq /\ Response = NoReq
  BY <1>2, MissFields, NoneAssumption DEF IInv, MissInv, Pending, Response
<1> QED
  BY <1>1, <1>2 DEF PendingIsMiss

\* The same in the next state.
LEMMA MissPendingNext == IInv' => PendingIsMiss'
BY MissPending, PTL

\* Without a request the response is taken or kept.
LEMMA NoRequestRefines ==
  ASSUME IInv, NEW rsp_rdy \in BOOLEAN, NoRequest(rsp_rdy)
  PROVE  [Atomic!ANext]_(Atomic!avars)
<1>1. /\ UNCHANGED <<state, tag_arry, vld, ram, miss, mem>>
      /\ state = "NORM" /\ ram_rdata' = ram_rdata /\ data_of_bus' = data_of_bus
  BY DEF NoRequest, cacheVars, rbusVars
<1>2. LogicalMem' = LogicalMem
  BY <1>1 DEF LogicalMem, Holding, way_hit, Refilling
<1>3. Pending' = Pending
  BY <1>1 DEF Pending
<1>4. CASE vld_c1 /\ rsp_rdy
  <2>1. Response' = NoReq
    BY <1>4, Zenon DEF NoRequest, C1Stage, stall_c1, Response
  <2> QED
    BY <1>2, <1>3, <2>1 DEF Atomic!ANext, Atomic!Take, Atomic!avars
<1>5. CASE ~(vld_c1 /\ rsp_rdy)
  <2>1. vld_c1' = vld_c1 /\ rbus_done_ff' = rbus_done_ff /\ (vld_c1 => c1_req' = c1_req)
    BY <1>5 DEF NoRequest, C1Stage, stall_c1, IInv, TypeOK
  <2>2. Response' = Response
    BY <1>1, <2>1, Zenon DEF Response, o_mem_rdata
  <2> QED
    BY <1>2, <1>3, <2>2 DEF Atomic!avars
<1> QED
  BY <1>4, <1>5

\* A hit is performed when it is accepted: its way is the only holder of the line.
LEMMA ReqHitRefines ==
  ASSUME IInv, IInv', NEW r \in Reqs, NEW w \in Ways, NEW rsp_rdy \in BOOLEAN,
         ReqHit(r, w, rsp_rdy)
  PROVE  Atomic!Accept(r)
<1>r. r \in Request /\ r.idx \in Idxs /\ r.tag \in Tags /\ r.bank \in Banks
  BY ReqsAssumption DEF Request
<1>s. /\ state = "NORM" /\ state' = "NORM" /\ miss' = miss /\ mem' = mem
      /\ vld_c1' = TRUE /\ rbus_done_ff' = FALSE /\ c1_req' = r
      /\ UNCHANGED <<tag_arry, vld>> /\ w \in way_hit(r.idx, r.tag)
      /\ ram_rdata' = ram[r.idx][w][r.bank]
  BY Zenon DEF IInv, AnswerInv, TypeOK, ReqHit, o_mem_req_rdy, stall_c1, C1Stage
<1>h. \A i \in Idxs, t \in Tags : /\ Holding(i, t) = way_hit(i, t)
                                  /\ Holding(i, t)' = Holding(i, t)
  BY <1>s DEF Holding, way_hit, Refilling
<1>t. ram \in [Idxs -> [Ways -> Line]]
  BY Zenon DEF IInv, TypeOK
<1>m. /\ \A i \in Idxs, v \in Ways : i # r.idx \/ v # w => ram'[i][v] = ram[i][v]
      /\ ram'[r.idx][w] = IF r.wen
                          THEN [ram[r.idx][w] EXCEPT ![r.bank] = Merge(r.wmask, r.wdata, @)]
                          ELSE ram[r.idx][w]
  BY <1>r, <1>t DEF ReqHit
<1>l. LogicalLine(r.idx, r.tag) = ram[r.idx][w] /\ LogicalLine(r.idx, r.tag)' = ram'[r.idx][w]
  <2>1. w \in Holding(r.idx, r.tag) /\ w \in Holding(r.idx, r.tag)'
    BY <1>h, <1>s, <1>r
  <2> QED
    BY <2>1, <1>r, HeldLine, HeldLineNext DEF LineIsHeld
<1>1. ASSUME NEW i \in Idxs, NEW t \in Tags, i # r.idx \/ t # r.tag
      PROVE  LogicalLine(i, t)' = LogicalLine(i, t)
  <2>1. CASE Holding(i, t) = {}
    BY <2>1, <1>h, <1>s DEF LogicalLine
  <2>2. CASE Holding(i, t) # {}
    <3>1. PICK v : v \in Holding(i, t)
      BY <2>2, ZenonT(30)
    <3>2. v \in Ways /\ (i # r.idx \/ v # w)
      BY <1>1, <1>s, <3>1 DEF Holding, way_hit, IInv, TypeOK
    <3>3. LogicalLine(i, t) = ram[i][v] /\ LogicalLine(i, t)' = ram'[i][v]
      BY <3>1, <1>h, HeldLine, HeldLineNext, ZenonT(30) DEF LineIsHeld
    <3> QED
      BY <3>2, <3>3, <1>m
  <2> QED
    BY <2>1, <2>2
<1>2. LogicalMem' = IF r.wen
                    THEN [LogicalMem EXCEPT ![r.idx][r.tag][r.bank] = Merge(r.wmask, r.wdata, @)]
                    ELSE LogicalMem
  BY <1>r, <1>l, <1>m, <1>1, PerformedMemory, Zenon
<1>3. LogicalMem[r.idx][r.tag][r.bank] = ram[r.idx][w][r.bank]
  BY <1>l, <1>r, LogicalMemIs
<1>4. Response' = [req |-> r, data |-> IF r.wen THEN NoReq ELSE LogicalMem[r.idx][r.tag][r.bank]]
  BY <1>s, <1>3 DEF Response, o_mem_rdata
<1>5. Pending = NoReq /\ Pending' = NoReq
  BY <1>s, MissPending, MissPendingNext DEF PendingIsMiss
<1> QED
  BY <1>2, <1>4, <1>5, Zenon DEF Atomic!Accept, Atomic!Perform, Atomic!Put, Merge

\* A miss is accepted and left pending: if the way it is to refill is valid then
\* it is clean, and memory holds its line.
LEMMA ReqMissRefines ==
  ASSUME IInv, IInv', NEW r \in Reqs, NEW rsp_rdy \in BOOLEAN, ReqMiss(r, rsp_rdy)
  PROVE  Atomic!Accept(r)
<1>r. r.idx \in Idxs /\ r.tag \in Tags
  BY ReqsAssumption, Zenon DEF Request
<1>s. /\ state = "NORM" /\ state' \in {"WBUS", "RBUS"} /\ UNCHANGED <<cacheVars, mem>>
      /\ miss'.req = r /\ miss'.way = way_vic(plru[r.idx])
      /\ state' = "RBUS" => ~vic_dry(r.idx)
  BY Zenon DEF ReqMiss, o_mem_req_rdy
<1>h. \A i \in Idxs, t \in Tags : /\ Holding(i, t) = way_hit(i, t)
                                  /\ Holding(i, t)' \subseteq Holding(i, t)
                                  /\ \A v \in Holding(i, t) \ Holding(i, t)' :
                                       /\ i = r.idx /\ v \in vld[i] \ dry[i]
                                       /\ tag_arry[i][v] = t
  BY <1>s DEF Holding, way_hit, Refilling, cacheVars, vic_dry
<1>1. ASSUME NEW i \in Idxs, NEW t \in Tags
      PROVE  LogicalLine(i, t)' = LogicalLine(i, t)
  <2>1. CASE Holding(i, t) = {}
    BY <2>1, <1>h, <1>s DEF LogicalLine
  <2>2. ASSUME NEW v \in Holding(i, t) PROVE LogicalLine(i, t)' = LogicalLine(i, t)
    <3>1. LogicalLine(i, t) = ram[i][v]
      BY HeldLine, Zenon DEF LineIsHeld
    <3>2. CASE v \in Holding(i, t)'
      BY <3>1, <3>2, <1>s, HeldLineNext, Zenon DEF LineIsHeld, cacheVars
    <3>3. CASE v \notin Holding(i, t)'
      <4>1. v \in vld[i] \ dry[i] /\ tag_arry[i][v] = t
        BY <3>3, <1>h
      <4>2. ram[i][v] = mem[i][t]
        BY <4>1, <1>s, ZenonT(30) DEF IInv, CleanMatchesMemory, Refilling
      <4>3. Holding(i, t)' = {}
        BY <3>3, <1>h DEF IInv, OneHotHit, Holding, way_hit
      <4> QED
        BY <3>1, <4>2, <4>3, <1>s DEF LogicalLine
    <3> QED
      BY <3>2, <3>3
  <2> QED
    BY <2>1, <2>2, Zenon
<1>2. LogicalMem' = LogicalMem
  BY <1>1, SameMemory
<1>3. Pending = NoReq /\ Pending' = r /\ Response' = NoReq
  BY <1>s, MissPending, MissPendingNext DEF PendingIsMiss
<1> QED
  BY <1>2, <1>3 DEF Atomic!Accept

\* During a miss the abstract memory stutters as long as its lines do not change.
LEMMA MissStutters ==
  ASSUME IInv, IInv', state # "NORM", state' # "NORM", miss' = miss,
         \A i \in Idxs, t \in Tags : LogicalLine(i, t)' = LogicalLine(i, t)
  PROVE  UNCHANGED Atomic!avars
<1>1. LogicalMem' = LogicalMem
  BY SameMemory
<1>2. Pending' = Pending /\ Response' = Response
  BY MissPending, MissPendingNext DEF PendingIsMiss
<1> QED
  BY <1>1, <1>2 DEF Atomic!avars

\* Reading the first bank of a victim changes nothing the master sees.
LEMMA WbusFetchRefines ==
  ASSUME IInv, IInv', NEW rsp_rdy \in BOOLEAN, WbusFetch(rsp_rdy)
  PROVE  UNCHANGED Atomic!avars
<1>1. state = "WBUS" /\ UNCHANGED <<state, tag_arry, vld, ram, miss, mem>>
  BY DEF WbusFetch
<1>2. \A i \in Idxs, t \in Tags : LogicalLine(i, t)' = LogicalLine(i, t)
  BY <1>1 DEF LogicalLine, Holding, way_hit, Refilling
<1> QED
  BY <1>1, <1>2, MissStutters

\* A write-back beat stores in memory a word that its way still holds; after the
\* last one memory has the whole line and the way may be given up.
LEMMA WbusBeatRefines ==
  ASSUME IInv, IInv', NEW rsp_rdy \in BOOLEAN, WbusBeat(rsp_rdy)
  PROVE  UNCHANGED Atomic!avars
<1> DEFINE j == miss.req.idx
           w == miss.way
           u == miss.vic_tag
<1>s. /\ state = "WBUS" /\ state' \in {"WBUS", "RBUS"} /\ UNCHANGED <<tag_arry, vld, ram, miss>>
      /\ mem' = [mem EXCEPT ![j][u][wcnt] = ram_rdata]
      /\ w \in vld[j] /\ tag_arry[j][w] = u /\ ram_rdata = ram[j][w][wcnt]
      /\ wcnt \in Banks /\ (state' = "RBUS" => wcnt = 3)
      /\ \A b \in Banks : b < wcnt => mem[j][u][b] = ram[j][w][b]
  BY Zenon DEF WbusBeat, IInv, WbusInv, TypeOK, wbus_done, Banks
<1>f. j \in Idxs /\ w \in Ways /\ u \in Tags
  BY <1>s, MissFields, Zenon
<1>t. mem \in [Idxs -> [Tags -> Line]] /\ ram[j][w] \in Line
  BY <1>f, Zenon DEF IInv, TypeOK
<1>m. \A i \in Idxs, t \in Tags : i # j \/ t # u => mem'[i][t] = mem[i][t]
  BY <1>s, <1>f, <1>t, Zenon
<1>l. ASSUME state' = "RBUS" PROVE mem'[j][u] = ram[j][w]
  <2>1. mem'[j][u] = [mem[j][u] EXCEPT ![wcnt] = ram_rdata] /\ mem[j][u] \in Line
    BY <1>s, <1>f, <1>t, Zenon
  <2>0. wcnt = 3
    BY <1>s, <1>l, Zenon
  <2>2. \A b \in Banks : b = wcnt \/ b < wcnt
    BY <2>0 DEF Banks
  <2>a. \A b \in Banks : mem'[j][u][b] = IF b = wcnt THEN ram_rdata ELSE mem[j][u][b]
    BY <2>1, Zenon DEF Line
  <2>b. ram_rdata = ram[j][w][wcnt] /\ \A b \in Banks : b < wcnt => mem[j][u][b] = ram[j][w][b]
    BY <1>s, Zenon
  <2>3. \A b \in Banks : mem'[j][u][b] = ram[j][w][b]
    BY <2>a, <2>b, <2>2, Zenon
  <2>4. mem'[j][u] \in [Banks -> Word]
    <3>1. mem' \in [Idxs -> [Tags -> Line]]
      BY Zenon DEF IInv, TypeOK
    <3> QED
      BY <3>1, <1>f, Zenon DEF Line
  <2> QED
    BY ONLY <1>t, <2>3, <2>4 DEF Line
<1>h. \A i \in Idxs, t \in Tags :
        /\ Holding(i, t) = way_hit(i, t)
        /\ Holding(i, t)' \subseteq Holding(i, t)
        /\ \A v \in Holding(i, t) \ Holding(i, t)' : state' = "RBUS" /\ i = j /\ v = w
  BY <1>s, ZenonT(30) DEF Holding, way_hit, Refilling
<1>1. ASSUME NEW i \in Idxs, NEW t \in Tags
      PROVE  LogicalLine(i, t)' = LogicalLine(i, t)
  <2>1. CASE Holding(i, t) = {}
    <3>1. i # j \/ t # u
      <4>1. w \in way_hit(j, u)
        BY <1>s, Zenon DEF way_hit
      <4>2. way_hit(i, t) = {}
        BY <2>1, <1>h, Zenon
      <4> QED
        BY <4>1, <4>2, Zenon
    <3> QED
      BY <2>1, <3>1, <1>h, <1>m, Zenon DEF LogicalLine
  <2>2. ASSUME NEW v \in Holding(i, t) PROVE LogicalLine(i, t)' = LogicalLine(i, t)
    <3>1. LogicalLine(i, t) = ram[i][v]
      BY HeldLine, Zenon DEF LineIsHeld
    <3>2. CASE v \in Holding(i, t)'
      BY <3>1, <3>2, <1>s, HeldLineNext, Zenon DEF LineIsHeld
    <3>3. CASE v \notin Holding(i, t)'
      <4>1. state' = "RBUS" /\ i = j /\ v = w /\ t = u
        <5>1. state' = "RBUS" /\ i = j /\ v = w
          BY <3>3, <1>h, ZenonT(30)
        <5>2. tag_arry[i][v] = t
          BY Zenon DEF Holding, way_hit
        <5> QED
          BY <5>1, <5>2, <1>s, Zenon
      <4>2. \A x \in Holding(i, t) : x = v
        BY Zenon DEF Holding, way_hit, IInv, OneHotHit
      <4>3. Holding(i, t)' = {}
        BY <3>3, <1>h, <4>2, Zenon
      <4> QED
        BY <3>1, <4>1, <4>3, <1>l, Zenon DEF LogicalLine
    <3> QED
      BY <3>2, <3>3
  <2> QED
    BY <2>1, <2>2, Zenon
<1> QED
  BY <1>1, <1>s, MissStutters, Zenon

\* A refill beat writes only the way it is overwriting, which holds no line.
LEMMA RbusBeatRefines ==
  ASSUME IInv, IInv', NEW rsp_rdy \in BOOLEAN, RbusBeat(rsp_rdy)
  PROVE  UNCHANGED Atomic!avars
<1>s. state = "RBUS" /\ RefillBeat /\ UNCHANGED <<state, tag_arry, vld, miss, mem>>
  BY Zenon DEF RbusBeat, RefillBeat
<1>e. \A i \in Idxs, v \in Ways : i # miss.req.idx \/ v # miss.way => ram'[i][v] = ram[i][v]
  BY <1>s, RefillEffect, Zenon
<1>h. \A i \in Idxs, t \in Tags :
        /\ Holding(i, t)' = Holding(i, t)
        /\ \A v \in Holding(i, t) : v \in Ways /\ (i # miss.req.idx \/ v # miss.way)
  BY <1>s, Zenon DEF Holding, way_hit, Refilling, IInv, TypeOK
<1>1. ASSUME NEW i \in Idxs, NEW t \in Tags
      PROVE  LogicalLine(i, t)' = LogicalLine(i, t)
  <2>1. CASE Holding(i, t) = {}
    BY <2>1, <1>h, <1>s, Zenon DEF LogicalLine
  <2>2. ASSUME NEW v \in Holding(i, t) PROVE LogicalLine(i, t)' = LogicalLine(i, t)
    <3>1. LogicalLine(i, t) = ram[i][v] /\ LogicalLine(i, t)' = ram'[i][v]
      BY <1>h, HeldLine, HeldLineNext, SMTT(20) DEF LineIsHeld
    <3> QED
      BY <3>1, <1>h, <1>e, Zenon
  <2> QED
    BY <2>1, <2>2
<1> QED
  BY <1>1, <1>s, MissStutters, Zenon

\* The last refill beat performs the pending request: the line it installs is
\* the one memory had, with the lanes of a store merged in.
LEMMA RbusDoneRefines ==
  ASSUME IInv, IInv', NEW rsp_rdy \in BOOLEAN, RbusDone(rsp_rdy)
  PROVE  Atomic!Complete
<1>q. PICK q, w : q = miss.req /\ w = miss.way
  BY ZenonT(30)
<1>s. /\ state = "RBUS" /\ rcnt = 3 /\ RefillBeat /\ state' = "NORM" /\ mem' = mem
      /\ tag_arry' = [tag_arry EXCEPT ![q.idx][w] = q.tag]
      /\ vld' = [vld EXCEPT ![q.idx] = @ \cup {w}]
  BY <1>q DEF RbusDone, RefillBeat
<1>f. /\ q \in Request /\ w \in Ways /\ q.idx \in Idxs /\ q.tag \in Tags /\ q.bank \in Banks
      /\ q.wen \in BOOLEAN /\ way_hit(q.idx, q.tag) = {}
  BY <1>q, <1>s, MissFields, Zenon
<1>c. vld_c1' = TRUE /\ rbus_done_ff' = TRUE /\ c1_req' = q
  BY <1>q, <1>s, MissFields, Zenon DEF RbusDone, C1Stage, stall_c1
<1>t. /\ mem \in [Idxs -> [Tags -> Line]] /\ tag_arry \in [Idxs -> [Ways -> Tags]]
      /\ vld \in [Idxs -> SUBSET Ways]
  BY Zenon DEF IInv, TypeOK
<1>e. /\ ram' \in [Idxs -> [Ways -> Line]]
      /\ \A i \in Idxs, v \in Ways : i # q.idx \/ v # w => ram'[i][v] = ram[i][v]
      /\ \A b \in Banks : ram'[q.idx][w][b] = Refilled(b)
  <2>1. \A b \in Banks : b = rcnt \/ b < rcnt
    BY <1>s DEF Banks
  <2> QED
    BY <1>q, <2>1, <1>s, RefillEffect, ZenonT(30) DEF IInv, RbusInv
<1>g. /\ \A i \in Idxs, v \in Ways : i # q.idx \/ v # w => tag_arry'[i][v] = tag_arry[i][v]
      /\ tag_arry'[q.idx][w] = q.tag /\ vld'[q.idx] = vld[q.idx] \cup {w}
      /\ \A i \in Idxs : i # q.idx => vld'[i] = vld[i]
  BY <1>s, <1>f, <1>t
<1>h. /\ w \in Holding(q.idx, q.tag)'
      /\ Holding(q.idx, q.tag) = {}
      /\ \A i \in Idxs, t \in Tags : i # q.idx \/ t # q.tag => Holding(i, t)' = Holding(i, t)
      /\ \A i \in Idxs, t \in Tags : \A v \in Holding(i, t) : v \in Ways /\ (i # q.idx \/ v # w)
  <2>1. w \in Holding(q.idx, q.tag)'
    BY <1>s, <1>g DEF Holding, way_hit, Refilling
  <2>2. Holding(q.idx, q.tag) = {}
    BY <1>f DEF Holding
  <2>3. \A i \in Idxs, t \in Tags : \A v \in Holding(i, t) : v \in Ways /\ (i # q.idx \/ v # w)
    BY <1>q, <1>s, <1>t, ZenonT(30) DEF Holding, way_hit, Refilling
  <2>4. ASSUME NEW i \in Idxs, NEW t \in Tags, i # q.idx \/ t # q.tag
        PROVE  Holding(i, t)' = Holding(i, t)
    BY <1>q, <2>4, <1>s, <1>g, <1>t DEF Holding, way_hit, Refilling
  <2> QED
    BY <2>1, <2>2, <2>3, <2>4
<1>1. ASSUME NEW i \in Idxs, NEW t \in Tags, i # q.idx \/ t # q.tag
      PROVE  LogicalLine(i, t)' = LogicalLine(i, t)
  <2>1. CASE Holding(i, t) = {}
    BY <1>1, <2>1, <1>h, <1>s, Zenon DEF LogicalLine
  <2>2. ASSUME NEW v \in Holding(i, t) PROVE LogicalLine(i, t)' = LogicalLine(i, t)
    <3>1. LogicalLine(i, t) = ram[i][v] /\ LogicalLine(i, t)' = ram'[i][v]
      BY <1>1, <1>h, HeldLine, HeldLineNext DEF LineIsHeld
    <3> QED
      BY <3>1, <1>h, <1>e, Zenon
  <2> QED
    BY <2>1, <2>2
<1>2. LogicalLine(q.idx, q.tag) = mem[q.idx][q.tag] /\ LogicalLine(q.idx, q.tag)' = ram'[q.idx][w]
  BY <1>f, <1>h, HeldLineNext, Zenon DEF LogicalLine, LineIsHeld
<1>3. ram'[q.idx][w] = IF q.wen
                       THEN [mem[q.idx][q.tag] EXCEPT ![q.bank] = Merge(q.wmask, q.wdata, @)]
                       ELSE mem[q.idx][q.tag]
  <2>1. ram'[q.idx][w] \in [Banks -> Word] /\ mem[q.idx][q.tag] \in [Banks -> Word]
    BY <1>e, <1>f, <1>t DEF Line
  <2>2. \A b \in Banks : ram'[q.idx][w][b] = IF q.wen /\ b = q.bank
                                               THEN Merge(q.wmask, q.wdata, mem[q.idx][q.tag][b])
                                               ELSE mem[q.idx][q.tag][b]
    BY <1>q, <1>e, Zenon DEF Refilled
  <2>3. CASE ~q.wen
    BY <2>1, <2>2, <2>3
  <2>4. CASE q.wen
    BY <2>1, <2>2, <2>4, <1>f, ZenonT(30)
  <2> QED
    BY <2>3, <2>4, Zenon
<1>4. LogicalMem' = IF q.wen
                    THEN [LogicalMem EXCEPT ![q.idx][q.tag][q.bank] = Merge(q.wmask, q.wdata, @)]
                    ELSE LogicalMem
  BY <1>f, <1>1, <1>2, <1>3, PerformedMemory, Zenon
<1>5. LogicalMem[q.idx][q.tag][q.bank] = mem[q.idx][q.tag][q.bank]
  BY <1>2, <1>f, LogicalMemIs, Zenon
<1>6. ~q.wen => data_of_bus' = mem[q.idx][q.tag][q.bank]
  <2>1. q.bank = rcnt \/ q.bank < rcnt
    BY <1>s, <1>f DEF Banks
  <2>2. CASE q.bank = rcnt
    BY <1>q, <2>2, <1>s, Zenon DEF RefillBeat
  <2>3. CASE q.bank < rcnt /\ q.bank # rcnt
    BY <1>q, <2>3, <1>s, Zenon DEF RefillBeat, IInv, RbusInv
  <2> QED
    BY <2>1, <2>2, <2>3
<1>7. Response' = [req |-> q, data |-> IF q.wen THEN NoReq ELSE LogicalMem[q.idx][q.tag][q.bank]]
  BY <1>c, <1>5, <1>6 DEF Response, o_mem_rdata
<1>8. Pending = q /\ Pending # NoReq /\ Pending' = NoReq
  BY <1>q, <1>s, MissPending, MissPendingNext DEF PendingIsMiss
<1> QED
  BY <1>4, <1>7, <1>8, Zenon DEF Atomic!Complete, Atomic!Perform, Atomic!Put, Merge

\* The cache and the memory behind it implement an atomic memory
\* (rv64im_core_dcache.sv): every load returns the word stored last, whatever
\* evictions, write-backs and refills come between, stores touch nothing but
\* their lanes, and every request is answered once.
THEOREM Refinement == Spec => ImplementsAtomicMemory
<1>1. ASSUME IInv, IInv', [Next]_vars
      PROVE  [Atomic!ANext]_(Atomic!avars)
  <2>1. CASE UNCHANGED vars
    <3>1. LogicalMem' = LogicalMem
      BY <2>1 DEF vars, cacheVars, LogicalMem, Holding, way_hit, Refilling
    <3>2. Pending' = Pending /\ Response' = Response
      BY <2>1 DEF vars, cacheVars, rbusVars, c1Vars, Pending, Response, o_mem_rdata
    <3> QED
      BY <3>1, <3>2 DEF Atomic!avars
  <2>2. CASE Next
    <3>1. PICK rsp_rdy \in BOOLEAN :
             \/ NoRequest(rsp_rdy)
             \/ \E r \in Reqs : \/ \E w \in Ways : ReqHit(r, w, rsp_rdy)
                                \/ ReqMiss(r, rsp_rdy)
             \/ WbusFetch(rsp_rdy)
             \/ WbusBeat(rsp_rdy)
             \/ RbusBeat(rsp_rdy)
             \/ RbusDone(rsp_rdy)
      BY <2>2 DEF Next
    <3>2. CASE NoRequest(rsp_rdy)
      BY <1>1, <3>2, NoRequestRefines
    <3>3. ASSUME NEW r \in Reqs, NEW w \in Ways, ReqHit(r, w, rsp_rdy)
          PROVE  [Atomic!ANext]_(Atomic!avars)
      BY <1>1, <3>3, ReqHitRefines DEF Atomic!ANext
    <3>4. ASSUME NEW r \in Reqs, ReqMiss(r, rsp_rdy)
          PROVE  [Atomic!ANext]_(Atomic!avars)
      BY <1>1, <3>4, ReqMissRefines DEF Atomic!ANext
    <3>5. CASE WbusFetch(rsp_rdy) \/ WbusBeat(rsp_rdy) \/ RbusBeat(rsp_rdy)
      BY <1>1, <3>5, WbusFetchRefines, WbusBeatRefines, RbusBeatRefines
    <3>6. CASE RbusDone(rsp_rdy)
      BY <1>1, <3>6, RbusDoneRefines DEF Atomic!ANext
    <3> QED
      BY <3>1, <3>2, <3>3, <3>4, <3>5, <3>6
  <2> QED
    BY <1>1, <2>1, <2>2
<1> QED
  BY <1>1, InitRefines, Invariance, PTL DEF Spec, ImplementsAtomicMemory, Atomic!ASpec
=============================================================================
