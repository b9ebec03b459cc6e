------------------------------- MODULE DCache -------------------------------
(***************************************************************************)
(* The four-way write-back, write-allocate cache of                        *)
(* rtl/vsrc/cache/rv64im_core_dcache.sv, instantiated by the top module    *)
(* once as D-cache and once (write enable tied low) as I-cache, together   *)
(* with the memory its arbiter port reaches.  A step is one rising clock   *)
(* edge; a cycle in which no register changes is a stuttering step.        *)
(*                                                                         *)
(* Data are abstracted to words of Lanes, each holding one of Bytes.  The  *)
(* registers latched when a request misses (addr_ff, wen_ff, wmask_ff,     *)
(* wdata_ff, way_vic_ff, vic_addr_ff) are the record `miss'; they are dead *)
(* between two misses, when `miss' is NoMiss.  The outputs of the RAMs of  *)
(* the four ways are one register, the output of the way read last: the    *)
(* one-hot way_hit_ff and way_vic_ff select exactly that way whenever the  *)
(* output is used.                                                         *)
(***************************************************************************)
EXTENDS Naturals

CONSTANTS
  Tags,      \* tag field of an address
  Idxs,      \* index field of an address: one set of the cache each
  Lanes,     \* byte lanes of a word
  Bytes,     \* values of a byte
  ZeroTag, ZeroByte,  \* what registers with a reset hold after it
  Reqs,      \* the requests the master may issue
  MemInits,  \* contents of memory at reset
  RamInits,  \* contents of the data RAM at reset (the RAM has no reset)
  NoReq, NoMiss

Ways  == 0 .. 3
Banks == 0 .. 3
Word  == [Lanes -> Bytes]
Line  == [Banks -> Word]

Request ==
  [wen : BOOLEAN, tag : Tags, idx : Idxs, bank : Banks,
   wdata : Word, wmask : SUBSET Lanes]

Miss == [req : Request, way : Ways, vic_tag : Tags]

ASSUME ReqsAssumption     == Reqs \subseteq Request
ASSUME MemInitsAssumption == MemInits \subseteq [Idxs -> [Tags -> Line]]
ASSUME RamInitsAssumption == RamInits \subseteq [Idxs -> [Ways -> Line]]
ASSUME ZeroAssumption     == ZeroTag \in Tags /\ ZeroByte \in Bytes
ASSUME NoneAssumption     == NoReq \notin Request /\ NoMiss \notin Miss

VARIABLES
  state,         \* "NORM", "WBUS" (write-back) or "RBUS" (refill)
  tag_arry,      \* tag_arry[i][w]: tag of way w of set i
  vld, dry,      \* vld[i], dry[i]: the valid and the dirty ways of set i
  plru,          \* plru[i]: the set bits of the three-bit PLRU tree of set i
  ram,           \* ram[i][w][b]: the data RAM
  ram_rdata,     \* output register of the RAM read last
  miss,          \* registers latched by a miss
  wcnt, rram_cnt, wbus_en_ff, wbus_vld,   \* write-back engine
  rcnt, rbus_vld,                         \* refill engine
  vld_c1, rbus_done_ff, data_of_bus,      \* response stage c1
  mem,           \* memory behind the arbiter port
  c1_req         \* the request stage c1 answers, as its master remembers it

cacheVars == <<tag_arry, vld, dry, plru, ram, ram_rdata>>
wbusVars  == <<wcnt, rram_cnt, wbus_en_ff, wbus_vld>>
rbusVars  == <<rcnt, rbus_vld, data_of_bus>>
c1Vars    == <<vld_c1, rbus_done_ff, c1_req>>
vars == <<state, cacheVars, miss, wbusVars, rbusVars, c1Vars, mem>>

\* The two-bit beat counters.
beat_up(n) == (n + 1) % 4

Merge(mask, new, old) == [l \in Lanes |-> IF l \in mask THEN new[l] ELSE old[l]]

-----------------------------------------------------------------------------
(* Pseudo-LRU.  Bit 0 set: the next victim is way 2 or 3.                    *)

way_vic(p) ==
  IF 0 \in p THEN IF 2 \in p THEN 3 ELSE 2
             ELSE IF 1 \in p THEN 1 ELSE 0

plru_up(p, w) ==
  CASE w = 3 -> p \ {0, 2}
    [] w = 2 -> (p \ {0}) \cup {2}
    [] w = 1 -> (p \ {1}) \cup {0}
    [] w = 0 -> p \cup {0, 1}

-----------------------------------------------------------------------------
(* Combinational signals.                                                    *)

way_hit(i, t) == {w \in vld[i] : tag_arry[i][w] = t}

vic_dry(i) == way_vic(plru[i]) \in dry[i] \cap vld[i]

stall_c1(rsp_rdy) == vld_c1 /\ ~rsp_rdy

\* Mutant: requests are accepted while a miss is served.
Mut_o_mem_req_rdy(rsp_rdy) == ~stall_c1(rsp_rdy)

o_mem_req_rdy(rsp_rdy) == state = "NORM" /\ ~stall_c1(rsp_rdy)

\* Mutant: the data of a refilled load are taken from the RAM output.
Mut_o_mem_rdata == ram_rdata

o_mem_rdata == IF rbus_done_ff THEN data_of_bus ELSE ram_rdata

\* Mutant: the last beat is awaited one beat past the end of the counter.
Mut_wbus_done == wcnt = 4

wbus_done == wcnt = 3

dry_up(i, w, wen) == IF wen THEN [dry EXCEPT ![i] = @ \cup {w}] ELSE dry

\* The response stage: loaded when `done' (a hit or the end of a refill)
\* completes request r, emptied by the response handshake, held by a stall.
C1Stage(rsp_rdy, hit, rbus_done, r) ==
  /\ vld_c1' = IF stall_c1(rsp_rdy) THEN vld_c1 ELSE hit \/ rbus_done
  /\ rbus_done_ff' = IF rbus_done THEN TRUE
                     ELSE rbus_done_ff /\ ~(vld_c1 /\ rsp_rdy)
  /\ c1_req' = IF hit \/ rbus_done THEN r
               ELSE IF stall_c1(rsp_rdy) THEN c1_req ELSE NoReq

-----------------------------------------------------------------------------
Init ==
  /\ state = "NORM"
  /\ tag_arry = [i \in Idxs |-> [w \in Ways |-> ZeroTag]]
  /\ vld = [i \in Idxs |-> {}]
  /\ dry = [i \in Idxs |-> {}]
  /\ plru = [i \in Idxs |-> {}]
  /\ ram \in RamInits
  /\ ram_rdata \in Word
  /\ miss = NoMiss
  /\ wcnt = 0 /\ rram_cnt = 0 /\ wbus_en_ff = FALSE /\ wbus_vld = FALSE
  /\ rcnt = 0 /\ rbus_vld = FALSE
  /\ vld_c1 = FALSE /\ rbus_done_ff = FALSE
  /\ data_of_bus = [l \in Lanes |-> ZeroByte]
  /\ mem \in MemInits
  /\ c1_req = NoReq

\* A cycle in state NORM without an accepted request: the response stage
\* drains, or waits for i_mem_rsp_rdy.
NoRequest(rsp_rdy) ==
  /\ state = "NORM"
  /\ C1Stage(rsp_rdy, FALSE, FALSE, NoReq)
  /\ UNCHANGED <<state, cacheVars, miss, wbusVars, rbusVars, mem>>

\* Request r hits way w: the RAM is read and, for a store, the enabled lanes
\* are written and the way becomes dirty; the response is valid next cycle.
ReqHit(r, w, rsp_rdy) ==
  /\ o_mem_req_rdy(rsp_rdy)
  /\ w \in way_hit(r.idx, r.tag)
  /\ ram_rdata' = ram[r.idx][w][r.bank]
  /\ ram' = IF r.wen
            THEN [ram EXCEPT ![r.idx][w][r.bank] = Merge(r.wmask, r.wdata, @)]
            ELSE ram
  /\ dry' = dry_up(r.idx, w, r.wen)
  /\ plru' = [plru EXCEPT ![r.idx] = plru_up(@, w)]
  /\ C1Stage(rsp_rdy, TRUE, FALSE, r)
  /\ UNCHANGED <<state, tag_arry, vld, miss, wbusVars, rbusVars, mem>>

\* Request r misses: its fields and the victim are latched, and the write-back
\* engine is started if the victim is dirty, the refill engine otherwise.
ReqMiss(r, rsp_rdy) ==
  /\ o_mem_req_rdy(rsp_rdy)
  /\ way_hit(r.idx, r.tag) = {}
  /\ LET w == way_vic(plru[r.idx])
     IN miss' = [req |-> r, way |-> w, vic_tag |-> tag_arry[r.idx][w]]
  /\ state' = IF vic_dry(r.idx) THEN "WBUS" ELSE "RBUS"
  /\ wbus_en_ff' = vic_dry(r.idx)
  /\ rbus_vld' = ~vic_dry(r.idx)
  /\ C1Stage(rsp_rdy, FALSE, FALSE, r)
  /\ UNCHANGED <<cacheVars, wcnt, rram_cnt, wbus_vld, rcnt, data_of_bus, mem>>

\* First cycle of a write-back: bank 0 of the victim line is read.
WbusFetch(rsp_rdy) ==
  /\ state = "WBUS" /\ wbus_en_ff
  /\ ram_rdata' = ram[miss.req.idx][miss.way][rram_cnt]
  /\ rram_cnt' = beat_up(rram_cnt)
  /\ wbus_en_ff' = FALSE
  /\ wbus_vld' = TRUE
  /\ C1Stage(rsp_rdy, FALSE, FALSE, NoReq)
  /\ UNCHANGED <<state, tag_arry, vld, dry, plru, ram, miss, wcnt, rbusVars, mem>>

\* i_abr_ready accepts write-back beat wcnt.  The next bank is read in the same
\* cycle; after the last beat the refill starts.
WbusBeat(rsp_rdy) ==
  /\ state = "WBUS" /\ wbus_vld
  /\ mem' = [mem EXCEPT ![miss.req.idx][miss.vic_tag][wcnt] = ram_rdata]
  /\ wcnt' = beat_up(wcnt)
  /\ IF ~wbus_done
     THEN /\ ram_rdata' = ram[miss.req.idx][miss.way][rram_cnt]
          /\ rram_cnt' = beat_up(rram_cnt)
          /\ UNCHANGED <<state, wbus_vld, rbus_vld>>
     ELSE /\ state' = "RBUS"
          /\ wbus_vld' = FALSE
          /\ rbus_vld' = TRUE
          /\ UNCHANGED <<ram_rdata, rram_cnt>>
  /\ C1Stage(rsp_rdy, FALSE, FALSE, NoReq)
  /\ UNCHANGED <<tag_arry, vld, dry, plru, ram, miss, wbus_en_ff, rcnt, data_of_bus>>

\* The word of refill beat rcnt as written to the RAM: the bus data, with the
\* lanes of a missing store merged into the bank it addresses.
rbus_data ==
  LET q == miss.req
      i_abr_rdata == mem[q.idx][q.tag][rcnt]
  IN IF q.wen /\ rcnt = q.bank THEN Merge(q.wmask, q.wdata, i_abr_rdata)
     ELSE i_abr_rdata

\* What every refill beat does: i_abr_ready brings bank rcnt of the missing line.
RefillBeat ==
  /\ state = "RBUS" /\ rbus_vld
  /\ ram' = [ram EXCEPT ![miss.req.idx][miss.way][rcnt] = rbus_data]
  /\ ram_rdata' = ram[miss.req.idx][miss.way][rcnt]
  /\ data_of_bus' = IF ~miss.req.wen /\ rcnt = miss.req.bank
                    THEN mem[miss.req.idx][miss.req.tag][rcnt]
                    ELSE data_of_bus
  /\ rcnt' = beat_up(rcnt)

RbusBeat(rsp_rdy) ==
  /\ rcnt # 3
  /\ RefillBeat
  /\ C1Stage(rsp_rdy, FALSE, FALSE, NoReq)
  /\ UNCHANGED <<state, tag_arry, vld, dry, plru, miss, wbusVars, rbus_vld, mem>>

\* The last refill beat installs the tag, makes the way valid (and dirty, for a
\* store; the dirty bit of the replaced line is not cleared otherwise) and
\* answers the request.
RbusDone(rsp_rdy) ==
  LET i == miss.req.idx
      w == miss.way
  IN /\ rcnt = 3
     /\ RefillBeat
     /\ state' = "NORM"
     /\ rbus_vld' = FALSE
     /\ tag_arry' = [tag_arry EXCEPT ![i][w] = miss.req.tag]
     /\ vld' = [vld EXCEPT ![i] = @ \cup {w}]
     /\ dry' = dry_up(i, w, miss.req.wen)
     /\ plru' = [plru EXCEPT ![i] = plru_up(@, w)]
     /\ miss' = NoMiss
     /\ C1Stage(rsp_rdy, FALSE, TRUE, miss.req)
     /\ UNCHANGED <<wbusVars, mem>>

Next ==
  \E rsp_rdy \in BOOLEAN :
    \/ NoRequest(rsp_rdy)
    \/ \E r \in Reqs : \/ \E w \in Ways : ReqHit(r, w, rsp_rdy)
                       \/ ReqMiss(r, rsp_rdy)
    \/ WbusFetch(rsp_rdy)
    \/ WbusBeat(rsp_rdy)
    \/ RbusBeat(rsp_rdy)
    \/ RbusDone(rsp_rdy)

Spec == Init /\ [][Next]_vars

\* The clock does not stop and the bus answers every beat it is offered.
MissStep ==
  \E rsp_rdy \in BOOLEAN :
    WbusFetch(rsp_rdy) \/ WbusBeat(rsp_rdy) \/ RbusBeat(rsp_rdy) \/ RbusDone(rsp_rdy)

FairSpec == Spec /\ WF_vars(MissStep)

-----------------------------------------------------------------------------
(* Properties.                                                               *)

\* Type invariant: the registers keep the widths the source declares.
TypeOK ==
  /\ state \in {"NORM", "WBUS", "RBUS"}
  /\ tag_arry \in [Idxs -> [Ways -> Tags]]
  /\ vld \in [Idxs -> SUBSET Ways] /\ dry \in [Idxs -> SUBSET Ways]
  /\ plru \in [Idxs -> SUBSET (0 .. 2)]
  /\ ram \in [Idxs -> [Ways -> Line]] /\ ram_rdata \in Word
  /\ miss \in Miss \cup {NoMiss}
  /\ wcnt \in 0 .. 3 /\ rram_cnt \in 0 .. 3 /\ rcnt \in 0 .. 3
  /\ wbus_en_ff \in BOOLEAN /\ wbus_vld \in BOOLEAN /\ rbus_vld \in BOOLEAN
  /\ vld_c1 \in BOOLEAN /\ rbus_done_ff \in BOOLEAN /\ data_of_bus \in Word
  /\ mem \in [Idxs -> [Tags -> Line]]
  /\ c1_req \in Request \cup {NoReq}

\* way_hit is one-hot: no two valid ways of a set hold the same tag.  The
\* OR-multiplexers of the read data and the per-way write selects rely on it.
OneHotHit ==
  \A i \in Idxs : \A v, w \in vld[i] : tag_arry[i][v] = tag_arry[i][w] => v = w

\* The way whose RAM a refill is overwriting; its tag still names the old line.
Refilling(i, w) == state = "RBUS" /\ miss.req.idx = i /\ miss.way = w

\* Write-back loses nothing: a valid line without the dirty bit equals memory,
\* except in the way a refill is overwriting.
CleanMatchesMemory ==
  \A i \in Idxs : \A w \in vld[i] \ dry[i] :
    ~Refilling(i, w) => ram[i][w] = mem[i][tag_arry[i][w]]

\* Pseudo-LRU replacement never picks the line used last: the line that holds
\* the address being answered is not the victim the next miss of its set takes.
AnsweredLineNotVictim ==
  vld_c1 => way_vic(plru[c1_req.idx]) \notin way_hit(c1_req.idx, c1_req.tag)

\* The inductive invariant behind the properties above, one clause per phase of
\* a miss.  Idle: both engines are at rest.
IdleInv ==
  state = "NORM" =>
    /\ ~wbus_en_ff /\ ~wbus_vld /\ ~rbus_vld
    /\ wcnt = 0 /\ rram_cnt = 0 /\ rcnt = 0

\* Write-back: the read pointer is one beat ahead of the bus, and the beats
\* behind wcnt are in memory.
WbusInv ==
  state = "WBUS" =>
    LET i == miss.req.idx
        w == miss.way
    IN /\ ~rbus_vld /\ rcnt = 0 /\ (wbus_en_ff <=> ~wbus_vld)
       /\ w \in vld[i] /\ miss.vic_tag = tag_arry[i][w]
       /\ wbus_en_ff => wcnt = 0 /\ rram_cnt = 0
       /\ wbus_vld => /\ rram_cnt = beat_up(wcnt)
                      /\ ram_rdata = ram[i][w][wcnt]
       /\ \A b \in Banks : b < wcnt => mem[i][miss.vic_tag][b] = ram[i][w][b]

\* Bank b of the missing line once the request has been performed on it.
Refilled(b) ==
  LET q == miss.req
  IN IF q.wen /\ b = q.bank THEN Merge(q.wmask, q.wdata, mem[q.idx][q.tag][b])
     ELSE mem[q.idx][q.tag][b]

\* Refill: the beats behind rcnt are in the RAM, and the word a load asked for
\* has been captured if its beat has passed.
RbusInv ==
  state = "RBUS" =>
    LET q == miss.req
    IN /\ ~wbus_en_ff /\ ~wbus_vld /\ rbus_vld
       /\ wcnt = 0 /\ rram_cnt = 0
       /\ \A b \in Banks : b < rcnt => ram[q.idx][miss.way][b] = Refilled(b)
       /\ ~q.wen /\ q.bank < rcnt => data_of_bus = mem[q.idx][q.tag][q.bank]

\* A miss: the response stage is empty and the missing line is in no way.
MissInv ==
  /\ state = "NORM" <=> miss = NoMiss
  /\ state # "NORM" =>
       /\ ~vld_c1 /\ ~rbus_done_ff
       /\ miss.req \in Reqs
       /\ way_hit(miss.req.idx, miss.req.tag) = {}

\* The response stage: the line answered from is resident, and the data offered
\* for a load are the word it asked for.
AnswerInv ==
  /\ vld_c1 <=> c1_req # NoReq
  /\ rbus_done_ff => vld_c1
  /\ vld_c1 =>
       /\ c1_req \in Reqs
       /\ \E w \in way_hit(c1_req.idx, c1_req.tag) :
            c1_req.wen \/ o_mem_rdata = ram[c1_req.idx][w][c1_req.bank]

IInv ==
  /\ TypeOK /\ OneHotHit /\ CleanMatchesMemory /\ AnsweredLineNotVictim
  /\ IdleInv /\ WbusInv /\ RbusInv /\ MissInv /\ AnswerInv

\* The contents of the cached memory as its master sees them: the line in the
\* way that holds it, else the line in memory.
Holding(i, t) == {w \in way_hit(i, t) : ~Refilling(i, w)}

LogicalMem ==
  [i \in Idxs |-> [t \in Tags |->
    IF Holding(i, t) = {} THEN mem[i][t]
    ELSE ram[i][CHOOSE w \in Holding(i, t) : TRUE]]]

Pending  == IF miss = NoMiss THEN NoReq ELSE miss.req

Response ==
  IF ~vld_c1 THEN NoReq
  ELSE [req |-> c1_req, data |-> IF c1_req.wen THEN NoReq ELSE o_mem_rdata]

Atomic ==
  INSTANCE AtomicMemory WITH
    NoRsp <- NoReq, Ack <- NoReq,
    amem <- LogicalMem, pend <- Pending, rsp <- Response

\* The cache and its memory implement an atomic memory: every load returns the
\* word stored last, stores touch nothing but their lanes, every request is
\* answered once and an answer does not change while it is offered.
ImplementsAtomicMemory == Atomic!ASpec

\* Every miss is answered, after however many bus beats it takes.
MissAnswered == (miss # NoMiss) ~> vld_c1
=============================================================================
