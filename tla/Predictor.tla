------------------------------ MODULE Predictor ------------------------------
(***************************************************************************)
(* The predictors of the fetch unit: rtl/vsrc/ifu/rv64im_core_satcnt.sv    *)
(* (direction of conditional branches) and rv64im_core_ras.sv (return      *)
(* addresses), as EX trains them (exu/rv64im_core_alu.sv).  Predictions    *)
(* never decide what is executed (see Ifu and Pipeline), only how fast.    *)
(* A step is one clock edge.                                               *)
(***************************************************************************)
EXTENDS Naturals, Sequences

CONSTANTS
  SatDepth,  \* DEPTH of satcnt: 2^10 in the code
  RasBits,   \* BITS of ras: 5 in the code
  Targets    \* return addresses

\* (2^n is a natural number for every n; the proof backends cannot tell.)
ASSUME SizesAssumption ==
  SatDepth \in Nat \ {0} /\ RasBits \in Nat \ {0} /\ 2^RasBits \in Nat \ {0}

VARIABLES
  sat,   \* [sat_cnt, cnt_vld, cnt_val, pred_vld], and recent: the last two outcomes
         \* of each entry
  ras    \* [wptr, tgt_vld, ret_tgt], and calls: the calls not yet returned from,
         \* exact: every call and return so far was in EX for one cycle, none was both

LastEntry == SatDepth - 1
Entries   == 0 .. LastEntry

-----------------------------------------------------------------------------
(* Saturating counters.                                                      *)

\* The conditional branch in EX: bx_pc and bx_pt.
NoBranch == [pc |-> SatDepth]
Branches == [pc : Entries, pt : BOOLEAN]

\* Mutant: the counter wraps.
Mut_trained(n, pt) == IF pt THEN (n + 1) % 4 ELSE (n + 3) % 4

trained(n, pt) == IF pt THEN IF n = 3 THEN 3 ELSE n + 1
                  ELSE IF n = 0 THEN 0 ELSE n - 1

\* The last two outcomes: how many there are, the last and the one before it.
NoOutcome == [count |-> 0, last |-> FALSE, before |-> FALSE]
remember(o, pt) == [count |-> IF o.count = 0 THEN 1 ELSE 2, last |-> pt, before |-> o.last]

\* The generate loop stops one entry short: the last one is never trained, and
\* never reset either.  pred_pc is the address a fetch is sent for, if one is.
SatStep(bx, pred_pc) ==
  LET hit(i) == i = bx.pc /\ i # LastEntry
  IN sat' = [sat_cnt  |-> [i \in Entries |-> IF hit(i) THEN trained(sat.sat_cnt[i], bx.pt)
                                             ELSE sat.sat_cnt[i]],
             cnt_vld  |-> [i \in Entries |-> hit(i) \/ sat.cnt_vld[i]],
             cnt_val  |-> IF pred_pc \in Entries THEN sat.sat_cnt[pred_pc] ELSE sat.cnt_val,
             pred_vld |-> IF pred_pc \in Entries THEN sat.cnt_vld[pred_pc] ELSE sat.pred_vld,
             recent   |-> [i \in Entries |-> IF hit(i) THEN remember(sat.recent[i], bx.pt)
                                             ELSE sat.recent[i]]]

\* n and v: what the registers of the last entry hold when the simulation starts.
SatReset(n, v) ==
  [sat_cnt |-> [i \in Entries |-> IF i = LastEntry THEN n ELSE 2],
   cnt_vld |-> [i \in Entries |-> i = LastEntry /\ v],
   cnt_val |-> 0, pred_vld |-> FALSE, recent |-> [i \in Entries |-> NoOutcome]]

SatInit == \E n \in 0 .. 3, v \in BOOLEAN : sat = SatReset(n, v)

SatNext == \E bx \in Branches \cup {NoBranch}, pred_pc \in 0 .. SatDepth : SatStep(bx, pred_pc)

-----------------------------------------------------------------------------
(* Return addresses.                                                         *)

Depth == 2^RasBits
Slots == 0 .. Depth - 1

rptr == (ras.wptr + Depth - 1) % Depth
o_pop_vld == ras.tgt_vld[rptr]
o_pop_tgt == ras.ret_tgt[rptr]

\* Mutant: the pointer stops at the last slot.
Mut_wptr_next(push, pop) ==
  IF push /\ ~pop THEN IF ras.wptr = Depth - 1 THEN ras.wptr ELSE ras.wptr + 1
  ELSE IF pop /\ ~push THEN rptr ELSE ras.wptr

wptr_next(push, pop) ==
  IF push /\ ~pop THEN (ras.wptr + 1) % Depth
  ELSE IF pop /\ ~push THEN rptr ELSE ras.wptr

\* The last Depth elements.
Recent(s) == SubSeq(s, IF Len(s) > Depth THEN Len(s) - Depth + 1 ELSE 1, Len(s))

\* bx_if_push and bx_if_pop are those of the instruction in EX, in every cycle it
\* is there; `again' when it will be there in another cycle, held by a stall or
\* flushed by an interrupt and fetched anew.
RasStep(push, pop, tgt, again) ==
  ras' = [wptr    |-> wptr_next(push, pop),
          tgt_vld |-> [i \in Slots |-> IF push /\ ~pop /\ i = ras.wptr THEN TRUE
                                       ELSE IF pop /\ ~push /\ i = rptr THEN FALSE
                                       ELSE ras.tgt_vld[i]],
          ret_tgt |-> IF push THEN [ras.ret_tgt EXCEPT ![ras.wptr] = tgt] ELSE ras.ret_tgt,
          calls   |-> IF again THEN ras.calls
                      ELSE Recent((IF pop /\ ras.calls # <<>>
                                   THEN SubSeq(ras.calls, 1, Len(ras.calls) - 1)
                                   ELSE ras.calls) \o (IF push THEN <<tgt>> ELSE <<>>)),
          exact   |-> ras.exact /\ ~again /\ ~(push /\ pop)]

\* The slots have no reset.
RasReset(slots) ==
  [wptr |-> 0, tgt_vld |-> [i \in Slots |-> FALSE], ret_tgt |-> slots,
   calls |-> <<>>, exact |-> TRUE]

RasInit == \E slots \in [Slots -> Targets] : ras = RasReset(slots)

RasNext ==
  \E push, pop, again \in BOOLEAN, tgt \in Targets :
    (push \/ pop) /\ RasStep(push, pop, tgt, again)

-----------------------------------------------------------------------------
\* Two equal outcomes in a row decide the prediction of an entry, whatever came
\* before them; the entry is valid from its first branch on.
TwoOutcomesDecide ==
  \A i \in Entries \ {LastEntry} :
    LET o == sat.recent[i]
    IN /\ sat.cnt_vld[i] <=> o.count > 0
       /\ o.count = 2 /\ o.last = o.before => (sat.sat_cnt[i] >= 2) = o.last

\* A prediction, if there is one, is the return address of the innermost call
\* not yet returned from, across overflows and underflows of the stack, as
\* long as no call or return was in EX for two cycles (it would be pushed or popped
\* twice) and no jalr did both (it is pushed above the top, and not counted).
TopIsLastCall ==
  ras.exact => /\ o_pop_vld <=> ras.calls # <<>>
               /\ o_pop_vld => o_pop_tgt = ras.calls[Len(ras.calls)]
=============================================================================
