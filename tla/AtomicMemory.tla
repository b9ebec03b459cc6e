---------------------------- MODULE AtomicMemory ----------------------------
(***************************************************************************)
(* What a memory port promises its master: one request at a time is        *)
(* accepted, performed atomically on a flat memory at one instant, and     *)
(* answered once; the answer of a load is the word the memory held at that *)
(* instant and does not change while it is offered.  There is no cache, no *)
(* bus and no latency bound here.                                          *)
(***************************************************************************)
CONSTANTS
  Lanes,   \* byte lanes of a word
  Reqs,    \* requests: records with fields wen, tag, idx, bank, wdata, wmask
  MemInits,  \* initial contents
  NoReq, NoRsp, Ack

VARIABLES
  amem,    \* amem[i][t][b]: the flat memory
  pend,    \* the request accepted and not yet performed, or NoReq
  rsp      \* the answer offered to the master, or NoRsp

avars == <<amem, pend, rsp>>

Put(mask, new, old) == [l \in Lanes |-> IF l \in mask THEN new[l] ELSE old[l]]

\* Request r is performed and its answer offered.
Perform(r) ==
  /\ rsp' = [req |-> r, data |-> IF r.wen THEN Ack ELSE amem[r.idx][r.tag][r.bank]]
  /\ amem' = IF r.wen
             THEN [amem EXCEPT ![r.idx][r.tag][r.bank] = Put(r.wmask, r.wdata, @)]
             ELSE amem

AInit == amem \in MemInits /\ pend = NoReq /\ rsp = NoRsp

\* A request may be accepted in the cycle in which the previous answer is
\* taken, and performed at once or later.
Accept(r) ==
  /\ pend = NoReq
  /\ \/ pend' = NoReq /\ Perform(r)
     \/ pend' = r /\ rsp' = NoRsp /\ UNCHANGED amem

Complete ==
  /\ pend # NoReq
  /\ pend' = NoReq
  /\ Perform(pend)

Take ==
  /\ rsp # NoRsp
  /\ rsp' = NoRsp
  /\ UNCHANGED <<amem, pend>>

ANext == (\E r \in Reqs : Accept(r)) \/ Complete \/ Take

ASpec == AInit /\ [][ANext]_avars
=============================================================================
