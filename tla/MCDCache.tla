------------------------------ MODULE MCDCache ------------------------------
(***************************************************************************)
(* Instance of DCache for TLC.  The cache moves words without looking at   *)
(* them, so one watched word that takes the values 0 and 1 in each lane,   *)
(* in a memory of zeros, shows every word that is lost or misplaced.       *)
(***************************************************************************)
EXTENDS DCache

CONSTANTS WatchTag, WatchBank, OtherBank, OtherTags

Zero == [l \in Lanes |-> 0]

Load(t, b) == [wen |-> FALSE, tag |-> t, idx |-> 0, bank |-> b,
               wdata |-> Zero, wmask |-> {}]
Store(t, b, m, d) == [Load(t, b) EXCEPT !.wen = TRUE, !.wmask = m, !.wdata = d]

MCTags == {WatchTag} \cup OtherTags
MCIdxs == {0}
MCMemInits == {[i \in Idxs |-> [t \in Tags |-> [b \in Banks |-> Zero]]]}
MCRamInits == {[i \in Idxs |-> [w \in Ways |-> [b \in Banks |-> [l \in Lanes |-> x]]]]
               : x \in Bytes}

\* One set, five tags in four ways: hits, clean and dirty evictions.
MCReqs ==
  {Load(WatchTag, WatchBank), Store(WatchTag, WatchBank, {1}, [k \in Lanes |-> 1])}
  \cup {Store(t, OtherBank, Lanes, Zero) : t \in OtherTags}
=============================================================================
