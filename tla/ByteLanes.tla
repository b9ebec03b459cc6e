------------------------------ MODULE ByteLanes ------------------------------
(***************************************************************************)
(* Byte lanes of loads and stores: the aligned doubleword, the write mask  *)
(* and the extension of rtl/vsrc/mem/rv64im_core_ls.sv.  Bytes are moved   *)
(* and never computed with, except for the sign, so that a byte is its     *)
(* origin: byte k of register n, or byte k of memory.                      *)
(***************************************************************************)
EXTENDS Naturals, Sequences

CONSTANT MaxStores   \* stores before the load

VARIABLE ls   \* [mem, stores (history), load: NoLoad or [off, len, sign, data]]

Offsets == 0 .. 7            \* i_ls_mem_addr[2:0]
Lens    == {1, 2, 4, 8}      \* i_ls_mem_rw_len

Zero      == [sort |-> "zero"]
SignOf(b) == [sort |-> "sign", of |-> b]
Old(k)    == [sort |-> "mem", k |-> k]
Byte(n, k) == [sort |-> "rs2", n |-> n, k |-> k]

NoLoad == [len |-> 0]

\* str_index, addr_index: the offsets at which an access of a length has lanes.
indices(len) == {off \in Offsets : off % len = 0}

\* Mutant: the mask of a word covers the doubleword.
Mut_mem_wmask(off, len) ==
  IF off \in indices(len) THEN off .. (IF len = 4 THEN 7 ELSE off + len - 1) ELSE {}

mem_wmask(off, len) == IF off \in indices(len) THEN off .. off + len - 1 ELSE {}

\* Register n is the source of the n-th store.
mem_wdata(off, len, n) ==
  [i \in Offsets |-> IF off \in indices(len) /\ i \in off .. off + len - 1
                     THEN Byte(n, i - off) ELSE Zero]

\* A doubleword is loaded whole whatever its offset; the others are picked out
\* of the lanes of an aligned address, and are zero at any other.
memtord_data(mem, off, len, sign_ext) ==
  [i \in Offsets |->
     IF len = 8 THEN mem[i]
     ELSE IF off \notin indices(len) THEN Zero
     ELSE IF i < len THEN mem[off + i]
     ELSE IF sign_ext THEN SignOf(mem[off + len - 1]) ELSE Zero]

-----------------------------------------------------------------------------
\* The memory behind the mask (cache or bus) is external to the unit.
Store ==
  /\ Len(ls.stores) < MaxStores /\ ls.load = NoLoad
  /\ \E off \in Offsets, len \in Lens :
       LET n == Len(ls.stores) + 1
       IN ls' = [ls EXCEPT !.stores = Append(@, [off |-> off, len |-> len]),
                   !.mem = [i \in Offsets |-> IF i \in mem_wmask(off, len)
                                              THEN mem_wdata(off, len, n)[i] ELSE @[i]]]

\* sign_ext is not set for ld, whose length it would not matter to.
LoadBytes ==
  /\ ls.load = NoLoad
  /\ \E off \in Offsets, len \in Lens, sign_ext \in BOOLEAN :
       /\ sign_ext => len # 8
       /\ ls' = [ls EXCEPT !.load = [off |-> off, len |-> len, sign |-> sign_ext,
                                     data |-> memtord_data(ls.mem, off, len, sign_ext)]]

LanesInit == ls = [mem |-> [i \in Offsets |-> Old(i)], stores |-> <<>>, load |-> NoLoad]

LoadDone == ls.load # NoLoad /\ ls' = [ls EXCEPT !.load = NoLoad]

LanesNext == Store \/ LoadBytes \/ LoadDone

-----------------------------------------------------------------------------
\* Store s covers byte a: it is aligned and its bytes include a.
Covers(s, a) == s.off % s.len = 0 /\ s.off <= a /\ a < s.off + s.len

\* The stores of the history st that cover byte a, and what they leave there:
\* the byte of the last of them, else of memory.
Writers(st, a) == {n \in DOMAIN st : Covers(st[n], a)}
LastByte(st, a) ==
  IF Writers(st, a) = {} THEN Old(a)
  ELSE LET n == CHOOSE n \in Writers(st, a) : \A m \in Writers(st, a) : m <= n
       IN Byte(n, a - st[n].off)

\* A load of an aligned address returns, for each of its bytes, the byte of the
\* last aligned store that covered it, else of memory, and extends the last of
\* them; stores touch no other byte, and none at all at an address that is not
\* aligned (the core raises no exception for one).
LastStoreLoaded ==
  LET d == ls.load
  IN d # NoLoad /\ d.off % d.len = 0 =>
       \A i \in Offsets :
         d.data[i] = IF i < d.len THEN LastByte(ls.stores, d.off + i)
                     ELSE IF d.sign THEN SignOf(LastByte(ls.stores, d.off + d.len - 1)) ELSE Zero
=============================================================================
