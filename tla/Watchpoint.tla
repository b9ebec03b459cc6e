---------------------------- MODULE Watchpoint ----------------------------
(***************************************************************************)
(* The pool of watchpoints of the debugger (sim/csrc/watchpoint.cpp): two  *)
(* lists, the watchpoints in use and the free ones, threaded through the   *)
(* `next' fields of one array.  P is [next, head, free_]; a node is its    *)
(* number NO.  What a node watches is left out.                            *)
(***************************************************************************)
EXTENDS Naturals

CONSTANTS NR_WP, NULL

ASSUME NR_WPAssumption == NR_WP \in Nat \ {0}

wp_pool == 0 .. NR_WP - 1

init_wp_pool ==
  [next  |-> [i \in wp_pool |-> IF i = NR_WP - 1 THEN NULL ELSE i + 1],
   head  |-> NULL,
   free_ |-> 0]

\* Both lists are walked along `next': the nodes of the list that starts at n.
\* A list has at most NR_WP nodes unless it is cyclic.
ListFrom(P, n) ==
  LET at[k \in 0 .. NR_WP] ==
        IF k = 0 THEN n ELSE IF at[k - 1] = NULL THEN NULL ELSE P.next[at[k - 1]]
  IN {at[k] : k \in 0 .. NR_WP} \ {NULL}

EndsAtNull(P, n) ==
  LET at[k \in 0 .. NR_WP] ==
        IF k = 0 THEN n ELSE IF at[k - 1] = NULL THEN NULL ELSE P.next[at[k - 1]]
  IN at[NR_WP] = NULL

\* Mutant: the new watchpoint forgets the ones set before.
Mut_new_wp(P) ==
  [P EXCEPT !.free_ = P.next[P.free_], !.next[P.free_] = NULL, !.head = P.free_]

\* The caller has made sure that there is a free node (assert).
new_wp(P) ==
  [P EXCEPT !.free_ = P.next[P.free_], !.next[P.free_] = P.head, !.head = P.free_]

\* wp is on the list of watchpoints in use.  The node goes to the front of the
\* free list, in the place of the node that was there.
free_wp(P, wp) ==
  LET unlinked == IF P.head = wp THEN [P EXCEPT !.head = P.next[wp]]
                  ELSE LET p2 == CHOOSE n \in ListFrom(P, P.head) : P.next[n] = wp
                       IN [P EXCEPT !.next[p2] = P.next[wp]]
  IN [unlinked EXCEPT !.next[wp] = P.next[P.free_], !.free_ = wp]
=============================================================================
