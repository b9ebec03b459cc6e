-------------------------------- MODULE Sdb --------------------------------
(***************************************************************************)
(* The debugger in front of the simulator (sim/csrc/sdb.cpp): commands at  *)
(* a prompt, or in batch mode the command c alone.  c, si and q act on the *)
(* simulator, w and d on the pool of watchpoints, p on the static          *)
(* variables of the expressions.  The three groups share no state but      *)
(* those variables, so that a session uses one of them (Sessions), which   *)
(* keeps their state spaces apart.                                         *)
(***************************************************************************)
EXTENDS Simulator, Watchpoint, Expr, FiniteSets

CONSTANTS Steps,      \* arguments of si
          Watched,    \* expressions of w: sequences of tokens
          MaxPrints,  \* bound on p
          Asked       \* Asked[k]: expressions [tok, val] of the k-th p

VARIABLES
  session,  \* "batch", "run", "watch" or "print"
  phase,    \* "prompt", "exec", "exit", "crash"
  P,        \* watchpoints
  live,     \* history: watchpoints set and not deleted
  dels,     \* history: deletions
  S,        \* static variables of expr
  shown     \* what the commands p printed: [of, result]

sdbVars == <<session, phase, P, live, dels, S, shown>>
vars    == <<simVars, sdbVars>>

-----------------------------------------------------------------------------
At(s) == phase = "prompt" /\ session \in s

Execute(n) ==
  /\ cpu_exec(n) /\ phase' = "exec"
  /\ UNCHANGED <<session, P, live, dels, S, shown>>

cmd_c == At({"batch", "run"}) /\ Execute(Forever)

cmd_si == At({"run"}) /\ \E n \in Steps : Execute(n)

cmd_q ==
  /\ At({"run"}) /\ quit /\ phase' = "exit"
  /\ UNCHANGED <<session, P, live, dels, S, shown>>

\* End of input instead of a command.
rl_gets_NULL ==
  /\ At({"run"}) /\ phase' = "exit"
  /\ UNCHANGED <<simVars, session, P, live, dels, S, shown>>

cmd_w ==
  /\ At({"watch"})
  /\ \E e \in Watched :
       IF P.free_ = NULL THEN phase' = "crash" /\ UNCHANGED <<P, live, S>>
       ELSE LET r == expr(S, e)
            IN /\ P' = new_wp(P) /\ live' = live \cup {P.free_} /\ S' = r.S
               /\ phase' = IF r.crash THEN "crash" ELSE phase
  /\ UNCHANGED <<simVars, session, dels, shown>>

\* Without a free node free_wp follows a null pointer.
cmd_d ==
  /\ At({"watch"})
  /\ \E NO \in ListFrom(P, P.head) :
       IF P.free_ = NULL THEN phase' = "crash" /\ UNCHANGED <<P, live, dels>>
       ELSE P' = free_wp(P, NO) /\ live' = live \ {NO} /\ dels' = dels + 1 /\ UNCHANGED phase
  /\ UNCHANGED <<simVars, session, S, shown>>

cmd_p ==
  /\ At({"print"}) /\ Len(shown) < MaxPrints
  /\ \E e \in Asked[Len(shown) + 1] :
       LET r == expr(S, e.tok)
       IN IF r.crash THEN phase' = "crash" /\ UNCHANGED <<S, shown>>
          ELSE /\ S' = r.S /\ UNCHANGED phase
               /\ shown' = Append(shown, [of |-> e, result |-> r.result])
  /\ UNCHANGED <<simVars, session, P, live, dels>>

Loop == phase = "exec" /\ Iterate /\ UNCHANGED sdbVars

\* cpu_exec returns: to the prompt, in batch mode to main.
Return ==
  /\ phase = "exec" /\ left = 0
  /\ phase' = IF session = "batch" THEN "exit" ELSE "prompt"
  /\ UNCHANGED <<simVars, session, P, live, dels, S, shown>>

Init ==
  /\ SimInit /\ phase = "prompt" /\ session \in {"batch", "run", "watch", "print"}
  /\ P = init_wp_pool /\ live = {} /\ dels = 0 /\ S = NoText /\ shown = <<>>

Next == cmd_c \/ cmd_si \/ cmd_q \/ rl_gets_NULL \/ cmd_w \/ cmd_d \/ cmd_p \/ Loop \/ Return

\* In batch mode the program runs on, and the core completes instructions again
\* and again (see pipeline_live).
Advance == Loop /\ mem'.pc # NoPc /\ front'.pc # front.pc
FairSpec == Init /\ [][Next]_vars /\ WF_vars(Loop) /\ SF_vars(Advance)
            /\ WF_vars(Return) /\ WF_vars(session = "batch" /\ cmd_c)

-----------------------------------------------------------------------------
(* Properties.                                                                *)

\* The watchpoints listed are those set and not deleted; none of them is free
\* for the next w; both lists end.  Every deletion loses one free node.
WatchpointsKept ==
  LET used == ListFrom(P, P.head)
      free == ListFrom(P, P.free_)
  IN /\ EndsAtNull(P, P.head) /\ EndsAtNull(P, P.free_)
     /\ used = live /\ used \cap free = {}
     /\ Cardinality(used) + Cardinality(free) = NR_WP - dels

\* p prints the value of an expression under the precedences of the comment
\* at expr.cpp:42, whatever was printed before, as long as it has at most one
\* hexadecimal number and one register (WellDefined).
ValuePrinted == \A i \in DOMAIN shown : WellDefined(shown[i].of) => shown[i].result = shown[i].of.val

\* A program run in batch mode comes to an end: at its ebreak or at the first
\* mismatch.
BatchEnds == session = "batch" ~> phase = "exit"
=============================================================================
