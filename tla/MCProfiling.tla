---------------------------- MODULE MCProfiling ----------------------------
(***************************************************************************)
(* Instance of Profiling: runs with and without markers, with markers that *)
(* are refused, with and without a trace, and the samples that tell the    *)
(* observers apart.                                                        *)
(***************************************************************************)
EXTENDS Profiling

Unset == [valid |-> FALSE, value |-> 0]
Pc(n) == [valid |-> TRUE, value |-> n]

Retires(n) == [sign |-> TRUE, pc |-> n, intr |-> FALSE, device |-> FALSE]
Bubble == [Retires(0) EXCEPT !.sign = FALSE]

Lw(a) == [opcode |-> "load", rd |-> 1, address |-> a, device |-> FALSE, funct3 |-> 2, funct7 |-> 0]
Ld(a) == [Lw(a) EXCEPT !.device = TRUE]
Mul == [Lw(0) EXCEPT !.opcode = "op", !.funct3 = 0, !.funct7 = 1]

\* Consumers of register 1, through either operand.
Consumer(address) ==
  CASE address = 1 -> [opcode |-> "store", rs1 |-> 2, rs2 |-> 1, funct3 |-> 3]
    [] address = 2 -> [opcode |-> "system", rs1 |-> 1, rs2 |-> 0, funct3 |-> 1]
    [] OTHER -> [opcode |-> "branch", rs1 |-> 1, rs2 |-> 1, funct3 |-> 0]

S(sig, address, producer) ==
  [sig |-> sig, address |-> address, producer |-> producer,
   consumer |-> Consumer(producer.address)]
Load == {"dcache_access", "dcache_load_access"}
Stall == {"dcache_total_stall", "dcache_memory_wait", "dcache_miss_stall"}
Wait == {"dependency", "load_use_stall"}

Quiet == S({}, 0, Mul)

\* Loads whose results are waited for: with the D-cache idle behind a device
\* access, with the D-cache busy, served at once, from a device; a product.
Dependencies ==
  {Quiet, S(Wait, 0, Lw(1)), S(Wait \cup {"dcache_miss"} \cup Load, 1, Lw(1)),
   S(Wait \cup Stall, 0, Lw(1)), S(Wait, 0, Ld(3)), S(Wait, 0, Mul)}

\* Loads of two addresses, also flushed and executed again.
TwoLoads ==
  {Quiet, S(Wait, 0, Lw(1)), S(Wait, 0, Lw(2)), S(Wait \cup {"dcache_miss"} \cup Load, 1, Lw(1)),
   S(Wait \cup {"dcache_miss"} \cup Load, 2, Lw(2)), S({"dcache_hit"} \cup Load, 1, Mul),
   S(Wait \cup Stall, 0, Lw(1))}

\* Cache events that overlap each other and the other stalls.
Caches ==
  {S({"icache_access", "icache_miss", "divider", "divider_wait"}, 0, Mul),
   S({"icache_miss_stall", "icache_total_stall", "icache_wait", "branch_recovery",
      "flush_branch"}, 0, Mul),
   S({"dcache_access", "dcache_store_access", "dcache_miss", "dcache_dirty_eviction",
      "icache_access", "icache_hit"}, 2, Mul),
   S({"dcache_writeback_stall", "divider"} \cup Stall, 0, Mul)}

Branches ==
  {Quiet, S({"predictor_update", "predictor_lookup"}, 0, Mul),
   S({"predictor_update", "conditional_branch_resolved", "flush_branch"}, 0, Mul)}

Env(out, trace, traceable, start, end, writebacks, samples) ==
  [out |-> out, trace |-> trace, traceable |-> traceable, start |-> start, end |-> end,
   writebacks |-> writebacks, samples |-> samples]

Markers == {Bubble, Retires(1), Retires(2)}

MCEnvs ==
  {Env("path", TRUE, TRUE, Pc(1), Pc(2), Markers, Dependencies),
   Env("path", FALSE, FALSE, Unset, Unset, {Bubble}, TwoLoads),
   Env("path", TRUE, TRUE, Pc(1), Pc(2), Markers, Caches),
   Env("path", FALSE, FALSE, Pc(1), Pc(2), Markers \cup {[Retires(3) EXCEPT !.intr = TRUE]}, Branches),
   Env("path", TRUE, FALSE, Unset, Unset, {Bubble, Retires(1)}, Branches),
   Env("path", TRUE, TRUE, Pc(1), Pc(1), {Retires(1)}, Caches),
   Env("path", TRUE, TRUE, Pc(1), Unset, {Retires(1)}, Caches),
   Env("empty", FALSE, TRUE, Unset, Unset, {Bubble}, Branches),
   Env("unset", TRUE, TRUE, Pc(1), Pc(2), {Retires(1), Retires(2)}, Caches)}
=============================================================================
