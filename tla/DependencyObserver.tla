------------------------- MODULE DependencyObserver -------------------------
(***************************************************************************)
(* The dependency observer, sim/csrc/dependency_observer.cpp: the stalls   *)
(* of the region of interest that only a data dependency explains, grouped *)
(* into episodes, each with the instruction that produces the operand and, *)
(* for a load, whether it hit the D-cache.  Its globals are one record o.  *)
(* A sample has the set sig of the signals that are high, the address of   *)
(* the D-cache access, the producer in EX and the consumer in ID.          *)
(* Addresses are those of the 8-byte words the comparison masks out.       *)
(***************************************************************************)
EXTENDS Naturals, Sequences

Bit(b) == IF b THEN 1 ELSE 0

\* An instruction keeps the fields the observer decodes.
is_load(inst) == inst.opcode = "load"

is_multiply(inst) == inst.opcode \in {"op", "op32"} /\ inst.funct7 = 1 /\ inst.funct3 <= 3

operand_use(inst) ==
  CASE inst.opcode \in {"op", "op32", "store", "branch"} -> {"rs1", "rs2"}
    [] inst.opcode \in {"load", "opimm", "opimm32", "jalr"} -> {"rs1"}
    [] inst.opcode = "system" -> IF inst.funct3 \in 1..3 THEN {"rs1"} ELSE {}
    [] OTHER -> {}

\* The operands of inst that register rd supplies: {} is Source::kFalse and
\* both operands Source::kBoth.
classify_source(inst, rd) ==
  {r \in operand_use(inst) : rd # 0 /\ inst[r] = rd}

producer_class(inst) ==
  IF is_load(inst) THEN "LOAD" ELSE IF is_multiply(inst) THEN "MUL" ELSE "OTHER"

-----------------------------------------------------------------------------
reset_profile(o) ==
  [o EXCEPT !.roi_cycles = 0, !.previous_exclusive = FALSE, !.episodes = <<>>]

parse_u64_env(v, default) == IF v.valid THEN v.value ELSE default

\* out: DEPENDENCY_PROFILE_OUT is "unset", "empty" or a "path".
dependency_observer_init(out) ==
  [enabled |-> out = "path", roi_requested |-> FALSE, roi_active |-> out = "path",
   roi_started |-> out = "path",
   roi_ended |-> FALSE, roi_start_pc |-> 0, roi_end_pc |-> 0, roi_cycles |-> 0,
   previous_exclusive |-> FALSE, episodes |-> <<>>]

dependency_observer_init_from_env(env) ==
  LET o == dependency_observer_init(env.out)
      start == parse_u64_env(env.start, 0)
      end == parse_u64_env(env.end, 0)
      requested == env.start.valid \/ env.end.valid
      e == [o EXCEPT !.roi_start_pc = start, !.roi_end_pc = end, !.roi_requested = requested]
  IN IF ~o.enabled THEN o
     ELSE IF env.start.valid # env.end.valid \/ (env.start.valid /\ start = end)
     THEN [e EXCEPT !.enabled = FALSE]
     ELSE [e EXCEPT !.roi_active = ~requested, !.roi_started = ~requested]

dependency_observer_begin_roi(o) ==
  IF ~o.enabled THEN o
  ELSE [reset_profile(o) EXCEPT !.roi_started = TRUE, !.roi_active = TRUE, !.roi_ended = FALSE]

dependency_observer_end_roi(o) ==
  IF ~o.enabled THEN o
  ELSE [o EXCEPT !.roi_active = FALSE, !.roi_ended = TRUE, !.previous_exclusive = FALSE]

dependency_observer_update_roi(o, wb) ==
  IF ~o.enabled \/ ~o.roi_requested \/ ~wb.sign THEN o
  ELSE IF ~o.roi_started /\ wb.pc = o.roi_start_pc THEN dependency_observer_begin_roi(o)
  ELSE IF o.roi_active /\ wb.pc = o.roi_end_pc THEN dependency_observer_end_roi(o)
  ELSE o

dependency_observer_cycle(o) ==
  IF o.enabled /\ o.roi_active THEN [o EXCEPT !.roi_cycles = @ + 1] ELSE o

-----------------------------------------------------------------------------
\* Mutant: a cycle in which the D-cache stalls counts as a dependency.
Mut_Exclusive(o, s) ==
  /\ o.roi_active /\ "dependency" \in s.sig
  /\ s.sig \cap {"divider", "branch_recovery"} = {}

Exclusive(o, s) ==
  /\ o.roi_active /\ "dependency" \in s.sig
  /\ s.sig \cap {"dcache_total_stall", "divider", "branch_recovery"} = {}

NewEpisode(o, s) ==
  LET class == producer_class(s.producer)
      source == classify_source(s.consumer, s.producer.rd)
  IN [first_cycle |-> o.roi_cycles, cycles |-> 0, producer_class |-> class,
      producer_address |-> s.producer.address, source |-> source,
      load_outcome |-> IF class = "LOAD" /\ source # {} THEN "PENDING" ELSE "NOT_LOAD"]

\* Mutant: an access settles the last episode that waits for it.
Mut_Settled(eps, s) ==
  {i \in DOMAIN eps :
    /\ "dcache_load_access" \in s.sig
    /\ eps[i].load_outcome = "PENDING"
    /\ \A j \in DOMAIN eps : j > i => eps[j].load_outcome # "PENDING"}

\* The episode a D-cache access settles: the first that waits for its address.
Settled(eps, s) ==
  LET waiting(i) == /\ "dcache_load_access" \in s.sig
                    /\ eps[i].load_outcome = "PENDING"
                    /\ eps[i].producer_address = s.address
  IN {i \in DOMAIN eps : waiting(i) /\ \A j \in 1..(i - 1) : ~waiting(j)}

Begins(o, s) == Exclusive(o, s) /\ ~o.previous_exclusive

dependency_observer_sample(o, s) ==
  LET begun == IF Begins(o, s) THEN Append(o.episodes, NewEpisode(o, s)) ELSE o.episodes
      longer == IF Exclusive(o, s) THEN [begun EXCEPT ![Len(begun)].cycles = @ + 1] ELSE begun
      outcome == IF "dcache_hit" \in s.sig THEN "HIT" ELSE "MISS"
  IN IF ~o.enabled THEN o
     ELSE [o EXCEPT !.previous_exclusive = Exclusive(o, s),
                    !.episodes = [i \in DOMAIN longer |->
                       IF i \in Settled(longer, s)
                       THEN [longer[i] EXCEPT !.load_outcome = outcome] ELSE longer[i]]]

-----------------------------------------------------------------------------
dependency_cycles(o) ==
  LET sum[i \in 0..Len(o.episodes)] == IF i = 0 THEN 0 ELSE sum[i - 1] + o.episodes[i].cycles
  IN sum[Len(o.episodes)]

\* The loads without an outcome that the profile counts.
unresolved(o) ==
  {i \in DOMAIN o.episodes :
    LET e == o.episodes[i]
    IN e.producer_class = "LOAD" /\ e.source # {} /\ e.load_outcome \notin {"HIT", "MISS"}}

\* The status returned; opened: the profile could be opened.
dependency_observer_finalize(o, opened) ==
  IF ~o.enabled THEN 0
  ELSE Bit(~(/\ opened
             /\ ~o.roi_requested \/ (o.roi_started /\ o.roi_ended)
             /\ unresolved(o) = {}))
=============================================================================
