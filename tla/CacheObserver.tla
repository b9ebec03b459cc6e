--------------------------- MODULE CacheObserver ---------------------------
(***************************************************************************)
(* The cache observer, models/cache/monitor/cache_observer.cpp: counters   *)
(* of cache events and an exclusive label for every cycle of the region of *)
(* interest, and a trace of D-cache accesses from reset to the end of the  *)
(* region.  Its globals are one record o, a sample is the set s of the     *)
(* signals that are high.  A trace row keeps its phase and its cycle.      *)
(***************************************************************************)
EXTENDS Naturals, Sequences

Events ==
  {"icache_access", "icache_hit", "icache_miss", "icache_refill_start",
   "icache_refill_complete", "icache_miss_stall", "icache_total_stall",
   "dcache_access", "dcache_load_access", "dcache_store_access", "dcache_hit",
   "dcache_miss", "dcache_refill_start", "dcache_refill_complete",
   "dcache_dirty_eviction", "dcache_writeback_start", "dcache_writeback_complete",
   "dcache_miss_stall", "dcache_writeback_stall", "dcache_total_stall"}

\* Counters of two signals that are high together.
Derived == {"dcache_load_hit", "dcache_load_miss", "dcache_store_hit", "dcache_store_miss"}

Labels == {"dcache", "divider", "branch", "dependency", "icache", "other"}

Bit(b) == IF b THEN 1 ELSE 0
Zero(S) == [x \in S |-> 0]

-----------------------------------------------------------------------------
collecting(o) == o.output /\ (~o.roi_requested \/ o.roi_active)

reset_counts(o) ==
  [o EXCEPT !.cycles = 0, !.writeback_observations = 0,
            !.counts = Zero(Events \cup Derived), !.exclusive = Zero(Labels)]

parse_u64_env(v, default) == IF v.valid THEN v.value ELSE default

\* env.out: CACHE_PROFILE_OUT is "unset", "empty" or a "path"; env.trace: a trace
\* file is named; env.traceable: it can be opened.  A bad pair of markers only
\* switches the counters off.
cache_observer_init(env) ==
  LET start == parse_u64_env(env.start, 0)
      end == parse_u64_env(env.end, 0)
      requested == env.start.valid \/ env.end.valid
      invalid == env.start.valid # env.end.valid \/ (requested /\ start = end)
  IN [output |-> env.out # "unset" /\ ~invalid, trace_file |-> env.trace /\ env.traceable,
      trace_open_failed |-> env.trace /\ ~env.traceable, trace |-> <<>>,
      trace_cycle |-> 0, roi_requested |-> requested, roi_active |-> ~requested,
      roi_started |-> ~requested, roi_ended |-> FALSE, roi_start_pc |-> start,
      roi_end_pc |-> end, cycles |-> 0, writeback_observations |-> 0,
      counts |-> Zero(Events \cup Derived), exclusive |-> Zero(Labels)]

\* Mutant: the region never ends.
Mut_cache_observer_update_roi(o, wb) ==
  IF ~o.output \/ ~o.roi_requested \/ ~wb.sign THEN o
  ELSE IF ~o.roi_started /\ wb.pc = o.roi_start_pc
  THEN [reset_counts(o) EXCEPT !.roi_started = TRUE, !.roi_active = TRUE]
  ELSE o

cache_observer_update_roi(o, wb) ==
  IF ~o.output \/ ~o.roi_requested \/ ~wb.sign THEN o
  ELSE IF ~o.roi_started /\ wb.pc = o.roi_start_pc
  THEN [reset_counts(o) EXCEPT !.roi_started = TRUE, !.roi_active = TRUE]
  ELSE IF o.roi_active /\ wb.pc = o.roi_end_pc
  THEN [o EXCEPT !.roi_active = FALSE, !.roi_ended = TRUE]
  ELSE o

cache_observer_cycle(o) ==
  [o EXCEPT !.trace_cycle = @ + Bit(o.trace_file /\ ~o.roi_ended),
            !.cycles = @ + Bit(collecting(o))]

-----------------------------------------------------------------------------
\* Mutant: rows of the region are labelled as soon as a trace is open.
Mut_Trace(o, s) ==
  IF o.trace_file /\ ~o.roi_ended /\ "dcache_access" \in s
  THEN Append(o.trace, [cycle |-> o.trace_cycle, phase |-> "ROI"])
  ELSE o.trace

Trace(o, s) ==
  IF o.trace_file /\ ~o.roi_ended /\ "dcache_access" \in s
  THEN Append(o.trace, [cycle |-> o.trace_cycle,
                        phase |-> IF o.roi_active THEN "ROI" ELSE "PRE_ROI"])
  ELSE o.trace

\* Whether the sample adds to counter c.
Counted(s, c) ==
  CASE c = "dcache_load_hit"   -> {"dcache_hit", "dcache_load_access"} \subseteq s
    [] c = "dcache_load_miss"  -> {"dcache_miss", "dcache_load_access"} \subseteq s
    [] c = "dcache_store_hit"  -> {"dcache_hit", "dcache_store_access"} \subseteq s
    [] c = "dcache_store_miss" -> {"dcache_miss", "dcache_store_access"} \subseteq s
    [] OTHER -> c \in s

Label(s) ==
  IF "dcache_total_stall" \in s THEN "dcache"
  ELSE IF "divider" \in s THEN "divider"
  ELSE IF "branch_recovery" \in s THEN "branch"
  ELSE IF "dependency" \in s THEN "dependency"
  ELSE IF "icache_total_stall" \in s THEN "icache"
  ELSE "other"

cache_observer_sample(o, s) ==
  LET t == [o EXCEPT !.trace = Trace(o, s)]
  IN IF ~collecting(t) THEN t
     ELSE [t EXCEPT !.counts = [c \in Events \cup Derived |-> t.counts[c] + Bit(Counted(s, c))],
                    !.exclusive = [t.exclusive EXCEPT ![Label(s)] = @ + 1]]

\* The markers themselves are not observations.
cache_observer_sample_writeback(o, wb) ==
  IF ~collecting(o) \/ ~wb.sign \/ (o.roi_requested /\ wb.pc \in {o.roi_start_pc, o.roi_end_pc})
  THEN o ELSE [o EXCEPT !.writeback_observations = @ + 1]

-----------------------------------------------------------------------------
exclusive_sum(o) ==
  o.exclusive["dcache"] + o.exclusive["divider"] + o.exclusive["branch"]
  + o.exclusive["dependency"] + o.exclusive["icache"] + o.exclusive["other"]

invariant_ok(o) ==
  LET n == o.counts
  IN /\ n["icache_access"] = n["icache_hit"] + n["icache_miss"]
     /\ n["dcache_access"] = n["dcache_load_access"] + n["dcache_store_access"]
     /\ n["dcache_access"] = n["dcache_hit"] + n["dcache_miss"]
     /\ n["dcache_load_access"] = n["dcache_load_hit"] + n["dcache_load_miss"]
     /\ n["dcache_store_access"] = n["dcache_store_hit"] + n["dcache_store_miss"]
     /\ exclusive_sum(o) = o.cycles

roi_valid(o) == ~o.roi_requested \/ (o.roi_started /\ o.roi_ended)

\* The status returned; opened: CACHE_PROFILE_OUT could be opened.
cache_observer_finalize(o, opened) ==
  IF ~o.output THEN Bit(o.trace_open_failed)
  ELSE Bit(~(opened /\ roi_valid(o) /\ invariant_ok(o) /\ ~o.trace_open_failed))
=============================================================================
