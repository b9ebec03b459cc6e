----------------------------- MODULE GolProfile -----------------------------
(***************************************************************************)
(* What the two profiling harnesses of the Game of Life workload count:    *)
(* models/cache/gol_cache_profile_harness.cpp, and                         *)
(* models/loaduse_p1/gol_profile_harness.cpp, which adds the dependency    *)
(* observer to the same counters.  The harness object is one record h, the *)
(* observer's globals are dep.  A tick sees the sample s of the core after *)
(* a rising edge, with s.mark, the marker that executes in EX: "start",    *)
(* "stop" or "none".  The bus side of a tick is module GolBus.             *)
(***************************************************************************)
EXTENDS Naturals, Sequences

Dep == INSTANCE DependencyObserver

\* Counters that add up one signal each.
Signals ==
  {"icache_access", "icache_hit", "icache_miss", "icache_miss_stall",
   "icache_total_stall", "dcache_access", "dcache_load_access",
   "dcache_store_access", "dcache_hit", "dcache_miss", "dcache_dirty_eviction",
   "dcache_miss_stall", "dcache_writeback_stall", "dcache_total_stall"}

\* Signals whose edges are counted as starts and completions.
Stalls == {"icache_miss_stall", "dcache_miss_stall", "dcache_writeback_stall"}

Labels == {"dcache", "divider", "branch", "dependency", "icache", "other"}

Bit(b) == IF b THEN 1 ELSE 0
Zero(S) == [x \in S |-> 0]

\* The object as constructed; trace: a trace file was named.
Harness(trace) ==
  [roi |-> FALSE, roi_completed |-> FALSE, edges |-> 0, trace_file |-> trace,
   trace |-> <<>>, cycles |-> 0, values |-> Zero(Signals), started |-> Zero(Stalls),
   completed |-> Zero(Stalls), load_hits |-> 0, load_misses |-> 0, store_hits |-> 0,
   store_misses |-> 0, exclusive |-> Zero(Labels), previous |-> {}]

Label(s) ==
  IF "dcache_total_stall" \in s THEN "dcache"
  ELSE IF "divider" \in s THEN "divider"
  ELSE IF "branch_recovery" \in s THEN "branch"
  ELSE IF "dependency" \in s THEN "dependency"
  ELSE IF "icache_total_stall" \in s THEN "icache"
  ELSE "other"

Completed(h, s, x) == Bit(x \notin s /\ x \in h.previous)

Sample(h, s) ==
  LET both(a, b) == Bit(a \in s /\ b \in s)
  IN IF ~h.roi THEN h
     ELSE [h EXCEPT !.cycles = @ + 1,
            !.values = [x \in Signals |-> h.values[x] + Bit(x \in s)],
            !.started = [x \in Stalls |-> h.started[x] + Bit(x \in s /\ x \notin h.previous)],
            !.completed = [x \in Stalls |-> h.completed[x] + Completed(h, s, x)],
            !.load_hits = @ + both("dcache_hit", "dcache_load_access"),
            !.load_misses = @ + both("dcache_miss", "dcache_load_access"),
            !.store_hits = @ + both("dcache_hit", "dcache_store_access"),
            !.store_misses = @ + both("dcache_miss", "dcache_store_access"),
            !.exclusive = [h.exclusive EXCEPT ![Label(s)] = @ + 1]]

SampleTrace(h, s, phase) ==
  IF ~h.trace_file \/ h.roi_completed \/ "dcache_access" \notin s THEN h
  ELSE [h EXCEPT !.trace = Append(@, [cycle |-> h.edges, phase |-> phase])]

\* A tick of the cache harness.
Tick(h, s) ==
  LET e == [h EXCEPT !.edges = @ + 1]
      c == IF s.mark = "start" THEN [SampleTrace(e, s.sig, "PRE_ROI") EXCEPT !.roi = TRUE]
           ELSE Sample(SampleTrace(e, s.sig, IF e.roi THEN "ROI" ELSE "PRE_ROI"), s.sig)
      d == IF s.mark = "stop" THEN [c EXCEPT !.roi = FALSE, !.roi_completed = TRUE] ELSE c
  IN [d EXCEPT !.previous = s.sig \cap Stalls]

-----------------------------------------------------------------------------
\* The load-use harness starts its observer and closes the region at once.
DepHarness(out) == Dep!dependency_observer_end_roi(Dep!dependency_observer_init(out))

\* The calls of Sample in the load-use harness.
DepSample(h, dep, s) ==
  IF ~h.roi THEN dep
  ELSE Dep!dependency_observer_sample(Dep!dependency_observer_cycle(dep), s)

\* Its tick: what the cache harness does, and the calls of the observer.
DepTick(h, dep, s) ==
  LET d == IF s.mark = "start" THEN Dep!dependency_observer_begin_roi(dep)
           ELSE DepSample(h, dep, s)
  IN IF s.mark = "stop" THEN Dep!dependency_observer_end_roi(d) ELSE d

-----------------------------------------------------------------------------
invariants(h) ==
  LET n == h.values
  IN /\ n["icache_access"] = n["icache_hit"] + n["icache_miss"]
     /\ n["dcache_access"] = n["dcache_load_access"] + n["dcache_store_access"]
     /\ n["dcache_access"] = n["dcache_hit"] + n["dcache_miss"]
     /\ n["dcache_load_access"] = h.load_hits + h.load_misses
     /\ n["dcache_store_access"] = h.store_hits + h.store_misses

\* Verdict of Run, with functional what the marker events tell and measured
\* the cycles the program itself measured.
CacheRun(h, functional, measured) ==
  IF invariants(h) /\ functional /\ h.cycles = measured THEN 0 ELSE 2

ProfileRun(h, dep, functional, measured) ==
  IF /\ invariants(h) /\ functional /\ h.cycles = measured
     /\ Dep!dependency_observer_finalize(dep, TRUE) = 0
  THEN 0 ELSE 2
=============================================================================
