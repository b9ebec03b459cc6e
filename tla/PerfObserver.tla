---------------------------- MODULE PerfObserver ----------------------------
(***************************************************************************)
(* The cycle attribution observer,                                         *)
(* models/attribution/monitor/perf_observer.cpp.  Its globals are one      *)
(* record o; each function of its interface maps the record before the     *)
(* call to the record after it, so that a driver can string calls together *)
(* as a simulator cycle does.  A raw sample is the set s of the signals    *)
(* that are high; wb is a write-back: [sign, pc, intr, device].  Records   *)
(* of observations keep what orders and identifies them: the cycle they    *)
(* are stamped with and the identifier of their event.  The signal         *)
(* predictor_prediction stands for a fetch event of a conditional branch.  *)
(***************************************************************************)
EXTENDS Naturals, Sequences

RawCounters ==
  {"branch_resolved", "branch_direction_error", "jalr_target_error", "icache_miss",
   "dcache_miss", "icache_wait", "dcache_memory_wait", "load_use_stall",
   "divider_wait", "flush_event", "flush_branch", "flush_interrupt", "dependency_stall"}

\* Signals whose rising edges are counted as episodes.
Episodic ==
  {"load_use_stall", "flush_branch", "conditional_direction_recovery",
   "jalr_target_recovery", "other_recovery"}

Labels ==
  {"dcache_memory_wait", "divider_wait", "flush_branch", "load_use_stall",
   "icache_wait", "other_unclassified"}

Bit(b) == IF b THEN 1 ELSE 0
Zero(S) == [x \in S |-> 0]

-----------------------------------------------------------------------------
collecting(o) == o.output /\ (~o.roi_requested \/ o.roi_active)

\* The warm-up updates are not reset.
reset_counts(o) ==
  [o EXCEPT !.cycle_count = 0, !.wb_intr_count = 0, !.wb_device_count = 0,
            !.observations = <<>>, !.branches = <<>>, !.timeline = <<>>,
            !.raw = Zero(RawCounters), !.exclusive = Zero(Labels),
            !.episodes = Zero(Episodic), !.previous = {}]

\* The globals before perf_observer_init.
Static ==
  [output |-> FALSE, roi_requested |-> FALSE, roi_active |-> FALSE,
   roi_started |-> FALSE, roi_ended |-> FALSE, roi_start_pc |-> 0, roi_end_pc |-> 0,
   cycle_count |-> 0, wb_intr_count |-> 0, wb_device_count |-> 0,
   observations |-> <<>>, branches |-> <<>>, timeline |-> <<>>, warmup |-> <<>>,
   raw |-> Zero(RawCounters), exclusive |-> Zero(Labels),
   episodes |-> Zero(Episodic), previous |-> {}]

\* parse_u64_env: a variable that is unset or not a number leaves the global.
parse_u64_env(v, default) == IF v.valid THEN v.value ELSE default

\* env.out: PERF_RAW_OUT is "unset", "empty" or a "path"; env.start, env.end:
\* the marker variables.  An empty path stays behind as the output path.
perf_observer_init(env) ==
  LET requested == env.start.valid \/ env.end.valid
      o == [Static EXCEPT !.roi_requested = requested,
              !.roi_start_pc = parse_u64_env(env.start, @),
              !.roi_end_pc = parse_u64_env(env.end, @)]
  IN IF env.out # "path" THEN [Static EXCEPT !.output = (env.out = "empty")]
     ELSE IF \/ env.start.valid # env.end.valid
             \/ requested /\ o.roi_start_pc = o.roi_end_pc
     THEN o
     ELSE reset_counts([o EXCEPT !.output = TRUE, !.roi_active = ~requested,
                                 !.roi_started = ~requested])

\* Mutant: every start marker starts the region again.
Mut_perf_observer_update_roi(o, wb) ==
  IF ~o.output \/ ~o.roi_requested \/ ~wb.sign THEN o
  ELSE IF wb.pc = o.roi_start_pc
  THEN [reset_counts(o) EXCEPT !.roi_started = TRUE, !.roi_active = TRUE]
  ELSE IF o.roi_active /\ wb.pc = o.roi_end_pc
  THEN [o EXCEPT !.roi_active = FALSE, !.roi_ended = TRUE]
  ELSE o

perf_observer_update_roi(o, wb) ==
  IF ~o.output \/ ~o.roi_requested \/ ~wb.sign THEN o
  ELSE IF ~o.roi_started /\ wb.pc = o.roi_start_pc
  THEN [reset_counts(o) EXCEPT !.roi_started = TRUE, !.roi_active = TRUE]
  ELSE IF o.roi_active /\ wb.pc = o.roi_end_pc
  THEN [o EXCEPT !.roi_active = FALSE, !.roi_ended = TRUE]
  ELSE o

-----------------------------------------------------------------------------
\* The label of a cycle: the first that applies.
Label(s) ==
  IF "dcache_memory_wait" \in s THEN "dcache_memory_wait"
  ELSE IF "divider_wait" \in s THEN "divider_wait"
  ELSE IF "flush_branch" \in s THEN "flush_branch"
  ELSE IF "load_use_stall" \in s THEN "load_use_stall"
  ELSE IF "icache_wait" \in s THEN "icache_wait"
  ELSE "other_unclassified"

\* Mutant: updates in the region are kept as warm-up as well.
Mut_warmup_update(o, s, id) == o.output /\ o.roi_requested /\ "predictor_update" \in s

\* Updates before the region are kept apart, to warm a predictor model up.
warmup_update(o, s, id) ==
  o.output /\ o.roi_requested /\ ~o.roi_started /\ "predictor_update" \in s

\* Timeline records of one sample, in the order of the pushes.
Timeline(o, s, id) ==
  LET rec(k) == IF "predictor_" \o k \in s
                THEN <<[kind |-> k, cycle |-> o.cycle_count, id |-> id]>> ELSE <<>>
  IN rec("lookup") \o rec("prediction") \o rec("update")

Previous(s) == s \cap Episodic

\* id identifies the branch an event of this sample belongs to.
perf_observer_sample_raw(o, s, id) ==
  LET w == IF warmup_update(o, s, id) THEN [o EXCEPT !.warmup = Append(@, id)] ELSE o
  IN IF ~collecting(w) THEN w
     ELSE [w EXCEPT
             !.raw = [c \in RawCounters |-> @[c] + Bit(c \in s)],
             !.episodes = [e \in Episodic |-> @[e] + Bit(e \in s /\ e \notin w.previous)],
             !.branches = IF "conditional_branch_resolved" \in s
                          THEN Append(@, [cycle |-> w.cycle_count, id |-> id]) ELSE @,
             !.timeline = @ \o Timeline(w, s, id),
             !.previous = Previous(s),
             !.exclusive = [w.exclusive EXCEPT ![Label(s)] = @ + 1]]

\* Mutant: cycles are counted outside the region too.
Mut_perf_observer_cycle(o) == IF o.output THEN [o EXCEPT !.cycle_count = @ + 1] ELSE o

perf_observer_cycle(o) == IF collecting(o) THEN [o EXCEPT !.cycle_count = @ + 1] ELSE o

\* The markers themselves are not observations.
perf_observer_sample(o, wb) ==
  IF ~collecting(o) \/ ~wb.sign \/ (o.roi_requested /\ wb.pc \in {o.roi_start_pc, o.roi_end_pc})
  THEN o
  ELSE [o EXCEPT !.observations = Append(@, [cycle |-> o.cycle_count, pc |-> wb.pc]),
                 !.wb_intr_count = @ + Bit(wb.intr),
                 !.wb_device_count = @ + Bit(wb.device)]

-----------------------------------------------------------------------------
exclusive_cycle_sum(o) ==
  o.exclusive["dcache_memory_wait"] + o.exclusive["divider_wait"]
  + o.exclusive["flush_branch"] + o.exclusive["load_use_stall"]
  + o.exclusive["icache_wait"] + o.exclusive["other_unclassified"]

\* The report prints the counters and the records as they are, and what is
\* derived from them.  opened: the output path could be opened.
perf_observer_finalize(o, exit_status, opened) ==
  LET matches == exclusive_cycle_sum(o) = o.cycle_count
      completed == o.roi_requested /\ o.roi_started /\ o.roi_ended
  IN [report |-> IF o.output /\ opened THEN o ELSE Static,
      roi_valid |-> completed,
      exit_status |-> IF completed /\ ~matches THEN 1 ELSE exit_status,
      returns |-> IF ~o.output THEN 0 ELSE IF opened /\ matches THEN 0 ELSE 1]
=============================================================================
