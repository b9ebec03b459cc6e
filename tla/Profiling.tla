----------------------------- MODULE Profiling -----------------------------
(***************************************************************************)
(* The observers at work.  In mode "sim" the simulator's loop (exec_once   *)
(* and single_cycle of sim/csrc/sim_main.cpp) drives the perf, cache and   *)
(* dependency observers; in mode "gol" the tick of a Game of Life harness  *)
(* drives the harness's own counters and the dependency observer.  A step  *)
(* is one clock cycle.  The core is what the observers see of it: a sample *)
(* of its signals per cycle, and the load that waits in EX.                *)
(***************************************************************************)
EXTENDS Naturals, Sequences

CONSTANTS
  Envs,          \* runs: the environment variables [out, trace, traceable, start,
                 \* end] and what the program shows: a set of writebacks [sign, pc,
                 \* intr, device] and of samples [sig, address, producer, consumer]
  MaxTicks       \* bound on the cycles of a run

VARIABLES
  mode, env,     \* driver and environment, chosen at the start
  perf, cache, dep,   \* globals of the three observers
  gol,           \* the Game of Life harness
  ex,            \* the load in EX that an instruction in ID waits for
  hist           \* history: what an exact observer would know

vars == <<mode, env, perf, cache, dep, gol, ex, hist>>

Perf  == INSTANCE PerfObserver
Cache == INSTANCE CacheObserver
Dep   == INSTANCE DependencyObserver
Gol   == INSTANCE GolProfile

Bit(b) == IF b THEN 1 ELSE 0

-----------------------------------------------------------------------------
(* The core, as rv64im_core_top.sv shows it to the observers. *)

\* Signals of one sample agree: the D-cache takes a request only when it does
\* not stall, a request is a load or a store, and it hits or misses.  A consumer
\* waits only for an operand it uses (rv64im_core_regfile.sv decodes the uses as
\* the observer does), and with its producer in EX neither a division nor a
\* branch is there.
CoreSample(s) ==
  /\ ("dcache_access" \in s.sig) = (s.sig \cap {"dcache_load_access", "dcache_store_access"} # {})
  /\ ~({"dcache_load_access", "dcache_store_access"} \subseteq s.sig)
  /\ ("dcache_access" \in s.sig) = (s.sig \cap {"dcache_hit", "dcache_miss"} # {})
  /\ ~({"dcache_hit", "dcache_miss"} \subseteq s.sig)
  /\ "dcache_access" \in s.sig => "dcache_total_stall" \notin s.sig
  /\ ("icache_access" \in s.sig) = (s.sig \cap {"icache_hit", "icache_miss"} # {})
  /\ ~({"icache_hit", "icache_miss"} \subseteq s.sig)
  /\ "dependency" \in s.sig => /\ Dep!classify_source(s.consumer, s.producer.rd) # {}
                               /\ s.sig \cap {"divider", "branch_recovery"} = {}

\* The types of an environment.
Pcs         == Nat
Marker      == [valid : BOOLEAN, value : Pcs]
Writeback   == [sign : BOOLEAN, pc : Pcs, intr : BOOLEAN, device : BOOLEAN]
Instruction == [opcode : STRING, rd : Nat, address : Nat, device : BOOLEAN, funct3 : Nat,
                funct7 : Nat]
Reader      == [opcode : STRING, rs1 : Nat, rs2 : Nat, funct3 : Nat]
CoreSignals == [sig : SUBSET STRING, address : Nat, producer : Instruction, consumer : Reader]

ASSUME EnvsAssumption ==
  Envs \subseteq [out : {"unset", "empty", "path"}, trace : BOOLEAN, traceable : BOOLEAN,
                  start : Marker, end : Marker, writebacks : SUBSET Writeback,
                  samples : SUBSET CoreSignals]

\* The core shows samples of this kind only, and the D-cache is never asked for
\* a device's address (cs in rv64im_core_top.sv).
ASSUME SamplesOfCore ==
  \A e \in Envs : \A s \in e.samples :
    /\ CoreSample(s)
    /\ "dcache_access" \in s.sig =>
         \A t \in e.samples : t.producer.device => t.producer.address # s.address

None == [waits |-> FALSE]

\* The D-cache serves the load that waits in EX in this cycle.
Served(s) == "dcache_load_access" \in s.sig /\ s.address = ex.address

\* An interrupt has emptied ID and EX: the load that waited there is gone and
\* is executed again, as another instruction, when its handler returns.
Flushed(s) == ex.waits /\ s.sig \cap {"dependency", "dcache_access"} = {}

\* Samples that can follow: while a load waits in EX only its own request
\* reaches the D-cache, and a D-cache seen idle stays idle until then, unless
\* the load is flushed.  The program of a harness enables no interrupt.
Follows(s) ==
  IF ex.waits
  THEN \/ mode = "sim" /\ Flushed(s)
       \/ /\ "dcache_access" \in s.sig => Served(s)
          /\ "dependency" \in s.sig => s.producer.opcode = "load" /\ ~s.producer.device
                                       /\ s.producer.address = ex.address
          /\ "dependency" \in s.sig \/ Served(s)
          /\ ex.idle => "dependency" \in s.sig /\ "dcache_total_stall" \notin s.sig
          /\ Served(s) => ("dependency" \in s.sig) = ("dcache_miss" \in s.sig)
  ELSE "dependency" \in s.sig /\ "dcache_access" \in s.sig
         => /\ {"dcache_load_access", "dcache_miss"} \subseteq s.sig
            /\ s.producer.opcode = "load" /\ ~s.producer.device
            /\ s.producer.address = s.address

\* The load that waits in EX after the cycle; begun is the number of the
\* episode that started in this cycle, or 0.
Waiting(s, begun) ==
  IF "dependency" \in s.sig /\ s.producer.opcode = "load" /\ ~s.producer.device
       /\ "dcache_access" \notin s.sig
  THEN [waits |-> TRUE, address |-> s.producer.address,
        idle |-> "dcache_total_stall" \notin s.sig,
        episode |-> IF begun # 0 THEN begun ELSE IF ex.waits THEN ex.episode ELSE 0]
  ELSE None

-----------------------------------------------------------------------------
(* The drivers. *)

\* perf_observer and cache_observer calls of a simulator cycle, in the order
\* their experiment notes give.
PerfCalls(o, wb, s) ==
  Perf!perf_observer_sample_raw(
    Perf!perf_observer_cycle(
      Perf!perf_observer_sample(Perf!perf_observer_update_roi(o, wb), wb)), s.sig, hist.ticks)

CacheCalls(o, wb, s) ==
  Cache!cache_observer_sample(
    Cache!cache_observer_cycle(
      Cache!cache_observer_sample_writeback(Cache!cache_observer_update_roi(o, wb), wb)), s.sig)

\* The marker is looked for in exec_once, before the cycle.
exec_once(o, wb) == Dep!dependency_observer_update_roi(o, wb)

single_cycle(o, s) == Dep!dependency_observer_sample(Dep!dependency_observer_cycle(o), s)

-----------------------------------------------------------------------------
(* History. *)

\* The window between the first start marker and the end marker after it.
Phase(h, wb) ==
  IF h.phase = "before" /\ wb.sign /\ wb.pc = env.start.value THEN "in"
  ELSE IF h.phase = "in" /\ env.start.valid /\ wb.sign /\ wb.pc = env.end.value THEN "after"
  ELSE h.phase

Begun(d) == IF Len(d.episodes) > Len(dep.episodes) THEN Len(d.episodes) ELSE 0

\* Outcomes of the loads the episodes of profile d began with.
Truth(s, d) ==
  LET outcome == IF "dcache_hit" \in s.sig THEN "HIT" ELSE "MISS"
      new == IF Begun(d) = 0 THEN hist.truth
             ELSE Append(hist.truth,
                    IF s.producer.opcode # "load" THEN "NOT_LOAD"
                    ELSE IF s.producer.device THEN "DEVICE"
                    ELSE IF "dcache_access" \in s.sig THEN outcome ELSE "PENDING")
  IN IF d.episodes = <<>> THEN <<>>
     ELSE IF ex.waits /\ Served(s) /\ ex.episode # 0 THEN [new EXCEPT ![ex.episode] = outcome]
     ELSE IF Flushed(s) /\ ex.episode # 0 THEN [new EXCEPT ![ex.episode] = "FLUSHED"]
     ELSE new

NoHistory ==
  [ticks |-> 0, phase |-> "before", window |-> 0, retired |-> 0, updates |-> <<>>,
   truth |-> <<>>, refilling |-> {}]

-----------------------------------------------------------------------------
InitSim ==
  /\ mode = "sim" /\ env \in Envs
  /\ perf = Perf!perf_observer_init(env)
  /\ cache = Cache!cache_observer_init(env)
  /\ dep = Dep!dependency_observer_init_from_env(env)
  /\ gol = Gol!Harness(FALSE)
  /\ hist = [NoHistory EXCEPT !.phase = IF env.start.valid THEN "before" ELSE "in"]

InitGol ==
  /\ mode = "gol" /\ env \in Envs
  /\ perf = Perf!Static
  /\ cache = Cache!cache_observer_init([env EXCEPT !.out = "unset", !.trace = FALSE])
  /\ dep = Gol!DepHarness(env.out)
  /\ gol = Gol!Harness(env.trace)
  /\ hist = NoHistory

Init == (InitSim \/ InitGol) /\ ex = None

SimCycle(wb, s) ==
  LET d == single_cycle(exec_once(dep, wb), s)
      phase == Phase(hist, wb)
      marker == wb.pc \in {env.start.value, env.end.value} /\ env.start.valid
  IN /\ mode = "sim" /\ hist.ticks < MaxTicks
     /\ Follows(s)
     /\ perf' = PerfCalls(perf, wb, s)
     /\ cache' = CacheCalls(cache, wb, s)
     /\ dep' = d
     /\ ex' = Waiting(s, Begun(d))
     /\ hist' = [hist EXCEPT
          !.ticks = @ + 1, !.phase = phase,
          !.window = IF phase = "in" THEN @ + 1 ELSE @,
          !.retired = IF phase = "in" /\ wb.sign /\ ~marker THEN @ + 1 ELSE @,
          !.updates = IF phase # "after" /\ "predictor_update" \in s.sig
                      THEN Append(@, hist.ticks) ELSE @,
          !.truth = Truth(s, d)]
     /\ UNCHANGED <<mode, env, gol>>

\* The program executes each marker once; a marker in EX is no load.
MarkFollows(s, mark) ==
  /\ mark # "none" => ~ex.waits /\ "dependency" \notin s.sig /\ "dcache_access" \notin s.sig
  /\ mark = "start" => hist.phase = "before"
  /\ mark = "stop" => hist.phase = "in"

GolTick(s, mark) ==
  LET m == [sig |-> s.sig, address |-> s.address, producer |-> s.producer,
            consumer |-> s.consumer, mark |-> mark]
      d == Gol!DepTick(gol, dep, m)
  IN /\ mode = "gol" /\ hist.ticks < MaxTicks
     /\ Follows(s) /\ MarkFollows(s, mark)
     /\ gol' = Gol!Tick(gol, m)
     /\ dep' = d
     /\ ex' = Waiting(s, Begun(d))
     /\ hist' = [hist EXCEPT
          !.ticks = @ + 1,
          !.phase = CASE mark = "start" -> "in" [] mark = "stop" -> "after" [] OTHER -> @,
          !.window = IF hist.phase = "in" THEN @ + 1 ELSE @,
          !.refilling = IF mark = "start" THEN s.sig \cap Gol!Stalls ELSE @,
          !.truth = Truth(s, d)]
     /\ UNCHANGED <<mode, env, perf, cache>>

Next ==
  \/ \E wb \in env.writebacks, s \in env.samples : SimCycle(wb, s)
  \/ \E s \in env.samples, mark \in {"none", "start", "stop"} : GolTick(s, mark)

Spec == Init /\ [][Next]_vars

-----------------------------------------------------------------------------
\* The markers are unset, or two distinct addresses.
Valid ==
  /\ env.start.valid = env.end.valid
  /\ env.start.valid => env.start.value # env.end.value

\* Every cycle counted has exactly one label, in every observer and in the
\* harness, whenever the run is stopped and the report is written
\* (exclusive_cycle_sum_matches_roi, counter_invariants_pass).
ExclusiveSums ==
  LET n == gol.exclusive
  IN /\ Perf!exclusive_cycle_sum(perf) = perf.cycle_count
     /\ Cache!invariant_ok(cache)
     /\ Gol!invariants(gol)
     /\ n["dcache"] + n["divider"] + n["branch"] + n["dependency"] + n["icache"] + n["other"]
          = gol.cycles

\* All observers measure one and the same window.  In a simulator run it is the
\* cycles from the first start marker to the next end marker, however often the
\* markers retire, and every other instruction that retires in it is observed.
\* In a harness it is the cycles that the program measures with its two csrr
\* instructions, and a refill or write-back started or completed inside it is
\* counted even if its other end is outside.
SameWindow ==
  /\ mode = "sim" /\ env.out = "path" /\ Valid =>
       /\ perf.cycle_count = hist.window
       /\ cache.cycles = hist.window
       /\ dep.roi_cycles = hist.window
       /\ Len(perf.observations) = hist.retired
       /\ cache.writeback_observations = hist.retired
  /\ mode = "gol" =>
       /\ gol.cycles = hist.window /\ (env.out = "path" => dep.roi_cycles = hist.window)
       /\ gol.roi => \A x \in Gol!Stalls :
            gol.started[x] + Bit(x \in hist.refilling) = gol.completed[x] + Bit(x \in gol.previous)

\* Warm-up and timeline together hold every predictor update up to the end of
\* the window exactly once and in order, so that a replayed predictor sees
\* what the hardware one saw.
NoUpdateLost ==
  mode = "sim" /\ perf.output =>
    LET inside == SelectSeq(perf.timeline, LAMBDA r : r.kind = "update")
    IN perf.warmup \o [i \in DOMAIN inside |-> inside[i].id] = hist.updates

\* The rows a trace labels ROI are the D-cache accesses counted in the window.
TraceMatchesCounts ==
  LET rows(t) == Len(SelectSeq(t, LAMBDA r : r.phase = "ROI"))
  IN /\ cache.trace_file /\ cache.output => rows(cache.trace) = cache.counts["dcache_access"]
     /\ gol.trace_file => rows(gol.trace) = gol.values["dcache_access"]

\* The episodes of the dependency observer cover exactly the cycles the cache
\* counters attribute to dependencies: two classifiers of the same signals,
\* called from different places, agree.
EpisodesCoverStalls ==
  dep.enabled =>
    Dep!dependency_cycles(dep) =
      IF mode = "gol" THEN gol.exclusive["dependency"] ELSE cache.exclusive["dependency"]

\* A load of the address of episode i was flushed by an interrupt, in that
\* episode or an earlier one.  Its episode still looks for an access then, and
\* as dependency_observer_sample settles the first episode that waits for an
\* address, it takes the outcome of the next load of the address.
Misled(eps, truth, i) ==
  \E j \in 1..i : truth[j] = "FLUSHED" /\ eps[j].producer_address = eps[i].producer_address

\* Every episode of a load carries the D-cache outcome of that very load, the
\* one that was in EX when the stall began, also when loads of one address
\* follow each other, until an interrupt flushes a load of this address that is
\* waited for: its episode, and the later ones of the address, may then show
\* the outcome of another load or none.  In every case a load that has not
\* reached the D-cache, or never does because its address is a device's, is
\* without outcome, and so is an instruction that is no load.
OwnOutcome ==
  \A i \in DOMAIN dep.episodes :
    LET t == hist.truth[i]
    IN t \in {"NOT_LOAD", "DEVICE", "PENDING"} \/ ~Misled(dep.episodes, hist.truth, i)
         => dep.episodes[i].load_outcome = IF t = "DEVICE" THEN "PENDING" ELSE t

\* Whenever the run stops, the statuses the reports return accuse it of nothing
\* but what happened: a window that never closed, a trace that could not be
\* written, a load without outcome.  The dependency observer returns 0 only if
\* the window closed and no load is without outcome; it returns 1 without such
\* a reason only if an interrupt flushed a load that was waited for.  In the
\* harness a completed window leaves only device loads without outcome, since a
\* load that is waited for leaves EX before the stop marker enters it.
Verdicts ==
  LET closed == ~env.start.valid \/ hist.phase = "after"
      traced == ~env.trace \/ env.traceable
      resolved(bad) == \A i \in DOMAIN hist.truth : hist.truth[i] \notin bad
  IN /\ mode = "sim" /\ env.out = "path" /\ Valid =>
          /\ Perf!perf_observer_finalize(perf, 0, TRUE)
               = [report |-> perf, roi_valid |-> env.start.valid /\ closed,
                  exit_status |-> 0, returns |-> 0]
          /\ Cache!cache_observer_finalize(cache, TRUE) = Bit(~(closed /\ traced))
          /\ LET status == Dep!dependency_observer_finalize(dep, TRUE)
                 good == closed /\ resolved({"DEVICE", "PENDING"})
             IN (good => status = 0 \/ ~resolved({"FLUSHED"})) /\ (~good => status = 1)
     /\ mode = "gol" /\ env.out = "path" /\ hist.phase = "after" =>
          /\ Gol!CacheRun(gol, TRUE, hist.window) = 0
          /\ Gol!ProfileRun(gol, dep, TRUE, hist.window) = IF resolved({"DEVICE"}) THEN 0 ELSE 2

=============================================================================
