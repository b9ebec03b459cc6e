-------------------------- MODULE ProfilingProofs --------------------------
(***************************************************************************)
(* Proofs about the observers, for every environment, program and number   *)
(* of cycles.                                                              *)
(***************************************************************************)
EXTENDS DependencyProofs

\* A leaf that names no prover is first-order reasoning.
USE ZenonT(30)

-----------------------------------------------------------------------------
(* The cycle attribution observer.                                            *)

\* The globals that the window and the labels depend on.
Region == {"output", "roi_requested", "roi_active", "roi_started", "roi_ended",
           "roi_start_pc", "roi_end_pc"}
PerfFields == Region \cup {"cycle_count", "observations", "exclusive"}
Observation == [cycle : Nat, pc : Nat]

\* As many labels as cycles, but for n that are not labelled yet.
PerfOk(o, n) ==
  /\ PerfFields \subseteq DOMAIN o
  /\ o.cycle_count \in Nat /\ o.observations \in Seq(Observation)
  /\ o.exclusive \in [Perf!Labels -> Nat]
  /\ Perf!exclusive_cycle_sum(o) + n = o.cycle_count

\* c has the markers of o and is as far in the region.
SameMarkers(o, c) ==
  /\ DOMAIN c = DOMAIN o
  /\ c.output = o.output /\ c.roi_requested = o.roi_requested
  /\ c.roi_start_pc = o.roi_start_pc /\ c.roi_end_pc = o.roi_end_pc
SameRegion(o, c) ==
  /\ SameMarkers(o, c)
  /\ c.roi_active = o.roi_active /\ c.roi_started = o.roi_started /\ c.roi_ended = o.roi_ended
SamePerf(o, c) ==
  c.cycle_count = o.cycle_count /\ c.observations = o.observations /\ c.exclusive = o.exclusive

\* What a call does not mention it leaves alone.
LEMMA PerfSame ==
  ASSUME NEW o, NEW c, NEW n, PerfOk(o, n), DOMAIN c = DOMAIN o, SamePerf(o, c)
  PROVE  PerfOk(c, n)
BY DEF PerfOk, SamePerf, Perf!exclusive_cycle_sum

\* Six counters at zero.
LEMMA PerfZero ==
  ASSUME NEW o, o.exclusive = Perf!Zero(Perf!Labels)
  PROVE  o.exclusive \in [Perf!Labels -> Nat] /\ Perf!exclusive_cycle_sum(o) + 0 = 0
BY SMTT(30) DEF Perf!exclusive_cycle_sum, Perf!Labels, Perf!Zero

LEMMA NoObservation == <<>> \in Seq(Observation) /\ 0 \in Nat
BY SMTT(30)

LEMMA PerfReset ==
  ASSUME NEW o, PerfFields \subseteq DOMAIN o
  PROVE  LET c == Perf!reset_counts(o)
         IN SameRegion(o, c) /\ PerfOk(c, 0) /\ c.cycle_count = 0 /\ c.observations = <<>>
<1> DEFINE c == Perf!reset_counts(o)
<1>1. /\ SameRegion(o, c) /\ c.cycle_count = 0 /\ c.observations = <<>>
      /\ c.exclusive = Perf!Zero(Perf!Labels)
  BY DEF Perf!reset_counts, SameRegion, SameMarkers, Region, PerfFields
<1> HIDE DEF c
<1>2. PerfOk(c, 0)
  BY <1>1, PerfZero, NoObservation DEF PerfOk, SameRegion, SameMarkers
<1> QED
  BY <1>1, <1>2 DEF c

\* perf_observer_update_roi starts the region once, with all counters at zero,
\* and ends it.
LEMMA PerfUpdateRoi ==
  ASSUME NEW o, PerfOk(o, 0), NEW wb
  PROVE  LET u == Perf!perf_observer_update_roi(o, wb)
         IN /\ PerfOk(u, 0) /\ SameMarkers(o, u) /\ RoiMoves(o, u, o.output, wb)
            /\ IF o.output /\ RoiStarts(o, wb) THEN u.cycle_count = 0 /\ u.observations = <<>>
               ELSE u.cycle_count = o.cycle_count /\ u.observations = o.observations
<1> DEFINE u == Perf!perf_observer_update_roi(o, wb)
           z == Perf!reset_counts(o)
<1>0. PerfFields \subseteq DOMAIN o
  BY DEF PerfOk
<1>1. CASE o.output /\ RoiStarts(o, wb)
  <2>1. u = [z EXCEPT !.roi_started = TRUE, !.roi_active = TRUE]
    BY <1>1 DEF Perf!perf_observer_update_roi, RoiStarts
  <2>2. SameRegion(o, z) /\ PerfOk(z, 0) /\ z.cycle_count = 0 /\ z.observations = <<>>
    BY <1>0, PerfReset
  <2> HIDE DEF u, z
  <2>3. SameMarkers(z, u) /\ SamePerf(z, u) /\ u.roi_started = TRUE /\ u.roi_active = TRUE /\
          u.roi_ended = z.roi_ended
    BY <2>1, <2>2 DEF SameMarkers, SamePerf, PerfOk, PerfFields, Region
  <2>4. PerfOk(u, 0)
    BY <2>2, <2>3, PerfSame DEF SameMarkers
  <2>5. ~RoiEnds(o, wb)
    BY <1>1 DEF RoiEnds
  <2>6. RoiMoves(o, u, o.output, wb)
    BY <1>1, <2>2, <2>3, <2>5 DEF RoiMoves, SameRegion
  <2>7. SameMarkers(o, u) /\ u.cycle_count = 0 /\ u.observations = <<>>
    BY <2>2, <2>3 DEF SameMarkers, SameRegion, SamePerf
  <2> QED
    BY <1>1, <2>4, <2>6, <2>7 DEF u
<1>2. CASE o.output /\ RoiEnds(o, wb)
  <2>1. u = [o EXCEPT !.roi_active = FALSE, !.roi_ended = TRUE] /\ ~RoiStarts(o, wb)
    BY <1>2 DEF Perf!perf_observer_update_roi, RoiStarts, RoiEnds
  <2> HIDE DEF u
  <2>3. SameMarkers(o, u) /\ SamePerf(o, u) /\ u.roi_ended = TRUE /\ u.roi_active = FALSE /\
          u.roi_started = o.roi_started
    BY <1>0, <2>1 DEF SameMarkers, SamePerf, PerfFields, Region
  <2>4. PerfOk(u, 0)
    BY <2>3, PerfSame DEF SameMarkers
  <2>6. RoiMoves(o, u, o.output, wb)
    BY <1>2, <2>1, <2>3 DEF RoiMoves
  <2> QED
    BY <1>2, <2>1, <2>3, <2>4, <2>6 DEF u, SamePerf
<1>3. CASE ~(o.output /\ RoiStarts(o, wb)) /\ ~(o.output /\ RoiEnds(o, wb))
  <2>1. u = o
    BY <1>3 DEF Perf!perf_observer_update_roi, RoiStarts, RoiEnds
  <2> QED
    BY <1>3, <2>1 DEF SameMarkers, RoiMoves
<1> QED
  BY <1>1, <1>2, <1>3

\* A write-back in the region that is no marker is observed.
Observed(o, wb) ==
  wb.sign /\ ~(o.roi_requested /\ wb.pc \in {o.roi_start_pc, o.roi_end_pc})

LEMMA Longer ==
  \A q \in Seq(Observation), x \in Observation :
    Append(q, x) \in Seq(Observation) /\ Len(Append(q, x)) = Len(q) + 1
BY SMTT(30)

LEMMA PerfSample ==
  ASSUME NEW o, PerfOk(o, 0), NEW wb, wb.pc \in Nat
  PROVE  LET c == Perf!perf_observer_sample(o, wb)
         IN /\ PerfOk(c, 0) /\ SameRegion(o, c) /\ c.cycle_count = o.cycle_count
            /\ Len(c.observations) = IF Perf!collecting(o) /\ Observed(o, wb)
                                     THEN Len(o.observations) + 1 ELSE Len(o.observations)
<1> DEFINE c == Perf!perf_observer_sample(o, wb)
           x == [cycle |-> o.cycle_count, pc |-> wb.pc]
<1>0. PerfFields \subseteq DOMAIN o /\ o.cycle_count \in Nat /\ o.observations \in Seq(Observation)
  BY DEF PerfOk
<1>1. CASE ~(Perf!collecting(o) /\ Observed(o, wb))
  <2>1. c = o
    BY <1>1 DEF Perf!perf_observer_sample, Observed
  <2> QED
    BY <1>1, <2>1 DEF SameRegion, SameMarkers
<1>2. CASE Perf!collecting(o) /\ Observed(o, wb)
  <2>1. c = [o EXCEPT !.observations = Append(@, x),
                      !.wb_intr_count = @ + Perf!Bit(wb.intr),
                      !.wb_device_count = @ + Perf!Bit(wb.device)]
    BY <1>2 DEF Perf!perf_observer_sample, Observed
  <2>2. x \in Observation
    BY <1>0 DEF Observation
  <2> HIDE DEF c, x
  <2>3. /\ SameRegion(o, c) /\ c.cycle_count = o.cycle_count /\ c.exclusive = o.exclusive
        /\ c.observations = Append(o.observations, x)
    <3>1. SameMarkers(o, c)
      BY <1>0, <2>1 DEF SameMarkers, PerfFields, Region
    <3>2. c.roi_active = o.roi_active /\ c.roi_started = o.roi_started /\ c.roi_ended = o.roi_ended
      BY <1>0, <2>1 DEF PerfFields, Region
    <3>3. c.cycle_count = o.cycle_count /\ c.exclusive = o.exclusive
      BY <1>0, <2>1 DEF PerfFields, Region
    <3>4. c.observations = Append(o.observations, x)
      BY <1>0, <2>1 DEF PerfFields, Region
    <3> QED
      BY <3>1, <3>2, <3>3, <3>4 DEF SameRegion
  <2>4. c.observations \in Seq(Observation) /\ Len(c.observations) = Len(o.observations) + 1
    BY <1>0, <2>2, <2>3, Longer
  <2>5. PerfOk(c, 0)
    BY <2>3, <2>4 DEF PerfOk, SameRegion, SameMarkers, Perf!exclusive_cycle_sum
  <2> QED
    BY <1>2, <2>3, <2>4, <2>5 DEF c
<1> QED
  BY <1>1, <1>2

\* perf_observer_cycle counts a cycle that perf_observer_sample_raw labels.
Owed(o) == IF Perf!collecting(o) THEN 1 ELSE 0

LEMMA OneMore == \A a, b \in Nat : a + 0 = b => a + 1 = b + 1 /\ b + 1 \in Nat
BY SMTT(30)

LEMMA LabelsAdd ==
  ASSUME NEW e \in [Perf!Labels -> Nat]
  PROVE  e["dcache_memory_wait"] + e["divider_wait"] + e["flush_branch"] + e["load_use_stall"]
           + e["icache_wait"] + e["other_unclassified"] \in Nat
BY SMTT(30) DEF Perf!Labels

LEMMA PerfCycle ==
  ASSUME NEW o, PerfOk(o, 0)
  PROVE  LET c == Perf!perf_observer_cycle(o)
         IN /\ PerfOk(c, Owed(o)) /\ SameRegion(o, c) /\ c.observations = o.observations
            /\ c.cycle_count = o.cycle_count + Owed(o)
<1> DEFINE c == Perf!perf_observer_cycle(o)
<1>0. /\ PerfFields \subseteq DOMAIN o /\ o.cycle_count \in Nat
      /\ Perf!exclusive_cycle_sum(o) \in Nat /\ Perf!exclusive_cycle_sum(o) + 0 = o.cycle_count
  BY LabelsAdd DEF PerfOk, Perf!exclusive_cycle_sum
<1>1. CASE ~Perf!collecting(o)
  <2>1. c = o /\ Owed(o) = 0 /\ o.cycle_count + 0 = o.cycle_count
    BY <1>0, <1>1, SMTT(30) DEF Perf!perf_observer_cycle, Owed
  <2> QED
    BY <2>1 DEF SameRegion, SameMarkers
<1>2. CASE Perf!collecting(o)
  <2>1. c = [o EXCEPT !.cycle_count = @ + 1] /\ Owed(o) = 1
    BY <1>2 DEF Perf!perf_observer_cycle, Owed
  <2> HIDE DEF c
  <2>2. /\ SameRegion(o, c) /\ c.observations = o.observations /\ c.exclusive = o.exclusive
        /\ c.cycle_count = o.cycle_count + 1
    BY <1>0, <2>1 DEF SameRegion, SameMarkers, PerfFields, Region
  <2>3. Perf!exclusive_cycle_sum(c) = Perf!exclusive_cycle_sum(o)
    BY <2>2 DEF Perf!exclusive_cycle_sum
  <2>4. PerfOk(c, 1)
    BY <1>0, <2>2, <2>3, OneMore DEF PerfOk, SameRegion, SameMarkers
  <2> QED
    BY <2>1, <2>2, <2>4 DEF c
<1> QED
  BY <1>1, <1>2

\* A label is given to one of six counters.
LEMMA PerfLabelled ==
  ASSUME NEW o, NEW c, NEW l \in Perf!Labels, o.exclusive \in [Perf!Labels -> Nat],
         c.exclusive = [o.exclusive EXCEPT ![l] = @ + 1]
  PROVE  /\ c.exclusive \in [Perf!Labels -> Nat]
         /\ Perf!exclusive_cycle_sum(c) = Perf!exclusive_cycle_sum(o) + 1
<1> DEFINE e == o.exclusive
           f == c.exclusive
<1>1. e \in [Perf!Labels -> Nat] /\ f = [e EXCEPT ![l] = @ + 1]
  BY SMTT(30)
<1> HIDE DEF e, f
<1>2. f \in [Perf!Labels -> Nat] /\ \A x \in Perf!Labels : f[x] = IF x = l THEN e[x] + 1 ELSE e[x]
  BY <1>1, SMTT(30)
<1>3. f["dcache_memory_wait"] + f["divider_wait"] + f["flush_branch"] + f["load_use_stall"]
        + f["icache_wait"] + f["other_unclassified"]
      = (e["dcache_memory_wait"] + e["divider_wait"] + e["flush_branch"] + e["load_use_stall"]
        + e["icache_wait"] + e["other_unclassified"]) + 1
  BY <1>1, <1>2, SMTT(30) DEF Perf!Labels
<1> QED
  BY <1>2, <1>3 DEF e, f, Perf!exclusive_cycle_sum

LEMMA PerfLabelIs == \A s : Perf!Label(s) \in Perf!Labels
BY DEF Perf!Label, Perf!Labels

LEMMA PerfSampleRaw ==
  ASSUME NEW o, NEW s, NEW id, PerfOk(o, Owed(o))
  PROVE  LET c == Perf!perf_observer_sample_raw(o, s, id)
         IN /\ PerfOk(c, 0) /\ SameRegion(o, c)
            /\ c.cycle_count = o.cycle_count /\ c.observations = o.observations
<1> DEFINE w == IF Perf!warmup_update(o, s, id) THEN [o EXCEPT !.warmup = Append(@, id)] ELSE o
           c == Perf!perf_observer_sample_raw(o, s, id)
           l == Perf!Label(s)
<1>0. PerfFields \subseteq DOMAIN o
  BY DEF PerfOk
<1>1. SameRegion(o, w) /\ SamePerf(o, w)
  BY <1>0 DEF SameRegion, SameMarkers, SamePerf, PerfFields, Region
<1>2. Perf!collecting(w) <=> Perf!collecting(o)
  BY <1>1 DEF Perf!collecting, SameRegion, SameMarkers
<1>3. CASE ~Perf!collecting(o)
  <2>1. c = w
    BY <1>2, <1>3 DEF Perf!perf_observer_sample_raw
  <2> HIDE DEF w
  <2>2. PerfOk(w, Owed(o)) /\ Owed(o) = 0
    BY <1>1, <1>3, PerfSame DEF Owed, SameRegion, SameMarkers
  <2> QED
    BY <1>1, <2>1, <2>2 DEF SamePerf
<1>4. CASE Perf!collecting(o)
  <2> DEFINE e == [w.exclusive EXCEPT ![l] = @ + 1]
  <2>1. c = [w EXCEPT
             !.raw = [k \in Perf!RawCounters |-> @[k] + Perf!Bit(k \in s)],
             !.episodes = [x \in Perf!Episodic |-> @[x] + Perf!Bit(x \in s /\ x \notin w.previous)],
             !.branches = IF "conditional_branch_resolved" \in s
                          THEN Append(@, [cycle |-> w.cycle_count, id |-> id]) ELSE @,
             !.timeline = @ \o Perf!Timeline(w, s, id),
             !.previous = Perf!Previous(s),
             !.exclusive = e]
    BY <1>2, <1>4 DEF Perf!perf_observer_sample_raw
  <2>l. l \in Perf!Labels
    BY PerfLabelIs
  <2> HIDE DEF w, c, l, e
  <2>2. /\ SameRegion(w, c) /\ c.cycle_count = w.cycle_count /\ c.observations = w.observations
        /\ c.exclusive = [w.exclusive EXCEPT ![l] = @ + 1]
    <3>0. PerfFields \subseteq DOMAIN w
      BY <1>0, <1>1 DEF SameRegion, SameMarkers
    <3>1. SameMarkers(w, c)
      BY <3>0, <2>1 DEF SameMarkers, PerfFields, Region
    <3>2. c.roi_active = w.roi_active /\ c.roi_started = w.roi_started /\ c.roi_ended = w.roi_ended
      BY <3>0, <2>1 DEF PerfFields, Region
    <3>3. c.cycle_count = w.cycle_count /\ c.observations = w.observations
      BY <3>0, <2>1 DEF PerfFields, Region
    <3>4. c.exclusive = e
      BY <3>0, <2>1 DEF PerfFields, Region
    <3> QED
      BY <3>1, <3>2, <3>3, <3>4 DEF SameRegion, e
  <2>3. PerfOk(w, 1)
    BY <1>1, <1>4, PerfSame DEF Owed, SameRegion, SameMarkers
  <2>4. /\ c.exclusive \in [Perf!Labels -> Nat]
        /\ Perf!exclusive_cycle_sum(c) = Perf!exclusive_cycle_sum(w) + 1
    BY <2>l, <2>2, <2>3, PerfLabelled DEF PerfOk
  <2>5. Perf!exclusive_cycle_sum(c) + 0 = c.cycle_count
    <3>1. w.cycle_count \in Nat /\ Perf!exclusive_cycle_sum(w) + 1 = w.cycle_count
      BY <2>3 DEF PerfOk
    <3> QED
      BY ONLY <2>2, <2>4, <3>1, SMTT(30)
  <2>6. PerfOk(c, 0)
    BY <2>2, <2>3, <2>4, <2>5 DEF PerfOk, SameRegion, SameMarkers
  <2> QED
    BY <1>1, <2>2, <2>6 DEF SameRegion, SameMarkers, SamePerf, c
<1> QED
  BY <1>3, <1>4

\* A simulator cycle of the observer: the region moves on, and if it is inside
\* then the cycle is counted and labelled.
LEMMA PerfCallsAre ==
  ASSUME NEW o, PerfOk(o, 0), NEW wb, wb.pc \in Nat, NEW s
  PROVE  LET u == Perf!perf_observer_update_roi(o, wb)
             c == PerfCalls(o, wb, s)
         IN /\ PerfOk(c, 0) /\ SameRegion(u, c)
            /\ c.cycle_count = u.cycle_count + Owed(u)
            /\ Len(c.observations) = IF Perf!collecting(u) /\ Observed(u, wb)
                                     THEN Len(u.observations) + 1 ELSE Len(u.observations)
<1> DEFINE u == Perf!perf_observer_update_roi(o, wb)
           a == Perf!perf_observer_sample(u, wb)
           b == Perf!perf_observer_cycle(a)
           c == Perf!perf_observer_sample_raw(b, s.sig, hist.ticks)
<1>1. PerfOk(u, 0)
  BY PerfUpdateRoi
<1>2. c = PerfCalls(o, wb, s)
  BY DEF PerfCalls
<1> HIDE DEF u
<1>3. /\ PerfOk(a, 0) /\ SameRegion(u, a) /\ a.cycle_count = u.cycle_count
      /\ Len(a.observations) = IF Perf!collecting(u) /\ Observed(u, wb)
                               THEN Len(u.observations) + 1 ELSE Len(u.observations)
  BY <1>1, PerfSample
<1> HIDE DEF a
<1>4. /\ PerfOk(b, Owed(a)) /\ SameRegion(a, b) /\ b.observations = a.observations
      /\ b.cycle_count = a.cycle_count + Owed(a)
  BY <1>3, PerfCycle
<1> HIDE DEF b
<1>5. Owed(a) = Owed(u) /\ Owed(b) = Owed(a) /\ PerfOk(b, Owed(b))
  <2>1. Owed(a) = Owed(u) /\ Owed(b) = Owed(a)
    BY <1>3, <1>4 DEF Owed, Perf!collecting, SameRegion, SameMarkers
  <2> QED
    BY <1>4, <2>1
<1>6. /\ PerfOk(c, 0) /\ SameRegion(b, c)
      /\ c.cycle_count = b.cycle_count /\ c.observations = b.observations
  BY <1>5, PerfSampleRaw
<1> HIDE DEF c
<1>7. SameRegion(u, c)
  BY <1>3, <1>4, <1>6 DEF SameRegion, SameMarkers
<1> QED
  BY <1>2, <1>3, <1>4, <1>5, <1>6, <1>7 DEF u

-----------------------------------------------------------------------------
(* The cache observer.                                                        *)

\* What a sample adds to a counter of one signal, and of two.
In(s, x)      == IF x \in s THEN 1 ELSE 0
Both(s, x, y) == IF x \in s /\ y \in s THEN 1 ELSE 0

\* The signals of a sample agree, so the counters they are added to agree.
LEMMA SampleBits ==
  ASSUME NEW s, CoreSample(s)
  PROVE  /\ In(s.sig, "icache_access") = In(s.sig, "icache_hit") + In(s.sig, "icache_miss")
         /\ In(s.sig, "dcache_access")
              = In(s.sig, "dcache_load_access") + In(s.sig, "dcache_store_access")
         /\ In(s.sig, "dcache_access") = In(s.sig, "dcache_hit") + In(s.sig, "dcache_miss")
         /\ In(s.sig, "dcache_load_access") = Both(s.sig, "dcache_hit", "dcache_load_access")
              + Both(s.sig, "dcache_miss", "dcache_load_access")
         /\ In(s.sig, "dcache_store_access") = Both(s.sig, "dcache_hit", "dcache_store_access")
              + Both(s.sig, "dcache_miss", "dcache_store_access")
<1> DEFINE g == s.sig
<1>1. /\ "icache_access" \in g <=> "icache_hit" \in g \/ "icache_miss" \in g
      /\ ~("icache_hit" \in g /\ "icache_miss" \in g)
      /\ "dcache_access" \in g <=> "dcache_load_access" \in g \/ "dcache_store_access" \in g
      /\ ~("dcache_load_access" \in g /\ "dcache_store_access" \in g)
      /\ "dcache_access" \in g <=> "dcache_hit" \in g \/ "dcache_miss" \in g
      /\ ~("dcache_hit" \in g /\ "dcache_miss" \in g)
  BY DEF CoreSample
<1> HIDE DEF g
<1>2. /\ In(g, "icache_access") = In(g, "icache_hit") + In(g, "icache_miss")
      /\ In(g, "dcache_access") = In(g, "dcache_load_access") + In(g, "dcache_store_access")
      /\ In(g, "dcache_access") = In(g, "dcache_hit") + In(g, "dcache_miss")
      /\ In(g, "dcache_load_access") = Both(g, "dcache_hit", "dcache_load_access")
           + Both(g, "dcache_miss", "dcache_load_access")
      /\ In(g, "dcache_store_access") = Both(g, "dcache_hit", "dcache_store_access")
           + Both(g, "dcache_miss", "dcache_store_access")
  BY <1>1, SMTT(30) DEF In, Both
<1> QED
  BY <1>2 DEF g

LEMMA InNat == \A s, x, y : In(s, x) \in Nat /\ Both(s, x, y) \in Nat
BY SMTT(30) DEF In, Both

\* The six labels of the cache observer and of the harness.
LabelSum(e) == e["dcache"] + e["divider"] + e["branch"] + e["dependency"] + e["icache"] + e["other"]

LEMMA LabelAdded ==
  ASSUME NEW e \in [Cache!Labels -> Nat], NEW l \in Cache!Labels
  PROVE  LET f == [e EXCEPT ![l] = @ + 1]
         IN f \in [Cache!Labels -> Nat] /\ LabelSum(f) = LabelSum(e) + 1
<1> DEFINE f == [e EXCEPT ![l] = @ + 1]
<1>1. f \in [Cache!Labels -> Nat] /\ \A x \in Cache!Labels : f[x] = IF x = l THEN e[x] + 1 ELSE e[x]
  BY SMTT(30)
<1> HIDE DEF f
<1>2. LabelSum(f) = LabelSum(e) + 1
  BY <1>1, SMTT(30) DEF LabelSum, Cache!Labels
<1> QED
  BY <1>1, <1>2 DEF f

LEMMA LabelSumNat ==
  ASSUME NEW e \in [Cache!Labels -> Nat]
  PROVE  LabelSum(e) \in Nat
BY SMTT(30) DEF LabelSum, Cache!Labels

LEMMA CacheLabelIs == \A s : Cache!Label(s) \in Cache!Labels /\ Gol!Label(s) \in Cache!Labels
BY DEF Cache!Label, Cache!Labels, Gol!Label

LEMMA LabelZero ==
  LET z == Cache!Zero(Cache!Labels)
  IN z \in [Cache!Labels -> Nat] /\ LabelSum(z) = 0
BY SMTT(30) DEF LabelSum, Cache!Labels, Cache!Zero

\* The counters of the observer agree.
Counters == Cache!Events \cup Cache!Derived
CountsOk(n) ==
  /\ n["icache_access"] = n["icache_hit"] + n["icache_miss"]
  /\ n["dcache_access"] = n["dcache_load_access"] + n["dcache_store_access"]
  /\ n["dcache_access"] = n["dcache_hit"] + n["dcache_miss"]
  /\ n["dcache_load_access"] = n["dcache_load_hit"] + n["dcache_load_miss"]
  /\ n["dcache_store_access"] = n["dcache_store_hit"] + n["dcache_store_miss"]
Named ==
  {"icache_access", "icache_hit", "icache_miss", "dcache_access", "dcache_load_access",
   "dcache_store_access", "dcache_hit", "dcache_miss"}

LEMMA CountsZero == Cache!Zero(Counters) \in [Counters -> Nat] /\ CountsOk(Cache!Zero(Counters))
<1> DEFINE z == Cache!Zero(Counters)
<1>1. z \in [Counters -> Nat] /\ \A x \in Counters : z[x] = 0
  BY SMTT(30) DEF Cache!Zero
<1>2. /\ Named \subseteq Counters /\ Cache!Derived \subseteq Counters
  BY DEF Named, Counters, Cache!Events
<1> HIDE DEF z
<1>3. CountsOk(z)
  BY <1>1, <1>2, SMTT(30) DEF CountsOk, Named, Cache!Derived
<1> QED
  BY <1>1, <1>3 DEF z

LEMMA CountsStep ==
  ASSUME NEW n \in [Counters -> Nat], CountsOk(n), NEW s, CoreSample(s)
  PROVE  LET f == [c \in Counters |-> n[c] + Cache!Bit(Cache!Counted(s.sig, c))]
         IN f \in [Counters -> Nat] /\ CountsOk(f)
<1> DEFINE g == s.sig
           f == [c \in Counters |-> n[c] + Cache!Bit(Cache!Counted(g, c))]
<1>1. f \in [Counters -> Nat]
  BY SMTT(30) DEF Cache!Bit
<1>2. /\ Named \subseteq Counters /\ Cache!Derived \subseteq Counters
  BY DEF Named, Counters, Cache!Events
<1>3. \A x \in Named : f[x] = n[x] + In(g, x)
  <2> SUFFICES ASSUME NEW x \in Named
               PROVE  f[x] = n[x] + In(g, x)
    OBVIOUS
  <2>1. x \notin Cache!Derived
    BY SMTT(30) DEF Named, Cache!Derived
  <2>2. Cache!Bit(Cache!Counted(g, x)) = In(g, x)
    BY <2>1 DEF Cache!Counted, Cache!Derived, Cache!Bit, In
  <2> QED
    BY <1>2, <2>2
<1>4. /\ f["dcache_load_hit"] = n["dcache_load_hit"] + Both(g, "dcache_hit", "dcache_load_access")
      /\ f["dcache_load_miss"] = n["dcache_load_miss"] + Both(g, "dcache_miss", "dcache_load_access")
      /\ f["dcache_store_hit"] = n["dcache_store_hit"] + Both(g, "dcache_hit", "dcache_store_access")
      /\ f["dcache_store_miss"] = n["dcache_store_miss"] + Both(g, "dcache_miss", "dcache_store_access")
  <2>1. /\ Cache!Counted(g, "dcache_load_hit") <=> "dcache_hit" \in g /\ "dcache_load_access" \in g
        /\ Cache!Counted(g, "dcache_load_miss") <=> "dcache_miss" \in g /\ "dcache_load_access" \in g
        /\ Cache!Counted(g, "dcache_store_hit") <=> "dcache_hit" \in g /\ "dcache_store_access" \in g
        /\ Cache!Counted(g, "dcache_store_miss") <=> "dcache_miss" \in g /\ "dcache_store_access" \in g
    BY SMTT(30) DEF Cache!Counted
  <2>2. /\ f["dcache_load_hit"] = n["dcache_load_hit"] + Cache!Bit(Cache!Counted(g, "dcache_load_hit"))
        /\ f["dcache_load_miss"] = n["dcache_load_miss"]
             + Cache!Bit(Cache!Counted(g, "dcache_load_miss"))
        /\ f["dcache_store_hit"] = n["dcache_store_hit"]
             + Cache!Bit(Cache!Counted(g, "dcache_store_hit"))
        /\ f["dcache_store_miss"] = n["dcache_store_miss"]
             + Cache!Bit(Cache!Counted(g, "dcache_store_miss"))
    BY <1>2 DEF Cache!Derived
  <2> QED
    BY <2>1, <2>2 DEF Cache!Bit, Both
<1>5. \A x \in Counters : n[x] \in Nat
  OBVIOUS
<1> HIDE DEF f
<1>6. CountsOk(f)
  <2>1. /\ In(g, "icache_access") = In(g, "icache_hit") + In(g, "icache_miss")
        /\ In(g, "dcache_access") = In(g, "dcache_load_access") + In(g, "dcache_store_access")
        /\ In(g, "dcache_access") = In(g, "dcache_hit") + In(g, "dcache_miss")
        /\ In(g, "dcache_load_access") = Both(g, "dcache_hit", "dcache_load_access")
             + Both(g, "dcache_miss", "dcache_load_access")
        /\ In(g, "dcache_store_access") = Both(g, "dcache_hit", "dcache_store_access")
             + Both(g, "dcache_miss", "dcache_store_access")
    BY SampleBits
  <2> HIDE DEF g
  <2>2. f["icache_access"] = f["icache_hit"] + f["icache_miss"]
    <3>1. /\ f["icache_access"] = n["icache_access"] + In(g, "icache_access")
          /\ f["icache_hit"] = n["icache_hit"] + In(g, "icache_hit")
          /\ f["icache_miss"] = n["icache_miss"] + In(g, "icache_miss")
      BY <1>3 DEF Named
    <3>2. n["icache_access"] \in Nat /\ n["icache_hit"] \in Nat /\ n["icache_miss"] \in Nat
      BY <1>2, <1>5 DEF Named
    <3>3. n["icache_access"] = n["icache_hit"] + n["icache_miss"]
      BY DEF CountsOk
    <3>4. /\ In(g, "icache_access") \in Nat /\ In(g, "icache_hit") \in Nat /\
               In(g, "icache_miss") \in Nat
          /\ In(g, "icache_access") = In(g, "icache_hit") + In(g, "icache_miss")
      BY <2>1, InNat
    <3> QED
      BY ONLY <3>1, <3>2, <3>3, <3>4, SMTT(30)
  <2>3. f["dcache_access"] = f["dcache_load_access"] + f["dcache_store_access"]
    <3>1. /\ f["dcache_access"] = n["dcache_access"] + In(g, "dcache_access")
          /\ f["dcache_load_access"] = n["dcache_load_access"] + In(g, "dcache_load_access")
          /\ f["dcache_store_access"] = n["dcache_store_access"] + In(g, "dcache_store_access")
      BY <1>3 DEF Named
    <3>2. n["dcache_access"] \in Nat /\ n["dcache_load_access"] \in Nat /\
            n["dcache_store_access"] \in Nat
      BY <1>2, <1>5 DEF Named
    <3>3. n["dcache_access"] = n["dcache_load_access"] + n["dcache_store_access"]
      BY DEF CountsOk
    <3>4. /\ In(g, "dcache_access") \in Nat /\ In(g, "dcache_load_access") \in Nat /\
               In(g, "dcache_store_access") \in Nat
          /\ In(g, "dcache_access") = In(g, "dcache_load_access") + In(g, "dcache_store_access")
      BY <2>1, InNat
    <3> QED
      BY ONLY <3>1, <3>2, <3>3, <3>4, SMTT(30)
  <2>4. f["dcache_access"] = f["dcache_hit"] + f["dcache_miss"]
    <3>1. /\ f["dcache_access"] = n["dcache_access"] + In(g, "dcache_access")
          /\ f["dcache_hit"] = n["dcache_hit"] + In(g, "dcache_hit")
          /\ f["dcache_miss"] = n["dcache_miss"] + In(g, "dcache_miss")
      BY <1>3 DEF Named
    <3>2. n["dcache_access"] \in Nat /\ n["dcache_hit"] \in Nat /\ n["dcache_miss"] \in Nat
      BY <1>2, <1>5 DEF Named
    <3>3. n["dcache_access"] = n["dcache_hit"] + n["dcache_miss"]
      BY DEF CountsOk
    <3>4. /\ In(g, "dcache_access") \in Nat /\ In(g, "dcache_hit") \in Nat /\
               In(g, "dcache_miss") \in Nat
          /\ In(g, "dcache_access") = In(g, "dcache_hit") + In(g, "dcache_miss")
      BY <2>1, InNat
    <3> QED
      BY ONLY <3>1, <3>2, <3>3, <3>4, SMTT(30)
  <2>5. f["dcache_load_access"] = f["dcache_load_hit"] + f["dcache_load_miss"]
    <3>1. /\ f["dcache_load_access"] = n["dcache_load_access"] + In(g, "dcache_load_access")
          /\ f["dcache_load_hit"] = n["dcache_load_hit"] + Both(g, "dcache_hit", "dcache_load_access")
          /\ f["dcache_load_miss"] = n["dcache_load_miss"]
               + Both(g, "dcache_miss", "dcache_load_access")
      BY <1>3, <1>4 DEF Named
    <3>2. n["dcache_load_access"] \in Nat /\ n["dcache_load_hit"] \in Nat /\
            n["dcache_load_miss"] \in Nat
      BY <1>2, <1>5 DEF Named, Cache!Derived
    <3>3. n["dcache_load_access"] = n["dcache_load_hit"] + n["dcache_load_miss"]
      BY DEF CountsOk
    <3>4. /\ In(g, "dcache_load_access") \in Nat /\
               Both(g, "dcache_hit", "dcache_load_access") \in Nat /\
                 Both(g, "dcache_miss", "dcache_load_access") \in Nat
          /\ In(g, "dcache_load_access") = Both(g, "dcache_hit", "dcache_load_access")
               + Both(g, "dcache_miss", "dcache_load_access")
      BY <2>1, InNat
    <3> QED
      BY ONLY <3>1, <3>2, <3>3, <3>4, SMTT(30)
  <2>6. f["dcache_store_access"] = f["dcache_store_hit"] + f["dcache_store_miss"]
    <3>1. /\ f["dcache_store_access"] = n["dcache_store_access"] + In(g, "dcache_store_access")
          /\ f["dcache_store_hit"] = n["dcache_store_hit"]
               + Both(g, "dcache_hit", "dcache_store_access")
          /\ f["dcache_store_miss"] = n["dcache_store_miss"]
               + Both(g, "dcache_miss", "dcache_store_access")
      BY <1>3, <1>4 DEF Named
    <3>2. n["dcache_store_access"] \in Nat /\ n["dcache_store_hit"] \in Nat /\
            n["dcache_store_miss"] \in Nat
      BY <1>2, <1>5 DEF Named, Cache!Derived
    <3>3. n["dcache_store_access"] = n["dcache_store_hit"] + n["dcache_store_miss"]
      BY DEF CountsOk
    <3>4. /\ In(g, "dcache_store_access") \in Nat /\
               Both(g, "dcache_hit", "dcache_store_access") \in Nat /\
                 Both(g, "dcache_miss", "dcache_store_access") \in Nat
          /\ In(g, "dcache_store_access") = Both(g, "dcache_hit", "dcache_store_access")
               + Both(g, "dcache_miss", "dcache_store_access")
      BY <2>1, InNat
    <3> QED
      BY ONLY <3>1, <3>2, <3>3, <3>4, SMTT(30)
  <2> QED
    BY <2>2, <2>3, <2>4, <2>5, <2>6 DEF CountsOk
<1> QED
  BY <1>1, <1>6 DEF f

\* As many labels as cycles, but for n that are not labelled yet, and counters
\* that agree.
CacheFields ==
  Region \cup {"cycles", "writeback_observations", "counts", "exclusive", "trace_open_failed"}
CacheOk(o, n) ==
  /\ CacheFields \subseteq DOMAIN o
  /\ o.cycles \in Nat /\ o.writeback_observations \in Nat
  /\ o.counts \in [Counters -> Nat] /\ CountsOk(o.counts)
  /\ o.exclusive \in [Cache!Labels -> Nat] /\ LabelSum(o.exclusive) + n = o.cycles
SameCache(o, c) ==
  /\ c.cycles = o.cycles /\ c.writeback_observations = o.writeback_observations
  /\ c.counts = o.counts /\ c.exclusive = o.exclusive
SameTrace(o, c) == c.trace_open_failed = o.trace_open_failed

LEMMA CacheSame ==
  ASSUME NEW o, NEW c, NEW n, CacheOk(o, n), DOMAIN c = DOMAIN o, SameCache(o, c)
  PROVE  CacheOk(c, n)
BY DEF CacheOk, SameCache

LEMMA CacheReset ==
  ASSUME NEW o, CacheFields \subseteq DOMAIN o
  PROVE  LET c == Cache!reset_counts(o)
         IN /\ SameRegion(o, c) /\ SameTrace(o, c) /\ CacheOk(c, 0)
            /\ c.cycles = 0 /\ c.writeback_observations = 0
<1> DEFINE c == Cache!reset_counts(o)
<1>1. SameRegion(o, c) /\ SameTrace(o, c)
  BY DEF Cache!reset_counts, SameRegion, SameMarkers, SameTrace, Region, CacheFields
<1>2. /\ c.cycles = 0 /\ c.writeback_observations = 0 /\ c.counts = Cache!Zero(Counters)
      /\ c.exclusive = Cache!Zero(Cache!Labels)
  BY DEF Cache!reset_counts, Region, CacheFields, Counters
<1> HIDE DEF c
<1>3. 0 + 0 = 0 /\ 0 \in Nat
  BY SMTT(30)
<1>4. CacheOk(c, 0)
  BY <1>1, <1>2, <1>3, CountsZero, LabelZero DEF CacheOk, SameRegion, SameMarkers
<1> QED
  BY <1>1, <1>2, <1>4 DEF c

LEMMA CacheUpdateRoi ==
  ASSUME NEW o, CacheOk(o, 0), NEW wb
  PROVE  LET u == Cache!cache_observer_update_roi(o, wb)
         IN /\ CacheOk(u, 0) /\ SameMarkers(o, u) /\ SameTrace(o, u)
            /\ RoiMoves(o, u, o.output, wb)
            /\ IF o.output /\ RoiStarts(o, wb) THEN u.cycles = 0 /\ u.writeback_observations = 0
               ELSE u.cycles = o.cycles /\ u.writeback_observations = o.writeback_observations
<1> DEFINE u == Cache!cache_observer_update_roi(o, wb)
           z == Cache!reset_counts(o)
<1>0. CacheFields \subseteq DOMAIN o
  BY DEF CacheOk
<1>1. CASE o.output /\ RoiStarts(o, wb)
  <2>1. u = [z EXCEPT !.roi_started = TRUE, !.roi_active = TRUE]
    BY <1>1 DEF Cache!cache_observer_update_roi, RoiStarts
  <2>2. /\ SameRegion(o, z) /\ SameTrace(o, z) /\ CacheOk(z, 0)
        /\ z.cycles = 0 /\ z.writeback_observations = 0
    BY <1>0, CacheReset
  <2> HIDE DEF u, z
  <2>0. CacheFields \subseteq DOMAIN z
    BY <2>2 DEF CacheOk
  <2>3. SameMarkers(z, u) /\ SameTrace(z, u)
    BY <2>0, <2>1 DEF SameMarkers, SameTrace, CacheFields, Region
  <2>4. SameCache(z, u)
    BY <2>0, <2>1 DEF SameCache, CacheFields, Region
  <2>5. u.roi_started = TRUE /\ u.roi_active = TRUE /\ u.roi_ended = z.roi_ended
    BY <2>0, <2>1 DEF CacheFields, Region
  <2>6. CacheOk(u, 0)
    BY <2>2, <2>3, <2>4, CacheSame DEF SameMarkers
  <2>7. ~RoiEnds(o, wb)
    BY <1>1 DEF RoiEnds
  <2>8. RoiMoves(o, u, o.output, wb)
    BY <1>1, <2>2, <2>5, <2>7 DEF RoiMoves, SameRegion
  <2>9. SameMarkers(o, u) /\ SameTrace(o, u) /\ u.cycles = 0 /\ u.writeback_observations = 0
    BY <2>2, <2>3, <2>4 DEF SameMarkers, SameRegion, SameTrace, SameCache
  <2> QED
    BY <1>1, <2>6, <2>8, <2>9 DEF u
<1>2. CASE o.output /\ RoiEnds(o, wb)
  <2>1. u = [o EXCEPT !.roi_active = FALSE, !.roi_ended = TRUE] /\ ~RoiStarts(o, wb)
    BY <1>2 DEF Cache!cache_observer_update_roi, RoiStarts, RoiEnds
  <2> HIDE DEF u
  <2>2. SameMarkers(o, u) /\ SameTrace(o, u)
    BY <1>0, <2>1 DEF SameMarkers, SameTrace, CacheFields, Region
  <2>3. SameCache(o, u)
    BY <1>0, <2>1 DEF SameCache, CacheFields, Region
  <2>4. u.roi_ended = TRUE /\ u.roi_active = FALSE /\ u.roi_started = o.roi_started
    BY <1>0, <2>1 DEF CacheFields, Region
  <2>5. CacheOk(u, 0)
    BY <2>2, <2>3, CacheSame DEF SameMarkers
  <2>6. RoiMoves(o, u, o.output, wb)
    BY <1>2, <2>1, <2>4 DEF RoiMoves
  <2> QED
    BY <1>2, <2>1, <2>2, <2>3, <2>5, <2>6 DEF u, SameCache
<1>3. CASE ~(o.output /\ RoiStarts(o, wb)) /\ ~(o.output /\ RoiEnds(o, wb))
  <2>1. u = o
    BY <1>3 DEF Cache!cache_observer_update_roi, RoiStarts, RoiEnds
  <2> QED
    BY <1>3, <2>1 DEF SameMarkers, SameTrace, RoiMoves
<1> QED
  BY <1>1, <1>2, <1>3

LEMMA CacheSampleWriteback ==
  ASSUME NEW o, CacheOk(o, 0), NEW wb
  PROVE  LET c == Cache!cache_observer_sample_writeback(o, wb)
         IN /\ CacheOk(c, 0) /\ SameRegion(o, c) /\ SameTrace(o, c) /\ c.cycles = o.cycles
            /\ c.writeback_observations = IF Perf!collecting(o) /\ Observed(o, wb)
                 THEN o.writeback_observations + 1 ELSE o.writeback_observations
<1> DEFINE c == Cache!cache_observer_sample_writeback(o, wb)
<1>0. CacheFields \subseteq DOMAIN o /\ o.writeback_observations \in Nat
  BY DEF CacheOk
<1>1. CASE ~(Perf!collecting(o) /\ Observed(o, wb))
  <2>1. c = o
    BY <1>1 DEF Cache!cache_observer_sample_writeback, Observed, Cache!collecting, Perf!collecting
  <2> QED
    BY <1>1, <2>1 DEF SameRegion, SameMarkers, SameTrace
<1>2. CASE Perf!collecting(o) /\ Observed(o, wb)
  <2>1. c = [o EXCEPT !.writeback_observations = @ + 1]
    BY <1>2 DEF Cache!cache_observer_sample_writeback, Observed, Cache!collecting, Perf!collecting
  <2> HIDE DEF c
  <2>2. SameRegion(o, c) /\ SameTrace(o, c)
    BY <1>0, <2>1 DEF SameRegion, SameMarkers, SameTrace, CacheFields, Region
  <2>3. /\ c.cycles = o.cycles /\ c.counts = o.counts /\ c.exclusive = o.exclusive
        /\ c.writeback_observations = o.writeback_observations + 1
    BY <1>0, <2>1 DEF CacheFields, Region
  <2>4. o.writeback_observations + 1 \in Nat
    BY <1>0, SMTT(30)
  <2>5. CacheOk(c, 0)
    BY <2>2, <2>3, <2>4 DEF CacheOk, SameRegion, SameMarkers
  <2> QED
    BY <1>2, <2>2, <2>3, <2>5 DEF c
<1> QED
  BY <1>1, <1>2

LEMMA CacheCycle ==
  ASSUME NEW o, CacheOk(o, 0)
  PROVE  LET c == Cache!cache_observer_cycle(o)
         IN /\ CacheOk(c, Owed(o)) /\ SameRegion(o, c) /\ SameTrace(o, c)
            /\ c.writeback_observations = o.writeback_observations
            /\ c.cycles = o.cycles + Owed(o)
<1> DEFINE c == Cache!cache_observer_cycle(o)
           b == Cache!Bit(o.trace_file /\ ~o.roi_ended)
<1>0. CacheFields \subseteq DOMAIN o /\ o.cycles \in Nat /\ LabelSum(o.exclusive) + 0 = o.cycles
  BY DEF CacheOk
<1>1. c = [o EXCEPT !.trace_cycle = @ + b, !.cycles = @ + Owed(o)]
  BY DEF Cache!cache_observer_cycle, Owed, Cache!Bit, Cache!collecting, Perf!collecting
<1> HIDE DEF c, b
<1>2. SameRegion(o, c) /\ SameTrace(o, c)
  BY <1>0, <1>1 DEF SameRegion, SameMarkers, SameTrace, CacheFields, Region
<1>3. /\ c.writeback_observations = o.writeback_observations /\ c.counts = o.counts
      /\ c.exclusive = o.exclusive
  BY <1>0, <1>1 DEF CacheFields, Region
<1>4. c.cycles = o.cycles + Owed(o)
  BY <1>0, <1>1 DEF CacheFields, Region
<1>5. LabelSum(o.exclusive) \in Nat
  BY LabelSumNat DEF CacheOk
<1>6. o.cycles + Owed(o) \in Nat /\ LabelSum(o.exclusive) + Owed(o) = o.cycles + Owed(o)
  BY ONLY <1>0, <1>5, SMTT(30) DEF Owed
<1>7. CacheOk(c, Owed(o))
  BY <1>2, <1>3, <1>4, <1>6 DEF CacheOk, SameRegion, SameMarkers
<1> QED
  BY <1>2, <1>3, <1>4, <1>7 DEF c

LEMMA CacheSample ==
  ASSUME NEW o, NEW s, CacheOk(o, Owed(o)), CoreSample(s)
  PROVE  LET c == Cache!cache_observer_sample(o, s.sig)
         IN /\ CacheOk(c, 0) /\ SameRegion(o, c) /\ SameTrace(o, c)
            /\ c.cycles = o.cycles /\ c.writeback_observations = o.writeback_observations
<1> DEFINE g == s.sig
           t == [o EXCEPT !.trace = Cache!Trace(o, g)]
           c == Cache!cache_observer_sample(o, g)
           l == Cache!Label(g)
<1>0. CacheFields \subseteq DOMAIN o
  BY DEF CacheOk
<1>1. SameRegion(o, t) /\ SameTrace(o, t)
  BY <1>0 DEF SameRegion, SameMarkers, SameTrace, CacheFields, Region
<1>2. SameCache(o, t)
  BY <1>0 DEF SameCache, CacheFields, Region
<1>3. Cache!collecting(t) <=> Perf!collecting(o)
  BY <1>1 DEF Cache!collecting, Perf!collecting, SameRegion, SameMarkers
<1>4. CASE ~Perf!collecting(o)
  <2>1. c = t
    BY <1>3, <1>4 DEF Cache!cache_observer_sample
  <2> HIDE DEF t
  <2>2. CacheOk(t, Owed(o)) /\ Owed(o) = 0
    BY <1>1, <1>2, <1>4, CacheSame DEF Owed, SameRegion, SameMarkers
  <2> QED
    BY <1>1, <1>2, <2>1, <2>2 DEF SameCache
<1>5. CASE Perf!collecting(o)
  <2> DEFINE e == [t.exclusive EXCEPT ![l] = @ + 1]
             n == [k \in Counters |-> t.counts[k] + Cache!Bit(Cache!Counted(g, k))]
  <2>1. c = [t EXCEPT !.counts = n, !.exclusive = e]
    BY <1>3, <1>5 DEF Cache!cache_observer_sample, Counters
  <2>2. l \in Cache!Labels
    BY CacheLabelIs
  <2> HIDE DEF t, c, l
  <2>3. CacheOk(t, 1)
    BY <1>1, <1>2, <1>5, CacheSame DEF Owed, SameRegion, SameMarkers
  <2>4. n \in [Counters -> Nat] /\ CountsOk(n)
    BY <2>3, CountsStep DEF CacheOk
  <2>5. e \in [Cache!Labels -> Nat] /\ LabelSum(e) = LabelSum(t.exclusive) + 1
    BY <2>2, <2>3, LabelAdded DEF CacheOk
  <2> HIDE DEF e, n
  <2>0. CacheFields \subseteq DOMAIN t
    BY <2>3 DEF CacheOk
  <2>6. SameRegion(t, c) /\ SameTrace(t, c)
    BY <2>0, <2>1 DEF SameRegion, SameMarkers, SameTrace, CacheFields, Region
  <2>7. c.cycles = t.cycles /\ c.writeback_observations = t.writeback_observations
    BY <2>0, <2>1 DEF CacheFields, Region
  <2>8. c.counts = n /\ c.exclusive = e
    BY <2>0, <2>1 DEF CacheFields, Region
  <2>9. LabelSum(e) + 0 = t.cycles
    <3>1. LabelSum(t.exclusive) \in Nat /\ LabelSum(t.exclusive) + 1 = t.cycles
      BY <2>3, LabelSumNat DEF CacheOk
    <3> QED
      BY ONLY <2>5, <3>1, SMTT(30)
  <2>10. CacheOk(c, 0)
    BY <2>3, <2>4, <2>5, <2>6, <2>7, <2>8, <2>9 DEF CacheOk, SameRegion, SameMarkers
  <2> QED
    BY <1>1, <1>2, <2>6, <2>7, <2>10 DEF SameRegion, SameMarkers, SameTrace, SameCache, c
<1> QED
  BY <1>4, <1>5

\* A simulator cycle of the cache observer.
LEMMA CacheCallsAre ==
  ASSUME NEW o, CacheOk(o, 0), NEW wb, NEW s, CoreSample(s)
  PROVE  LET u == Cache!cache_observer_update_roi(o, wb)
             c == CacheCalls(o, wb, s)
         IN /\ CacheOk(c, 0) /\ SameRegion(u, c) /\ SameTrace(u, c)
            /\ c.cycles = u.cycles + Owed(u)
            /\ c.writeback_observations = IF Perf!collecting(u) /\ Observed(u, wb)
                 THEN u.writeback_observations + 1 ELSE u.writeback_observations
<1> DEFINE u == Cache!cache_observer_update_roi(o, wb)
           a == Cache!cache_observer_sample_writeback(u, wb)
           b == Cache!cache_observer_cycle(a)
           c == Cache!cache_observer_sample(b, s.sig)
<1>1. CacheOk(u, 0)
  BY CacheUpdateRoi
<1>2. c = CacheCalls(o, wb, s)
  BY DEF CacheCalls
<1> HIDE DEF u
<1>3. /\ CacheOk(a, 0) /\ SameRegion(u, a) /\ SameTrace(u, a) /\ a.cycles = u.cycles
      /\ a.writeback_observations = IF Perf!collecting(u) /\ Observed(u, wb)
                 THEN u.writeback_observations + 1 ELSE u.writeback_observations
  BY <1>1, CacheSampleWriteback
<1> HIDE DEF a
<1>4. /\ CacheOk(b, Owed(a)) /\ SameRegion(a, b) /\ SameTrace(a, b)
      /\ b.writeback_observations = a.writeback_observations /\ b.cycles = a.cycles + Owed(a)
  BY <1>3, CacheCycle
<1> HIDE DEF b
<1>5. Owed(a) = Owed(u) /\ Owed(b) = Owed(a) /\ CacheOk(b, Owed(b))
  <2>1. Owed(a) = Owed(u) /\ Owed(b) = Owed(a)
    BY <1>3, <1>4 DEF Owed, Perf!collecting, SameRegion, SameMarkers
  <2> QED
    BY <1>4, <2>1
<1>6. /\ CacheOk(c, 0) /\ SameRegion(b, c) /\ SameTrace(b, c)
      /\ c.cycles = b.cycles /\ c.writeback_observations = b.writeback_observations
  BY <1>5, CacheSample
<1> HIDE DEF c
<1>7. SameRegion(u, c) /\ SameTrace(u, c)
  BY <1>3, <1>4, <1>6 DEF SameRegion, SameMarkers, SameTrace
<1> QED
  BY <1>2, <1>3, <1>4, <1>5, <1>6, <1>7 DEF u

-----------------------------------------------------------------------------
(* The counters of a Game of Life harness.                                    *)

HarnessFields ==
  {"roi", "cycles", "values", "started", "completed", "load_hits", "load_misses", "store_hits",
   "store_misses", "exclusive", "previous"}
GolOk(h) ==
  /\ HarnessFields \subseteq DOMAIN h
  /\ h.cycles \in Nat /\ h.values \in [Gol!Signals -> Nat]
  /\ h.started \in [Gol!Stalls -> Nat] /\ h.completed \in [Gol!Stalls -> Nat]
  /\ h.load_hits \in Nat /\ h.load_misses \in Nat
  /\ h.store_hits \in Nat /\ h.store_misses \in Nat
  /\ Gol!invariants(h)
  /\ h.exclusive \in [Cache!Labels -> Nat] /\ LabelSum(h.exclusive) = h.cycles
SameTotals(h, t) ==
  /\ DOMAIN t = DOMAIN h
  /\ t.cycles = h.cycles /\ t.values = h.values /\ t.exclusive = h.exclusive
  /\ t.load_hits = h.load_hits /\ t.load_misses = h.load_misses
  /\ t.store_hits = h.store_hits /\ t.store_misses = h.store_misses
SameEnds(h, t) == t.started = h.started /\ t.completed = h.completed

LEMMA GolSame ==
  ASSUME NEW h, NEW t, GolOk(h), SameTotals(h, t), SameEnds(h, t)
  PROVE  GolOk(t)
<1>1. Gol!invariants(t)
  BY DEF GolOk, SameTotals, Gol!invariants
<1> QED
  BY <1>1 DEF GolOk, SameTotals, SameEnds

\* SampleTrace only appends to the trace.
OnlyTraced(h, t) == SameTotals(h, t) /\ SameEnds(h, t) /\ t.roi = h.roi /\ t.previous = h.previous

LEMMA GolTrace ==
  ASSUME NEW h, HarnessFields \subseteq DOMAIN h, NEW s, NEW p
  PROVE  OnlyTraced(h, Gol!SampleTrace([h EXCEPT !.edges = @ + 1], s, p))
<1> DEFINE e == [h EXCEPT !.edges = @ + 1]
           r == [cycle |-> e.edges, phase |-> p]
           t == Gol!SampleTrace(e, s, p)
<1>1. SameTotals(h, e)
  BY DEF SameTotals, HarnessFields
<1>2. SameEnds(h, e) /\ e.roi = h.roi /\ e.previous = h.previous
  BY DEF SameEnds, HarnessFields
<1>3. t = e \/ t = [e EXCEPT !.trace = Append(@, r)]
  BY DEF Gol!SampleTrace
<1> HIDE DEF e, r, t
<1>0. HarnessFields \subseteq DOMAIN e
  BY <1>1 DEF SameTotals
<1>4. CASE t = e
  BY <1>1, <1>2, <1>4 DEF OnlyTraced, t, e
<1>5. CASE t = [e EXCEPT !.trace = Append(@, r)]
  <2>1. SameTotals(e, t)
    BY <1>0, <1>5 DEF SameTotals, HarnessFields
  <2>2. SameEnds(e, t) /\ t.roi = e.roi /\ t.previous = e.previous
    BY <1>0, <1>5 DEF SameEnds, HarnessFields
  <2> QED
    BY <1>1, <1>2, <2>1, <2>2 DEF OnlyTraced, SameTotals, SameEnds, t, e
<1> QED
  BY <1>3, <1>4, <1>5

\* The values of the harness grow with the signals.
Tallied(h, c, g) ==
  /\ c.values = [x \in Gol!Signals |-> h.values[x] + Gol!Bit(x \in g)]
  /\ c.load_hits = h.load_hits + Both(g, "dcache_hit", "dcache_load_access")
  /\ c.load_misses = h.load_misses + Both(g, "dcache_miss", "dcache_load_access")
  /\ c.store_hits = h.store_hits + Both(g, "dcache_hit", "dcache_store_access")
  /\ c.store_misses = h.store_misses + Both(g, "dcache_miss", "dcache_store_access")

LEMMA GolCounts ==
  ASSUME NEW h, GolOk(h), NEW s, CoreSample(s), NEW c, Tallied(h, c, s.sig)
  PROVE  Gol!invariants(c) /\ c.values \in [Gol!Signals -> Nat]
<1> DEFINE g == s.sig
           n == h.values
           f == c.values
<1>1. Named \subseteq Gol!Signals
  BY DEF Named, Gol!Signals
<1>2. n \in [Gol!Signals -> Nat]
  BY DEF GolOk
<1>3. f = [x \in Gol!Signals |-> n[x] + Gol!Bit(x \in g)]
  BY DEF Tallied
<1>4. c.values \in [Gol!Signals -> Nat]
  BY <1>2, <1>3, SMTT(30) DEF Gol!Bit
<1>5. \A x \in Named : n[x] \in Nat /\ f[x] = n[x] + In(g, x)
  BY <1>1, <1>2, <1>3 DEF Gol!Bit, In
<1>6. /\ In(g, "icache_access") = In(g, "icache_hit") + In(g, "icache_miss")
      /\ In(g, "dcache_access") = In(g, "dcache_load_access") + In(g, "dcache_store_access")
      /\ In(g, "dcache_access") = In(g, "dcache_hit") + In(g, "dcache_miss")
      /\ In(g, "dcache_load_access") = Both(g, "dcache_hit", "dcache_load_access")
           + Both(g, "dcache_miss", "dcache_load_access")
      /\ In(g, "dcache_store_access") = Both(g, "dcache_hit", "dcache_store_access")
           + Both(g, "dcache_miss", "dcache_store_access")
  BY SampleBits
<1>7. /\ n["icache_access"] = n["icache_hit"] + n["icache_miss"]
      /\ n["dcache_access"] = n["dcache_load_access"] + n["dcache_store_access"]
      /\ n["dcache_access"] = n["dcache_hit"] + n["dcache_miss"]
      /\ n["dcache_load_access"] = h.load_hits + h.load_misses
      /\ n["dcache_store_access"] = h.store_hits + h.store_misses
  BY DEF GolOk, Gol!invariants
<1>8. h.load_hits \in Nat /\ h.load_misses \in Nat /\ h.store_hits \in Nat /\ h.store_misses \in Nat
  BY DEF GolOk
<1> HIDE DEF g, n, f
<1>9. f["icache_access"] = f["icache_hit"] + f["icache_miss"]
  <2>1. /\ f["icache_access"] = n["icache_access"] + In(g, "icache_access")
        /\ f["icache_hit"] = n["icache_hit"] + In(g, "icache_hit")
        /\ f["icache_miss"] = n["icache_miss"] + In(g, "icache_miss")
    BY <1>5 DEF Named
  <2>2. n["icache_access"] \in Nat /\ n["icache_hit"] \in Nat /\ n["icache_miss"] \in Nat
    BY <1>5, <1>8 DEF Named
  <2>3. n["icache_access"] = n["icache_hit"] + n["icache_miss"]
    BY <1>7
  <2>4. /\ In(g, "icache_access") \in Nat /\ In(g, "icache_hit") \in Nat /\ In(g, "icache_miss") \in Nat
        /\ In(g, "icache_access") = In(g, "icache_hit") + In(g, "icache_miss")
    BY <1>6, InNat
  <2> QED
    BY ONLY <2>1, <2>2, <2>3, <2>4, SMTT(30)
<1>10. f["dcache_access"] = f["dcache_load_access"] + f["dcache_store_access"]
  <2>1. /\ f["dcache_access"] = n["dcache_access"] + In(g, "dcache_access")
        /\ f["dcache_load_access"] = n["dcache_load_access"] + In(g, "dcache_load_access")
        /\ f["dcache_store_access"] = n["dcache_store_access"] + In(g, "dcache_store_access")
    BY <1>5 DEF Named
  <2>2. n["dcache_access"] \in Nat /\ n["dcache_load_access"] \in Nat /\
          n["dcache_store_access"] \in Nat
    BY <1>5, <1>8 DEF Named
  <2>3. n["dcache_access"] = n["dcache_load_access"] + n["dcache_store_access"]
    BY <1>7
  <2>4. /\ In(g, "dcache_access") \in Nat /\ In(g, "dcache_load_access") \in Nat /\
             In(g, "dcache_store_access") \in Nat
        /\ In(g, "dcache_access") = In(g, "dcache_load_access") + In(g, "dcache_store_access")
    BY <1>6, InNat
  <2> QED
    BY ONLY <2>1, <2>2, <2>3, <2>4, SMTT(30)
<1>11. f["dcache_access"] = f["dcache_hit"] + f["dcache_miss"]
  <2>1. /\ f["dcache_access"] = n["dcache_access"] + In(g, "dcache_access")
        /\ f["dcache_hit"] = n["dcache_hit"] + In(g, "dcache_hit")
        /\ f["dcache_miss"] = n["dcache_miss"] + In(g, "dcache_miss")
    BY <1>5 DEF Named
  <2>2. n["dcache_access"] \in Nat /\ n["dcache_hit"] \in Nat /\ n["dcache_miss"] \in Nat
    BY <1>5, <1>8 DEF Named
  <2>3. n["dcache_access"] = n["dcache_hit"] + n["dcache_miss"]
    BY <1>7
  <2>4. /\ In(g, "dcache_access") \in Nat /\ In(g, "dcache_hit") \in Nat /\ In(g, "dcache_miss") \in Nat
        /\ In(g, "dcache_access") = In(g, "dcache_hit") + In(g, "dcache_miss")
    BY <1>6, InNat
  <2> QED
    BY ONLY <2>1, <2>2, <2>3, <2>4, SMTT(30)
<1>12. f["dcache_load_access"] = c.load_hits + c.load_misses
  <2>1. /\ f["dcache_load_access"] = n["dcache_load_access"] + In(g, "dcache_load_access")
        /\ c.load_hits = h.load_hits + Both(g, "dcache_hit", "dcache_load_access")
        /\ c.load_misses = h.load_misses + Both(g, "dcache_miss", "dcache_load_access")
    BY <1>5 DEF Named, g, Tallied
  <2>2. n["dcache_load_access"] \in Nat /\ h.load_hits \in Nat /\ h.load_misses \in Nat
    BY <1>5, <1>8 DEF Named
  <2>3. n["dcache_load_access"] = h.load_hits + h.load_misses
    BY <1>7
  <2>4. /\ In(g, "dcache_load_access") \in Nat /\
             Both(g, "dcache_hit", "dcache_load_access") \in Nat /\
               Both(g, "dcache_miss", "dcache_load_access") \in Nat
        /\ In(g, "dcache_load_access") = Both(g, "dcache_hit", "dcache_load_access")
             + Both(g, "dcache_miss", "dcache_load_access")
    BY <1>6, InNat
  <2> QED
    BY ONLY <2>1, <2>2, <2>3, <2>4, SMTT(30)
<1>13. f["dcache_store_access"] = c.store_hits + c.store_misses
  <2>1. /\ f["dcache_store_access"] = n["dcache_store_access"] + In(g, "dcache_store_access")
        /\ c.store_hits = h.store_hits + Both(g, "dcache_hit", "dcache_store_access")
        /\ c.store_misses = h.store_misses + Both(g, "dcache_miss", "dcache_store_access")
    BY <1>5 DEF Named, g, Tallied
  <2>2. n["dcache_store_access"] \in Nat /\ h.store_hits \in Nat /\ h.store_misses \in Nat
    BY <1>5, <1>8 DEF Named
  <2>3. n["dcache_store_access"] = h.store_hits + h.store_misses
    BY <1>7
  <2>4. /\ In(g, "dcache_store_access") \in Nat /\
             Both(g, "dcache_hit", "dcache_store_access") \in Nat /\
               Both(g, "dcache_miss", "dcache_store_access") \in Nat
        /\ In(g, "dcache_store_access") = Both(g, "dcache_hit", "dcache_store_access")
             + Both(g, "dcache_miss", "dcache_store_access")
    BY <1>6, InNat
  <2> QED
    BY ONLY <2>1, <2>2, <2>3, <2>4, SMTT(30)
<1> QED
  BY <1>4, <1>9, <1>10, <1>11, <1>12, <1>13 DEF Gol!invariants, f

\* What a sample of the harness adds.
Ended(h, c, g) ==
  /\ c.started = [x \in Gol!Stalls |-> h.started[x] + Gol!Bit(x \in g /\ x \notin h.previous)]
  /\ c.completed = [x \in Gol!Stalls |-> h.completed[x] + Gol!Bit(x \notin g /\ x \in h.previous)]

LEMMA GolSample ==
  ASSUME NEW h, GolOk(h), NEW s, CoreSample(s)
  PROVE  LET c == Gol!Sample(h, s.sig)
         IN /\ GolOk(c) /\ c.roi = h.roi
            /\ c.cycles = IF h.roi THEN h.cycles + 1 ELSE h.cycles
            /\ IF h.roi THEN Ended(h, c, s.sig) ELSE SameEnds(h, c)
<1> DEFINE g == s.sig
           c == Gol!Sample(h, g)
           l == Gol!Label(g)
<1>0. HarnessFields \subseteq DOMAIN h
  BY DEF GolOk
<1>1. CASE ~h.roi
  BY <1>1 DEF Gol!Sample, SameEnds
<1>2. CASE h.roi
  <2> DEFINE v == [x \in Gol!Signals |-> h.values[x] + Gol!Bit(x \in g)]
             b == [x \in Gol!Stalls |-> h.started[x] + Gol!Bit(x \in g /\ x \notin h.previous)]
             d == [x \in Gol!Stalls |-> h.completed[x] + Gol!Bit(x \notin g /\ x \in h.previous)]
             e == [h.exclusive EXCEPT ![l] = @ + 1]
             lh == Gol!Bit("dcache_hit" \in g /\ "dcache_load_access" \in g)
             lm == Gol!Bit("dcache_miss" \in g /\ "dcache_load_access" \in g)
             sh == Gol!Bit("dcache_hit" \in g /\ "dcache_store_access" \in g)
             sm == Gol!Bit("dcache_miss" \in g /\ "dcache_store_access" \in g)
  <2>1. c = [h EXCEPT !.cycles = @ + 1, !.values = v, !.started = b, !.completed = d,
                      !.load_hits = @ + lh, !.load_misses = @ + lm, !.store_hits = @ + sh,
                      !.store_misses = @ + sm, !.exclusive = e]
    BY <1>2 DEF Gol!Sample, Gol!Completed
  <2>2. l \in Cache!Labels
    BY CacheLabelIs
  <2>3. /\ lh = Both(g, "dcache_hit", "dcache_load_access")
        /\ lm = Both(g, "dcache_miss", "dcache_load_access")
        /\ sh = Both(g, "dcache_hit", "dcache_store_access")
        /\ sm = Both(g, "dcache_miss", "dcache_store_access")
    BY DEF Gol!Bit, Both
  <2>4. e \in [Cache!Labels -> Nat] /\ LabelSum(e) = LabelSum(h.exclusive) + 1
    BY <2>2, LabelAdded DEF GolOk
  <2>5. b \in [Gol!Stalls -> Nat] /\ d \in [Gol!Stalls -> Nat]
    <3>1. h.started \in [Gol!Stalls -> Nat] /\ h.completed \in [Gol!Stalls -> Nat]
      BY DEF GolOk
    <3> QED
      BY ONLY <3>1, SMTT(30) DEF Gol!Bit
  <2>s. s.sig = g
    BY SMTT(30)
  <2> HIDE DEF c, v, b, d, e, lh, lm, sh, sm, l, g
  <2>6. DOMAIN c = DOMAIN h
    BY <2>1
  <2>7. c.roi = h.roi /\ c.cycles = h.cycles + 1
    BY <1>0, <2>1 DEF HarnessFields
  <2>8. c.values = v /\ c.exclusive = e
    BY <1>0, <2>1 DEF HarnessFields
  <2>9. c.started = b /\ c.completed = d
    BY <1>0, <2>1 DEF HarnessFields
  <2>10. c.load_hits = h.load_hits + lh /\ c.load_misses = h.load_misses + lm
    BY <1>0, <2>1 DEF HarnessFields
  <2>11. c.store_hits = h.store_hits + sh /\ c.store_misses = h.store_misses + sm
    BY <1>0, <2>1 DEF HarnessFields
  <2>12. Gol!invariants(c) /\ c.values \in [Gol!Signals -> Nat]
    <3>1. Tallied(h, c, s.sig)
      BY <2>3, <2>8, <2>10, <2>11, <2>s DEF v, Tallied
    <3> QED
      BY <3>1, GolCounts
  <2>13. /\ h.cycles + 1 \in Nat /\ LabelSum(e) = h.cycles + 1
         /\ h.load_hits + lh \in Nat /\ h.load_misses + lm \in Nat
         /\ h.store_hits + sh \in Nat /\ h.store_misses + sm \in Nat
    <3>1. /\ h.cycles \in Nat /\ LabelSum(h.exclusive) = h.cycles
          /\ h.load_hits \in Nat /\ h.load_misses \in Nat
          /\ h.store_hits \in Nat /\ h.store_misses \in Nat
      BY DEF GolOk
    <3>2. lh \in Nat /\ lm \in Nat /\ sh \in Nat /\ sm \in Nat
      BY <2>3, InNat
    <3> QED
      BY ONLY <2>4, <3>1, <3>2, SMTT(30)
  <2>14. GolOk(c)
    BY <1>0, <2>4, <2>5, <2>6, <2>7, <2>8, <2>9, <2>10, <2>11, <2>12, <2>13 DEF GolOk
  <2>15. Ended(h, c, s.sig)
    BY <2>9, <2>s DEF Ended, b, d
  <2> QED
    BY <1>2, <2>7, <2>14, <2>15 DEF c, g
<1> QED
  BY <1>1, <1>2

LEMMA GolTickIs ==
  ASSUME NEW h, GolOk(h), NEW s, CoreSample(s), NEW m, m.sig = s.sig
  PROVE  LET c == Gol!Tick(h, m)
             on == m.mark # "start" /\ h.roi
         IN /\ GolOk(c) /\ c.previous = s.sig \cap Gol!Stalls
            /\ c.roi = IF m.mark = "start" THEN TRUE ELSE IF m.mark = "stop" THEN FALSE ELSE h.roi
            /\ c.cycles = IF on THEN h.cycles + 1 ELSE h.cycles
            /\ IF on THEN Ended(h, c, s.sig) ELSE SameEnds(h, c)
<1> DEFINE e == [h EXCEPT !.edges = @ + 1]
           p == IF e.roi THEN "ROI" ELSE "PRE_ROI"
           on == m.mark # "start" /\ h.roi
           t0 == Gol!SampleTrace(e, s.sig, "PRE_ROI")
           t1 == Gol!SampleTrace(e, s.sig, p)
           a == IF m.mark = "start" THEN [t0 EXCEPT !.roi = TRUE] ELSE Gol!Sample(t1, s.sig)
           d == IF m.mark = "stop" THEN [a EXCEPT !.roi = FALSE, !.roi_completed = TRUE] ELSE a
           c == [d EXCEPT !.previous = s.sig \cap Gol!Stalls]
<1>0. HarnessFields \subseteq DOMAIN h
  BY DEF GolOk
<1>1. c = Gol!Tick(h, m)
  BY DEF Gol!Tick
<1> HIDE DEF p
<1>a. OnlyTraced(h, t0)
  BY <1>0, GolTrace
<1>b. OnlyTraced(h, t1)
  BY <1>0, GolTrace
<1>2. /\ SameTotals(h, t0) /\ SameEnds(h, t0)
      /\ SameTotals(h, t1) /\ SameEnds(h, t1) /\ t1.roi = h.roi /\ t1.previous = h.previous
  BY <1>a, <1>b DEF OnlyTraced
<1> HIDE DEF e, t0, t1
<1>3. /\ GolOk(a) /\ a.roi = IF m.mark = "start" THEN TRUE ELSE h.roi
      /\ a.cycles = IF on THEN h.cycles + 1 ELSE h.cycles
      /\ IF on THEN Ended(h, a, s.sig) ELSE SameEnds(h, a)
  <2>1. CASE m.mark = "start"
    <3>1. GolOk(t0)
      BY <1>2, GolSame
    <3>0. HarnessFields \subseteq DOMAIN t0
      BY <3>1 DEF GolOk
    <3>2. a = [t0 EXCEPT !.roi = TRUE]
      BY <2>1
    <3> HIDE DEF a
    <3>3. SameTotals(t0, a)
      BY <3>0, <3>2 DEF SameTotals, HarnessFields
    <3>4. SameEnds(t0, a) /\ a.roi = TRUE
      BY <3>0, <3>2 DEF SameEnds, HarnessFields
    <3>5. GolOk(a)
      BY <3>1, <3>3, <3>4, GolSame
    <3> QED
      BY <1>2, <2>1, <3>3, <3>4, <3>5 DEF SameTotals, SameEnds
  <2>2. CASE m.mark # "start"
    <3>1. GolOk(t1)
      BY <1>2, GolSame
    <3>2. a = Gol!Sample(t1, s.sig)
      BY <2>2
    <3> DEFINE z == Gol!Sample(t1, s.sig)
    <3>z. /\ GolOk(z) /\ z.roi = t1.roi
          /\ z.cycles = IF t1.roi THEN t1.cycles + 1 ELSE t1.cycles
          /\ IF t1.roi THEN Ended(t1, z, s.sig) ELSE SameEnds(t1, z)
      BY <3>1, GolSample
    <3> HIDE DEF a
    <3>3. /\ GolOk(a) /\ a.roi = t1.roi
          /\ a.cycles = IF t1.roi THEN t1.cycles + 1 ELSE t1.cycles
          /\ IF t1.roi THEN Ended(t1, a, s.sig) ELSE SameEnds(t1, a)
      BY <3>2, <3>z
    <3>4. on <=> h.roi
      BY <2>2
    <3>5. a.roi = h.roi /\ a.cycles = IF on THEN h.cycles + 1 ELSE h.cycles
      BY <1>2, <3>3, <3>4 DEF SameTotals
    <3>6. IF on THEN Ended(h, a, s.sig) ELSE SameEnds(h, a)
      <4>1. CASE h.roi
        <5>1. Ended(t1, a, s.sig)
          BY <1>2, <3>3, <4>1
        <5>2. Ended(h, a, s.sig)
          BY <1>2, <5>1 DEF Ended, SameEnds
        <5> QED
          BY <3>4, <4>1, <5>2
      <4>2. CASE ~h.roi
        BY <1>2, <3>3, <3>4, <4>2 DEF SameEnds
      <4> QED
        BY <4>1, <4>2
    <3> QED
      BY <2>2, <3>3, <3>5, <3>6
  <2> QED
    BY <2>1, <2>2
<1> HIDE DEF a
<1>4. /\ SameTotals(a, d) /\ SameEnds(a, d) /\ HarnessFields \subseteq DOMAIN d
      /\ d.roi = IF m.mark = "stop" THEN FALSE ELSE a.roi
  <2>0. HarnessFields \subseteq DOMAIN a
    BY <1>3 DEF GolOk
  <2>1. SameTotals(a, d)
    BY <2>0 DEF SameTotals, HarnessFields
  <2>2. SameEnds(a, d) /\ d.roi = IF m.mark = "stop" THEN FALSE ELSE a.roi
    BY <2>0 DEF SameEnds, HarnessFields
  <2> QED
    BY <2>0, <2>1, <2>2 DEF SameTotals
<1> HIDE DEF d
<1>5. SameTotals(d, c)
  BY <1>4 DEF SameTotals, HarnessFields
<1>6. SameEnds(d, c) /\ c.roi = d.roi /\ c.previous = s.sig \cap Gol!Stalls
  BY <1>4 DEF SameEnds, HarnessFields
<1> HIDE DEF c
<1>7. SameTotals(a, c) /\ SameEnds(a, c)
  BY <1>4, <1>5, <1>6 DEF SameTotals, SameEnds
<1>8. GolOk(c)
  BY <1>3, <1>7, GolSame
<1>9. c.roi = IF m.mark = "start" THEN TRUE ELSE IF m.mark = "stop" THEN FALSE ELSE h.roi
  <2>1. m.mark = "start" => m.mark # "stop"
    BY SMTT(30)
  <2> QED
    BY <1>3, <1>4, <1>6, <2>1
<1>10. /\ c.cycles = IF on THEN h.cycles + 1 ELSE h.cycles
       /\ IF on THEN Ended(h, c, s.sig) ELSE SameEnds(h, c)
  BY <1>3, <1>7 DEF SameTotals, SameEnds, Ended
<1> QED
  BY <1>1, <1>6, <1>8, <1>9, <1>10

-----------------------------------------------------------------------------
(* The window that the observers of a run share.                              *)

Phases == {"before", "in", "after"}
HistFields == {"ticks", "phase", "window", "retired", "updates", "truth", "refilling"}
RunOk ==
  /\ mode \in {"sim", "gol"} /\ env \in Envs
  /\ HistFields \subseteq DOMAIN hist
  /\ hist.phase \in Phases /\ hist.window \in Nat /\ hist.retired \in Nat
  /\ hist.phase = "before" => hist.window = 0 /\ hist.retired = 0
  /\ mode = "sim" /\ ~env.start.valid => hist.phase = "in"

\* The globals of an observer in phase p of the run.
RoiIs(o, p) ==
  /\ o.roi_requested = env.start.valid
  /\ env.start.valid => o.roi_start_pc = env.start.value /\ o.roi_end_pc = env.end.value
  /\ o.roi_started = (p # "before") /\ o.roi_active = (p = "in") /\ o.roi_ended = (p = "after")

Regular == mode = "sim" /\ env.out = "path" /\ Valid
SimWindow ==
  Regular =>
    /\ perf.output = TRUE /\ RoiIs(perf, hist.phase)
    /\ perf.cycle_count = hist.window /\ Len(perf.observations) = hist.retired
    /\ cache.output = TRUE /\ RoiIs(cache, hist.phase)
    /\ cache.cycles = hist.window /\ cache.writeback_observations = hist.retired
    /\ cache.trace_open_failed = (env.trace /\ ~env.traceable)
    /\ RoiIs(dep, hist.phase) /\ dep.roi_cycles = hist.window
DepOk ==
  /\ DepFields \subseteq DOMAIN dep /\ dep.roi_cycles \in Nat
  /\ dep.enabled = IF mode = "sim" THEN env.out = "path" /\ Valid ELSE env.out = "path"

\* What started has completed, or it goes on; r went on when the window opened.
Balanced(h, r) ==
  \A x \in Gol!Stalls :
    h.started[x] + Bit(x \in r) = h.completed[x] + Bit(x \in h.previous)
GolWindow ==
  mode = "gol" =>
    /\ gol.roi = (hist.phase = "in") /\ gol.cycles = hist.window
    /\ hist.phase = "before" => gol.started = gol.completed
    /\ hist.phase = "in" => Balanced(gol, hist.refilling)
    /\ dep.roi_requested = FALSE
    /\ dep.enabled => dep.roi_active = (hist.phase = "in") /\ dep.roi_cycles = hist.window

WinInv ==
  /\ RunOk /\ PerfOk(perf, 0) /\ CacheOk(cache, 0) /\ GolOk(gol) /\ DepOk
  /\ SimWindow /\ GolWindow

\* The markers move an observer as they move the window.
LEMMA RoiStep ==
  ASSUME NEW o, NEW u, NEW wb, RoiIs(o, hist.phase), RoiMoves(o, u, TRUE, wb),
         hist.phase \in Phases, ~env.start.valid => hist.phase = "in",
         u.roi_requested = o.roi_requested, u.roi_start_pc = o.roi_start_pc,
         u.roi_end_pc = o.roi_end_pc
  PROVE  /\ RoiIs(u, Phase(hist, wb)) /\ Phase(hist, wb) \in Phases
         /\ ~env.start.valid => Phase(hist, wb) = "in"
         /\ RoiStarts(o, wb) <=> hist.phase = "before" /\ Phase(hist, wb) = "in"
         /\ Phase(hist, wb) = "before" => hist.phase = "before"
<1> DEFINE p == hist.phase
           q == Phase(hist, wb)
           v == env.start.valid
<1>1. p = "before" => v
  BY SMTT(30) DEF Phases
<1>2. RoiStarts(o, wb) <=> p = "before" /\ wb.sign /\ wb.pc = env.start.value
  BY <1>1 DEF RoiStarts, RoiIs
<1>3. RoiEnds(o, wb) <=> p = "in" /\ v /\ wb.sign /\ wb.pc = env.end.value
  <2>1. p = "in" => p # "before"
    BY SMTT(30)
  <2> QED
    BY <1>2, <2>1 DEF RoiEnds, RoiIs
<1>4. q = IF RoiStarts(o, wb) THEN "in" ELSE IF RoiEnds(o, wb) THEN "after" ELSE p
  BY <1>2, <1>3 DEF Phase
<1>5. /\ u.roi_started = IF RoiStarts(o, wb) THEN TRUE ELSE p # "before"
      /\ u.roi_active = IF RoiStarts(o, wb) THEN TRUE ELSE IF RoiEnds(o, wb) THEN FALSE ELSE p = "in"
      /\ u.roi_ended = IF RoiEnds(o, wb) THEN TRUE ELSE p = "after"
  BY DEF RoiMoves, RoiIs
<1>6. /\ u.roi_requested = v
      /\ v => u.roi_start_pc = env.start.value /\ u.roi_end_pc = env.end.value
  BY DEF RoiIs
<1>7. p \in {"before", "in", "after"}
  BY DEF Phases
<1>8. /\ RoiStarts(o, wb) => p = "before"
      /\ RoiEnds(o, wb) => p = "in" /\ v
      /\ ~v => p = "in"
  BY <1>2, <1>3
<1> HIDE DEF p, q, v
<1>9. /\ u.roi_started = (q # "before") /\ u.roi_active = (q = "in") /\ u.roi_ended = (q = "after")
  <2>1. CASE RoiStarts(o, wb)
    <3>1. q = "in" /\ ~RoiEnds(o, wb) /\ p # "after" /\ q # "before" /\ q # "after"
      BY ONLY <1>4, <1>8, <2>1, SMTT(30)
    <3> QED
      BY <1>5, <2>1, <3>1
  <2>2. CASE RoiEnds(o, wb)
    <3>1. q = "after" /\ ~RoiStarts(o, wb) /\ p # "before" /\ q # "before" /\ q # "in"
      BY ONLY <1>4, <1>8, <2>2, SMTT(30)
    <3> QED
      BY <1>5, <2>2, <3>1
  <2>3. CASE ~RoiStarts(o, wb) /\ ~RoiEnds(o, wb)
    BY <1>4, <1>5, <2>3
  <2> QED
    BY <2>1, <2>2, <2>3
<1>10. /\ q \in {"before", "in", "after"} /\ (~v => q = "in")
       /\ RoiStarts(o, wb) <=> p = "before" /\ q = "in"
       /\ q = "before" => p = "before"
  BY ONLY <1>4, <1>7, <1>8, SMTT(30)
<1> QED
  BY <1>6, <1>9, <1>10 DEF RoiIs, Phases, p, q, v

NextWindow(wb) == IF Phase(hist, wb) = "in" THEN hist.window + 1 ELSE hist.window
NextRetired(wb) ==
  IF /\ Phase(hist, wb) = "in" /\ wb.sign
     /\ ~(wb.pc \in {env.start.value, env.end.value} /\ env.start.valid)
  THEN hist.retired + 1 ELSE hist.retired

\* An observer collects in the window, and what retires there but the markers.
LEMMA RoiCollects ==
  ASSUME NEW u, NEW q, NEW wb, u.output = TRUE, RoiIs(u, q), ~env.start.valid => q = "in"
  PROVE  /\ Perf!collecting(u) <=> q = "in"
         /\ Owed(u) = IF q = "in" THEN 1 ELSE 0
         /\ Observed(u, wb) <=>
              wb.sign /\ ~(wb.pc \in {env.start.value, env.end.value} /\ env.start.valid)
<1>1. Perf!collecting(u) <=> q = "in"
  BY DEF Perf!collecting, RoiIs
<1>2. Observed(u, wb) <=>
        wb.sign /\ ~(wb.pc \in {env.start.value, env.end.value} /\ env.start.valid)
  BY DEF Observed, RoiIs
<1> QED
  BY <1>1, <1>2 DEF Owed

\* RoiIs depends on the globals of the region only.
LEMMA RoiSame ==
  ASSUME NEW u, NEW c, NEW q, RoiIs(u, q), c.roi_requested = u.roi_requested,
         c.roi_start_pc = u.roi_start_pc, c.roi_end_pc = u.roi_end_pc,
         c.roi_started = u.roi_started, c.roi_active = u.roi_active, c.roi_ended = u.roi_ended
  PROVE  RoiIs(c, q)
BY DEF RoiIs

LEMMA PerfWindow ==
  ASSUME RunOk, mode = "sim", PerfOk(perf, 0), NEW wb, wb.pc \in Nat, NEW s,
         perf.output = TRUE, RoiIs(perf, hist.phase),
         perf.cycle_count = hist.window, Len(perf.observations) = hist.retired
  PROVE  LET c == PerfCalls(perf, wb, s)
         IN /\ c.output = TRUE /\ RoiIs(c, Phase(hist, wb))
            /\ c.cycle_count = NextWindow(wb) /\ Len(c.observations) = NextRetired(wb)
<1> DEFINE u == Perf!perf_observer_update_roi(perf, wb)
           c == PerfCalls(perf, wb, s)
           q == Phase(hist, wb)
<1>1. /\ SameMarkers(perf, u) /\ RoiMoves(perf, u, perf.output, wb)
      /\ IF perf.output /\ RoiStarts(perf, wb) THEN u.cycle_count = 0 /\ u.observations = <<>>
         ELSE u.cycle_count = perf.cycle_count /\ u.observations = perf.observations
  BY PerfUpdateRoi
<1>2. /\ SameRegion(u, c) /\ c.cycle_count = u.cycle_count + Owed(u)
      /\ Len(c.observations) = IF Perf!collecting(u) /\ Observed(u, wb)
                               THEN Len(u.observations) + 1 ELSE Len(u.observations)
  BY PerfCallsAre
<1> HIDE DEF u, c
<1>3. /\ hist.phase \in Phases /\ (~env.start.valid => hist.phase = "in")
      /\ hist.window \in Nat /\ hist.retired \in Nat
      /\ hist.phase = "before" => hist.window = 0 /\ hist.retired = 0
  BY DEF RunOk
<1>4. /\ u.output = TRUE /\ u.roi_requested = perf.roi_requested
      /\ u.roi_start_pc = perf.roi_start_pc /\ u.roi_end_pc = perf.roi_end_pc
      /\ RoiMoves(perf, u, TRUE, wb)
  BY <1>1 DEF SameMarkers
<1>5. /\ RoiIs(u, q) /\ (~env.start.valid => q = "in")
      /\ RoiStarts(perf, wb) <=> hist.phase = "before" /\ q = "in"
  BY <1>3, <1>4, RoiStep
<1> HIDE DEF q
<1>6. /\ Perf!collecting(u) <=> q = "in"
      /\ Owed(u) = IF q = "in" THEN 1 ELSE 0
      /\ Observed(u, wb) <=>
           wb.sign /\ ~(wb.pc \in {env.start.value, env.end.value} /\ env.start.valid)
  BY <1>4, <1>5, RoiCollects
<1>7. c.output = TRUE /\ RoiIs(c, q)
  <2>1. /\ c.output = u.output /\ c.roi_requested = u.roi_requested
        /\ c.roi_start_pc = u.roi_start_pc /\ c.roi_end_pc = u.roi_end_pc
        /\ c.roi_started = u.roi_started /\ c.roi_active = u.roi_active /\ c.roi_ended = u.roi_ended
    BY <1>2 DEF SameRegion, SameMarkers
  <2> QED
    BY <1>4, <1>5, <2>1, RoiSame
<1>8. u.cycle_count = hist.window /\ Len(u.observations) = hist.retired
  <2>1. Len(<<>>) = 0
    BY SMTT(30)
  <2>2. CASE RoiStarts(perf, wb)
    <3>1. hist.phase = "before" /\ u.cycle_count = 0 /\ u.observations = <<>>
      BY <1>1, <1>5, <2>2
    <3> QED
      BY <1>3, <2>1, <3>1
  <2>3. CASE ~RoiStarts(perf, wb)
    BY <1>1, <2>3
  <2> QED
    BY <2>2, <2>3
<1>9. c.cycle_count = NextWindow(wb)
  BY <1>2, <1>3, <1>6, <1>8, PlusOwed DEF NextWindow, q
<1>10. Len(c.observations) = NextRetired(wb)
  BY <1>2, <1>6, <1>8 DEF NextRetired, q
<1> QED
  BY <1>7, <1>9, <1>10 DEF c, q

LEMMA CacheWindow ==
  ASSUME RunOk, mode = "sim", CacheOk(cache, 0), NEW wb, NEW s, CoreSample(s),
         cache.output = TRUE, RoiIs(cache, hist.phase),
         cache.cycles = hist.window, cache.writeback_observations = hist.retired
  PROVE  LET c == CacheCalls(cache, wb, s)
         IN /\ c.output = TRUE /\ RoiIs(c, Phase(hist, wb))
            /\ c.cycles = NextWindow(wb) /\ c.writeback_observations = NextRetired(wb)
            /\ c.trace_open_failed = cache.trace_open_failed
<1> DEFINE u == Cache!cache_observer_update_roi(cache, wb)
           c == CacheCalls(cache, wb, s)
           q == Phase(hist, wb)
<1>1. /\ SameMarkers(cache, u) /\ SameTrace(cache, u) /\ RoiMoves(cache, u, cache.output, wb)
      /\ IF cache.output /\ RoiStarts(cache, wb) THEN u.cycles = 0 /\ u.writeback_observations = 0
         ELSE u.cycles = cache.cycles /\ u.writeback_observations = cache.writeback_observations
  BY CacheUpdateRoi
<1>2. /\ SameRegion(u, c) /\ SameTrace(u, c) /\ c.cycles = u.cycles + Owed(u)
      /\ c.writeback_observations = IF Perf!collecting(u) /\ Observed(u, wb)
                               THEN u.writeback_observations + 1 ELSE u.writeback_observations
  BY CacheCallsAre
<1> HIDE DEF u, c
<1>3. /\ hist.phase \in Phases /\ (~env.start.valid => hist.phase = "in")
      /\ hist.window \in Nat /\ hist.retired \in Nat
      /\ hist.phase = "before" => hist.window = 0 /\ hist.retired = 0
  BY DEF RunOk
<1>4. /\ u.output = TRUE /\ u.roi_requested = cache.roi_requested
      /\ u.roi_start_pc = cache.roi_start_pc /\ u.roi_end_pc = cache.roi_end_pc
      /\ RoiMoves(cache, u, TRUE, wb)
  BY <1>1 DEF SameMarkers
<1>5. /\ RoiIs(u, q) /\ (~env.start.valid => q = "in")
      /\ RoiStarts(cache, wb) <=> hist.phase = "before" /\ q = "in"
  BY <1>3, <1>4, RoiStep
<1> HIDE DEF q
<1>6. /\ Perf!collecting(u) <=> q = "in"
      /\ Owed(u) = IF q = "in" THEN 1 ELSE 0
      /\ Observed(u, wb) <=>
           wb.sign /\ ~(wb.pc \in {env.start.value, env.end.value} /\ env.start.valid)
  BY <1>4, <1>5, RoiCollects
<1>7. c.output = TRUE /\ RoiIs(c, q)
  <2>1. /\ c.output = u.output /\ c.roi_requested = u.roi_requested
        /\ c.roi_start_pc = u.roi_start_pc /\ c.roi_end_pc = u.roi_end_pc
        /\ c.roi_started = u.roi_started /\ c.roi_active = u.roi_active /\ c.roi_ended = u.roi_ended
    BY <1>2 DEF SameRegion, SameMarkers
  <2> QED
    BY <1>4, <1>5, <2>1, RoiSame
<1>8. u.cycles = hist.window /\ u.writeback_observations = hist.retired
  <2>1. CASE RoiStarts(cache, wb)
    <3>1. hist.phase = "before" /\ u.cycles = 0 /\ u.writeback_observations = 0
      BY <1>1, <1>5, <2>1
    <3> QED
      BY <1>3, <3>1
  <2>2. CASE ~RoiStarts(cache, wb)
    BY <1>1, <2>2
  <2> QED
    BY <2>1, <2>2
<1>9. c.cycles = NextWindow(wb)
  BY <1>2, <1>3, <1>6, <1>8, PlusOwed DEF NextWindow, q
<1>10. c.writeback_observations = NextRetired(wb)
  BY <1>2, <1>6, <1>8 DEF NextRetired, q
<1>11. c.trace_open_failed = cache.trace_open_failed
  BY <1>1, <1>2 DEF SameTrace
<1> QED
  BY <1>7, <1>9, <1>10, <1>11 DEF c, q

LEMMA DepWindow ==
  ASSUME RunOk, mode = "sim", DepOk, NEW wb, NEW s, dep.enabled = TRUE,
         RoiIs(dep, hist.phase), dep.roi_cycles = hist.window
  PROVE  LET c == single_cycle(exec_once(dep, wb), s)
         IN RoiIs(c, Phase(hist, wb)) /\ c.roi_cycles = NextWindow(wb)
<1> DEFINE u == exec_once(dep, wb)
           c == single_cycle(u, s)
           q == Phase(hist, wb)
<1>1. /\ hist.phase \in Phases /\ (~env.start.valid => hist.phase = "in")
      /\ hist.window \in Nat /\ (hist.phase = "before" => hist.window = 0)
  BY DEF RunOk
<1>0. DepFields \subseteq DOMAIN dep
  BY DEF DepOk
<1>2. DepMarkers(dep, u) /\ RoiMoves(dep, u, dep.enabled, wb) /\ DepMoves(dep, u, wb)
  <2>1. ~dep.roi_started => dep.roi_ended = FALSE
    <3>1. hist.phase = "before" => hist.phase # "after"
      BY SMTT(30)
    <3> QED
      BY <3>1 DEF RoiIs
  <2> QED
    BY <1>0, <2>1, DepUpdateRoi
<1> HIDE DEF u
<1>3. /\ u.enabled = TRUE /\ u.roi_requested = dep.roi_requested
      /\ u.roi_start_pc = dep.roi_start_pc /\ u.roi_end_pc = dep.roi_end_pc
      /\ RoiMoves(dep, u, TRUE, wb) /\ DepFields \subseteq DOMAIN u
  BY <1>0, <1>2 DEF DepMarkers
<1>4. /\ RoiIs(u, q) /\ (~env.start.valid => q = "in")
      /\ RoiStarts(dep, wb) <=> hist.phase = "before" /\ q = "in"
  BY <1>1, <1>3, RoiStep
<1> HIDE DEF q
<1>5. u.roi_cycles = hist.window
  BY <1>1, <1>2, <1>4 DEF DepMoves
<1>a. u.roi_cycles \in Nat
  BY <1>1, <1>5
<1>6. /\ DepRegion(u, c)
      /\ c.roi_cycles = IF u.enabled /\ u.roi_active THEN u.roi_cycles + 1 ELSE u.roi_cycles
  BY <1>3, <1>a, SingleCycle
<1> HIDE DEF c
<1>7. RoiIs(c, q)
  <2>1. /\ c.roi_requested = u.roi_requested
        /\ c.roi_start_pc = u.roi_start_pc /\ c.roi_end_pc = u.roi_end_pc
        /\ c.roi_started = u.roi_started /\ c.roi_active = u.roi_active /\ c.roi_ended = u.roi_ended
    BY <1>6 DEF DepRegion, DepMarkers
  <2> QED
    BY <1>4, <2>1, RoiSame
<1>8. c.roi_cycles = NextWindow(wb)
  <2>1. u.roi_active <=> q = "in"
    BY <1>4 DEF RoiIs
  <2> QED
    BY <1>3, <1>5, <1>6, <2>1 DEF NextWindow, q
<1> QED
  BY <1>7, <1>8 DEF c, u, q

-----------------------------------------------------------------------------
(* Every step keeps the window.                                               *)

\* What the assumptions say of a cycle's inputs.
LEMMA Inputs ==
  ASSUME env \in Envs
  PROVE  /\ \A wb \in env.writebacks : wb.pc \in Nat
         /\ \A s \in env.samples : CoreSample(s)
         /\ env.start.valid \in BOOLEAN /\ env.trace \in BOOLEAN /\ env.traceable \in BOOLEAN
         /\ env.start.value \in Nat /\ env.end.valid \in BOOLEAN /\ env.end.value \in Nat
<1>1. /\ env.writebacks \in SUBSET Writeback /\ env.start \in Marker /\ env.end \in Marker
      /\ env.trace \in BOOLEAN /\ env.traceable \in BOOLEAN
  BY EnvsAssumption, SMTT(30)
<1>2. \A wb \in env.writebacks : wb.pc \in Nat
  BY <1>1, SMTT(30) DEF Writeback, Pcs
<1>3. /\ env.start.valid \in BOOLEAN /\ env.start.value \in Nat
      /\ env.end.valid \in BOOLEAN /\ env.end.value \in Nat
  BY <1>1, SMTT(30) DEF Marker, Pcs
<1>4. \A s \in env.samples : CoreSample(s)
  BY SamplesOfCore
<1> QED
  BY <1>1, <1>2, <1>3, <1>4

LEMMA SimHistory ==
  ASSUME RunOk, NEW wb, NEW s, SimCycle(wb, s)
  PROVE  /\ mode = "sim" /\ mode' = mode /\ env' = env /\ gol' = gol
         /\ perf' = PerfCalls(perf, wb, s) /\ cache' = CacheCalls(cache, wb, s)
         /\ dep' = single_cycle(exec_once(dep, wb), s)
         /\ DOMAIN hist' = DOMAIN hist /\ hist'.phase = Phase(hist, wb)
         /\ hist'.window = NextWindow(wb) /\ hist'.retired = NextRetired(wb)
         /\ hist'.truth = Truth(s, dep') /\ ex' = Waiting(s, Begun(dep')) /\ Follows(s)
<1> DEFINE d == single_cycle(exec_once(dep, wb), s)
           q == Phase(hist, wb)
           marker == wb.pc \in {env.start.value, env.end.value} /\ env.start.valid
           upd == IF q # "after" /\ "predictor_update" \in s.sig
                  THEN Append(hist.updates, hist.ticks) ELSE hist.updates
           tru == Truth(s, d)
<1>1. /\ mode = "sim" /\ mode' = mode /\ env' = env /\ gol' = gol
      /\ perf' = PerfCalls(perf, wb, s) /\ cache' = CacheCalls(cache, wb, s)
      /\ dep' = d /\ ex' = Waiting(s, Begun(d)) /\ Follows(s)
  BY DEF SimCycle
<1>2. hist' = [hist EXCEPT !.ticks = @ + 1, !.phase = q, !.window = NextWindow(wb),
                           !.retired = NextRetired(wb), !.updates = upd, !.truth = tru]
  <2>1. HistFields \subseteq DOMAIN hist
    BY DEF RunOk
  <2> QED
    BY <2>1 DEF SimCycle, NextWindow, NextRetired
<1>3. HistFields \subseteq DOMAIN hist
  BY DEF RunOk
<1> HIDE DEF d, q, upd, tru
<1>4. DOMAIN hist' = DOMAIN hist /\ hist'.phase = q
  BY <1>2, <1>3 DEF HistFields
<1>5. hist'.window = NextWindow(wb) /\ hist'.retired = NextRetired(wb)
  BY <1>2, <1>3 DEF HistFields
<1>6. hist'.truth = tru
  BY <1>2, <1>3 DEF HistFields
<1> QED
  BY <1>1, <1>4, <1>5, <1>6 DEF d, q, tru

LEMMA PhaseStep ==
  ASSUME RunOk, mode = "sim", NEW wb
  PROVE  /\ Phase(hist, wb) \in Phases /\ (~env.start.valid => Phase(hist, wb) = "in")
         /\ NextWindow(wb) \in Nat /\ NextRetired(wb) \in Nat
         /\ Phase(hist, wb) = "before" => NextWindow(wb) = 0 /\ NextRetired(wb) = 0
<1> DEFINE p == hist.phase
           q == Phase(hist, wb)
<1>1. /\ p \in Phases /\ hist.window \in Nat /\ hist.retired \in Nat
      /\ p = "before" => hist.window = 0 /\ hist.retired = 0
      /\ ~env.start.valid => p = "in"
  BY DEF RunOk
<1>2. \/ q = "in" /\ p = "before"
      \/ q = "after" /\ p = "in" /\ env.start.valid
      \/ q = p
  BY DEF Phase
<1> HIDE DEF p, q
<1>3. "in" \in Phases /\ "after" \in Phases /\ "before" # "in" /\ "after" # "before"
  BY SMTT(30) DEF Phases
<1>4. q \in Phases /\ (~env.start.valid => q = "in") /\ (q = "before" => p = "before")
  BY <1>1, <1>2, <1>3
<1>5. NextWindow(wb) \in Nat /\ NextRetired(wb) \in Nat
  BY <1>1, PlusOwed DEF NextWindow, NextRetired
<1>6. q = "before" => NextWindow(wb) = 0 /\ NextRetired(wb) = 0
  BY <1>1, <1>3, <1>4 DEF NextWindow, NextRetired, q
<1> QED
  BY <1>4, <1>5, <1>6 DEF q

\* The dependency observer stays on or off.
LEMMA DepSim ==
  ASSUME RunOk, mode = "sim", DepOk, SimWindow, NEW wb, NEW s
  PROVE  LET u == exec_once(dep, wb)
             c == single_cycle(u, s)
         IN /\ DepMarkers(dep, u) /\ DepMoves(dep, u, wb) /\ RoiMoves(dep, u, dep.enabled, wb)
            /\ DepFields \subseteq DOMAIN u /\ u.roi_cycles \in Nat
            /\ DepRegion(u, c) /\ DepFields \subseteq DOMAIN c
            /\ c.roi_cycles \in Nat /\ c.enabled = dep.enabled
<1> DEFINE u == exec_once(dep, wb)
           c == single_cycle(u, s)
<1>0. DepFields \subseteq DOMAIN dep /\ dep.roi_cycles \in Nat /\ 0 \in Nat
  BY DEF DepOk
<1>1. dep.enabled /\ ~dep.roi_started => dep.roi_ended = FALSE
  <2>1. SUFFICES ASSUME dep.enabled, ~dep.roi_started
                 PROVE  dep.roi_ended = FALSE
    OBVIOUS
  <2>2. RoiIs(dep, hist.phase)
    BY <2>1 DEF DepOk, SimWindow, Regular
  <2>3. hist.phase = "before" => hist.phase # "after"
    BY SMTT(30)
  <2> QED
    BY <2>1, <2>2, <2>3 DEF RoiIs
<1>2. DepMarkers(dep, u) /\ RoiMoves(dep, u, dep.enabled, wb) /\ DepMoves(dep, u, wb)
  BY <1>0, <1>1, DepUpdateRoi
<1> HIDE DEF u
<1>3. DepFields \subseteq DOMAIN u /\ u.roi_cycles \in Nat
  BY <1>0, <1>2 DEF DepMarkers, DepMoves
<1>4. /\ DepRegion(u, c)
      /\ c.roi_cycles = IF u.enabled /\ u.roi_active THEN u.roi_cycles + 1 ELSE u.roi_cycles
  BY <1>3, SingleCycle
<1> HIDE DEF c
<1>5. c.roi_cycles \in Nat
  BY <1>3, <1>4, PlusOwed
<1>6. DepFields \subseteq DOMAIN c /\ c.enabled = dep.enabled
  BY <1>2, <1>3, <1>4 DEF DepMarkers, DepRegion
<1> QED
  BY <1>2, <1>3, <1>4, <1>5, <1>6 DEF c, u

LEMMA SimKeepsWindow ==
  ASSUME WinInv, NEW wb \in env.writebacks, NEW s \in env.samples, SimCycle(wb, s)
  PROVE  WinInv'
<1> DEFINE q == Phase(hist, wb)
<1>1. /\ RunOk /\ PerfOk(perf, 0) /\ CacheOk(cache, 0) /\ GolOk(gol) /\ DepOk /\ SimWindow
      /\ env \in Envs /\ HistFields \subseteq DOMAIN hist
  BY DEF WinInv, RunOk
<1>2. wb.pc \in Nat /\ CoreSample(s)
  BY <1>1, Inputs
<1>3. /\ mode = "sim" /\ mode' = mode /\ env' = env /\ gol' = gol
      /\ perf' = PerfCalls(perf, wb, s) /\ cache' = CacheCalls(cache, wb, s)
      /\ dep' = single_cycle(exec_once(dep, wb), s)
      /\ DOMAIN hist' = DOMAIN hist /\ hist'.phase = q
      /\ hist'.window = NextWindow(wb) /\ hist'.retired = NextRetired(wb)
  BY <1>1, SimHistory
<1>4. RunOk'
  <2>1. /\ q \in Phases /\ (~env.start.valid => q = "in")
        /\ NextWindow(wb) \in Nat /\ NextRetired(wb) \in Nat
        /\ q = "before" => NextWindow(wb) = 0 /\ NextRetired(wb) = 0
    BY <1>1, <1>3, PhaseStep
  <2> HIDE DEF q
  <2> QED
    BY <1>1, <1>3, <2>1 DEF RunOk
<1>5. PerfOk(perf', 0) /\ CacheOk(cache', 0) /\ GolOk(gol')
  BY <1>1, <1>2, <1>3, PerfCallsAre, CacheCallsAre
<1>6. DepOk'
  <2>1. /\ DepFields \subseteq DOMAIN dep' /\ dep'.roi_cycles \in Nat
        /\ dep'.enabled = dep.enabled
    BY <1>1, <1>3, DepSim
  <2>2. Valid' <=> Valid
    BY <1>3 DEF Valid
  <2> QED
    BY <1>1, <1>3, <2>1, <2>2 DEF DepOk, Valid
<1>7. SimWindow'
  <2>0. Regular' <=> Regular
    BY <1>3 DEF Regular, Valid
  <2>1. CASE ~Regular
    BY <2>0, <2>1 DEF SimWindow
  <2>2. CASE Regular
    <3>1. dep.enabled = TRUE
      BY <1>1, <2>2 DEF DepOk, Regular
    <3>2. /\ perf.output = TRUE /\ RoiIs(perf, hist.phase)
          /\ perf.cycle_count = hist.window /\ Len(perf.observations) = hist.retired
      BY <1>1, <2>2 DEF SimWindow
    <3>3. /\ cache.output = TRUE /\ RoiIs(cache, hist.phase)
          /\ cache.cycles = hist.window /\ cache.writeback_observations = hist.retired
          /\ cache.trace_open_failed = (env.trace /\ ~env.traceable)
      BY <1>1, <2>2 DEF SimWindow
    <3>4. RoiIs(dep, hist.phase) /\ dep.roi_cycles = hist.window
      BY <1>1, <2>2 DEF SimWindow
    <3>5. /\ perf'.output = TRUE /\ RoiIs(perf', q)
          /\ perf'.cycle_count = hist'.window /\ Len(perf'.observations) = hist'.retired
      BY <1>1, <1>2, <1>3, <3>2, PerfWindow
    <3>6. /\ cache'.output = TRUE /\ RoiIs(cache', q)
          /\ cache'.cycles = hist'.window /\ cache'.writeback_observations = hist'.retired
          /\ cache'.trace_open_failed = cache.trace_open_failed
      BY <1>1, <1>2, <1>3, <3>3, CacheWindow
    <3>7. RoiIs(dep', q) /\ dep'.roi_cycles = hist'.window
      BY <1>1, <1>3, <3>1, <3>4, DepWindow
    <3> HIDE DEF q
    <3>8. RoiIs(perf, hist.phase)' /\ RoiIs(cache, hist.phase)' /\ RoiIs(dep, hist.phase)'
      BY <1>3, <3>5, <3>6, <3>7 DEF RoiIs
    <3>9. cache'.trace_open_failed = (env'.trace /\ ~env'.traceable)
      BY <1>3, <3>3, <3>6
    <3> QED
      BY <3>5, <3>6, <3>7, <3>8, <3>9 DEF SimWindow
  <2> QED
    BY <2>1, <2>2
<1>8. GolWindow'
  <2>1. mode' # "gol"
    BY <1>3, SMTT(30)
  <2> QED
    BY <2>1 DEF GolWindow
<1> QED
  BY <1>4, <1>5, <1>6, <1>7, <1>8 DEF WinInv

Marked(s, mark) ==
  [sig |-> s.sig, address |-> s.address, producer |-> s.producer, consumer |-> s.consumer,
   mark |-> mark]

LEMMA GolHistory ==
  ASSUME RunOk, NEW s, NEW mark \in {"none", "start", "stop"}, GolTick(s, mark)
  PROVE  /\ mode = "gol" /\ mode' = mode /\ env' = env /\ perf' = perf /\ cache' = cache
         /\ gol' = Gol!Tick(gol, Marked(s, mark))
         /\ dep' = Gol!DepTick(gol, dep, Marked(s, mark))
         /\ DOMAIN hist' = DOMAIN hist /\ hist'.retired = hist.retired
         /\ hist'.phase = IF mark = "start" THEN "in" ELSE IF mark = "stop" THEN "after" ELSE hist.phase
         /\ hist'.window = IF hist.phase = "in" THEN hist.window + 1 ELSE hist.window
         /\ hist'.refilling = IF mark = "start" THEN s.sig \cap Gol!Stalls ELSE hist.refilling
         /\ hist'.truth = Truth(s, dep') /\ ex' = Waiting(s, Begun(dep'))
         /\ Follows(s) /\ MarkFollows(s, mark)
<1> DEFINE m == Marked(s, mark)
           d == Gol!DepTick(gol, dep, m)
           q == IF mark = "start" THEN "in" ELSE IF mark = "stop" THEN "after" ELSE hist.phase
           w == IF hist.phase = "in" THEN hist.window + 1 ELSE hist.window
           r == IF mark = "start" THEN s.sig \cap Gol!Stalls ELSE hist.refilling
           tru == Truth(s, d)
<1>0. HistFields \subseteq DOMAIN hist
  BY DEF RunOk
<1>1. /\ mode = "gol" /\ mode' = mode /\ env' = env /\ perf' = perf /\ cache' = cache
      /\ gol' = Gol!Tick(gol, m) /\ dep' = d
      /\ ex' = Waiting(s, Begun(d)) /\ Follows(s) /\ MarkFollows(s, mark)
  BY DEF GolTick, Marked
<1>2. (CASE mark = "start" -> "in" [] mark = "stop" -> "after" [] OTHER -> hist.phase) = q
  BY SMTT(30) DEF q
<1>3. hist' = [hist EXCEPT !.ticks = @ + 1, !.phase = q, !.window = w, !.refilling = r, !.truth = tru]
  <2> DEFINE k == CASE mark = "start" -> "in" [] mark = "stop" -> "after" [] OTHER -> hist.phase
  <2>1. hist' = [hist EXCEPT !.ticks = @ + 1, !.phase = k, !.window = w, !.refilling = r, !.truth = tru]
    BY <1>0 DEF GolTick, Marked, HistFields
  <2> QED
    BY <1>2, <2>1
<1> HIDE DEF m, d, q, w, r, tru
<1>4. DOMAIN hist' = DOMAIN hist /\ hist'.retired = hist.retired
  BY <1>0, <1>3 DEF HistFields
<1>5. hist'.phase = q /\ hist'.window = w
  BY <1>0, <1>3 DEF HistFields
<1>6. hist'.refilling = r /\ hist'.truth = tru
  BY <1>0, <1>3 DEF HistFields
<1> QED
  BY <1>1, <1>4, <1>5, <1>6 DEF m, d, q, w, r, tru

\* A stall that starts or ends in a cycle of the window is counted once.
LEMMA KeepsBalance ==
  ASSUME NEW h, GolOk(h), NEW c, NEW r, NEW g, Balanced(h, r), Ended(h, c, g),
         c.previous = g \cap Gol!Stalls
  PROVE  Balanced(c, r)
<1> SUFFICES ASSUME NEW x \in Gol!Stalls
             PROVE  c.started[x] + Bit(x \in r) = c.completed[x] + Bit(x \in c.previous)
  BY DEF Balanced
<1>1. /\ h.started[x] \in Nat /\ h.completed[x] \in Nat
      /\ h.started[x] + Bit(x \in r) = h.completed[x] + Bit(x \in h.previous)
  BY DEF GolOk, Balanced
<1>2. /\ c.started[x] = h.started[x] + Gol!Bit(x \in g /\ x \notin h.previous)
      /\ c.completed[x] = h.completed[x] + Gol!Bit(x \notin g /\ x \in h.previous)
  BY DEF Ended
<1>3. x \in c.previous <=> x \in g
  OBVIOUS
<1> QED
  BY ONLY <1>1, <1>2, <1>3, SMTT(30) DEF Bit, Gol!Bit

LEMMA GolKeepsWindow ==
  ASSUME WinInv, NEW s \in env.samples, NEW mark \in {"none", "start", "stop"}, GolTick(s, mark)
  PROVE  WinInv'
<1> DEFINE m == Marked(s, mark)
<1>1. /\ RunOk /\ PerfOk(perf, 0) /\ CacheOk(cache, 0) /\ GolOk(gol) /\ DepOk /\ GolWindow
      /\ env \in Envs /\ HistFields \subseteq DOMAIN hist
  BY DEF WinInv, RunOk
<1>2. CoreSample(s)
  BY <1>1, Inputs
<1>3. /\ mode = "gol" /\ mode' = mode /\ env' = env /\ perf' = perf /\ cache' = cache
      /\ gol' = Gol!Tick(gol, m) /\ dep' = Gol!DepTick(gol, dep, m)
      /\ DOMAIN hist' = DOMAIN hist /\ hist'.retired = hist.retired
      /\ hist'.phase = IF mark = "start" THEN "in" ELSE IF mark = "stop" THEN "after" ELSE hist.phase
      /\ hist'.window = IF hist.phase = "in" THEN hist.window + 1 ELSE hist.window
      /\ hist'.refilling = IF mark = "start" THEN s.sig \cap Gol!Stalls ELSE hist.refilling
      /\ MarkFollows(s, mark)
  BY <1>1, GolHistory
<1>4. m.sig = s.sig /\ m.mark = mark /\ Same(m, s)
  BY DEF Marked, Same
<1> HIDE DEF m
<1>5. /\ (mark = "start" => hist.phase = "before") /\ (mark = "stop" => hist.phase = "in")
      /\ hist.phase \in Phases /\ hist.window \in Nat /\ hist.retired \in Nat
      /\ hist.phase = "before" => hist.window = 0 /\ hist.retired = 0
  BY <1>1, <1>3 DEF MarkFollows, RunOk
<1>s. /\ "in" \in Phases /\ "after" \in Phases /\ "in" # "before" /\ "after" # "before"
      /\ "after" # "in" /\ "start" # "stop" /\ "sim" # "gol"
  BY SMTT(30) DEF Phases
<1>6. RunOk'
  <2>1. hist'.phase \in Phases /\ hist'.window \in Nat
    BY <1>3, <1>5, <1>s, PlusOwed
  <2>2. hist'.phase = "before" => hist'.window = 0 /\ hist'.retired = 0
    BY <1>3, <1>5, <1>s
  <2> QED
    BY <1>1, <1>3, <1>5, <1>s, <2>1, <2>2 DEF RunOk
<1>7. /\ gol.roi = (hist.phase = "in") /\ gol.cycles = hist.window
      /\ (hist.phase = "before" => gol.started = gol.completed)
      /\ (hist.phase = "in" => Balanced(gol, hist.refilling))
      /\ dep.roi_requested = FALSE
      /\ (dep.enabled => dep.roi_active = (hist.phase = "in") /\ dep.roi_cycles = hist.window)
  BY <1>1, <1>3 DEF GolWindow
<1> DEFINE on == mark # "start" /\ gol.roi
           h == Gol!Tick(gol, m)
<1>t. /\ GolOk(h) /\ h.previous = s.sig \cap Gol!Stalls
      /\ h.roi = IF m.mark = "start" THEN TRUE ELSE IF m.mark = "stop" THEN FALSE ELSE gol.roi
      /\ h.cycles = IF m.mark # "start" /\ gol.roi THEN gol.cycles + 1 ELSE gol.cycles
      /\ IF m.mark # "start" /\ gol.roi THEN Ended(gol, h, s.sig) ELSE SameEnds(gol, h)
  BY <1>1, <1>2, <1>4, GolTickIs
<1>8. /\ GolOk(gol') /\ gol'.previous = s.sig \cap Gol!Stalls
      /\ gol'.roi = IF mark = "start" THEN TRUE ELSE IF mark = "stop" THEN FALSE ELSE gol.roi
      /\ gol'.cycles = IF on THEN gol.cycles + 1 ELSE gol.cycles
      /\ IF on THEN Ended(gol, gol', s.sig) ELSE SameEnds(gol, gol')
  BY <1>3, <1>4, <1>t
<1>9. on <=> hist.phase = "in"
  BY <1>5, <1>7, <1>s
<1> HIDE DEF on
<1>10. gol'.roi = (hist'.phase = "in") /\ gol'.cycles = hist'.window
  BY <1>3, <1>5, <1>7, <1>8, <1>9, <1>s
<1>11. hist'.phase = "before" => gol'.started = gol'.completed
  <2>1. hist'.phase = "before" => hist.phase = "before" /\ ~on
    BY <1>3, <1>9, <1>s
  <2> QED
    BY <1>7, <1>8, <2>1 DEF SameEnds
<1>12. hist'.phase = "in" => Balanced(gol', hist'.refilling)
  <2>1. CASE mark = "start"
    <3>1. /\ gol'.started = gol.started /\ gol'.completed = gol.completed
          /\ gol.started = gol.completed /\ gol'.previous = hist'.refilling
      BY <1>3, <1>5, <1>7, <1>8, <1>9, <1>s, <2>1 DEF SameEnds
    <3> QED
      BY <3>1 DEF Balanced
  <2>2. CASE mark # "start" /\ hist'.phase = "in"
    <3>1. hist.phase = "in" /\ hist'.refilling = hist.refilling /\ Ended(gol, gol', s.sig)
      BY <1>3, <1>8, <1>9, <1>s, <2>2
    <3> QED
      BY <1>1, <1>7, <1>8, <3>1, KeepsBalance
  <2> QED
    BY <2>1, <2>2
<1>13. /\ DepMarkers(dep, dep') /\ dep'.roi_cycles \in Nat
       /\ dep'.roi_active = IF dep.enabled /\ mark = "start" THEN TRUE
            ELSE IF dep.enabled /\ mark = "stop" THEN FALSE ELSE dep.roi_active
       /\ dep'.roi_cycles = IF dep.enabled /\ mark = "start" THEN 0
            ELSE IF (dep.enabled /\ mark # "start" /\ gol.roi) /\ dep.roi_active
                 THEN dep.roi_cycles + 1 ELSE dep.roi_cycles
  <2>1. DepFields \subseteq DOMAIN dep /\ dep.roi_cycles \in Nat
    BY <1>1 DEF DepOk
  <2> DEFINE c == Gol!DepTick(gol, dep, m)
  <2>2. /\ DepMarkers(dep, c) /\ c.roi_cycles \in Nat
        /\ c.roi_active = IF dep.enabled /\ m.mark = "start" THEN TRUE
             ELSE IF dep.enabled /\ m.mark = "stop" THEN FALSE ELSE dep.roi_active
        /\ c.roi_cycles = IF dep.enabled /\ m.mark = "start" THEN 0
             ELSE IF (dep.enabled /\ m.mark # "start" /\ gol.roi) /\ dep.roi_active
                  THEN dep.roi_cycles + 1 ELSE dep.roi_cycles
    <3>1. DepTicked(dep, c, gol, m, s)
      BY <1>4, <2>1, DepTicks
    <3> HIDE DEF c
    <3> QED
      BY <3>1 DEF DepTicked
  <2> QED
    BY <1>3, <1>4, <2>2
<1>14. DepOk'
  BY <1>1, <1>3, <1>13, <1>s DEF DepOk, DepMarkers
<1>15. dep'.enabled => dep'.roi_active = (hist'.phase = "in") /\ dep'.roi_cycles = hist'.window
  <2>1. dep'.enabled = dep.enabled
    BY <1>13 DEF DepMarkers
  <2>2. SUFFICES ASSUME dep.enabled
                 PROVE  dep'.roi_active = (hist'.phase = "in") /\ dep'.roi_cycles = hist'.window
    BY <2>1
  <2>3. dep.roi_active = (hist.phase = "in") /\ dep.roi_cycles = hist.window
    BY <1>7, <2>2
  <2>4. dep'.roi_active = (hist'.phase = "in")
    BY <1>3, <1>13, <1>s, <2>2, <2>3
  <2>5. dep'.roi_cycles = hist'.window
    BY <1>3, <1>5, <1>7, <1>13, <1>s, <2>2, <2>3
  <2> QED
    BY <2>4, <2>5
<1>16. GolWindow'
  <2>1. dep'.roi_requested = FALSE
    BY <1>7, <1>13 DEF DepMarkers
  <2> QED
    BY <1>10, <1>11, <1>12, <1>15, <2>1 DEF GolWindow, Balanced
<1>17. SimWindow' /\ PerfOk(perf', 0) /\ CacheOk(cache', 0)
  BY <1>1, <1>3, <1>s DEF SimWindow, Regular
<1> QED
  BY <1>6, <1>8, <1>14, <1>16, <1>17 DEF WinInv

-----------------------------------------------------------------------------
(* The window of a run that starts.                                           *)

First == IF env.start.valid THEN "before" ELSE "in"

\* The parts of Valid, as the observers test them.
LEMMA Refused ==
  ASSUME env \in Envs
  PROVE  Valid <=> ~(\/ env.start.valid # env.end.valid
                     \/ /\ env.start.valid \/ env.end.valid
                        /\ Perf!parse_u64_env(env.start, 0) = Perf!parse_u64_env(env.end, 0))
<1>1. env.start.valid \in BOOLEAN /\ env.end.valid \in BOOLEAN
  BY Inputs
<1> QED
  BY <1>1 DEF Valid, Perf!parse_u64_env

LEMMA RoiFirst ==
  ASSUME env \in Envs, Valid, NEW o,
         o.roi_requested = (env.start.valid \/ env.end.valid),
         o.roi_start_pc = Perf!parse_u64_env(env.start, 0),
         o.roi_end_pc = Perf!parse_u64_env(env.end, 0),
         o.roi_started = ~o.roi_requested, o.roi_active = ~o.roi_requested, o.roi_ended = FALSE
  PROVE  RoiIs(o, First)
<1>1. env.start.valid \in BOOLEAN /\ env.end.valid \in BOOLEAN
  BY Inputs
<1>2. o.roi_requested = env.start.valid
  BY <1>1 DEF Valid
<1>3. env.start.valid => o.roi_start_pc = env.start.value /\ o.roi_end_pc = env.end.value
  BY DEF Valid, Perf!parse_u64_env
<1>4. o.roi_started = (First # "before") /\ o.roi_active = (First = "in") /\ o.roi_ended
        = (First = "after")
  <2>1. CASE env.start.valid
    <3>1. First = "before" /\ First # "in" /\ First # "after"
      BY <2>1, SMTT(30) DEF First
    <3> QED
      BY <1>2, <2>1, <3>1
  <2>2. CASE ~env.start.valid
    <3>1. First = "in" /\ First # "before" /\ First # "after"
      BY <2>2, SMTT(30) DEF First
    <3> QED
      BY <1>2, <2>2, <3>1
  <2> QED
    BY <2>1, <2>2
<1> QED
  BY <1>2, <1>3, <1>4 DEF RoiIs

LEMMA PerfStatic ==
  LET o == Perf!Static
  IN /\ PerfOk(o, 0) /\ o.roi_ended = FALSE /\ o.cycle_count = 0 /\ o.observations = <<>>
     /\ o.roi_start_pc = 0 /\ o.roi_end_pc = 0
<1> DEFINE o == Perf!Static
<1>1. PerfFields \subseteq DOMAIN o
  BY SMTT(30) DEF PerfFields, Region, Perf!Static
<1>2. /\ o.cycle_count = 0 /\ o.observations = <<>> /\ o.exclusive = Perf!Zero(Perf!Labels)
      /\ o.roi_ended = FALSE /\ o.roi_start_pc = 0 /\ o.roi_end_pc = 0
  BY DEF Perf!Static
<1> HIDE DEF o
<1>3. PerfOk(o, 0)
  BY <1>1, <1>2, PerfZero, NoObservation DEF PerfOk
<1> QED
  BY <1>2, <1>3 DEF o

LEMMA PerfStarts ==
  ASSUME env \in Envs
  PROVE  LET c == Perf!perf_observer_init(env)
         IN /\ PerfOk(c, 0)
            /\ env.out = "path" /\ Valid =>
                 /\ c.output = TRUE /\ RoiIs(c, First) /\ c.cycle_count = 0 /\ Len(c.observations) = 0
<1> DEFINE t == Perf!Static
           requested == env.start.valid \/ env.end.valid
           a == Perf!parse_u64_env(env.start, 0)
           b == Perf!parse_u64_env(env.end, 0)
           o == [t EXCEPT !.roi_requested = requested, !.roi_start_pc = a, !.roi_end_pc = b]
           e == [o EXCEPT !.output = TRUE, !.roi_active = ~requested, !.roi_started = ~requested]
           z == Perf!reset_counts(e)
           c == Perf!perf_observer_init(env)
<1>1. /\ PerfOk(t, 0) /\ t.roi_ended = FALSE /\ t.cycle_count = 0 /\ t.observations = <<>>
      /\ t.roi_start_pc = 0 /\ t.roi_end_pc = 0
  BY PerfStatic
<1>2. PerfFields \subseteq DOMAIN t
  BY <1>1 DEF PerfOk
<1> HIDE DEF t
<1>3. o = [t EXCEPT !.roi_requested = requested,
              !.roi_start_pc = Perf!parse_u64_env(env.start, @),
              !.roi_end_pc = Perf!parse_u64_env(env.end, @)]
  BY <1>1, <1>2 DEF PerfFields, Region
<1>4. DOMAIN o = DOMAIN t /\ SamePerf(t, o) /\ o.roi_ended = t.roi_ended
  BY <1>2 DEF SamePerf, PerfFields, Region
<1>5. o.roi_requested = requested /\ o.roi_start_pc = a /\ o.roi_end_pc = b
  BY <1>2 DEF PerfFields, Region
<1>6. c = IF env.out # "path" THEN [t EXCEPT !.output = (env.out = "empty")]
          ELSE IF ~Valid THEN o ELSE z
  <2>1. Valid <=> ~(env.start.valid # env.end.valid \/ (requested /\ a = b))
    BY Refused
  <2>2. c = IF env.out # "path" THEN [t EXCEPT !.output = (env.out = "empty")]
            ELSE IF env.start.valid # env.end.valid \/ (requested /\ o.roi_start_pc = o.roi_end_pc)
            THEN o ELSE z
    BY <1>3 DEF Perf!perf_observer_init, t
  <2> HIDE DEF a, b, o, z, c
  <2> QED
    BY <1>5, <2>1, <2>2
<1> HIDE DEF o, c, a, b, requested
<1>7. CASE env.out # "path"
  <2> DEFINE w == [t EXCEPT !.output = (env.out = "empty")]
  <2>1. DOMAIN w = DOMAIN t /\ SamePerf(t, w)
    BY <1>2 DEF SamePerf, PerfFields, Region
  <2>2. c = w
    BY <1>6, <1>7
  <2> HIDE DEF w
  <2>3. PerfOk(c, 0)
    BY <1>1, <2>1, <2>2, PerfSame
  <2> QED
    BY <1>7, <2>3 DEF c
<1>8. CASE env.out = "path" /\ ~Valid
  <2>1. c = o
    BY <1>6, <1>8
  <2>2. PerfOk(c, 0)
    BY <1>1, <1>4, <2>1, PerfSame
  <2> QED
    BY <1>8, <2>2 DEF c
<1>9. CASE env.out = "path" /\ Valid
  <2>1. c = z
    BY <1>6, <1>9
  <2>0. PerfFields \subseteq DOMAIN o
    BY <1>2, <1>4
  <2>2. DOMAIN e = DOMAIN o /\ e.output = TRUE
    BY <2>0 DEF PerfFields, Region
  <2>3. /\ e.roi_requested = requested /\ e.roi_active = ~requested /\ e.roi_started = ~requested
        /\ e.roi_ended = FALSE
    BY <1>1, <1>4, <1>5, <2>0 DEF PerfFields, Region
  <2>4. e.roi_start_pc = a /\ e.roi_end_pc = b
    BY <1>5, <2>0 DEF PerfFields, Region
  <2> HIDE DEF e
  <2>5. SameRegion(e, z) /\ PerfOk(z, 0) /\ z.cycle_count = 0 /\ z.observations = <<>>
    BY <2>0, <2>2, PerfReset
  <2> HIDE DEF z
  <2>6. /\ z.roi_requested = requested /\ z.roi_start_pc = a /\ z.roi_end_pc = b
        /\ z.roi_started = ~requested /\ z.roi_active = ~requested /\ z.roi_ended = FALSE
        /\ z.output = TRUE
    BY <2>2, <2>3, <2>4, <2>5 DEF SameRegion, SameMarkers
  <2>7. RoiIs(z, First)
    <3>1. /\ z.roi_requested = (env.start.valid \/ env.end.valid)
          /\ z.roi_start_pc = Perf!parse_u64_env(env.start, 0)
          /\ z.roi_end_pc = Perf!parse_u64_env(env.end, 0)
          /\ z.roi_started = ~z.roi_requested /\ z.roi_active = ~z.roi_requested
          /\ z.roi_ended = FALSE
      BY <2>6 DEF requested, a, b
    <3> QED
      BY <1>9, <3>1, RoiFirst
  <2>8. Len(<<>>) = 0
    BY SMTT(30)
  <2> QED
    BY <2>1, <2>5, <2>6, <2>7, <2>8 DEF c
<1> QED
  BY <1>7, <1>8, <1>9

LEMMA CacheStarts ==
  ASSUME NEW e
  PROVE  LET c == Cache!cache_observer_init(e)
         IN /\ CacheOk(c, 0) /\ c.cycles = 0 /\ c.writeback_observations = 0
            /\ c.trace_open_failed = (e.trace /\ ~e.traceable)
            /\ c.roi_requested = (e.start.valid \/ e.end.valid)
            /\ c.roi_start_pc = Perf!parse_u64_env(e.start, 0)
            /\ c.roi_end_pc = Perf!parse_u64_env(e.end, 0)
            /\ c.roi_started = ~c.roi_requested /\ c.roi_active = ~c.roi_requested
            /\ c.roi_ended = FALSE
            /\ c.output = (/\ e.out # "unset"
                           /\ ~(\/ e.start.valid # e.end.valid
                                \/ c.roi_requested /\ c.roi_start_pc = c.roi_end_pc))
<1> DEFINE c == Cache!cache_observer_init(e)
<1>1. CacheFields \subseteq DOMAIN c
  BY SMTT(30) DEF CacheFields, Region, Cache!cache_observer_init
<1>2. /\ c.cycles = 0 /\ c.writeback_observations = 0
      /\ c.counts = Cache!Zero(Counters) /\ c.exclusive = Cache!Zero(Cache!Labels)
      /\ c.trace_open_failed = (e.trace /\ ~e.traceable)
  BY DEF Cache!cache_observer_init, Counters
<1>3. /\ c.roi_requested = (e.start.valid \/ e.end.valid)
      /\ c.roi_start_pc = Cache!parse_u64_env(e.start, 0)
      /\ c.roi_end_pc = Cache!parse_u64_env(e.end, 0)
  BY DEF Cache!cache_observer_init
<1>4. /\ c.roi_started = ~(e.start.valid \/ e.end.valid)
      /\ c.roi_active = ~(e.start.valid \/ e.end.valid) /\ c.roi_ended = FALSE
  BY DEF Cache!cache_observer_init
<1>5. c.output = (/\ e.out # "unset"
                  /\ ~(\/ e.start.valid # e.end.valid
                       \/ /\ e.start.valid \/ e.end.valid
                          /\ Cache!parse_u64_env(e.start, 0) = Cache!parse_u64_env(e.end, 0)))
  BY DEF Cache!cache_observer_init
<1> HIDE DEF c
<1>6. 0 + 0 = 0 /\ 0 \in Nat
  BY SMTT(30)
<1>7. CacheOk(c, 0)
  BY <1>1, <1>2, <1>6, CountsZero, LabelZero DEF CacheOk
<1>8. \A v, n : Cache!parse_u64_env(v, n) = Perf!parse_u64_env(v, n)
  BY DEF Cache!parse_u64_env, Perf!parse_u64_env
<1>9. /\ c.roi_start_pc = Perf!parse_u64_env(e.start, 0)
      /\ c.roi_end_pc = Perf!parse_u64_env(e.end, 0)
      /\ c.roi_started = ~c.roi_requested /\ c.roi_active = ~c.roi_requested
  BY <1>3, <1>4, <1>8
<1>10. c.output = (/\ e.out # "unset"
                   /\ ~(\/ e.start.valid # e.end.valid
                        \/ c.roi_requested /\ c.roi_start_pc = c.roi_end_pc))
  BY <1>3, <1>5
<1> QED
  BY <1>2, <1>3, <1>4, <1>7, <1>9, <1>10 DEF c

LEMMA CacheFirst ==
  ASSUME env \in Envs, env.out = "path", Valid
  PROVE  LET c == Cache!cache_observer_init(env)
         IN c.output = TRUE /\ RoiIs(c, First)
<1> DEFINE c == Cache!cache_observer_init(env)
           requested == env.start.valid \/ env.end.valid
           a == Perf!parse_u64_env(env.start, 0)
           b == Perf!parse_u64_env(env.end, 0)
<1>1. /\ c.roi_requested = requested /\ c.roi_start_pc = a /\ c.roi_end_pc = b
      /\ c.roi_started = ~c.roi_requested /\ c.roi_active = ~c.roi_requested
      /\ c.roi_ended = FALSE
      /\ c.output = (/\ env.out # "unset"
                     /\ ~(\/ env.start.valid # env.end.valid
                          \/ c.roi_requested /\ c.roi_start_pc = c.roi_end_pc))
  BY CacheStarts
<1>2. Valid <=> ~(env.start.valid # env.end.valid \/ (requested /\ a = b))
  BY Refused
<1> HIDE DEF c
<1>3. RoiIs(c, First)
  BY <1>1, RoiFirst
<1>4. "path" # "unset"
  BY SMTT(30)
<1> HIDE DEF a, b, requested
<1>5. c.output = TRUE
  BY <1>1, <1>2, <1>4
<1> QED
  BY <1>3, <1>5 DEF c

LEMMA DepStarts ==
  ASSUME env \in Envs
  PROVE  LET c == Dep!dependency_observer_init_from_env(env)
         IN /\ DepFields \subseteq DOMAIN c /\ c.roi_cycles = 0 /\ c.episodes = <<>>
            /\ c.previous_exclusive = FALSE
            /\ c.enabled = (env.out = "path" /\ Valid)
            /\ env.out = "path" /\ Valid => RoiIs(c, First)
<1> DEFINE o == Dep!dependency_observer_init(env.out)
           requested == env.start.valid \/ env.end.valid
           a == Dep!parse_u64_env(env.start, 0)
           b == Dep!parse_u64_env(env.end, 0)
           e == [o EXCEPT !.roi_start_pc = a, !.roi_end_pc = b, !.roi_requested = requested]
           f == [e EXCEPT !.enabled = FALSE]
           g == [e EXCEPT !.roi_active = ~requested, !.roi_started = ~requested]
           bad == env.start.valid # env.end.valid \/ (env.start.valid /\ a = b)
           c == Dep!dependency_observer_init_from_env(env)
<1>1. DepFields \subseteq DOMAIN o
  BY SMTT(30) DEF DepFields, Dep!dependency_observer_init
<1>2. /\ o.enabled = (env.out = "path") /\ o.roi_cycles = 0 /\ o.episodes = <<>>
      /\ o.previous_exclusive = FALSE /\ o.roi_ended = FALSE
  BY DEF Dep!dependency_observer_init
<1>3. c = IF ~o.enabled THEN o ELSE IF bad THEN f ELSE g
  BY DEF Dep!dependency_observer_init_from_env
<1>4. Valid <=> ~bad
  BY DEF Valid, Dep!parse_u64_env
<1>5. a = Perf!parse_u64_env(env.start, 0) /\ b = Perf!parse_u64_env(env.end, 0)
  BY DEF Dep!parse_u64_env, Perf!parse_u64_env
<1> HIDE DEF o, a, b, c, bad, requested
<1>6. DOMAIN e = DOMAIN o /\ e.roi_start_pc = a /\ e.roi_end_pc = b /\ e.roi_requested = requested
  BY <1>1 DEF DepFields
<1>7. /\ e.enabled = o.enabled /\ e.roi_cycles = o.roi_cycles /\ e.episodes = o.episodes
      /\ e.previous_exclusive = o.previous_exclusive /\ e.roi_ended = o.roi_ended
  BY <1>1 DEF DepFields
<1> HIDE DEF e
<1>8. DepFields \subseteq DOMAIN e
  BY <1>1, <1>6
<1>9. CASE ~o.enabled
  BY <1>1, <1>2, <1>3, <1>9 DEF c
<1>10. CASE o.enabled /\ bad
  <2>1. DOMAIN f = DOMAIN e /\ f.enabled = FALSE
    BY <1>8 DEF DepFields
  <2>2. /\ f.roi_cycles = e.roi_cycles /\ f.episodes = e.episodes
        /\ f.previous_exclusive = e.previous_exclusive
    BY <1>8 DEF DepFields
  <2>3. c = f
    BY <1>3, <1>10
  <2> HIDE DEF f
  <2> QED
    BY <1>2, <1>4, <1>7, <1>8, <1>10, <2>1, <2>2, <2>3 DEF c
<1>11. CASE o.enabled /\ ~bad
  <2>1. DOMAIN g = DOMAIN e /\ g.enabled = e.enabled /\ g.roi_cycles = e.roi_cycles
    BY <1>8 DEF DepFields
  <2>2. /\ g.episodes = e.episodes /\ g.previous_exclusive = e.previous_exclusive
        /\ g.roi_ended = e.roi_ended /\ g.roi_requested = e.roi_requested
    BY <1>8 DEF DepFields
  <2>3. /\ g.roi_active = ~requested /\ g.roi_started = ~requested
        /\ g.roi_start_pc = e.roi_start_pc /\ g.roi_end_pc = e.roi_end_pc
    BY <1>8 DEF DepFields
  <2>4. c = g
    BY <1>3, <1>11
  <2> HIDE DEF g
  <2>5. RoiIs(g, First)
    <3>1. /\ g.roi_requested = (env.start.valid \/ env.end.valid)
          /\ g.roi_start_pc = Perf!parse_u64_env(env.start, 0)
          /\ g.roi_end_pc = Perf!parse_u64_env(env.end, 0)
          /\ g.roi_started = ~g.roi_requested /\ g.roi_active = ~g.roi_requested
          /\ g.roi_ended = FALSE
      BY <1>2, <1>5, <1>6, <1>7, <2>2, <2>3 DEF requested
    <3> QED
      BY <1>4, <1>11, <3>1, RoiFirst
  <2> QED
    BY <1>2, <1>4, <1>7, <1>8, <1>11, <2>1, <2>2, <2>4, <2>5 DEF c
<1> QED
  BY <1>9, <1>10, <1>11

\* The load-use harness starts its observer with the window closed.
LEMMA DepHarnessStarts ==
  ASSUME NEW out
  PROVE  LET c == Gol!DepHarness(out)
         IN /\ DepFields \subseteq DOMAIN c /\ c.roi_cycles = 0 /\ c.episodes = <<>>
            /\ c.previous_exclusive = FALSE /\ c.enabled = (out = "path")
            /\ c.roi_requested = FALSE /\ c.roi_active = FALSE
<1> DEFINE o == Gol!Dep!dependency_observer_init(out)
           c == Gol!DepHarness(out)
<1>1. DepFields \subseteq DOMAIN o
  BY SMTT(30) DEF DepFields, Gol!Dep!dependency_observer_init
<1>2. /\ o.enabled = (out = "path") /\ o.roi_cycles = 0 /\ o.episodes = <<>>
      /\ o.previous_exclusive = FALSE /\ o.roi_requested = FALSE /\ o.roi_active = (out = "path")
  BY DEF Gol!Dep!dependency_observer_init
<1>3. c = IF ~o.enabled THEN o
          ELSE [o EXCEPT !.roi_active = FALSE, !.roi_ended = TRUE, !.previous_exclusive = FALSE]
  BY DEF Gol!DepHarness, Gol!Dep!dependency_observer_end_roi
<1> HIDE DEF o, c
<1>4. CASE ~o.enabled
  BY <1>1, <1>2, <1>3, <1>4 DEF c
<1>5. CASE o.enabled
  <2>1. c = [o EXCEPT !.roi_active = FALSE, !.roi_ended = TRUE, !.previous_exclusive = FALSE]
    BY <1>3, <1>5
  <2>2. /\ DOMAIN c = DOMAIN o /\ c.enabled = o.enabled /\ c.roi_cycles = o.roi_cycles
        /\ c.episodes = o.episodes
    BY <1>1, <2>1 DEF DepFields
  <2>3. c.roi_requested = o.roi_requested /\ c.roi_active = FALSE /\ c.previous_exclusive = FALSE
    BY <1>1, <2>1 DEF DepFields
  <2> QED
    BY <1>1, <1>2, <2>2, <2>3 DEF c
<1> QED
  BY <1>4, <1>5

LEMMA HarnessStarts ==
  ASSUME NEW t
  PROVE  LET h == Gol!Harness(t)
         IN GolOk(h) /\ h.roi = FALSE /\ h.cycles = 0 /\ h.started = h.completed
<1> DEFINE h == Gol!Harness(t)
<1>1. HarnessFields \subseteq DOMAIN h
  BY SMTT(30) DEF HarnessFields, Gol!Harness
<1>2. /\ h.roi = FALSE /\ h.cycles = 0 /\ h.values = Gol!Zero(Gol!Signals)
      /\ h.started = Gol!Zero(Gol!Stalls) /\ h.completed = Gol!Zero(Gol!Stalls)
      /\ h.exclusive = Gol!Zero(Gol!Labels)
  BY DEF Gol!Harness
<1>3. h.load_hits = 0 /\ h.load_misses = 0 /\ h.store_hits = 0 /\ h.store_misses = 0
  BY DEF Gol!Harness
<1> HIDE DEF h
<1>4. h.exclusive = Cache!Zero(Cache!Labels)
  BY <1>2 DEF Gol!Zero, Cache!Zero, Gol!Labels, Cache!Labels
<1>5. /\ h.values \in [Gol!Signals -> Nat] /\ h.started \in [Gol!Stalls -> Nat]
      /\ h.completed \in [Gol!Stalls -> Nat] /\ \A x \in Gol!Signals : h.values[x] = 0
  BY <1>2, SMTT(30) DEF Gol!Zero
<1>6. Gol!invariants(h)
  <2>1. Named \subseteq Gol!Signals
    BY DEF Named, Gol!Signals
  <2>2. \A x \in Named : h.values[x] = 0
    BY <1>5, <2>1
  <2>3. 0 = 0 + 0
    BY SMTT(30)
  <2> QED
    BY <1>3, <2>2, <2>3 DEF Gol!invariants, Named
<1>7. GolOk(h)
  <2>1. 0 \in Nat
    BY SMTT(30)
  <2> QED
    BY <1>1, <1>2, <1>3, <1>4, <1>5, <1>6, <2>1, LabelZero DEF GolOk
<1> QED
  BY <1>2, <1>7 DEF h

LEMMA InitWindow == Init => WinInv
<1>0. /\ HistFields \subseteq DOMAIN NoHistory /\ NoHistory.phase = "before"
      /\ NoHistory.window = 0 /\ NoHistory.retired = 0
  <2>1. HistFields \subseteq DOMAIN NoHistory
    BY SMTT(30) DEF HistFields, NoHistory
  <2> QED
    BY <2>1 DEF NoHistory
<1>s. /\ 0 \in Nat /\ Phases = {"before", "in", "after"} /\ "sim" # "gol" /\ "before" # "in"
      /\ Len(<<>>) = 0
  BY SMTT(30) DEF Phases
<1>1. ASSUME InitSim
      PROVE  WinInv
  <2>1. /\ mode = "sim" /\ env \in Envs /\ perf = Perf!perf_observer_init(env)
        /\ cache = Cache!cache_observer_init(env)
        /\ dep = Dep!dependency_observer_init_from_env(env) /\ gol = Gol!Harness(FALSE)
        /\ hist = [NoHistory EXCEPT !.phase = First]
    BY <1>1 DEF InitSim, First
  <2>2. /\ DOMAIN hist = DOMAIN NoHistory /\ hist.phase = First
        /\ hist.window = 0 /\ hist.retired = 0
    BY <1>0, <2>1 DEF HistFields
  <2>3. /\ PerfOk(perf, 0)
        /\ env.out = "path" /\ Valid =>
             perf.output = TRUE /\ RoiIs(perf, First) /\ perf.cycle_count = 0 /\
               Len(perf.observations) = 0
    BY <2>1, PerfStarts
  <2>4. /\ CacheOk(cache, 0) /\ cache.cycles = 0 /\ cache.writeback_observations = 0
        /\ cache.trace_open_failed = (env.trace /\ ~env.traceable)
    BY <2>1, CacheStarts
  <2>5. env.out = "path" /\ Valid => cache.output = TRUE /\ RoiIs(cache, First)
    BY <2>1, CacheFirst
  <2>6. /\ DepFields \subseteq DOMAIN dep /\ dep.roi_cycles = 0
        /\ dep.enabled = (env.out = "path" /\ Valid)
        /\ env.out = "path" /\ Valid => RoiIs(dep, First)
    BY <2>1, DepStarts
  <2>7. GolOk(gol)
    BY <2>1, HarnessStarts
  <2>8. RunOk
    <3>1. First \in Phases /\ (~env.start.valid => First = "in")
      BY DEF First, Phases
    <3> QED
      BY <1>0, <1>s, <2>1, <2>2, <3>1 DEF RunOk
  <2>9. DepOk
    BY <1>s, <2>1, <2>6 DEF DepOk
  <2>10. SimWindow
    BY <2>2, <2>3, <2>4, <2>5, <2>6 DEF SimWindow, Regular
  <2>11. GolWindow
    BY <1>s, <2>1 DEF GolWindow
  <2> QED
    BY <2>3, <2>4, <2>7, <2>8, <2>9, <2>10, <2>11 DEF WinInv
<1>2. ASSUME InitGol
      PROVE  WinInv
  <2>1. /\ mode = "gol" /\ env \in Envs /\ perf = Perf!Static
        /\ dep = Gol!DepHarness(env.out) /\ gol = Gol!Harness(env.trace) /\ hist = NoHistory
    BY <1>2 DEF InitGol
  <2>2. CacheOk(cache, 0)
    <3>1. PICK e : cache = Cache!cache_observer_init(e)
      BY <1>2 DEF InitGol
    <3> QED
      BY <3>1, CacheStarts
  <2>3. PerfOk(perf, 0)
    BY <2>1, PerfStatic
  <2>4. /\ DepFields \subseteq DOMAIN dep /\ dep.roi_cycles = 0
        /\ dep.enabled = (env.out = "path") /\ dep.roi_requested = FALSE /\ dep.roi_active = FALSE
    BY <2>1, DepHarnessStarts
  <2>5. GolOk(gol) /\ gol.roi = FALSE /\ gol.cycles = 0 /\ gol.started = gol.completed
    BY <2>1, HarnessStarts
  <2>6. RunOk
    BY <1>0, <1>s, <2>1 DEF RunOk
  <2>7. DepOk
    BY <1>s, <2>1, <2>4 DEF DepOk
  <2>8. SimWindow
    BY <1>s, <2>1 DEF SimWindow, Regular
  <2>9. GolWindow
    BY <1>0, <1>s, <2>1, <2>4, <2>5 DEF GolWindow
  <2> QED
    BY <2>2, <2>3, <2>5, <2>6, <2>7, <2>8, <2>9 DEF WinInv
<1> QED
  BY <1>1, <1>2 DEF Init

LEMMA NextWindowInv == WinInv /\ [Next]_vars => WinInv'
<1> SUFFICES ASSUME WinInv, [Next]_vars
             PROVE  WinInv'
  OBVIOUS
<1>1. CASE \E wb \in env.writebacks, s \in env.samples : SimCycle(wb, s)
  BY <1>1, SimKeepsWindow
<1>2. CASE \E s \in env.samples, mark \in {"none", "start", "stop"} : GolTick(s, mark)
  BY <1>2, GolKeepsWindow
<1>3. CASE UNCHANGED vars
  <2>1. /\ mode' = mode /\ env' = env /\ perf' = perf /\ cache' = cache /\ dep' = dep
        /\ gol' = gol /\ hist' = hist
    BY <1>3 DEF vars
  <2>2. RunOk' /\ DepOk' /\ GolWindow'
    BY <2>1 DEF WinInv, RunOk, DepOk, GolWindow, Balanced, Valid
  <2>3. SimWindow'
    BY <2>1 DEF WinInv, SimWindow, Regular, Valid, RoiIs
  <2>4. PerfOk(perf', 0) /\ CacheOk(cache', 0) /\ GolOk(gol')
    BY <2>1 DEF WinInv
  <2> QED
    BY <2>2, <2>3, <2>4 DEF WinInv
<1> QED
  BY <1>1, <1>2, <1>3 DEF Next

LEMMA WindowInv == Spec => []WinInv
BY InitWindow, NextWindowInv, PTL DEF Spec

\* Every cycle that perf_observer_cycle, cache_observer_cycle or a harness
\* counts gets exactly one label, and the counters of accesses, hits and misses
\* agree, whatever the environment, the program and the number of cycles.
THEOREM EveryCycleLabelled == Spec => []ExclusiveSums
<1>1. WinInv => ExclusiveSums
  <2> SUFFICES ASSUME WinInv
               PROVE  ExclusiveSums
    OBVIOUS
  <2>1. PerfOk(perf, 0) /\ CacheOk(cache, 0) /\ GolOk(gol)
    BY DEF WinInv
  <2>2. Perf!exclusive_cycle_sum(perf) = perf.cycle_count
    <3>1. Perf!exclusive_cycle_sum(perf) \in Nat /\ Perf!exclusive_cycle_sum(perf) + 0
            = perf.cycle_count
      BY <2>1, LabelsAdd DEF PerfOk, Perf!exclusive_cycle_sum
    <3> QED
      BY ONLY <3>1, SMTT(30)
  <2>3. Cache!invariant_ok(cache)
    <3>1. LabelSum(cache.exclusive) \in Nat /\ LabelSum(cache.exclusive) + 0 = cache.cycles
      BY <2>1, LabelSumNat DEF CacheOk
    <3>2. LabelSum(cache.exclusive) = cache.cycles
      BY ONLY <3>1, SMTT(30)
    <3> QED
      BY <2>1, <3>2 DEF CacheOk, CountsOk, LabelSum, Cache!invariant_ok, Cache!exclusive_sum
  <2>4. Gol!invariants(gol) /\ LabelSum(gol.exclusive) = gol.cycles
    BY <2>1 DEF GolOk
  <2> QED
    BY <2>2, <2>3, <2>4 DEF ExclusiveSums, LabelSum
<1> QED
  BY <1>1, WindowInv, PTL

\* The observers of a run measure the same window: from the first start marker
\* to the end marker after it, whatever retires or stalls in between, and what
\* the update_roi functions and the ticks of a harness agree on.
THEOREM OneWindow == Spec => []SameWindow
<1>1. WinInv => SameWindow
  <2> SUFFICES ASSUME WinInv
               PROVE  SameWindow
    OBVIOUS
  <2>1. SimWindow /\ GolWindow /\ DepOk /\ RunOk
    BY DEF WinInv
  <2>2. mode = "sim" /\ env.out = "path" /\ Valid =>
           /\ perf.cycle_count = hist.window /\ cache.cycles = hist.window
           /\ dep.roi_cycles = hist.window /\ Len(perf.observations) = hist.retired
           /\ cache.writeback_observations = hist.retired
    BY <2>1 DEF SimWindow, Regular
  <2>3. mode = "gol" =>
           /\ gol.cycles = hist.window /\ (env.out = "path" => dep.roi_cycles = hist.window)
           /\ gol.roi => Balanced(gol, hist.refilling)
    <3>1. SUFFICES ASSUME mode = "gol"
                   PROVE  /\ gol.cycles = hist.window
                          /\ env.out = "path" => dep.roi_cycles = hist.window
                          /\ gol.roi => Balanced(gol, hist.refilling)
      OBVIOUS
    <3>2. mode # "sim"
      BY <3>1, SMTT(30)
    <3> QED
      BY <2>1, <3>1, <3>2 DEF GolWindow, DepOk
  <2> QED
    BY <2>2, <2>3 DEF SameWindow, Balanced
<1> QED
  BY <1>1, WindowInv, PTL

-----------------------------------------------------------------------------
(* The outcome of an episode is that of its own load, unless it is misled.    *)

\* The load of an episode without outcome waits in EX, unless it was flushed,
\* and the stall it causes goes on as long as the region does.
OutInv ==
  /\ Owns(dep.episodes, hist.truth, ex)
  /\ ex.waits /\ ex.episode # 0 =>
       (dep.roi_active => dep.previous_exclusive) /\ (mode = "gol" => hist.phase = "in")
  /\ ~dep.enabled \/ hist.phase = "before" => dep.episodes = <<>>

LEMMA OwnsNext ==
  ASSUME mode' = mode, env' = env, Owns(dep'.episodes, hist'.truth, ex')
  PROVE  Owns(dep.episodes, hist.truth, ex)'
<1>1. ASSUME NEW i \in 1..Len(dep'.episodes)
      PROVE  Owned(dep.episodes[i], hist.truth[i], ex, i)'
  <2>1. Owned(dep'.episodes[i], hist'.truth[i], ex', i)
    BY DEF Owns
  <2> QED
    BY <2>1 DEF Owned
<1>2. ASSUME NEW i \in 1..Len(dep'.episodes)
      PROVE  Right(dep.episodes, hist.truth, i)'
  <2>1. Right(dep'.episodes, hist'.truth, i)
    BY DEF Owns
  <2> QED
    BY <2>1 DEF Right, Misled
<1> QED
  BY <1>1, <1>2 DEF Owns

LEMMA SimKeepsOwn ==
  ASSUME WinInv, OutInv, NEW wb \in env.writebacks, NEW s \in env.samples, SimCycle(wb, s)
  PROVE  OutInv'
<1> DEFINE u == exec_once(dep, wb)
           y == Dep!dependency_observer_cycle(u)
           d == single_cycle(u, s)
           x == Waiting(s, Begun(d))
<1>1. /\ RunOk /\ DepOk /\ SimWindow /\ env \in Envs
      /\ Owns(dep.episodes, hist.truth, ex)
      /\ ex.waits /\ ex.episode # 0 => (dep.roi_active => dep.previous_exclusive)
      /\ ~dep.enabled \/ hist.phase = "before" => dep.episodes = <<>>
  BY DEF WinInv, RunOk, OutInv
<1>2. /\ mode = "sim" /\ mode' = mode /\ env' = env /\ dep' = d
      /\ hist'.phase = Phase(hist, wb)
      /\ hist'.truth = Truth(s, d) /\ ex' = x /\ Follows(s)
  BY <1>1, SimHistory
<1>3. /\ DepMarkers(dep, u) /\ DepMoves(dep, u, wb) /\ RoiMoves(dep, u, dep.enabled, wb)
      /\ DepFields \subseteq DOMAIN u /\ u.roi_cycles \in Nat
      /\ DepRegion(u, d) /\ d.enabled = dep.enabled
  BY <1>1, <1>2, DepSim
<1>4. /\ DepRegion(u, y) /\ y.episodes = u.episodes /\ y.previous_exclusive = u.previous_exclusive
      /\ d.previous_exclusive = IF u.enabled THEN Dep!Exclusive(y, s) ELSE u.previous_exclusive
      /\ d.episodes = IF u.enabled THEN Sampled(y, s) ELSE u.episodes
  BY <1>3, SingleCycle
<1>5. y.roi_cycles \in Nat
  BY <1>3, CycleCounts
<1> HIDE DEF u, y, d, x
<1>6. u.enabled = dep.enabled /\ y.roi_active = u.roi_active /\ d.roi_active = u.roi_active
  BY <1>3, <1>4 DEF DepMarkers, DepRegion
<1>m. mode' # "gol"
  BY <1>2, SMTT(30)
<1>7. CASE ~dep.enabled
  <2>1. dep.episodes = <<>> /\ d.episodes = dep.episodes
    BY <1>1, <1>3, <1>4, <1>6, <1>7 DEF DepMoves
  <2>2. ~(ex.waits /\ ex.episode # 0)
    <3>1. ASSUME ex.episode \in 1..Len(<<>>)
          PROVE  FALSE
      BY <3>1, SMTT(30)
    <3> QED
      BY <1>1, <2>1, <3>1 DEF Owns
  <2>3. Owns(d.episodes, Truth(s, d), x) /\ ~(x.waits /\ x.episode # 0)
    BY <1>1, <2>1, <2>2, OwnedIdle DEF x
  <2>4. Owns(dep.episodes, hist.truth, ex)'
    BY <1>2, <2>3, OwnsNext
  <2> QED
    BY <1>2, <2>1, <2>3, <2>4 DEF OutInv
<1>8. CASE dep.enabled
  <2>1. RoiIs(dep, hist.phase)
    BY <1>1, <1>2, <1>8 DEF DepOk, SimWindow, Regular
  <2>2. RoiStarts(dep, wb) => hist.phase = "before"
    BY <2>1 DEF RoiIs, RoiStarts
  <2>3. u.episodes = dep.episodes
    BY <1>1, <1>3, <2>2 DEF DepMoves
  <2>4. ex.waits /\ ex.episode # 0 => (y.roi_active => y.previous_exclusive)
    <3>1. SUFFICES ASSUME ex.waits, ex.episode # 0, y.roi_active
                   PROVE  y.previous_exclusive
      OBVIOUS
    <3>2. dep.episodes # <<>>
      <4>1. ASSUME ex.episode \in 1..Len(<<>>)
            PROVE  FALSE
        BY <4>1, SMTT(30)
      <4> QED
        BY <1>1, <3>1, <4>1 DEF Owns
    <3>3. ~RoiStarts(dep, wb)
      BY <1>1, <2>2, <3>2
    <3>4. ~RoiEnds(dep, wb) /\ dep.roi_active
      BY <1>3, <1>6, <1>8, <3>1, <3>3 DEF RoiMoves
    <3> QED
      BY <1>1, <1>3, <1>4, <3>1, <3>3, <3>4 DEF DepMoves
  <2>5. /\ Owns(d.episodes, Truth(s, d), x)
        /\ x.waits /\ x.episode # 0 => (y.roi_active => Dep!Exclusive(y, s))
        /\ ~y.roi_active => Len(d.episodes) = Len(dep.episodes)
    BY <1>1, <1>2, <1>4, <1>5, <1>6, <1>8, <2>3, <2>4, OwnedSample DEF x
  <2>6. Owns(dep.episodes, hist.truth, ex)'
    BY <1>2, <2>5, OwnsNext
  <2>7. ex'.waits /\ ex'.episode # 0 => (dep'.roi_active => dep'.previous_exclusive)
    BY <1>2, <1>4, <1>6, <1>8, <2>5
  <2>8. hist'.phase = "before" => dep'.episodes = <<>>
    <3>1. SUFFICES ASSUME hist'.phase = "before"
                   PROVE  d.episodes = <<>>
      BY <1>2
    <3>2. hist.phase = "before" /\ ~dep.roi_active
      <4>1. "in" # "before" /\ "after" # "before"
        BY SMTT(30)
      <4>2. hist.phase = "before"
        BY <1>2, <3>1, <4>1 DEF Phase
      <4> QED
        BY <2>1, <4>1, <4>2 DEF RoiIs
    <3>3. ~RoiStarts(dep, wb)
      <4>1. ~(hist.phase = "before" /\ wb.sign /\ wb.pc = env.start.value)
        <5>1. "in" # "before"
          BY SMTT(30)
        <5> QED
          BY <1>2, <3>1, <5>1 DEF Phase
      <4> QED
        BY <2>1, <3>2, <4>1 DEF RoiStarts, RoiIs
    <3>4. ~y.roi_active
      BY <1>3, <1>6, <3>2, <3>3 DEF RoiMoves
    <3>5. d.episodes \in Seq(Episode) /\ Len(d.episodes) = Len(<<>>)
      BY <1>1, <2>5, <3>2, <3>4 DEF Owns
    <3> QED
      BY <3>5, EmptyEpisodes
  <2> QED
    BY <1>2, <1>3, <1>8, <1>m, <2>6, <2>7, <2>8 DEF OutInv
<1> QED
  BY <1>7, <1>8

LEMMA GolKeepsOwn ==
  ASSUME WinInv, OutInv, NEW s \in env.samples, NEW mark \in {"none", "start", "stop"},
         GolTick(s, mark)
  PROVE  OutInv'
<1> DEFINE m == Marked(s, mark)
           y == Dep!dependency_observer_cycle(dep)
           d == Gol!DepTick(gol, dep, m)
           x == Waiting(s, Begun(d))
           on == dep.enabled /\ mark # "start" /\ gol.roi
<1>1. /\ RunOk /\ DepFields \subseteq DOMAIN dep /\ dep.roi_cycles \in Nat /\ env \in Envs
      /\ Owns(dep.episodes, hist.truth, ex)
      /\ ex.waits /\ ex.episode # 0 =>
           (dep.roi_active => dep.previous_exclusive) /\ (mode = "gol" => hist.phase = "in")
      /\ ~dep.enabled \/ hist.phase = "before" => dep.episodes = <<>>
  BY DEF WinInv, RunOk, OutInv, DepOk
<1>2. /\ mode = "gol" /\ mode' = mode /\ env' = env /\ dep' = d
      /\ hist'.phase = IF mark = "start" THEN "in" ELSE IF mark = "stop" THEN "after" ELSE hist.phase
      /\ hist'.truth = Truth(s, d) /\ ex' = x /\ Follows(s) /\ MarkFollows(s, mark)
  BY <1>1, GolHistory
<1>3. gol.roi = (hist.phase = "in")
  BY <1>2 DEF WinInv, GolWindow
<1>4. m.mark = mark /\ Same(m, s)
  BY DEF Marked, Same
<1> HIDE DEF m
<1>5. DepTicked(dep, d, gol, m, s)
  BY <1>1, <1>4, DepTicks
<1>6. /\ d.enabled = dep.enabled
      /\ d.roi_active = IF dep.enabled /\ mark = "start" THEN TRUE
           ELSE IF dep.enabled /\ mark = "stop" THEN FALSE ELSE dep.roi_active
      /\ d.episodes = IF dep.enabled /\ mark = "start" THEN <<>>
           ELSE IF on THEN Sampled(y, s) ELSE dep.episodes
      /\ on /\ mark # "stop" => d.previous_exclusive = Dep!Exclusive(y, s)
      /\ y.roi_active = dep.roi_active /\ y.episodes = dep.episodes
      /\ y.previous_exclusive = dep.previous_exclusive
  <2> HIDE DEF d, y
  <2> QED
    BY <1>4, <1>5 DEF DepTicked, DepMarkers, DepRegion, y
<1>7. y.roi_cycles \in Nat
  BY <1>1, CycleCounts
<1> HIDE DEF d, y, x
<1>s. "in" # "before" /\ "after" # "before" /\ "start" # "stop"
  BY SMTT(30)
<1>8. hist'.phase = "before" => hist.phase = "before"
  BY <1>2, <1>s
<1>9. CASE on
  <2>0. hist.phase = "in" /\ mark # "start"
    BY <1>3, <1>9
  <2>1. /\ Owns(d.episodes, Truth(s, d), x)
        /\ x.waits /\ x.episode # 0 => (y.roi_active => Dep!Exclusive(y, s))
    BY <1>1, <1>2, <1>6, <1>7, <1>9, OwnedSample DEF x
  <2>2. Owns(dep.episodes, hist.truth, ex)'
    BY <1>2, <2>1, OwnsNext
  <2>3. ASSUME x.waits, x.episode # 0
        PROVE  (d.roi_active => d.previous_exclusive) /\ hist'.phase = "in"
    <3>1. mark # "stop"
      BY <1>2, <2>3, WaitingIs DEF MarkFollows, x
    <3> QED
      BY <1>2, <1>6, <1>9, <2>0, <2>1, <2>3, <3>1
  <2> QED
    BY <1>2, <1>6, <1>8, <1>9, <1>s, <2>0, <2>2, <2>3 DEF OutInv
<1>10. CASE ~on
  <2>1. d.episodes = dep.episodes
    BY <1>1, <1>2, <1>6, <1>10 DEF MarkFollows
  <2>2. ~(ex.waits /\ ex.episode # 0)
    <3>1. ASSUME ex.episode \in 1..Len(<<>>)
          PROVE  FALSE
      BY <3>1, SMTT(30)
    <3>2. dep.episodes # <<>> \/ ~(ex.waits /\ ex.episode # 0)
      BY <1>1, <3>1 DEF Owns
    <3> QED
      BY <1>1, <1>2, <1>3, <1>10, <3>2 DEF MarkFollows
  <2>3. Owns(d.episodes, Truth(s, d), x) /\ ~(x.waits /\ x.episode # 0)
    BY <1>1, <2>1, <2>2, OwnedIdle DEF x
  <2>4. Owns(dep.episodes, hist.truth, ex)'
    BY <1>2, <2>3, OwnsNext
  <2> QED
    BY <1>1, <1>2, <1>6, <1>8, <2>1, <2>3, <2>4 DEF OutInv
<1> QED
  BY <1>9, <1>10

LEMMA InitOwn == Init => OutInv
<1> SUFFICES ASSUME Init
             PROVE  OutInv
  BY SMTT(30)
<1>1. ex = None /\ ~ex.waits
  BY DEF Init, None
<1>2. hist.truth = <<>> /\ dep.episodes = <<>>
  <2>1. NoHistory.truth = <<>>
    BY DEF NoHistory
  <2>2. CASE InitSim
    <3>1. env \in Envs /\ dep = Dep!dependency_observer_init_from_env(env)
      BY <2>2 DEF InitSim
    <3>2. hist.truth = NoHistory.truth
      BY <2>2, SMTT(30) DEF InitSim, NoHistory
    <3> QED
      BY <2>1, <3>1, <3>2, DepStarts
  <2>3. CASE InitGol
    <3>1. hist = NoHistory /\ dep = Gol!DepHarness(env.out)
      BY <2>3 DEF InitGol
    <3> QED
      BY <2>1, <3>1, DepHarnessStarts
  <2> QED
    BY <2>2, <2>3 DEF Init
<1>3. \A i \in 1..Len(<<>>) : FALSE
  BY SMTT(30)
<1> QED
  BY <1>1, <1>2, <1>3, TruthSeq DEF OutInv, Owns

LEMMA NextOwn == WinInv /\ OutInv /\ [Next]_vars => OutInv'
<1> SUFFICES ASSUME WinInv, OutInv, [Next]_vars
             PROVE  OutInv'
  OBVIOUS
<1>1. CASE \E wb \in env.writebacks, s \in env.samples : SimCycle(wb, s)
  BY <1>1, SimKeepsOwn
<1>2. CASE \E s \in env.samples, mark \in {"none", "start", "stop"} : GolTick(s, mark)
  BY <1>2, GolKeepsOwn
<1>3. CASE UNCHANGED vars
  <2>1. mode' = mode /\ env' = env /\ dep' = dep /\ ex' = ex /\ hist' = hist
    BY <1>3 DEF vars
  <2>2. Owns(dep.episodes, hist.truth, ex)'
    BY <2>1, OwnsNext DEF OutInv
  <2> QED
    BY <2>1, <2>2 DEF OutInv
<1> QED
  BY <1>1, <1>2, <1>3 DEF Next

LEMMA OwnInv == Spec => []OutInv
<1>1. Init /\ [][Next]_vars /\ []WinInv => []OutInv
  BY InitOwn, NextOwn, PTL
<1> QED
  BY <1>1, WindowInv, PTL DEF Spec

\* dependency_observer_sample gives a load episode the D-cache outcome of the
\* load that was in EX when the stall began, although it only looks for the
\* first episode that waits for the address: until an interrupt flushes a load
\* of the address that is waited for, at most one episode waits for an access,
\* and its load is the one in EX.  A load that the D-cache has not served is
\* without outcome even after such a flush.
THEOREM EveryLoadItsOutcome == Spec => []OwnOutcome
<1>1. OutInv => OwnOutcome
  <2> SUFFICES ASSUME OutInv, NEW i \in DOMAIN dep.episodes,
                      \/ hist.truth[i] \in {"NOT_LOAD", "DEVICE", "PENDING"}
                      \/ ~Misled(dep.episodes, hist.truth, i)
               PROVE  dep.episodes[i].load_outcome
                        = IF hist.truth[i] = "DEVICE" THEN "PENDING" ELSE hist.truth[i]
    BY DEF OwnOutcome
  <2>1. dep.episodes \in Seq(Episode) /\ i \in 1..Len(dep.episodes)
    BY EpisodeSeq DEF OutInv, Owns
  <2>2. Right(dep.episodes, hist.truth, i)
    BY <2>1 DEF OutInv, Owns
  <2> QED
    BY <2>2 DEF Right, Unserved, Shown
<1> QED
  BY <1>1, OwnInv, PTL

-----------------------------------------------------------------------------
(* The verdicts of the reports.                                               *)

\* The loads that a report counts without outcome: those the D-cache did not
\* serve, and no other unless a load was flushed.
LEMMA Unresolved ==
  ASSUME OutInv
  PROVE  /\ Dep!unresolved(dep) = {} =>
              \A i \in DOMAIN hist.truth : hist.truth[i] \notin {"DEVICE", "PENDING"}
         /\ (\A i \in DOMAIN hist.truth : hist.truth[i] \notin {"DEVICE", "PENDING", "FLUSHED"})
              => Dep!unresolved(dep) = {}
         /\ Gol!Dep!unresolved(dep) = Dep!unresolved(dep)
<1> DEFINE eps == dep.episodes
           t == hist.truth
           n == Len(eps)
           lost(i) == /\ eps[i].producer_class = "LOAD" /\ eps[i].source # {}
                      /\ eps[i].load_outcome \notin {"HIT", "MISS"}
<1>1. /\ DOMAIN eps = 1..n /\ DOMAIN t = 1..n /\ n \in Nat
      /\ \A i \in 1..n : Owned(eps[i], t[i], ex, i) /\ Right(eps, t, i) /\ t[i] \in Truths
  <2>1. /\ eps \in Seq(Episode) /\ t \in Seq(Truths) /\ Len(t) = n
        /\ \A i \in 1..n : Owned(eps[i], t[i], ex, i) /\ Right(eps, t, i)
    BY DEF OutInv, Owns
  <2>2. DOMAIN t = 1..Len(t)
    BY <2>1, SMTT(30)
  <2> QED
    BY <2>1, <2>2, EpisodeSeq, TruthSeq
<1>2. ASSUME NEW i \in 1..n, t[i] \in {"DEVICE", "PENDING"}
      PROVE  lost(i)
  <2>1. t[i] \in Unserved /\ t[i] # "NOT_LOAD" /\ Shown(t[i]) \notin {"HIT", "MISS"}
    BY <1>2, SMTT(30) DEF Unserved, Shown
  <2> QED
    BY <1>1, <2>1 DEF Owned, Right
<1>3. ASSUME \A j \in DOMAIN t : t[j] \notin {"DEVICE", "PENDING", "FLUSHED"}, NEW i \in 1..n
      PROVE  ~lost(i)
  <2>1. \A j \in 1..i : j \in 1..n
    BY <1>1, SMTT(30)
  <2>2. ~Misled(eps, t, i)
    BY <1>1, <1>3, <2>1 DEF Misled
  <2>3. t[i] # "NOT_LOAD" => Shown(t[i]) \in {"HIT", "MISS"}
    BY <1>1, <1>3, SMTT(30) DEF Shown, Truths
  <2> QED
    BY <1>1, <2>2, <2>3 DEF Owned, Right
<1>4. Dep!unresolved(dep) = {i \in DOMAIN eps : lost(i)}
  BY DEF Dep!unresolved
<1>5. Gol!Dep!unresolved(dep) = Dep!unresolved(dep)
  BY DEF Dep!unresolved, Gol!Dep!unresolved
<1> HIDE DEF lost
<1> QED
  BY <1>1, <1>2, <1>3, <1>4, <1>5

Closed == ~env.start.valid \/ hist.phase = "after"

LEMMA PerfVerdict ==
  ASSUME WinInv, Regular, ExclusiveSums
  PROVE  Perf!perf_observer_finalize(perf, 0, TRUE)
           = [report |-> perf, roi_valid |-> env.start.valid /\ Closed,
              exit_status |-> 0, returns |-> 0]
<1>1. perf.output = TRUE /\ RoiIs(perf, hist.phase)
  BY DEF WinInv, SimWindow
<1>2. Perf!exclusive_cycle_sum(perf) = perf.cycle_count
  BY DEF ExclusiveSums
<1>s. "after" # "before"
  BY SMTT(30)
<1>3. (perf.roi_requested /\ perf.roi_started /\ perf.roi_ended) = (env.start.valid /\ Closed)
  BY <1>1, <1>s DEF RoiIs, Closed
<1> QED
  BY <1>1, <1>2, <1>3 DEF Perf!perf_observer_finalize

LEMMA CacheVerdict ==
  ASSUME WinInv, Regular, ExclusiveSums
  PROVE  Cache!cache_observer_finalize(cache, TRUE) = Bit(~(Closed /\ (~env.trace \/ env.traceable)))
<1>1. /\ cache.output = TRUE /\ RoiIs(cache, hist.phase)
      /\ cache.trace_open_failed = (env.trace /\ ~env.traceable)
  BY DEF WinInv, SimWindow
<1>2. Cache!invariant_ok(cache)
  BY DEF ExclusiveSums
<1>s. "after" # "before"
  BY SMTT(30)
<1>3. Cache!roi_valid(cache) <=> Closed
  BY <1>1, <1>s DEF RoiIs, Closed, Cache!roi_valid
<1> QED
  BY <1>1, <1>2, <1>3 DEF Cache!cache_observer_finalize, Cache!Bit, Bit

LEMMA DepVerdict ==
  ASSUME WinInv, OutInv, Regular
  PROVE  LET status == Dep!dependency_observer_finalize(dep, TRUE)
             resolved(bad) == \A i \in DOMAIN hist.truth : hist.truth[i] \notin bad
             good == Closed /\ resolved({"DEVICE", "PENDING"})
         IN (good => status = 0 \/ ~resolved({"FLUSHED"})) /\ (~good => status = 1)
<1>1. dep.enabled = TRUE /\ RoiIs(dep, hist.phase)
  BY DEF WinInv, SimWindow, DepOk, Regular
<1>s. "after" # "before"
  BY SMTT(30)
<1>2. ~dep.roi_requested \/ (dep.roi_started /\ dep.roi_ended) <=> Closed
  BY <1>1, <1>s DEF RoiIs, Closed
<1> QED
  BY <1>1, <1>2, Unresolved DEF Dep!dependency_observer_finalize, Dep!Bit

\* A harness whose window is complete has lost no load but those of devices.
LEMMA GolVerdict ==
  ASSUME WinInv, OutInv, ExclusiveSums, mode = "gol", env.out = "path", hist.phase = "after"
  PROVE  /\ Gol!CacheRun(gol, TRUE, hist.window) = 0
         /\ Gol!ProfileRun(gol, dep, TRUE, hist.window)
              = IF \A i \in DOMAIN hist.truth : hist.truth[i] \notin {"DEVICE"} THEN 0 ELSE 2
<1>1. Gol!invariants(gol) /\ gol.cycles = hist.window /\ dep.roi_requested = FALSE
  BY DEF ExclusiveSums, WinInv, GolWindow
<1>s. mode # "sim" /\ hist.phase # "in"
  BY SMTT(30)
<1>2. dep.enabled = TRUE
  BY <1>s DEF WinInv, DepOk
<1>3. ASSUME NEW i \in DOMAIN hist.truth
      PROVE  hist.truth[i] # "PENDING" /\ hist.truth[i] # "FLUSHED"
  <2>1. Owns(dep.episodes, hist.truth, ex) /\ ~(ex.waits /\ ex.episode # 0)
    BY <1>s DEF OutInv
  <2>2. i \in 1..Len(dep.episodes) /\ i # 0
    <3>1. hist.truth \in Seq(Truths) /\ Len(hist.truth) = Len(dep.episodes)
      BY <2>1 DEF Owns
    <3> QED
      BY <3>1, SMTT(30)
  <2>3. Owned(dep.episodes[i], hist.truth[i], ex, i)
    BY <2>1, <2>2 DEF Owns
  <2> QED
    BY <2>1, <2>2, <2>3 DEF Owned, Owns
<1>4. Gol!Dep!unresolved(dep) = {}
        <=> \A i \in DOMAIN hist.truth : hist.truth[i] \notin {"DEVICE"}
  BY <1>3, Unresolved
<1>5. Gol!Dep!dependency_observer_finalize(dep, TRUE) = 0
        <=> \A i \in DOMAIN hist.truth : hist.truth[i] \notin {"DEVICE"}
  <2>1. 1 # 0
    BY SMTT(30)
  <2> QED
    BY <1>1, <1>2, <1>4, <2>1 DEF Gol!Dep!dependency_observer_finalize, Gol!Dep!Bit
<1> QED
  BY <1>1, <1>5 DEF Gol!CacheRun, Gol!ProfileRun

\* The status that each finalize function and each harness returns blames a run
\* for a window left open, a trace that could not be written and a load without
\* outcome, and for nothing else, but that the dependency observer may also
\* blame a run in which an interrupt flushed a load that was waited for.
THEOREM RightVerdicts == Spec => []Verdicts
<1>1. WinInv /\ OutInv /\ ExclusiveSums => Verdicts
  <2> SUFFICES ASSUME WinInv, OutInv, ExclusiveSums
               PROVE  Verdicts
    OBVIOUS
  <2>1. CASE Regular
    <3>1. mode # "gol"
      BY <2>1, SMTT(30) DEF Regular
    <3> QED
      BY <2>1, <3>1, PerfVerdict, CacheVerdict, DepVerdict DEF Verdicts, Closed
  <2>2. CASE ~Regular
    BY <2>2, GolVerdict DEF Verdicts, Regular
  <2> QED
    BY <2>1, <2>2
<1> QED
  BY <1>1, WindowInv, OwnInv, EveryCycleLabelled, PTL
=============================================================================
