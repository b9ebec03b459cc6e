-------------------------- MODULE DependencyProofs --------------------------
(***************************************************************************)
(* Lemmas about the dependency observer, for every environment, program    *)
(* and number of cycles: what its calls do to the region of interest and   *)
(* to the episodes, and that one sample keeps the outcome of each episode  *)
(* that of its own load, unless an interrupt misled it (Owns).             *)
(* ProfilingProofs rests on them.                                          *)
(***************************************************************************)
EXTENDS Profiling, TLAPS

\* A leaf that names no prover is first-order reasoning.
USE ZenonT(30)

\* A marker that retires starts the region of observer o once, or ends it; an
\* observer that is on moves from o to u.
RoiStarts(o, wb) == o.roi_requested /\ wb.sign /\ ~o.roi_started /\ wb.pc = o.roi_start_pc
RoiEnds(o, wb) ==
  o.roi_requested /\ wb.sign /\ ~RoiStarts(o, wb) /\ o.roi_active /\ wb.pc = o.roi_end_pc
RoiMoves(o, u, on, wb) ==
  /\ u.roi_started = IF on /\ RoiStarts(o, wb) THEN TRUE ELSE o.roi_started
  /\ u.roi_active = IF on /\ RoiStarts(o, wb) THEN TRUE ELSE IF on /\ RoiEnds(o, wb) THEN FALSE
       ELSE o.roi_active
  /\ u.roi_ended = IF on /\ RoiEnds(o, wb) THEN TRUE ELSE o.roi_ended

LEMMA PlusOwed == \A n \in Nat : n + 0 = n /\ n + 1 \in Nat
BY SMTT(30)

-----------------------------------------------------------------------------
(* The dependency observer.                                                   *)

DepFields ==
  {"enabled", "roi_requested", "roi_active", "roi_started", "roi_ended", "roi_start_pc",
   "roi_end_pc", "roi_cycles", "previous_exclusive", "episodes"}
DepMarkers(o, c) ==
  /\ DOMAIN c = DOMAIN o
  /\ c.enabled = o.enabled /\ c.roi_requested = o.roi_requested
  /\ c.roi_start_pc = o.roi_start_pc /\ c.roi_end_pc = o.roi_end_pc
DepRegion(o, c) ==
  /\ DepMarkers(o, c)
  /\ c.roi_active = o.roi_active /\ c.roi_started = o.roi_started /\ c.roi_ended = o.roi_ended

LEMMA DepBegins ==
  ASSUME NEW o, DepFields \subseteq DOMAIN o, o.enabled
  PROVE  LET c == Dep!dependency_observer_begin_roi(o)
         IN /\ DepMarkers(o, c)
            /\ c.roi_started = TRUE /\ c.roi_active = TRUE /\ c.roi_ended = FALSE
            /\ c.roi_cycles = 0 /\ c.previous_exclusive = FALSE /\ c.episodes = <<>>
<1> DEFINE z == Dep!reset_profile(o)
           c == Dep!dependency_observer_begin_roi(o)
<1>1. c = [z EXCEPT !.roi_started = TRUE, !.roi_active = TRUE, !.roi_ended = FALSE]
  BY DEF Dep!dependency_observer_begin_roi
<1>2. DepMarkers(o, z) /\ z.roi_cycles = 0 /\ z.previous_exclusive = FALSE /\ z.episodes = <<>>
  BY DEF Dep!reset_profile, DepMarkers, DepFields
<1> HIDE DEF z, c
<1>0. DepFields \subseteq DOMAIN z
  BY <1>2 DEF DepMarkers
<1>3. DepMarkers(z, c)
  BY <1>0, <1>1 DEF DepMarkers, DepFields
<1>4. c.roi_started = TRUE /\ c.roi_active = TRUE /\ c.roi_ended = FALSE
  BY <1>0, <1>1 DEF DepFields
<1>5. /\ c.roi_cycles = z.roi_cycles /\ c.previous_exclusive = z.previous_exclusive
      /\ c.episodes = z.episodes
  BY <1>0, <1>1 DEF DepFields
<1> QED
  BY <1>2, <1>3, <1>4, <1>5 DEF DepMarkers, c

LEMMA DepEnds ==
  ASSUME NEW o, DepFields \subseteq DOMAIN o, o.enabled
  PROVE  LET c == Dep!dependency_observer_end_roi(o)
         IN /\ DepMarkers(o, c)
            /\ c.roi_started = o.roi_started /\ c.roi_active = FALSE /\ c.roi_ended = TRUE
            /\ c.roi_cycles = o.roi_cycles /\ c.previous_exclusive = FALSE
            /\ c.episodes = o.episodes
<1> DEFINE c == Dep!dependency_observer_end_roi(o)
<1>1. c = [o EXCEPT !.roi_active = FALSE, !.roi_ended = TRUE, !.previous_exclusive = FALSE]
  BY DEF Dep!dependency_observer_end_roi
<1> HIDE DEF c
<1>2. DepMarkers(o, c)
  BY <1>1 DEF DepMarkers, DepFields
<1>3. c.roi_started = o.roi_started /\ c.roi_active = FALSE /\ c.roi_ended = TRUE
  BY <1>1 DEF DepFields
<1>4. c.roi_cycles = o.roi_cycles /\ c.previous_exclusive = FALSE /\ c.episodes = o.episodes
  BY <1>1 DEF DepFields
<1> QED
  BY <1>2, <1>3, <1>4 DEF c

\* The region starts empty, and no stall continues across its ends.
DepMoves(o, u, wb) ==
  /\ u.roi_cycles = IF o.enabled /\ RoiStarts(o, wb) THEN 0 ELSE o.roi_cycles
  /\ u.episodes = IF o.enabled /\ RoiStarts(o, wb) THEN <<>> ELSE o.episodes
  /\ u.previous_exclusive = IF o.enabled /\ (RoiStarts(o, wb) \/ RoiEnds(o, wb))
                            THEN FALSE ELSE o.previous_exclusive

LEMMA DepUpdateRoi ==
  ASSUME NEW o, DepFields \subseteq DOMAIN o, NEW wb,
         o.enabled /\ ~o.roi_started => o.roi_ended = FALSE
  PROVE  LET u == exec_once(o, wb)
         IN DepMarkers(o, u) /\ RoiMoves(o, u, o.enabled, wb) /\ DepMoves(o, u, wb)
<1> DEFINE u == exec_once(o, wb)
<1>1. CASE o.enabled /\ RoiStarts(o, wb)
  <2>1. u = Dep!dependency_observer_begin_roi(o)
    BY <1>1 DEF exec_once, Dep!dependency_observer_update_roi, RoiStarts
  <2> DEFINE c == Dep!dependency_observer_begin_roi(o)
  <2>2. /\ DepMarkers(o, c)
        /\ c.roi_started = TRUE /\ c.roi_active = TRUE /\ c.roi_ended = FALSE
        /\ c.roi_cycles = 0 /\ c.previous_exclusive = FALSE /\ c.episodes = <<>>
    BY <1>1, DepBegins
  <2>3. ~RoiEnds(o, wb) /\ o.roi_ended = FALSE
    BY <1>1 DEF RoiEnds, RoiStarts
  <2> HIDE DEF u, c
  <2>4. RoiMoves(o, u, o.enabled, wb)
    BY <1>1, <2>1, <2>2, <2>3 DEF RoiMoves, c
  <2>5. DepMarkers(o, u) /\ DepMoves(o, u, wb)
    BY <1>1, <2>1, <2>2 DEF DepMoves, c
  <2> QED
    BY <2>4, <2>5 DEF u
<1>2. CASE o.enabled /\ RoiEnds(o, wb)
  <2>1. u = Dep!dependency_observer_end_roi(o) /\ ~RoiStarts(o, wb)
    BY <1>2 DEF exec_once, Dep!dependency_observer_update_roi, RoiStarts, RoiEnds
  <2> DEFINE c == Dep!dependency_observer_end_roi(o)
  <2>2. /\ DepMarkers(o, c)
        /\ c.roi_started = o.roi_started /\ c.roi_active = FALSE /\ c.roi_ended = TRUE
        /\ c.roi_cycles = o.roi_cycles /\ c.previous_exclusive = FALSE
        /\ c.episodes = o.episodes
    BY <1>2, DepEnds
  <2> HIDE DEF u, c
  <2>3. RoiMoves(o, u, o.enabled, wb)
    BY <1>2, <2>1, <2>2 DEF RoiMoves, c
  <2>4. DepMarkers(o, u) /\ DepMoves(o, u, wb)
    BY <1>2, <2>1, <2>2 DEF DepMoves, c
  <2> QED
    BY <2>3, <2>4 DEF u
<1>3. CASE ~(o.enabled /\ RoiStarts(o, wb)) /\ ~(o.enabled /\ RoiEnds(o, wb))
  <2>1. u = o
    BY <1>3 DEF exec_once, Dep!dependency_observer_update_roi, RoiStarts, RoiEnds
  <2> QED
    BY <1>3, <2>1 DEF DepMarkers, RoiMoves, DepMoves
<1> QED
  BY <1>1, <1>2, <1>3

\* The episodes after a sample.
Begun1(o, s) ==
  IF Dep!Begins(o, s) THEN Append(o.episodes, Dep!NewEpisode(o, s)) ELSE o.episodes
Longer1(o, s) ==
  IF Dep!Exclusive(o, s) THEN [Begun1(o, s) EXCEPT ![Len(Begun1(o, s))].cycles = @ + 1]
  ELSE Begun1(o, s)
Outcome(s) == IF "dcache_hit" \in s.sig THEN "HIT" ELSE "MISS"
Sampled(o, s) ==
  [i \in DOMAIN Longer1(o, s) |->
     IF i \in Dep!Settled(Longer1(o, s), s)
     THEN [Longer1(o, s)[i] EXCEPT !.load_outcome = Outcome(s)] ELSE Longer1(o, s)[i]]

LEMMA SingleCycle ==
  ASSUME NEW o, DepFields \subseteq DOMAIN o, o.roi_cycles \in Nat, NEW s
  PROVE  LET c == single_cycle(o, s)
             y == Dep!dependency_observer_cycle(o)
         IN /\ DepRegion(o, c)
            /\ c.roi_cycles = IF o.enabled /\ o.roi_active THEN o.roi_cycles + 1 ELSE o.roi_cycles
            /\ DepRegion(o, y) /\ y.episodes = o.episodes
            /\ y.previous_exclusive = o.previous_exclusive
            /\ c.previous_exclusive = IF o.enabled THEN Dep!Exclusive(y, s) ELSE o.previous_exclusive
            /\ c.episodes = IF o.enabled THEN Sampled(y, s) ELSE o.episodes
<1> DEFINE c == single_cycle(o, s)
           y == Dep!dependency_observer_cycle(o)
<1>1. /\ DepRegion(o, y) /\ y.episodes = o.episodes /\ y.previous_exclusive = o.previous_exclusive
      /\ y.roi_cycles = IF o.enabled /\ o.roi_active THEN o.roi_cycles + 1 ELSE o.roi_cycles
  <2>1. CASE o.enabled /\ o.roi_active
    <3>1. y = [o EXCEPT !.roi_cycles = @ + 1]
      BY <2>1 DEF Dep!dependency_observer_cycle
    <3> HIDE DEF y
    <3>2. DepRegion(o, y)
      BY <3>1 DEF DepRegion, DepMarkers, DepFields
    <3>3. /\ y.episodes = o.episodes /\ y.previous_exclusive = o.previous_exclusive
          /\ y.roi_cycles = o.roi_cycles + 1
      BY <3>1 DEF DepFields
    <3> QED
      BY <2>1, <3>2, <3>3
  <2>2. CASE ~(o.enabled /\ o.roi_active)
    <3>1. y = o
      BY <2>2 DEF Dep!dependency_observer_cycle
    <3> QED
      BY <2>2, <3>1 DEF DepRegion, DepMarkers
  <2> QED
    BY <2>1, <2>2
<1>2. c = Dep!dependency_observer_sample(y, s)
  BY DEF single_cycle
<1> HIDE DEF y, c
<1>0. DepFields \subseteq DOMAIN y
  BY <1>1 DEF DepRegion, DepMarkers
<1>3. CASE ~y.enabled
  <2>1. c = y
    BY <1>2, <1>3 DEF Dep!dependency_observer_sample
  <2> QED
    BY <1>1, <1>3, <2>1 DEF DepRegion, DepMarkers, c, y
<1>4. CASE y.enabled
  <2> DEFINE x == Dep!Exclusive(y, s)
             e == Sampled(y, s)
  <2>1. c = [y EXCEPT !.previous_exclusive = x, !.episodes = e]
    BY <1>2, <1>4 DEF Dep!dependency_observer_sample, Sampled, Outcome, Longer1, Begun1
  <2> HIDE DEF x, e
  <2>2. DepRegion(y, c)
    BY <1>0, <2>1 DEF DepRegion, DepMarkers, DepFields
  <2>3. c.roi_cycles = y.roi_cycles /\ c.previous_exclusive = x /\ c.episodes = e
    BY <1>0, <2>1 DEF DepFields
  <2>4. DepRegion(o, c) /\ o.enabled
    BY <1>1, <1>4, <2>2 DEF DepRegion, DepMarkers
  <2> QED
    BY <1>1, <2>3, <2>4 DEF c, y, x, e
<1> QED
  BY <1>3, <1>4

\* The harness calls the same functions, with the marker beside the sample.
Same(m, s) ==
  m.sig = s.sig /\ m.address = s.address /\ m.producer = s.producer /\ m.consumer = s.consumer

LEMMA SameCalls ==
  ASSUME NEW o, NEW m, NEW s, Same(m, s)
  PROVE  /\ Gol!Dep!dependency_observer_begin_roi(o) = Dep!dependency_observer_begin_roi(o)
         /\ Gol!Dep!dependency_observer_sample(Gol!Dep!dependency_observer_cycle(o), m)
              = single_cycle(o, s)
<1>1. Gol!Dep!dependency_observer_begin_roi(o) = Dep!dependency_observer_begin_roi(o)
  BY DEF Gol!Dep!dependency_observer_begin_roi, Dep!dependency_observer_begin_roi,
               Gol!Dep!reset_profile, Dep!reset_profile
<1> DEFINE y == Dep!dependency_observer_cycle(o)
<1>3. Gol!Dep!dependency_observer_cycle(o) = y
  BY DEF Gol!Dep!dependency_observer_cycle, Dep!dependency_observer_cycle
<1> HIDE DEF y
<1>4. /\ Gol!Dep!Exclusive(y, m) = Dep!Exclusive(y, s)
      /\ Gol!Dep!Begins(y, m) = Dep!Begins(y, s)
  BY DEF Same, Gol!Dep!Exclusive, Dep!Exclusive, Gol!Dep!Begins, Dep!Begins
<1>5. Gol!Dep!NewEpisode(y, m) = Dep!NewEpisode(y, s)
  <2>1. Gol!Dep!producer_class(m.producer) = Dep!producer_class(s.producer)
    BY DEF Same, Gol!Dep!producer_class, Dep!producer_class, Gol!Dep!is_load, Dep!is_load,
                 Gol!Dep!is_multiply, Dep!is_multiply
  <2>2. Gol!Dep!classify_source(m.consumer, m.producer.rd)
          = Dep!classify_source(s.consumer, s.producer.rd)
    <3>1. Gol!Dep!operand_use(m.consumer) = Dep!operand_use(s.consumer)
      BY DEF Same, Gol!Dep!operand_use, Dep!operand_use
    <3> QED
      BY <3>1 DEF Same, Gol!Dep!classify_source, Dep!classify_source
  <2> QED
    BY <2>1, <2>2 DEF Same, Gol!Dep!NewEpisode, Dep!NewEpisode
<1>6. \A e : Gol!Dep!Settled(e, m) = Dep!Settled(e, s)
  BY DEF Same, Gol!Dep!Settled, Dep!Settled
<1>7. Gol!Dep!dependency_observer_sample(y, m) = Dep!dependency_observer_sample(y, s)
  <2>1. CASE ~y.enabled
    BY <2>1 DEF Gol!Dep!dependency_observer_sample, Dep!dependency_observer_sample
  <2>2. CASE y.enabled
    <3> DEFINE gb == IF Gol!Dep!Begins(y, m) THEN Append(y.episodes, Gol!Dep!NewEpisode(y, m))
                     ELSE y.episodes
               gl == IF Gol!Dep!Exclusive(y, m) THEN [gb EXCEPT ![Len(gb)].cycles = @ + 1] ELSE gb
               go == IF "dcache_hit" \in m.sig THEN "HIT" ELSE "MISS"
               ge == [i \in DOMAIN gl |-> IF i \in Gol!Dep!Settled(gl, m)
                        THEN [gl[i] EXCEPT !.load_outcome = go] ELSE gl[i]]
    <3>1. Gol!Dep!dependency_observer_sample(y, m)
            = [y EXCEPT !.previous_exclusive = Gol!Dep!Exclusive(y, m), !.episodes = ge]
      BY <2>2 DEF Gol!Dep!dependency_observer_sample
    <3>2. gb = Begun1(y, s)
      BY <1>4, <1>5 DEF Begun1
    <3> HIDE DEF gb
    <3>3. gl = Longer1(y, s)
      BY <1>4, <3>2 DEF Longer1
    <3> HIDE DEF gl
    <3>4. go = Outcome(s) /\ Gol!Dep!Settled(gl, m) = Dep!Settled(Longer1(y, s), s)
      BY <1>6, <3>3 DEF Same, Outcome
    <3> HIDE DEF go
    <3>5. ge = Sampled(y, s)
      BY <3>3, <3>4 DEF Sampled
    <3> HIDE DEF ge
    <3>6. Dep!dependency_observer_sample(y, s)
            = [y EXCEPT !.previous_exclusive = Dep!Exclusive(y, s), !.episodes = Sampled(y, s)]
      BY <2>2 DEF Dep!dependency_observer_sample, Sampled, Outcome, Longer1, Begun1
    <3> QED
      BY <1>4, <3>1, <3>5, <3>6
  <2> QED
    BY <2>1, <2>2
<1> QED
  BY <1>1, <1>3, <1>7 DEF single_cycle, y

\* A tick of the load-use harness, as its observer sees it.
DepTicked(o, c, h, m, s) ==
  LET y == Dep!dependency_observer_cycle(o)
      begins == o.enabled /\ m.mark = "start"
      ends == o.enabled /\ m.mark = "stop"
      on == o.enabled /\ m.mark # "start" /\ h.roi
  IN /\ DepMarkers(o, c) /\ c.roi_cycles \in Nat
     /\ c.roi_active = IF begins THEN TRUE ELSE IF ends THEN FALSE ELSE o.roi_active
     /\ c.roi_cycles = IF begins THEN 0
                       ELSE IF on /\ o.roi_active THEN o.roi_cycles + 1 ELSE o.roi_cycles
     /\ c.episodes = IF begins THEN <<>> ELSE IF on THEN Sampled(y, s) ELSE o.episodes
     /\ c.previous_exclusive = IF begins \/ ends THEN FALSE
          ELSE IF on THEN Dep!Exclusive(y, s) ELSE o.previous_exclusive
     /\ DepRegion(o, y) /\ y.episodes = o.episodes
     /\ y.previous_exclusive = o.previous_exclusive

LEMMA DepTicks ==
  ASSUME NEW o, DepFields \subseteq DOMAIN o, o.roi_cycles \in Nat, NEW h, NEW m, NEW s, Same(m, s)
  PROVE  DepTicked(o, Gol!DepTick(h, o, m), h, m, s)
<1> DEFINE y == Dep!dependency_observer_cycle(o)
           b == Dep!dependency_observer_begin_roi(o)
           g == single_cycle(o, s)
           a == IF m.mark = "start" THEN b ELSE IF ~h.roi THEN o ELSE g
           begins == o.enabled /\ m.mark = "start"
           ends == o.enabled /\ m.mark = "stop"
           on == o.enabled /\ m.mark # "start" /\ h.roi
           c == Gol!DepTick(h, o, m)
<1>1. c = IF m.mark = "stop" THEN Dep!dependency_observer_end_roi(a) ELSE a
  <2>1. /\ Gol!Dep!dependency_observer_begin_roi(o) = b
        /\ Gol!Dep!dependency_observer_sample(Gol!Dep!dependency_observer_cycle(o), m) = g
    BY SameCalls
  <2>2. Gol!DepSample(h, o, m) = IF ~h.roi THEN o ELSE g
    BY <2>1 DEF Gol!DepSample
  <2>3. c = IF m.mark = "stop" THEN Gol!Dep!dependency_observer_end_roi(a) ELSE a
    BY <2>1, <2>2 DEF Gol!DepTick
  <2>4. Gol!Dep!dependency_observer_end_roi(a) = Dep!dependency_observer_end_roi(a)
    BY DEF Gol!Dep!dependency_observer_end_roi, Dep!dependency_observer_end_roi
  <2> QED
    BY <2>3, <2>4
<1>2. /\ DepRegion(o, g)
      /\ g.roi_cycles = IF o.enabled /\ o.roi_active THEN o.roi_cycles + 1 ELSE o.roi_cycles
      /\ DepRegion(o, y) /\ y.episodes = o.episodes
      /\ y.previous_exclusive = o.previous_exclusive
      /\ g.previous_exclusive = IF o.enabled THEN Dep!Exclusive(y, s) ELSE o.previous_exclusive
      /\ g.episodes = IF o.enabled THEN Sampled(y, s) ELSE o.episodes
  BY SingleCycle
<1>3. o.enabled => /\ DepMarkers(o, b) /\ b.roi_active = TRUE /\ b.roi_cycles = 0
                   /\ b.previous_exclusive = FALSE /\ b.episodes = <<>>
  BY DepBegins
<1>4. ~o.enabled => b = o
  BY DEF Dep!dependency_observer_begin_roi
<1> HIDE DEF y, b, g, c
<1>5. /\ DepMarkers(o, a)
      /\ a.roi_active = IF begins THEN TRUE ELSE o.roi_active
      /\ a.roi_cycles = IF begins THEN 0 ELSE IF on /\ o.roi_active
                                         THEN o.roi_cycles + 1 ELSE o.roi_cycles
      /\ a.episodes = IF begins THEN <<>> ELSE IF on THEN Sampled(y, s) ELSE o.episodes
      /\ a.previous_exclusive = IF begins THEN FALSE
           ELSE IF on THEN Dep!Exclusive(y, s) ELSE o.previous_exclusive
  <2>1. CASE begins
    BY <1>3, <2>1
  <2>2. CASE ~begins /\ (m.mark = "start" \/ ~h.roi)
    <3>1. a = o
      BY <1>4, <2>2
    <3> HIDE DEF a
    <3> QED
      BY <2>2, <3>1 DEF DepMarkers
  <2>3. CASE m.mark # "start" /\ h.roi
    <3>1. a = g
      BY <2>3
    <3> HIDE DEF a
    <3>2. DepMarkers(o, a) /\ a.roi_active = o.roi_active
      BY <1>2, <3>1 DEF DepRegion
    <3> QED
      BY <1>2, <2>3, <3>1, <3>2
  <2> QED
    BY <2>1, <2>2, <2>3
<1> HIDE DEF a
<1>6. DepFields \subseteq DOMAIN a /\ a.enabled = o.enabled
  BY <1>5 DEF DepMarkers
<1>7. a.roi_cycles \in Nat
  <2>1. 0 \in Nat
    BY SMTT(30)
  <2> QED
    BY <1>5, <2>1, PlusOwed
<1>8. begins => ~ends
  BY SMTT(30)
<1>9. CASE ends
  <2> DEFINE z == Dep!dependency_observer_end_roi(a)
  <2>1. /\ DepMarkers(a, z) /\ z.roi_active = FALSE /\ z.roi_cycles = a.roi_cycles
        /\ z.previous_exclusive = FALSE /\ z.episodes = a.episodes
    BY <1>6, <1>9, DepEnds
  <2>2. c = z
    BY <1>1, <1>9
  <2> HIDE DEF z
  <2>3. DepMarkers(o, c)
    BY <1>5, <2>1, <2>2 DEF DepMarkers
  <2> QED
    BY <1>2, <1>5, <1>7, <1>8, <1>9, <2>1, <2>2, <2>3 DEF DepTicked, c, y
<1>10. CASE ~ends
  <2>1. c = a
    <3>1. ~a.enabled => Dep!dependency_observer_end_roi(a) = a
      BY DEF Dep!dependency_observer_end_roi
    <3> QED
      BY <1>1, <1>6, <1>10, <3>1
  <2> QED
    BY <1>2, <1>5, <1>7, <1>10, <2>1 DEF DepTicked, c, y
<1> QED
  BY <1>9, <1>10

-----------------------------------------------------------------------------
(* The episodes of the dependency observer.                                   *)

Outcomes == {"NOT_LOAD", "PENDING", "HIT", "MISS"}
Episode ==
  [first_cycle : Nat, cycles : Nat, producer_class : {"LOAD", "MUL", "OTHER"},
   producer_address : Nat, source : SUBSET {"rs1", "rs2"}, load_outcome : Outcomes]

\* The load an episode is about.
SameLoad(e, f) ==
  /\ f.producer_class = e.producer_class /\ f.source = e.source
  /\ f.producer_address = e.producer_address

\* Episode i waits for the access of the sample.
Waits(eps, s, i) ==
  /\ "dcache_load_access" \in s.sig
  /\ eps[i].load_outcome = "PENDING" /\ eps[i].producer_address = s.address
FirstWaits(eps, s, i) == Waits(eps, s, i) /\ \A j \in 1..(i - 1) : ~Waits(eps, s, j)

LEMMA EpisodeSeq ==
  /\ \A q \in Seq(Episode) : /\ Len(q) \in Nat /\ DOMAIN q = 1..Len(q)
                             /\ q \in [1..Len(q) -> Episode]
  /\ \A n \in Nat : \A f \in [1..n -> Episode] : f \in Seq(Episode) /\ Len(f) = n
  /\ \A q \in Seq(Episode), x \in Episode :
       /\ Append(q, x) \in Seq(Episode) /\ Len(Append(q, x)) = Len(q) + 1
       /\ \A i \in 1..Len(q) : Append(q, x)[i] = q[i]
       /\ Append(q, x)[Len(q) + 1] = x
<1>1. \A q \in Seq(Episode) : /\ Len(q) \in Nat /\ DOMAIN q = 1..Len(q)
                              /\ q \in [1..Len(q) -> Episode]
  BY SMTT(30)
<1>2. \A n \in Nat : \A f \in [1..n -> Episode] : f \in Seq(Episode) /\ Len(f) = n
  BY SMTT(30)
<1>3. \A q \in Seq(Episode), x \in Episode :
       /\ Append(q, x) \in Seq(Episode) /\ Len(Append(q, x)) = Len(q) + 1
       /\ \A i \in 1..Len(q) : Append(q, x)[i] = q[i]
       /\ Append(q, x)[Len(q) + 1] = x
  BY SMTT(30)
<1> QED
  BY <1>1, <1>2, <1>3

\* A stall adds a cycle to its episode and changes nothing else of it.
LEMMA EpisodeLonger ==
  ASSUME NEW e \in Episode
  PROVE  LET f == [e EXCEPT !.cycles = @ + 1]
         IN f \in Episode /\ SameLoad(e, f) /\ f.load_outcome = e.load_outcome
<1> DEFINE f == [e EXCEPT !.cycles = @ + 1]
<1>1. f \in Episode
  BY SMTT(30) DEF Episode
<1>2. SameLoad(e, f) /\ f.load_outcome = e.load_outcome
  BY SMTT(30) DEF Episode, SameLoad
<1> QED
  BY <1>1, <1>2

LEMMA EpisodeSettled ==
  ASSUME NEW e \in Episode, NEW x \in Outcomes
  PROVE  LET f == [e EXCEPT !.load_outcome = x]
         IN f \in Episode /\ SameLoad(e, f) /\ f.load_outcome = x
<1> DEFINE f == [e EXCEPT !.load_outcome = x]
<1>1. f \in Episode
  BY SMTT(30) DEF Episode
<1>2. SameLoad(e, f) /\ f.load_outcome = x
  BY SMTT(30) DEF Episode, SameLoad
<1> QED
  BY <1>1, <1>2

LEMMA SourceIs ==
  ASSUME NEW inst, NEW rd
  PROVE  Dep!classify_source(inst, rd) \in SUBSET {"rs1", "rs2"}
<1>1. Dep!operand_use(inst) \in SUBSET {"rs1", "rs2"}
  BY SMTT(30) DEF Dep!operand_use
<1> QED
  BY <1>1 DEF Dep!classify_source

LEMMA NewEpisodeIs ==
  ASSUME NEW o, o.roi_cycles \in Nat, NEW s, s.producer.address \in Nat
  PROVE  LET e == Dep!NewEpisode(o, s)
             source == Dep!classify_source(s.consumer, s.producer.rd)
             load == s.producer.opcode = "load" /\ source # {}
         IN /\ e \in Episode /\ e.producer_address = s.producer.address
            /\ (e.producer_class = "LOAD" /\ e.source # {}) <=> load
            /\ e.load_outcome = IF load THEN "PENDING" ELSE "NOT_LOAD"
<1> DEFINE e == Dep!NewEpisode(o, s)
           source == Dep!classify_source(s.consumer, s.producer.rd)
           class == Dep!producer_class(s.producer)
           load == s.producer.opcode = "load" /\ source # {}
<1>1. class \in {"LOAD", "MUL", "OTHER"} /\ (class = "LOAD" <=> s.producer.opcode = "load")
  BY SMTT(30) DEF Dep!producer_class, Dep!is_load
<1>2. source \in SUBSET {"rs1", "rs2"}
  BY SourceIs
<1>3. e = [first_cycle |-> o.roi_cycles, cycles |-> 0, producer_class |-> class,
           producer_address |-> s.producer.address, source |-> source,
           load_outcome |-> IF class = "LOAD" /\ source # {} THEN "PENDING" ELSE "NOT_LOAD"]
  BY DEF Dep!NewEpisode
<1> HIDE DEF class, source, e
<1>4. e \in Episode
  BY <1>1, <1>2, <1>3, SMTT(30) DEF Episode, Outcomes
<1>5. /\ e.producer_address = s.producer.address /\ e.producer_class = class /\ e.source = source
      /\ e.load_outcome = IF class = "LOAD" /\ source # {} THEN "PENDING" ELSE "NOT_LOAD"
  BY <1>3
<1> QED
  BY <1>1, <1>4, <1>5 DEF e, source

\* One sample: an episode may begin, the current one grows, and the first that
\* waits for the access is settled.
LEMMA SampledIs ==
  ASSUME NEW o, NEW s, o.episodes \in Seq(Episode), Begun1(o, s) \in Seq(Episode)
  PROVE  LET b == Begun1(o, s)
             c == Sampled(o, s)
         IN /\ c \in Seq(Episode) /\ Len(c) = Len(b)
            /\ \A i \in 1..Len(b) :
                 /\ SameLoad(b[i], c[i])
                 /\ c[i].load_outcome = IF FirstWaits(b, s, i) THEN Outcome(s) ELSE b[i].load_outcome
<1> DEFINE b == Begun1(o, s)
           n == Len(b)
           l == Longer1(o, s)
           x == Outcome(s)
           S == Dep!Settled(l, s)
           c == Sampled(o, s)
<1>1. n \in Nat /\ DOMAIN b = 1..n /\ b \in [1..n -> Episode]
  BY EpisodeSeq
<1>2. l = IF Dep!Exclusive(o, s) THEN [b EXCEPT ![n].cycles = @ + 1] ELSE b
  BY DEF Longer1
<1>3. x \in Outcomes
  BY SMTT(30) DEF Outcome, Outcomes
<1>4. S = {i \in DOMAIN l : Waits(l, s, i) /\ \A j \in 1..(i - 1) : ~Waits(l, s, j)}
  BY DEF Dep!Settled, Waits
<1>5. c = [i \in DOMAIN l |-> IF i \in S THEN [l[i] EXCEPT !.load_outcome = x] ELSE l[i]]
  BY DEF Sampled
<1> HIDE DEF b, n, l, x, S, c
<1>6. /\ DOMAIN l = 1..n
      /\ \A i \in 1..n : l[i] \in Episode /\ SameLoad(b[i], l[i]) /\ l[i].load_outcome
           = b[i].load_outcome
  <2>1. CASE ~Dep!Exclusive(o, s)
    BY <1>1, <1>2, <2>1 DEF SameLoad
  <2>2. CASE Dep!Exclusive(o, s)
    <3>1. l = [b EXCEPT ![n] = [b[n] EXCEPT !.cycles = @ + 1]]
      BY <1>2, <2>2
    <3>2. DOMAIN l = 1..n
      BY <1>1, <3>1
    <3>3. ASSUME NEW i \in 1..n
          PROVE  l[i] \in Episode /\ SameLoad(b[i], l[i]) /\ l[i].load_outcome = b[i].load_outcome
      <4>1. b[i] \in Episode
        BY <1>1
      <4>2. l[i] = IF i = n THEN [b[i] EXCEPT !.cycles = @ + 1] ELSE b[i]
        BY <1>1, <3>1
      <4> QED
        BY <4>1, <4>2, EpisodeLonger DEF SameLoad
    <3> QED
      BY <3>2, <3>3
  <2> QED
    BY <2>1, <2>2
<1>7. ASSUME NEW i \in 1..n
      PROVE  i \in S <=> FirstWaits(b, s, i)
  <2>1. \A j \in 1..n : Waits(l, s, j) <=> Waits(b, s, j)
    BY <1>6 DEF Waits, SameLoad
  <2>2. \A j \in 1..(i - 1) : j \in 1..n
    BY <1>1, SMTT(30)
  <2> QED
    BY <1>4, <1>6, <2>1, <2>2 DEF FirstWaits
<1>8. ASSUME NEW i \in 1..n
      PROVE  /\ c[i] \in Episode /\ SameLoad(b[i], c[i])
             /\ c[i].load_outcome = IF FirstWaits(b, s, i) THEN x ELSE b[i].load_outcome
  <2>1. /\ l[i] \in Episode /\ SameLoad(b[i], l[i]) /\ l[i].load_outcome = b[i].load_outcome
        /\ c[i] = IF i \in S THEN [l[i] EXCEPT !.load_outcome = x] ELSE l[i]
    BY <1>5, <1>6
  <2>2. CASE i \in S
    <3> DEFINE f == [l[i] EXCEPT !.load_outcome = x]
    <3>1. f \in Episode /\ SameLoad(l[i], f) /\ f.load_outcome = x
      BY <1>3, <2>1, EpisodeSettled
    <3>2. c[i] = f
      BY <2>1, <2>2
    <3> HIDE DEF f
    <3>3. SameLoad(b[i], c[i])
      BY <2>1, <3>1, <3>2 DEF SameLoad
    <3> QED
      BY <1>7, <2>2, <3>1, <3>2, <3>3
  <2>3. CASE i \notin S
    BY <1>7, <2>1, <2>3
  <2> QED
    BY <2>2, <2>3
<1>9. c \in Seq(Episode) /\ Len(c) = n
  <2>1. c \in [1..n -> Episode]
    <3> DEFINE g(i) == IF i \in S THEN [l[i] EXCEPT !.load_outcome = x] ELSE l[i]
    <3>1. c = [i \in 1..n |-> g(i)]
      BY <1>5, <1>6
    <3>2. \A i \in 1..n : c[i] = g(i)
      BY <3>1
    <3>3. \A i \in 1..n : g(i) \in Episode
      BY <1>8, <3>2
    <3> HIDE DEF g
    <3> QED
      BY <3>1, <3>3
  <2> QED
    BY <1>1, <2>1, EpisodeSeq
<1> QED
  BY <1>8, <1>9 DEF b, n, x, c

-----------------------------------------------------------------------------
(* The outcome of an episode is that of its own load, unless it is misled.    *)

Truths == {"NOT_LOAD", "DEVICE", "PENDING", "HIT", "MISS", "FLUSHED"}
Unserved == {"NOT_LOAD", "DEVICE", "PENDING"}
Shown(t) == IF t = "DEVICE" THEN "PENDING" ELSE t

\* Episode i and what happened to its load; x is the load that waits in EX.
Owned(e, t, x, i) ==
  /\ (e.producer_class = "LOAD" /\ e.source # {}) <=> t # "NOT_LOAD"
  /\ t = "PENDING" => x.waits /\ x.episode = i /\ x.address = e.producer_address
  /\ t = "DEVICE" =>
       \E d \in env.samples : d.producer.device /\ d.producer.address = e.producer_address
Right(eps, t, i) ==
  t[i] \in Unserved \/ ~Misled(eps, t, i) => eps[i].load_outcome = Shown(t[i])
Owns(eps, t, x) ==
  /\ eps \in Seq(Episode) /\ t \in Seq(Truths) /\ Len(t) = Len(eps)
  /\ \A i \in 1..Len(eps) : Owned(eps[i], t[i], x, i)
  /\ \A i \in 1..Len(eps) : Right(eps, t, i)
  /\ mode = "gol" => \A i \in 1..Len(eps) : t[i] # "FLUSHED"
  /\ x.waits /\ x.episode # 0 =>
       x.idle /\ x.episode \in 1..Len(eps) /\ t[x.episode] = "PENDING"

LEMMA TruthStrings ==
  /\ "HIT" \in Truths /\ "MISS" \in Truths /\ "PENDING" \in Truths /\ "DEVICE" \in Truths
  /\ "NOT_LOAD" \in Truths /\ "FLUSHED" \in Truths
  /\ "HIT" # "DEVICE" /\ "MISS" # "DEVICE" /\ "PENDING" # "DEVICE" /\ "NOT_LOAD" # "DEVICE"
  /\ "HIT" # "PENDING" /\ "MISS" # "PENDING" /\ "NOT_LOAD" # "PENDING"
  /\ "HIT" # "NOT_LOAD" /\ "MISS" # "NOT_LOAD"
  /\ "HIT" # "FLUSHED" /\ "MISS" # "FLUSHED" /\ "PENDING" # "FLUSHED" /\ "DEVICE" # "FLUSHED"
  /\ "NOT_LOAD" # "FLUSHED"
BY SMTT(30) DEF Truths

LEMMA OutcomeIs ==
  ASSUME NEW s
  PROVE  /\ Outcome(s) \in Truths /\ Outcome(s) # "DEVICE" /\ Outcome(s) # "PENDING"
         /\ Outcome(s) # "NOT_LOAD" /\ Outcome(s) # "FLUSHED" /\ Shown(Outcome(s)) = Outcome(s)
BY TruthStrings DEF Outcome, Shown

LEMMA TruthSeq ==
  /\ \A q \in Seq(Truths) : Len(q) \in Nat /\ \A i \in 1..Len(q) : q[i] \in Truths
  /\ \A q \in Seq(Truths), x \in Truths :
       /\ Append(q, x) \in Seq(Truths) /\ Len(Append(q, x)) = Len(q) + 1
       /\ \A i \in 1..Len(q) : Append(q, x)[i] = q[i]
       /\ Append(q, x)[Len(q) + 1] = x
  /\ <<>> \in Seq(Truths) /\ <<>> \in Seq(Episode) /\ Len(<<>>) = 0
<1>1. \A q \in Seq(Truths) : Len(q) \in Nat /\ \A i \in 1..Len(q) : q[i] \in Truths
  BY SMTT(30)
<1>3. \A q \in Seq(Truths), x \in Truths :
       /\ Append(q, x) \in Seq(Truths) /\ Len(Append(q, x)) = Len(q) + 1
       /\ \A i \in 1..Len(q) : Append(q, x)[i] = q[i]
       /\ Append(q, x)[Len(q) + 1] = x
  BY SMTT(30)
<1>4. <<>> \in Seq(Truths)
  BY SMTT(30)
<1>5. <<>> \in Seq(Episode)
  BY SMTT(30)
<1>6. Len(<<>>) = 0
  BY SMTT(30)
<1> QED
  BY <1>1, <1>3, <1>4, <1>5, <1>6

ChangedAt(q, f, i, x) ==
  /\ f \in Seq(Truths) /\ Len(f) = Len(q)
  /\ \A j \in 1..Len(q) : f[j] = IF j = i THEN x ELSE q[j]
LEMMA TruthSettled ==
  ASSUME NEW q \in Seq(Truths), NEW i \in Nat, NEW x \in Truths
  PROVE  ChangedAt(q, [q EXCEPT ![i] = x], i, x)
<1> DEFINE f == [q EXCEPT ![i] = x]
<1>1. Len(q) \in Nat /\ DOMAIN q = 1..Len(q) /\ q \in [1..Len(q) -> Truths]
  BY SMTT(30)
<1>2. \A j \in 1..Len(q) : f[j] = IF j = i THEN x ELSE q[j]
  BY <1>1
<1>3. f \in [1..Len(q) -> Truths]
  BY <1>1
<1> HIDE DEF f
<1>4. f \in Seq(Truths) /\ Len(f) = Len(q)
  BY <1>1, <1>3, SMTT(30)
<1> QED
  BY <1>2, <1>4 DEF f, ChangedAt

\* A load that the D-cache serves is in EX, or waits there for it.
CacheLoad(s) == s.producer.opcode = "load" /\ ~s.producer.device
LEMMA SampleFacts ==
  ASSUME env \in Envs, NEW s \in env.samples, Follows(s)
  PROVE  /\ s.producer.address \in Nat
         /\ "dcache_load_access" \in s.sig => "dcache_access" \in s.sig
         /\ "dependency" \in s.sig => /\ Dep!classify_source(s.consumer, s.producer.rd) # {}
                                      /\ s.sig \cap {"divider", "branch_recovery"} = {}
         /\ "dcache_access" \in s.sig =>
              \A d \in env.samples : d.producer.device => d.producer.address # s.address
         /\ "dependency" \in s.sig /\ "dcache_access" \in s.sig =>
              CacheLoad(s) /\ "dcache_load_access" \in s.sig /\ s.producer.address = s.address
<1>1. s.producer.address \in Nat
  <2>1. env.samples \in SUBSET CoreSignals
    BY EnvsAssumption, SMTT(30)
  <2>2. s.producer \in Instruction
    BY <2>1, SMTT(30) DEF CoreSignals
  <2> QED
    BY <2>2, SMTT(30) DEF Instruction
<1>2. CoreSample(s)
  BY SamplesOfCore
<1>3. "dcache_access" \in s.sig =>
         \A d \in env.samples : d.producer.device => d.producer.address # s.address
  BY SamplesOfCore
<1>4. "dcache_load_access" \in s.sig => "dcache_access" \in s.sig
  BY <1>2 DEF CoreSample
<1>5. "dependency" \in s.sig => /\ Dep!classify_source(s.consumer, s.producer.rd) # {}
                                /\ s.sig \cap {"divider", "branch_recovery"} = {}
  BY <1>2 DEF CoreSample
<1>6. "dependency" \in s.sig /\ "dcache_access" \in s.sig =>
         CacheLoad(s) /\ "dcache_load_access" \in s.sig /\ s.producer.address = s.address
  BY DEF Follows, Flushed, Served, CacheLoad
<1> QED
  BY <1>1, <1>3, <1>4, <1>5, <1>6

\* A flush happens in a simulator run only, and asks the D-cache for nothing.
LEMMA FlushFacts ==
  ASSUME env \in Envs, NEW s \in env.samples, Follows(s), Flushed(s)
  PROVE  mode = "sim" /\ ex.waits /\ "dependency" \notin s.sig /\ "dcache_load_access" \notin s.sig
<1>1. ex.waits /\ "dependency" \notin s.sig /\ "dcache_access" \notin s.sig
  BY DEF Flushed
<1>2. "dcache_load_access" \notin s.sig
  BY <1>1, SampleFacts
<1> QED
  BY <1>1, <1>2 DEF Follows, Served

\* An episode stays misled, and misleads the later ones of its address.
LEMMA MisledLater ==
  ASSUME NEW eps, NEW t, NEW c, NEW u, NEW i \in Nat, NEW k \in Nat, i <= k, Misled(eps, t, i),
         \A j \in 1..i : /\ t[j] = "FLUSHED" => u[j] = "FLUSHED"
                         /\ c[j].producer_address = eps[j].producer_address,
         c[k].producer_address = eps[i].producer_address
  PROVE  Misled(c, u, k)
<1>1. PICK j \in 1..i : t[j] = "FLUSHED" /\ eps[j].producer_address = eps[i].producer_address
  BY DEF Misled
<1>2. j \in 1..k
  BY SMTT(30)
<1> QED
  BY <1>1, <1>2 DEF Misled

\* While no episode begins an access settles the episode whose load waits in
\* EX, or one that is misled.
LEMMA SettlesOwn ==
  ASSUME env \in Envs, NEW s \in env.samples, Follows(s), Owns(dep.episodes, hist.truth, ex),
         NEW i \in 1..Len(dep.episodes)
  PROVE  /\ hist.truth[i] = "PENDING" /\ "dcache_load_access" \in s.sig =>
              FirstWaits(dep.episodes, s, i) \/ Misled(dep.episodes, hist.truth, i)
         /\ Waits(dep.episodes, s, i) /\ hist.truth[i] # "PENDING" =>
              Misled(dep.episodes, hist.truth, i) /\ hist.truth[i] \notin Unserved
<1> DEFINE eps == dep.episodes
           t == hist.truth
           n == Len(eps)
           load == "dcache_load_access" \in s.sig
<1>1. n \in Nat /\ \A j \in 1..n : Owned(eps[j], t[j], ex, j) /\ Right(eps, t, j)
  BY EpisodeSeq DEF Owns
<1>2. ASSUME NEW j \in 1..n, Waits(eps, s, j), t[j] # "PENDING"
      PROVE  Misled(eps, t, j) /\ t[j] \notin Unserved
  <2>1. Owned(eps[j], t[j], ex, j) /\ Right(eps, t, j)
    BY <1>1
  <2>2. load /\ eps[j].load_outcome = "PENDING" /\ eps[j].producer_address = s.address
    BY <1>2 DEF Waits
  <2>3. \A d \in env.samples : d.producer.device => d.producer.address # s.address
    BY <2>2, SampleFacts
  <2>4. t[j] # "DEVICE"
    BY <2>1, <2>2, <2>3 DEF Owned
  <2>5. eps[j].load_outcome # Shown(t[j])
    BY <1>2, <2>2, <2>4 DEF Shown
  <2> QED
    BY <2>1, <2>5 DEF Right
<1>3. ASSUME t[i] = "PENDING", load
      PROVE  FirstWaits(eps, s, i) \/ Misled(eps, t, i)
  <2>1. /\ ex.waits /\ ex.episode = i /\ ex.address = eps[i].producer_address
        /\ eps[i].load_outcome = "PENDING"
    BY <1>1, <1>3, TruthStrings DEF Owned, Right, Unserved, Shown
  <2>2. s.address = ex.address
    BY <1>3, <2>1, SampleFacts DEF Follows, Flushed, Served
  <2>3. Waits(eps, s, i)
    BY <1>3, <2>1, <2>2 DEF Waits
  <2>4. ASSUME NEW j \in 1..(i - 1), Waits(eps, s, j)
        PROVE  Misled(eps, t, i)
    <3>1. j \in 1..n /\ j # i /\ j \in Nat /\ i \in Nat /\ j <= i
      BY <1>1, SMTT(30)
    <3>2. t[j] # "PENDING"
      BY <1>1, <2>1, <3>1 DEF Owned
    <3>3. Misled(eps, t, j)
      BY <1>2, <2>4, <3>1, <3>2
    <3>4. eps[i].producer_address = eps[j].producer_address
      BY <2>3, <2>4 DEF Waits
    <3> HIDE DEF eps, t
    <3> QED
      BY <3>1, <3>3, <3>4, MisledLater
  <2> QED
    BY <2>3, <2>4 DEF FirstWaits
<1> QED
  BY <1>2, <1>3

\* The load in EX after a cycle.
LEMMA WaitingIs ==
  ASSUME NEW s, NEW b
  PROVE  LET w == Waiting(s, b)
             stays == "dependency" \in s.sig /\ CacheLoad(s) /\ "dcache_access" \notin s.sig
         IN /\ w.waits <=> stays
            /\ stays => /\ w.address = s.producer.address
                        /\ w.idle = ("dcache_total_stall" \notin s.sig)
                        /\ w.episode = IF b # 0 THEN b ELSE IF ex.waits THEN ex.episode ELSE 0
BY DEF Waiting, None, CacheLoad

\* A sample with which no episode begins.
LEMMA KeepsOwned ==
  ASSUME env \in Envs, NEW s \in env.samples, Follows(s), Owns(dep.episodes, hist.truth, ex),
         NEW y, y.episodes = dep.episodes, ~Dep!Begins(y, s),
         NEW d, d.episodes = Sampled(y, s)
  PROVE  /\ Begun(d) = 0 /\ Len(d.episodes) = Len(dep.episodes)
         /\ Owns(d.episodes, Truth(s, d), Waiting(s, 0))
<1> DEFINE eps == dep.episodes
           t == hist.truth
           n == Len(eps)
           c == Sampled(y, s)
           load == "dcache_load_access" \in s.sig
           u == Truth(s, d)
           w == Waiting(s, 0)
           ep == ex.episode
<1>1. /\ eps \in Seq(Episode) /\ t \in Seq(Truths) /\ Len(t) = n /\ n \in Nat
      /\ \A i \in 1..n : Owned(eps[i], t[i], ex, i) /\ Right(eps, t, i)
      /\ ex.waits /\ ep # 0 => ex.idle /\ ep \in 1..n /\ t[ep] = "PENDING"
  BY EpisodeSeq DEF Owns
<1>2. Begun1(y, s) = eps
  BY DEF Begun1
<1>3. /\ c \in Seq(Episode) /\ Len(c) = n
      /\ \A i \in 1..n :
           /\ SameLoad(eps[i], c[i])
           /\ c[i].load_outcome = IF FirstWaits(eps, s, i) THEN Outcome(s) ELSE eps[i].load_outcome
  <2> DEFINE b == Begun1(y, s)
  <2>1. y.episodes \in Seq(Episode) /\ b \in Seq(Episode)
    BY <1>1, <1>2
  <2>2. /\ c \in Seq(Episode) /\ Len(c) = Len(b)
        /\ \A i \in 1..Len(b) :
             /\ SameLoad(b[i], c[i])
             /\ c[i].load_outcome = IF FirstWaits(b, s, i) THEN Outcome(s) ELSE b[i].load_outcome
    BY <2>1, SampledIs
  <2>3. b = eps
    BY <1>2
  <2> HIDE DEF b
  <2> QED
    BY <2>2, <2>3
<1> HIDE DEF c
<1>4. Begun(d) = 0
  <2>1. ~(Len(c) > Len(dep.episodes))
    BY <1>1, <1>3, SMTT(30)
  <2> QED
    BY <2>1 DEF Begun, c
<1>5. ASSUME NEW i \in 1..n, t[i] = "PENDING"
      PROVE  i # 0 /\ ex.waits /\ ep = i /\ ex.address = eps[i].producer_address
  <2>1. i # 0
    BY <1>1, SMTT(30)
  <2> QED
    BY <1>1, <1>5, <2>1 DEF Owned
<1>6. /\ u \in Seq(Truths) /\ Len(u) = n
      /\ \A i \in 1..n : u[i] = IF t[i] = "PENDING" /\ load THEN Outcome(s)
                              ELSE IF t[i] = "PENDING" /\ Flushed(s) THEN "FLUSHED" ELSE t[i]
  <2>1. u = IF c = <<>> THEN <<>>
            ELSE IF ex.waits /\ Served(s) /\ ep # 0 THEN [t EXCEPT ![ep] = Outcome(s)]
            ELSE IF Flushed(s) /\ ep # 0 THEN [t EXCEPT ![ep] = "FLUSHED"] ELSE t
    BY <1>4 DEF Truth, Outcome, c
  <2> HIDE DEF u
  <2>2. CASE c = <<>>
    <3>1. n = 0 /\ u = <<>>
      BY <1>3, <2>1, <2>2, TruthSeq
    <3>2. \A i \in 1..n : FALSE
      BY <3>1, SMTT(30)
    <3> QED
      BY <3>1, <3>2, TruthSeq
  <2>3. ASSUME NEW x \in Truths, ex.waits, ep # 0, u = [t EXCEPT ![ep] = x]
        PROVE  /\ u \in Seq(Truths) /\ Len(u) = n
               /\ \A i \in 1..n : u[i] = IF t[i] = "PENDING" THEN x ELSE t[i]
    <3>1. ep \in Nat
      BY <1>1, <2>3, SMTT(30)
    <3>2. t[ep] = "PENDING"
      BY <1>1, <2>3
    <3> DEFINE f == [t EXCEPT ![ep] = x]
    <3>3. ChangedAt(t, f, ep, x)
      BY <1>1, <3>1, TruthSettled
    <3>4. u = f
      BY <2>3
    <3> HIDE DEF f
    <3>5. /\ u \in Seq(Truths) /\ Len(u) = n
          /\ \A i \in 1..n : u[i] = IF i = ep THEN x ELSE t[i]
      BY <1>1, <3>3, <3>4 DEF ChangedAt
    <3> QED
      BY <1>5, <3>2, <3>5
  <2>4. CASE c # <<>> /\ ex.waits /\ Served(s) /\ ep # 0
    <3>1. u = [t EXCEPT ![ep] = Outcome(s)] /\ Outcome(s) \in Truths /\ load
      BY <2>1, <2>4, OutcomeIs DEF Served
    <3> QED
      BY <2>3, <2>4, <3>1
  <2>5. CASE c # <<>> /\ Flushed(s) /\ ep # 0
    <3>1. ~load /\ ex.waits
      BY <2>5, FlushFacts
    <3>2. u = [t EXCEPT ![ep] = "FLUSHED"] /\ "FLUSHED" \in Truths
      BY <2>1, <2>5, <3>1, TruthStrings DEF Served
    <3> QED
      BY <2>3, <2>5, <3>1, <3>2
  <2>6. CASE c # <<>> /\ ~(ex.waits /\ Served(s) /\ ep # 0) /\ ~(Flushed(s) /\ ep # 0)
    <3>1. u = t
      BY <2>1, <2>6
    <3>2. ASSUME NEW i \in 1..n, t[i] = "PENDING"
          PROVE  ~load /\ ~Flushed(s)
      <4>1. ex.waits /\ ep # 0
        BY <1>5, <3>2
      <4>2. load => Served(s)
        BY <4>1, SampleFacts DEF Follows, Flushed
      <4> QED
        BY <2>6, <4>1, <4>2
    <3> QED
      BY <1>1, <3>1, <3>2
  <2> QED
    BY <2>2, <2>4, <2>5, <2>6
<1> HIDE DEF u
<1>7. ASSUME ex.waits, ~load, ~Flushed(s)
      PROVE  /\ "dependency" \in s.sig /\ CacheLoad(s) /\ "dcache_access" \notin s.sig
             /\ s.producer.address = ex.address
             /\ ex.idle => "dcache_total_stall" \notin s.sig
  BY <1>7 DEF Follows, Served, CacheLoad
<1>8. ASSUME ex.waits, ~load, ~Flushed(s)
      PROVE  /\ w.waits /\ w.episode = ep /\ w.address = ex.address
             /\ ex.idle => w.idle
  BY <1>7, <1>8, WaitingIs
<1>9. ASSUME w.waits, w.episode # 0
      PROVE  ex.waits /\ ~load /\ ~Flushed(s) /\ ep # 0 /\ w.episode = ep
  BY <1>9, WaitingIs, SampleFacts DEF Flushed
<1> HIDE DEF w
<1>10. ASSUME NEW i \in 1..n
       PROVE  Owned(c[i], u[i], w, i)
  <2>1. /\ Owned(eps[i], t[i], ex, i) /\ SameLoad(eps[i], c[i])
        /\ u[i] = IF t[i] = "PENDING" /\ load THEN Outcome(s)
                  ELSE IF t[i] = "PENDING" /\ Flushed(s) THEN "FLUSHED" ELSE t[i]
    BY <1>1, <1>3, <1>6
  <2>2. CASE t[i] = "PENDING" /\ (load \/ Flushed(s))
    <3>1. u[i] # "NOT_LOAD" /\ u[i] # "PENDING" /\ u[i] # "DEVICE"
      BY <2>1, <2>2, OutcomeIs, TruthStrings
    <3>2. (c[i].producer_class = "LOAD" /\ c[i].source # {}) <=> t[i] # "NOT_LOAD"
      BY <2>1 DEF Owned, SameLoad
    <3> QED
      BY <2>2, <3>1, <3>2, TruthStrings DEF Owned
  <2>3. CASE t[i] # "PENDING"
    BY <2>1, <2>3 DEF Owned, SameLoad
  <2>4. CASE t[i] = "PENDING" /\ ~load /\ ~Flushed(s)
    <3>1. w.waits /\ w.episode = i /\ w.address = eps[i].producer_address
      BY <1>5, <1>8, <2>4
    <3> QED
      BY <2>1, <2>4, <3>1, TruthStrings DEF Owned, SameLoad
  <2> QED
    BY <2>2, <2>3, <2>4
<1>11. ASSUME NEW i \in 1..n
       PROVE  Right(c, u, i)
  <2>1. SUFFICES ASSUME u[i] \in Unserved \/ ~Misled(c, u, i)
                 PROVE  c[i].load_outcome = Shown(u[i])
    BY DEF Right
  <2>2. /\ Right(eps, t, i)
        /\ c[i].load_outcome = IF FirstWaits(eps, s, i) THEN Outcome(s) ELSE eps[i].load_outcome
        /\ u[i] = IF t[i] = "PENDING" /\ load THEN Outcome(s)
                  ELSE IF t[i] = "PENDING" /\ Flushed(s) THEN "FLUSHED" ELSE t[i]
    BY <1>1, <1>3, <1>6
  <2>3. Misled(eps, t, i) => Misled(c, u, i)
    <3>1. i \in Nat /\ i <= i /\ \A j \in 1..i : j \in 1..n
      BY <1>1, SMTT(30)
    <3>2. \A j \in 1..i : /\ t[j] = "FLUSHED" => u[j] = "FLUSHED"
                          /\ c[j].producer_address = eps[j].producer_address
      BY <1>3, <1>6, <3>1, TruthStrings DEF SameLoad
    <3>3. c[i].producer_address = eps[i].producer_address
      BY <1>3 DEF SameLoad
    <3> HIDE DEF eps, t
    <3> QED
      BY <3>1, <3>2, <3>3, MisledLater
  <2>4. FirstWaits(eps, s, i) => load /\ Waits(eps, s, i)
    BY DEF FirstWaits, Waits
  <2>5. CASE t[i] = "PENDING" /\ load
    <3>1. u[i] = Outcome(s) /\ u[i] \notin Unserved
      BY <2>2, <2>5, OutcomeIs DEF Unserved
    <3>2. FirstWaits(eps, s, i)
      BY <2>1, <2>3, <2>5, <3>1, SettlesOwn
    <3> QED
      BY <2>2, <3>1, <3>2, OutcomeIs
  <2>6. CASE t[i] = "PENDING" /\ ~load
    <3>1. eps[i].load_outcome = "PENDING" /\ c[i].load_outcome = "PENDING"
      BY <2>2, <2>4, <2>6, TruthStrings DEF Right, Unserved, Shown
    <3>2. ~Flushed(s)
      <4>1. SUFFICES ASSUME Flushed(s)
                     PROVE  FALSE
        OBVIOUS
      <4>2. u[i] = "FLUSHED" /\ u[i] \notin Unserved
        BY <2>2, <2>6, <4>1, TruthStrings DEF Unserved
      <4>3. i \in 1..i
        BY <1>1, SMTT(30)
      <4>4. Misled(c, u, i)
        BY <4>2, <4>3 DEF Misled
      <4> QED
        BY <2>1, <4>2, <4>4
    <3> QED
      BY <2>2, <2>6, <3>1, <3>2, TruthStrings DEF Shown
  <2>7. CASE t[i] # "PENDING"
    <3>1. u[i] = t[i]
      BY <2>2, <2>7
    <3>2. ~FirstWaits(eps, s, i)
      BY <2>1, <2>3, <2>4, <2>7, <3>1, SettlesOwn
    <3> QED
      BY <2>1, <2>2, <2>3, <3>1, <3>2 DEF Right
  <2> QED
    BY <2>5, <2>6, <2>7
<1>12. ASSUME mode = "gol", NEW i \in 1..n
       PROVE  u[i] # "FLUSHED"
  <2>1. t[i] # "FLUSHED"
    BY <1>12 DEF Owns
  <2>2. mode # "sim"
    BY <1>12, SMTT(30)
  <2> QED
    BY <1>6, <2>1, <2>2, FlushFacts, OutcomeIs
<1>13. ASSUME w.waits, w.episode # 0
       PROVE  w.idle /\ w.episode \in 1..n /\ u[w.episode] = "PENDING"
  BY <1>1, <1>6, <1>8, <1>9, <1>13
<1>14. Owns(c, u, w)
  BY <1>3, <1>6, <1>10, <1>11, <1>12, <1>13 DEF Owns
<1> QED
  BY <1>3, <1>4, <1>14 DEF c, u, w

\* A sample with which an episode begins: no load waits for another one.
LEMMA BeginsOwned ==
  ASSUME env \in Envs, NEW s \in env.samples, Follows(s), Owns(dep.episodes, hist.truth, ex),
         NEW y, y.episodes = dep.episodes, y.roi_cycles \in Nat, Dep!Begins(y, s),
         ~(ex.waits /\ ex.episode # 0), NEW d, d.episodes = Sampled(y, s)
  PROVE  Owns(d.episodes, Truth(s, d), Waiting(s, Begun(d)))
<1> DEFINE eps == dep.episodes
           t == hist.truth
           n == Len(eps)
           m == n + 1
           new == Dep!NewEpisode(y, s)
           b == Append(eps, new)
           c == Sampled(y, s)
           access == "dcache_access" \in s.sig
           load == "dcache_load_access" \in s.sig
           now == IF s.producer.opcode # "load" THEN "NOT_LOAD"
                  ELSE IF s.producer.device THEN "DEVICE"
                  ELSE IF access THEN Outcome(s) ELSE "PENDING"
           u == Truth(s, d)
           w == Waiting(s, m)
<1>1. /\ eps \in Seq(Episode) /\ t \in Seq(Truths) /\ Len(t) = n /\ n \in Nat
      /\ \A i \in 1..n : Owned(eps[i], t[i], ex, i) /\ Right(eps, t, i)
  BY EpisodeSeq DEF Owns
<1>2. "dependency" \in s.sig /\ "dcache_total_stall" \notin s.sig
  BY DEF Dep!Begins, Dep!Exclusive
<1>3. /\ load => access
      /\ access => CacheLoad(s) /\ load /\ s.producer.address = s.address
  BY <1>2, SampleFacts
<1>4. /\ new \in Episode /\ new.producer_address = s.producer.address
      /\ (new.producer_class = "LOAD" /\ new.source # {}) <=> s.producer.opcode = "load"
      /\ new.load_outcome = IF s.producer.opcode = "load" THEN "PENDING" ELSE "NOT_LOAD"
  <2>1. s.producer.address \in Nat /\ Dep!classify_source(s.consumer, s.producer.rd) # {}
    BY <1>2, SampleFacts
  <2> QED
    BY <2>1, NewEpisodeIs
<1>n. now \in Truths
  BY TruthStrings, OutcomeIs
<1>5. Begun1(y, s) = b
  BY DEF Begun1
<1> HIDE DEF new
<1>6. b \in Seq(Episode) /\ Len(b) = m /\ b[m] = new /\ \A i \in 1..n : b[i] = eps[i]
  BY <1>1, <1>4, EpisodeSeq
<1>7. /\ c \in Seq(Episode) /\ Len(c) = m
      /\ \A i \in 1..m :
           /\ SameLoad(b[i], c[i])
           /\ c[i].load_outcome = IF FirstWaits(b, s, i) THEN Outcome(s) ELSE b[i].load_outcome
  <2> DEFINE e == Begun1(y, s)
  <2>1. y.episodes \in Seq(Episode) /\ e \in Seq(Episode)
    BY <1>1, <1>5, <1>6
  <2>2. /\ c \in Seq(Episode) /\ Len(c) = Len(e)
        /\ \A i \in 1..Len(e) :
             /\ SameLoad(e[i], c[i])
             /\ c[i].load_outcome = IF FirstWaits(e, s, i) THEN Outcome(s) ELSE e[i].load_outcome
    BY <2>1, SampledIs
  <2>3. e = b
    BY <1>5
  <2> HIDE DEF e, b, c
  <2> QED
    BY <1>6, <2>2, <2>3
<1> HIDE DEF b, c, now
<1>8. m \in Nat /\ m # 0 /\ m \in 1..m /\ m > n /\ (\A i \in 1..m : i \in 1..n \/ i = m)
      /\ (\A i \in 1..n : i \in 1..m /\ i # 0 /\ i # m) /\ 1..(m - 1) = 1..n
  BY <1>1, SMTT(30)
<1> HIDE DEF m
<1>9. Begun(d) = m
  BY <1>7, <1>8 DEF Begun, c
<1>10. /\ u \in Seq(Truths) /\ Len(u) = m /\ u[m] = now
       /\ \A i \in 1..n : u[i] = t[i]
  <2>1. c # <<>>
    BY <1>7, <1>8, TruthSeq
  <2>2. u = Append(t, now)
    BY <1>8, <1>9, <2>1 DEF Truth, Flushed, Outcome, c, now
  <2> HIDE DEF u
  <2> DEFINE a == Append(t, now)
  <2>3. /\ a \in Seq(Truths) /\ Len(a) = Len(t) + 1 /\ a[Len(t) + 1] = now
        /\ \A i \in 1..Len(t) : a[i] = t[i]
    BY <1>1, <1>n, TruthSeq
  <2>4. u = a /\ Len(t) = n /\ m = Len(t) + 1
    BY <1>1, <2>2 DEF m
  <2> HIDE DEF a
  <2> QED
    BY <2>3, <2>4
<1> HIDE DEF u
<1>11. ASSUME NEW i \in 1..n
       PROVE  /\ t[i] # "PENDING"
              /\ Waits(b, s, i) => Misled(eps, t, i) /\ t[i] \notin Unserved
  <2>0. i # 0 /\ Owned(eps[i], t[i], ex, i)
    BY <1>1, <1>8
  <2>1. t[i] # "PENDING"
    BY <2>0 DEF Owned
  <2>2. Waits(eps, s, i) => Misled(eps, t, i) /\ t[i] \notin Unserved
    BY <2>1, SettlesOwn
  <2> QED
    BY <1>6, <2>1, <2>2 DEF Waits
<1>12. /\ w.waits <=> CacheLoad(s) /\ ~access
       /\ CacheLoad(s) /\ ~access => w.address = s.producer.address /\ w.idle /\ w.episode = m
  BY <1>2, <1>8, WaitingIs
<1> HIDE DEF w
<1>13. ASSUME NEW i \in 1..n
       PROVE  Owned(c[i], u[i], w, i)
  <2>1. /\ Owned(eps[i], t[i], ex, i) /\ SameLoad(eps[i], c[i]) /\ u[i] = t[i]
        /\ t[i] # "PENDING"
    BY <1>1, <1>6, <1>7, <1>8, <1>10, <1>11
  <2> QED
    BY <2>1 DEF Owned, SameLoad
<1>14. ASSUME NEW i \in 1..n, NEW k \in 1..m, i <= k, Misled(eps, t, i),
              c[k].producer_address = eps[i].producer_address
       PROVE  Misled(c, u, k)
  <2>1. i \in Nat /\ k \in Nat /\ \A j \in 1..i : j \in 1..n
    BY <1>1, <1>8, SMTT(30)
  <2>2. \A j \in 1..i : /\ t[j] = "FLUSHED" => u[j] = "FLUSHED"
                        /\ c[j].producer_address = eps[j].producer_address
    BY <1>6, <1>7, <1>8, <1>10, <2>1 DEF SameLoad
  <2> HIDE DEF eps, t
  <2> QED
    BY <1>14, <2>1, <2>2, MisledLater
<1>15. ASSUME NEW i \in 1..n
       PROVE  Right(c, u, i)
  <2>1. SUFFICES ASSUME u[i] \in Unserved \/ ~Misled(c, u, i)
                 PROVE  c[i].load_outcome = Shown(u[i])
    BY DEF Right
  <2>2. /\ Right(eps, t, i) /\ SameLoad(eps[i], c[i]) /\ u[i] = t[i] /\ i \in 1..m
        /\ c[i].load_outcome = IF FirstWaits(b, s, i) THEN Outcome(s) ELSE eps[i].load_outcome
    BY <1>1, <1>6, <1>7, <1>8, <1>10
  <2>3. i <= i
    BY <1>1, SMTT(30)
  <2>4. Misled(eps, t, i) => Misled(c, u, i)
    BY <1>14, <2>2, <2>3 DEF SameLoad
  <2>5. ~FirstWaits(b, s, i)
    BY <1>11, <2>1, <2>2, <2>4 DEF FirstWaits
  <2> QED
    BY <2>1, <2>2, <2>4, <2>5 DEF Right
<1>16. /\ SameLoad(new, c[m]) /\ c[m].producer_address = s.producer.address
       /\ (c[m].producer_class = "LOAD" /\ c[m].source # {}) <=> s.producer.opcode = "load"
       /\ c[m].load_outcome = IF FirstWaits(b, s, m) THEN Outcome(s) ELSE new.load_outcome
       /\ ~load => ~FirstWaits(b, s, m)
  BY <1>4, <1>6, <1>7, <1>8 DEF SameLoad, FirstWaits, Waits
<1>17. ASSUME CacheLoad(s), access
       PROVE  Owned(c[m], now, w, m) /\ Right(c, u, m)
  <2>1. now = Outcome(s) /\ s.producer.opcode = "load" /\ ~w.waits /\ now \notin Unserved
    BY <1>12, <1>17, OutcomeIs DEF now, CacheLoad, Unserved
  <2>2. Owned(c[m], now, w, m)
    BY <1>16, <2>1, OutcomeIs DEF Owned
  <2>3. Right(c, u, m)
    <3>1. SUFFICES ASSUME ~Misled(c, u, m)
                   PROVE  c[m].load_outcome = Shown(u[m])
      BY <1>10, <2>1 DEF Right
    <3>2. Waits(b, s, m)
      BY <1>3, <1>4, <1>6, <1>17, <2>1 DEF Waits
    <3>3. ASSUME NEW j \in 1..n, Waits(b, s, j)
          PROVE  FALSE
      <4>1. Misled(eps, t, j)
        BY <1>11, <3>3
      <4>2. j <= m
        BY <1>1, <1>8, SMTT(30)
      <4>3. c[m].producer_address = eps[j].producer_address
        BY <1>3, <1>6, <1>16, <1>17, <3>3 DEF Waits
      <4> QED
        BY <1>8, <1>14, <3>1, <4>1, <4>2, <4>3
    <3>4. FirstWaits(b, s, m)
      BY <1>8, <3>2, <3>3 DEF FirstWaits
    <3> QED
      BY <1>10, <1>16, <2>1, <3>4, OutcomeIs
  <2> QED
    BY <2>2, <2>3
<1>18. ASSUME ~(CacheLoad(s) /\ access)
       PROVE  Owned(c[m], now, w, m) /\ Right(c, u, m)
  <2>1. ~access /\ ~load /\ c[m].load_outcome = new.load_outcome
    BY <1>3, <1>16, <1>18
  <2>2. CASE s.producer.opcode # "load"
    <3>1. now = "NOT_LOAD" /\ c[m].load_outcome = "NOT_LOAD" /\ ~w.waits
      BY <1>4, <1>12, <2>1, <2>2 DEF now, CacheLoad
    <3> QED
      BY <1>10, <1>16, <2>2, <3>1, TruthStrings DEF Owned, Right, Shown
  <2>3. CASE s.producer.opcode = "load" /\ s.producer.device
    <3>1. now = "DEVICE" /\ c[m].load_outcome = "PENDING" /\ ~w.waits
      BY <1>4, <1>12, <2>1, <2>3 DEF now, CacheLoad
    <3> QED
      BY <1>10, <1>16, <2>3, <3>1, TruthStrings DEF Owned, Right, Shown
  <2>4. CASE CacheLoad(s)
    <3>1. now = "PENDING" /\ c[m].load_outcome = "PENDING" /\ s.producer.opcode = "load"
      BY <1>4, <2>1, <2>4 DEF now, CacheLoad
    <3>2. w.waits /\ w.idle /\ w.episode = m /\ w.address = c[m].producer_address
      BY <1>12, <1>16, <2>1, <2>4
    <3> QED
      BY <1>10, <1>16, <3>1, <3>2, TruthStrings DEF Owned, Right, Shown
  <2> QED
    BY <2>2, <2>3, <2>4 DEF CacheLoad
<1>19. /\ Owned(c[m], u[m], w, m) /\ Right(c, u, m)
       /\ w.waits => w.idle /\ w.episode = m /\ u[m] = "PENDING"
  <2>1. w.waits => w.idle /\ w.episode = m /\ now = "PENDING"
    BY <1>12 DEF now, CacheLoad
  <2> QED
    BY <1>10, <1>17, <1>18, <2>1
<1>20. ASSUME mode = "gol", NEW i \in 1..m
       PROVE  u[i] # "FLUSHED"
  <2>1. now # "FLUSHED"
    BY OutcomeIs, TruthStrings DEF now
  <2>2. i \in 1..n => t[i] # "FLUSHED"
    BY <1>20 DEF Owns
  <2> QED
    BY <1>8, <1>10, <2>1, <2>2
<1>21. Owns(c, u, w)
  <2>1. \A i \in 1..m : Owned(c[i], u[i], w, i) /\ Right(c, u, i)
    BY <1>8, <1>13, <1>15, <1>19
  <2> QED
    BY <1>7, <1>8, <1>10, <1>19, <1>20, <2>1 DEF Owns
<1> QED
  BY <1>9, <1>21 DEF c, u, w

LEMMA OwnedSample ==
  ASSUME env \in Envs, NEW s \in env.samples, Follows(s), Owns(dep.episodes, hist.truth, ex),
         NEW y, y.episodes = dep.episodes, y.roi_cycles \in Nat,
         ex.waits /\ ex.episode # 0 => (y.roi_active => y.previous_exclusive),
         NEW d, d.episodes = Sampled(y, s)
  PROVE  LET w == Waiting(s, Begun(d))
         IN /\ Owns(d.episodes, Truth(s, d), w)
            /\ w.waits /\ w.episode # 0 => (y.roi_active => Dep!Exclusive(y, s))
            /\ ~y.roi_active => Len(d.episodes) = Len(dep.episodes)
<1> DEFINE w == Waiting(s, Begun(d))
<1>1. CASE Dep!Begins(y, s)
  <2>1. y.roi_active /\ ~y.previous_exclusive /\ Dep!Exclusive(y, s)
    BY <1>1 DEF Dep!Begins, Dep!Exclusive
  <2> QED
    BY <1>1, <2>1, BeginsOwned
<1>2. CASE ~Dep!Begins(y, s)
  <2>1. /\ Begun(d) = 0 /\ Len(d.episodes) = Len(dep.episodes)
        /\ Owns(d.episodes, Truth(s, d), Waiting(s, 0))
    BY <1>2, KeepsOwned
  <2>2. ASSUME w.waits, w.episode # 0, y.roi_active
        PROVE  Dep!Exclusive(y, s)
    <3> DEFINE z == Waiting(s, 0)
    <3>1. z.waits /\ z.episode # 0
      BY <2>1, <2>2
    <3>2. /\ "dependency" \in s.sig /\ z.idle = ("dcache_total_stall" \notin s.sig)
          /\ z.idle
      BY <2>1, <3>1, WaitingIs DEF Owns
    <3>3. s.sig \cap {"divider", "branch_recovery"} = {}
      BY <3>2, SampleFacts
    <3> HIDE DEF z
    <3> QED
      BY <2>2, <3>2, <3>3 DEF Dep!Exclusive
  <2> QED
    BY <2>1, <2>2
<1> QED
  BY <1>1, <1>2

\* A cycle in which the observer does not sample: it is off, or the harness is
\* outside the window, where no load of an episode waits.
LEMMA OwnedIdle ==
  ASSUME Owns(dep.episodes, hist.truth, ex), ~(ex.waits /\ ex.episode # 0),
         NEW s, NEW d, d.episodes = dep.episodes
  PROVE  LET w == Waiting(s, Begun(d))
         IN /\ Owns(d.episodes, Truth(s, d), w)
            /\ ~(w.waits /\ w.episode # 0)
<1> DEFINE eps == dep.episodes
           t == hist.truth
           n == Len(eps)
           u == Truth(s, d)
           w == Waiting(s, Begun(d))
<1>1. /\ eps \in Seq(Episode) /\ t \in Seq(Truths) /\ Len(t) = n /\ n \in Nat
      /\ \A i \in 1..n : Owned(eps[i], t[i], ex, i)
      /\ \A i \in 1..n : Right(eps, t, i)
      /\ mode = "gol" => \A i \in 1..n : t[i] # "FLUSHED"
  BY EpisodeSeq DEF Owns
<1>2. Begun(d) = 0
  <2>1. ~(n > n)
    BY <1>1, SMTT(30)
  <2> QED
    BY <2>1 DEF Begun
<1>3. u = t
  <2>1. CASE eps = <<>>
    <3>1. Len(t) = 0
      BY <1>1, <2>1, TruthSeq
    <3>2. t = <<>>
      BY <1>1, <3>1, SMTT(30)
    <3>3. u = <<>>
      BY <2>1 DEF Truth
    <3> QED
      BY <3>2, <3>3
  <2>2. CASE eps # <<>>
    BY <1>2, <2>2 DEF Truth, Flushed
  <2> QED
    BY <2>1, <2>2
<1>4. ~(w.waits /\ w.episode # 0)
  BY <1>2, WaitingIs
<1> HIDE DEF w, u
<1>5. ASSUME NEW i \in 1..n
      PROVE  Owned(eps[i], t[i], w, i)
  <2>1. i # 0
    BY <1>1, SMTT(30)
  <2> QED
    BY <1>1, <2>1 DEF Owned
<1>6. Owns(eps, u, w)
  BY <1>1, <1>3, <1>4, <1>5 DEF Owns
<1> QED
  BY <1>4, <1>6 DEF w, u

LEMMA CycleCounts ==
  ASSUME NEW o, DepFields \subseteq DOMAIN o, o.roi_cycles \in Nat
  PROVE  Dep!dependency_observer_cycle(o).roi_cycles \in Nat
<1> DEFINE y == Dep!dependency_observer_cycle(o)
<1>1. y = IF o.enabled /\ o.roi_active THEN [o EXCEPT !.roi_cycles = @ + 1] ELSE o
  BY DEF Dep!dependency_observer_cycle
<1> HIDE DEF y
<1>2. y.roi_cycles = IF o.enabled /\ o.roi_active THEN o.roi_cycles + 1 ELSE o.roi_cycles
  BY <1>1 DEF DepFields
<1> QED
  BY <1>2, PlusOwed DEF y

LEMMA EmptyEpisodes == \A q \in Seq(Episode) : Len(q) = Len(<<>>) => q = <<>>
BY SMTT(30)
=============================================================================
