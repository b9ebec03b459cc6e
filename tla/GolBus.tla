------------------------------- MODULE GolBus -------------------------------
(***************************************************************************)
(* The AXI port of the core with one of three slaves: any slave, as in     *)
(* AxiBus; the Game of Life harness                                        *)
(* (workloads/gol/scripts/gol_profiling_verilator_harness.cpp), which      *)
(* answers in the next cycle, commits writes to its memory and takes       *)
(* stores to two addresses for markers of the program; and the memory of   *)
(* the simulator (sim/csrc/sim_main.cpp behind rv64im_core_sim_top.sv),    *)
(* which prints what is stored to its serial port.  Script[k] is the       *)
(* sequence of device stores [addr, data] of the program run with slave k. *)
(***************************************************************************)
EXTENDS AxiBus, Sequences

CONSTANTS event, payload,   \* kEventAddress, kPayloadAddress
          serial,           \* the serial port; the slaves are never used together,
                            \* so that one device address may serve both
          Script

ASSUME DevicesAssumption == event # payload /\ {event, payload, serial} \subseteq Devs

VARIABLES
  kind,      \* "any", "harness" or "sim"
  issued,    \* device stores of Script the core has taken
  h,         \* the harness object, or the address registers of sim_top and the output
  commits    \* history: addresses committed since the core last saw a write confirmed

golVars == <<busVars, kind, issued, h, commits>>

-----------------------------------------------------------------------------
b_ready == aw_over /\ w_over

\* Data on the write channel: the device store of the bridge; a beat of a line
\* is left out.
w_data == IF m2_vld /\ bridge.wen THEN Script[kind][issued].data ELSE 0

GolHarness ==
  [read_address |-> None, write_address |-> None, write_data |-> 0,
   last_payload |-> 0, measured_cycles |-> 0, checksum |-> 0, events |-> <<>>,
   done |-> FALSE]

\* Mutant: the payload is taken over by every event.
Mut_CommitWrite(o, address, data) ==
  CASE address = payload -> [o EXCEPT !.last_payload = data]
    [] address = event ->
         [o EXCEPT !.events = Append(@, data), !.measured_cycles = o.last_payload,
                   !.checksum = IF data = 5 THEN o.last_payload ELSE @,
                   !.done = @ \/ data = 6]
    [] OTHER -> o

\* The bytes of memory are not kept: `commits' and CommitsOnce say which
\* write reaches memory and how often.
CommitWrite(o, address, data) ==
  CASE address = payload -> [o EXCEPT !.last_payload = data]
    [] address = event ->
         [o EXCEPT !.events = Append(@, data),
                   !.measured_cycles = IF data = 4 THEN o.last_payload ELSE @,
                   !.checksum = IF data = 5 THEN o.last_payload ELSE @,
                   !.done = @ \/ data = 6]
    [] OTHER -> o

\* Mutant: the harness commits in every cycle of a write.
Mut_commit_ready == m3_wen

\* CommitWrite looks at the b_ready of the core after the edge.
commit_ready == b_ready

\* DriveAxi: ready where the core is valid, valid where it is ready.
DriveAxi == Clock({axi_ar_valid}, {axi_aw_valid}, {axi_w_valid}, {ar_over}, {b_ready})

\* A device store the bridge takes is the next of Script: for the harness the
\* markers that build emits, each after its payload if it has one.
Issue ==
  IF bridge.req_rdy /\ ~bridge'.req_rdy /\ bridge'.wen
  THEN /\ issued < Len(Script[kind]) /\ bridge'.addr = Script[kind][issued + 1].addr
       /\ issued' = issued + 1
  ELSE issued' = issued

\* After the edge: CommitWrite with the address and data noted after the last
\* edge, then the new addresses and data are noted.
RisingEdge ==
  /\ DriveAxi
  /\ Issue
  /\ LET o == IF commit_ready' THEN CommitWrite(h, h.write_address, h.write_data) ELSE h
     IN h' = [o EXCEPT !.read_address = raddr', !.write_address = m3_addr',
                       !.write_data = w_data']
  /\ commits' = IF commit_ready' THEN Append(commits, h.write_address)
                ELSE IF b_ready THEN <<>> ELSE commits

\* The simulator: memory is called in the cycle of the answer with the address
\* and data of the cycle before, which sim_top has registered.  Reads of the
\* clock and accesses outside memory have no effect on it.
mem_write(o, waddr, wdata) ==
  IF waddr = serial THEN [o EXCEPT !.events = Append(@, wdata)] ELSE o

\* mem_read is called with the registered address.
mem_read(o, raddr_ff) == [o EXCEPT !.read_address = raddr_ff]

SimEdge ==
  /\ DriveAxi
  /\ Issue
  /\ LET o == IF b_ready' THEN mem_write(h, m3_addr, w_data) ELSE h
     IN h' = [mem_read(o, raddr) EXCEPT !.write_address = m3_addr, !.write_data = w_data]
  /\ commits' = IF b_ready' THEN Append(commits, m3_addr) ELSE IF b_ready THEN <<>> ELSE commits

Run(expected_checksum, expected_cycles) ==
  IF ~h.done THEN 1
  ELSE IF /\ h.events = <<1, 2, 3, 4, 5, 6>>
          /\ expected_cycles = 0 \/ h.measured_cycles = expected_cycles
          /\ h.checksum = expected_checksum
  THEN 0 ELSE 2

-----------------------------------------------------------------------------
GolInit ==
  /\ Init
  /\ kind \in {"any", "harness", "sim"}
  /\ issued = 0 /\ h = GolHarness /\ commits = <<>>

HarnessNext == kind = "harness" /\ UNCHANGED kind /\ RisingEdge

SimNext == kind = "sim" /\ UNCHANGED kind /\ SimEdge

AnyNext == kind = "any" /\ Next /\ UNCHANGED <<kind, issued, h, commits>>

GolNext == AnyNext \/ HarnessNext \/ SimNext

\* Any slave accepts what it is offered and answers what it has accepted; the
\* harness does so by construction.  The clock does not stop: weak
\* fairness of GolNext, written out, as every step that changes something is one.
GolFairSpec ==
  /\ GolInit /\ [][GolNext]_golVars
  /\ []<>~ENABLED <<GolNext>>_golVars \/ []<><<TRUE>>_golVars
  /\ []<>(kind = "any" => ~axi_ar_valid)
  /\ []<>(kind = "any" => ~axi_aw_valid)
  /\ []<>(kind = "any" => ~axi_w_valid)
  /\ []<>(kind = "any" => arq = None)
  /\ []<>(kind = "any" => awq = None \/ wq = None)

-----------------------------------------------------------------------------
\* When the core is told that a write is done, the slave has committed it
\* exactly once, at its own address, although it uses the address and data of
\* the cycle before; and the data it returns for a read are those of the
\* address it accepted, although it looks the address up anew every cycle.
CommitsOnce ==
  kind # "any" =>
    /\ commits = IF b_ready THEN <<m3_addr>> ELSE <<>>
    /\ arq # None => h.read_address = arq

\* The markers the harness has seen, or the characters the simulator has
\* printed, are those of the program's device stores so far, each once and in
\* order; and once the last marker has arrived the harness's verdict rests on
\* the cycles and the checksum the program sent.
MarkersInOrder ==
  kind # "any" =>
    LET script == Script[kind]
        sent   == IF bridge.valid /\ bridge.wen /\ commits = <<>> THEN issued - 1 ELSE issued
        mark(s) == s.addr = IF kind = "sim" THEN serial ELSE event
        marks  == SelectSeq(SubSeq(script, 1, sent), mark)
        before(n) == script[CHOOSE i \in 1 .. Len(script) :
                              script[i + 1] = [addr |-> event, data |-> n]].data
    IN /\ h.events = [i \in DOMAIN marks |-> marks[i].data]
       /\ h.done => Run(before(5), before(4)) = 0
=============================================================================
