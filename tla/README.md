# Verification of the RV64IM in-order core

TLA+ models of the SystemVerilog under `rtl/vsrc/` and of the C++ that runs, checks and measures it
(`sim/csrc/`, the observers under `models/`, the Game of Life harnesses), model-checked with TLC and,
where marked, proved with TLAPS for every value of the constants. Paths below are relative to the
repository's root. `PROJECT.json` lists components, runs, mutants, the map from definitions to source
lines, findings, hazards and theorems.

The configuration is the one of `rtl/vsrc/rv64im_core_defines.sv` (predictor `PRED_1`: saturating
counters and return address stack, `TIME_OPT`, the iterative divider) and of
`sim/csrc/include/config.h` (differential test on, watchpoints and instruction trace off).

## 1. The system

```
            +--------------------------- core ----------------------------+
 predictors |  IFU --> IDU/regfile --> EXU/ALU/DIV/CSR --> LSU --> WBU     |
            |   ^   stall/flush network (pipe_ctrl)         |              |
            +---|-------------------------------------------|--------------+
             I-cache                                   1toN (address decode)
                |                              D-cache     CLINT     AtoB bridge
                |                                 |                      |
                |                                 +-------- 2to1 --------+
                +--------------------- axi (read arbitration) -----------+
                                              |
              AXI slave: any | Game of Life harness | simulator memory (sim_top)

 probes of the core --> simulator loop --> reference model, debugger, observers
                    --> profiling harness --> counters, dependency observer
```

| Part | State | Operations | Hard behaviour |
|---|---|---|---|
| Cache (`cache/`) | tags, valid, dirty, PLRU, data RAM, miss registers, two bus engines, response stage | accept hit, accept miss, write-back beats, refill beats, drain | a miss between stalled answers; dirty eviction and refill of the same way; counters that wrap |
| Fetch (`ifu/`) | pc, outstanding request, pending redirection, stall buffer | request, receive, buffer, redirect | late data of an abandoned path; two redirections in a row |
| Pipeline (`idu`, `exu`, `mem`, `wb`, `core`) | four stage registers, register file, CSRs, divider handshake, outstanding access | a cycle of all stages | overlapping stalls and flushes, forwarding, precise traps |
| Divider, multiplier, byte lanes | operand, remainder and quotient registers; rows; lanes | load, iterate, hold, flush; multiply; store, load | early end by equality of a wrapping counter; signs; overlapping stores |
| Bus (`bus/`) | bridge, slave asked last, AXI channel flags | five channels at once | merge without arbitration, answers without names |
| CLINT, predictors | mtime, mtimecmp, msip; counters, stack | count, write, read; train, push, pop | a write in the cycle of the comparison; pointer wrap |
| Simulator (`sim/csrc`, `sim_top.sv`) | retirement tags, reference model, state of the run | clock, compare, skip, inject | a device access or an interrupt between two compared steps |
| Debugger | watchpoint lists, static buffers of expressions | c, si, q, w, d, p | lists threaded through one array; buffers shared by operands |
| Observers and harnesses | windows, counters, traces, episodes | one group of calls per cycle | markers that retire again; windows that cut refills; loads that wait |

## 2. The modules

| Module | Models | Checked by |
|---|---|---|
| `AtomicMemory` | what a cache port promises: one request at a time, performed at one instant, answered once | abstract side of `dcache` |
| `DCache`, `DCacheProofs` | `cache/rv64im_core_dcache.sv` with its memory | `dcache`, proved |
| `Ifu`, first part of `PipelineProofs` | `ifu/rv64im_core_ifu.sv` | `pipeline_jumps` (as part of `Pipeline`), proved |
| `Pipeline` (extends `Ifu`), `PipelineProofs` | `core`, `pipe_ctrl`, decode, register file, execute, CSRs, interrupt control, LSU, write-back | the `pipeline_*` runs, proved |
| `AxiBus`, `AxiBusProofs` | `1toN`, `AtoB`, `2to1`, `axi` and the caches' bus engines as `rv64im_core_top.sv` connects them | `axi_bus`, proved |
| `GolBus` (extends `AxiBus`) | the slave: any, the harness `gol_profiling_verilator_harness.cpp`, or the memory of `sim_main.cpp` behind `sim_top.sv` | `axi_bus` |
| `Divider`, `DividerProofs` | `exu/rv64im_core_div.sv` and the operand selection in `alu.sv` | `units`, proved |
| `Multiplier` | `booth_mul.sv` with its tree | `units` |
| `ByteLanes`, `Clint`, `Predictor`, `UnitsProofs` | mask and lanes of `ls.sv`; `clint.sv`; `satcnt.sv` and `ras.sv` | `units`, proved |
| `Units` | the divider and these four side by side; a behaviour uses one unit | `units` |
| `Simulator`, `SimulatorProofs` | `cpu_exec`, `exec_once`, `single_cycle`, `difftest.cpp`, the retirement tags of `sim_top.sv`, and the exit status of `main` (`npc_main.cpp`) | `simulator`, proved |
| `Watchpoint`, `Expr` | `watchpoint.cpp`, `expr.cpp`, as operators | `simulator` |
| `Sdb` | `sdb.cpp`: the commands on the three above | `simulator` |
| `PerfObserver`, `CacheObserver`, `DependencyObserver`, `DependencyProofs` | the three observers: each function a function of the observer's globals | `observers`, proved |
| `GolProfile` | counters, window and verdict of the two profiling harnesses | `observers`, proved |
| `Profiling`, `ProfilingProofs` | the drivers: the simulator's cycle and the harness's tick, over what the core can show | `observers`, proved |
| `MC...` | constants of the runs | |

**A step** is one rising clock edge, and all registers of a module change together: the code is
synchronous, so the nondeterminism is in the inputs of a cycle (is memory ready, does it answer, is
there an interrupt, what was predicted, what is the branch's outcome), chosen with `\E`. In the C++
modules a step is one iteration of a loop or one command. Operators named as in the source are its
wires or its functions; `XStep(in)` is the next state of a stage.

**Data abstraction.** Values are members of small sets, because the caches, the pipeline and the
bus move them without looking at them. In `Pipeline` results, branch outcomes and jump targets are
inputs of the cycle in which the instruction leaves EX. In `AxiBus` a word *is* the address it was
read from or is written to; in `ByteLanes` a byte is its origin. `Divider`, `Multiplier`, `Clint` and
`Expr` compute, at a small width. `Simulator` runs a program of twelve instructions on a machine with
two registers; the core may get one result wrong. In `Profiling` a sample is the set of the signals that are high.

**History variables.** `want` (`Ifu`): the address the consumer expects next. `apc`, `arf`, `acsr`
(`Pipeline`): program counter, registers and CSRs after the instructions executed so far, one at a
time. `c1_req` (`DCache`), `dev_reads` (`AxiBus`), `commits` (`GolBus`), `due` (`Clint`), `recent`,
`calls`, `exact` (`Predictor`), `wrong`, `dev_intr` (`Simulator`), `live`, `dels`, `shown` (`Sdb`) and
`hist` (`Profiling`): what was asked, sent or done. No code reads them.

**Dead registers** (`flush_addr` once used, `miss` outside a miss, ...) are reset to a constant.

**External to the repository, or to a module, and modelled from its use**: the AXI slave of `AxiBus`
and the memory of `DCache`; the reference model of the differential test, which executes, copies
registers and takes interrupts as it is told; and the order in which a cycle calls the perf and cache
observers. No file of the repository calls those two; the order is the one that
`docs/experiments/00_baseline/source_notes/a2_phase6_cycle_model_calibration.md` describes.

### Correspondence, in short

* `DCache`: `ReqHit`/`ReqMiss` accept a request; `WbusFetch`, `WbusBeat` are the write-back engine,
  `RbusBeat`, `RbusDone` the refill engine; `C1Stage` is the response stage, part of every action.
* `Ifu`: `IfuStep` is the whole unit; `addr_shake`, `data_shake`, `inst_ok`, `pc_next` its wires.
* `Pipeline`: `Cycle` joins `ExuStep`, `LsuStep`, `WbuStep`, `CsrStep`, the history `ArchStep` and
  `FetchDecode` (`IfuStep` and `IduStep`); `stall_*` and `flush_*` are `rv64im_core_pipe_ctrl.sv`.
* `AxiBus`: `Step` joins the clients, the arbiter and the slave. `GolBus`: `RisingEdge` is the
  harness's, with `CommitWrite` after the edge; `SimEdge` calls `mem_write` and `mem_read`.
* `Divider`: `Load`, `Iterate`, `Latch`, `BusyStep`, `ReadyStep`. `Multiplier`: `MulExecute` (EX) and
  `MulWriteBack` (the addition in MEM). `Clint`: `ClintStep`. `Predictor`: `SatStep`, `RasStep`.
* `Simulator`: `Iterate` is one iteration of `cpu_exec`: `exec_once`, the test for the ebreak,
  `single_cycle`. `Sdb`: one action per command; `Return` is the end of `cpu_exec`.
* `Profiling`: `SimCycle` is the calls of a simulator cycle, `GolTick` the harness's `Tick`.

## 3. The runs

| Run | Instance | Shows |
|---|---|---|
| `dcache` | 1 set, 5 lines, 2 lanes | the inductive invariant (types, one-hot hit, clean lines equal memory, PLRU spares the line just answered, and the phases of a miss), refinement of `AtomicMemory`, every miss is answered |
| `pipeline_data` | loads, stores, multiply, divide, ALU; D-cache, CLINT and device | control flow, operands, results, ownership of accesses |
| `pipeline_jumps` | branches, jal, jalr, loads | fetch delivers the wanted stream, and only the program's path executes, with the right operands |
| `pipeline_traps` | interrupts, ecall, mret, CSR writes, loads, branches | precise traps |
| `pipeline_live` | loads, device stores, divisions | the pipeline never wedges |
| `axi_bus` | 3 lines of 4 beats, 2 devices, three kinds of slave | the inductive invariant (no misdirected read, no mixed write, one read per device load), stable addresses, no starvation; harness and simulator commit every write once, and markers and characters arrive once and in order |
| `units` | widths below | quotient and remainder as the M extension defines them, through stalls and flushes; the inductive invariant, by which every division ends; products; last store loaded; timer on time; two outcomes decide a prediction; the return stack's top is the last call |
| `simulator` | one program with load, device access, interrupts, ebreak; every session of commands | no false alarm, status 0 means a right run, batch runs end, watchpoint lists, values of expressions |
| `observers` | nine environments, runs of six cycles | labels add up, all observers measure one window, no predictor update is lost or doubled, trace rows match counts, episodes cover the stalls and carry their own load's outcome until an interrupt flushes one that is waited for, verdicts accuse of nothing else |
| `pipeline_mul_hit`, `pipeline_uncached_use`, `pipeline_irq_div` | minimal programs | three disagreements between code and documentation, section 5 |

The inductive invariants contain the types of their modules' variables and imply the properties that
section 4 derives from them, which therefore have no entry of their own in the runs. `IfuInv`, `BufferMatchesPc` and `DeliveryRequestsNext` are proved and need no run.

### Bounds, and why they are enough

* `LastPc` 3 or 4: the pipeline holds at most four instructions between IF and MEM, and instructions
  are chosen anew at every fetch, so address reuse only merges states. Four addresses where jumps
  need a target that is neither the next instruction nor the current one.
* One register and two values: a stale or lost operand is one with the other value. Operands of two
  instructions collide as often as possible.
* Five lines for four ways: the least number with an eviction.
* Four beats are the code's. `CodeLines` has one line that is also data, `DataLines` two more: the
  I-cache's line, the D-cache's and its victim may be equal and may all differ. Two devices: the
  harness tells two addresses apart. `dev_reads` saturates at 2: the property asks for "at most one".
* `Script`: the marker stores of the workload, in its order; for the simulator four stores, one of
  them not to the serial port.
* `W` = 4 keeps every branch of the divider (equal lengths, shorter dividend, zero, most negative
  value); a half word has two bits. The proofs cover 2 to 64. `MulBits` = 6: three Booth digits, so
  that a digit has a neighbour on both sides, and a tree of three stages. `MaxStores` = 2: two
  stores overlap in every way; lanes are the code's eight. `ClintBits` = 3: the timer wraps. `SatDepth` = 3:
  two entries that are trained and the one that is not. `RasBits` = 2: the four slots wrap in both
  directions, and `calls` keeps the last four.
* `TValues` = 3: a wrong value, and a device's answer, differ from the right one and from each other.
  `MaxIntr` = 2: an interrupt after the return from another. `Steps` of 1 and 2 reach every
  iteration. `NR_WP` = 4 of 32: the pool runs out both by use and by the nodes deletions lose.
  `WordBits` = 8 of 32: wrap and sign. `MaxPrints` = 3: two commands that leave the buffers
  in different states, then every well-defined expression of the grammar to depth two.
* `MaxTicks` = 6: enough for a marker, an episode that waits, is served or flushed, ends and starts
  again, and the end marker. Each environment has its own small set of samples, which overlap stalls where the code has
  priorities.

### Fairness

Only what the environment owes: a running clock, a memory or bus that eventually accepts an offer and
answers what it accepted, and a division that ends. The last is not an assumption about the code:
`StopsInTime`, a conjunct of `DivInv`, is checked and proved. A slave may still delay every answer arbitrarily. In `axi_bus`
this is stated for the slave of kind "any" (`[]<>` that nothing waits on each channel); the
harness and the simulator's memory answer by construction, with the clock (weak fairness of `GolNext`) as the
only assumption. In `simulator` the loop runs (`WF` of `Loop` and `Return`), the batch command is
given, and the core completes instructions again and again (`SF` of `Advance`), which is what
`pipeline_live` shows of the pipeline. Strong fairness is needed because stalls and bubbles come and go.
Invariants are checked under the same specifications: fairness does not change the reachable states.

`observers` and `simulator` do not check for deadlock: runs are bounded, or end with `phase` "exit"
or "crash".

### What the passing runs exclude

`Situations` names circumstances in which the pipeline misbehaves. The passing runs set it to `{}`,
so their properties hold for programs and interrupts that avoid all five:

| Situation | Excluded | Source |
|---|---|---|
| `mul_hit` | a multiply whose first operand hits in the D-cache | `core/rv64im_core_core.sv:66` |
| `uncached_use` | a load from CLINT or device right after an access to the same slave | `core/rv64im_core_pipe_ctrl.sv:27` |
| `irq_div` | an interrupt while a division is in EX | `core/rv64im_core_pipe_ctrl.sv:25` |
| `irq_mret` | an interrupt while an mret is in EX | `exu/rv64im_core_intr_ctrl.sv:52` |
| `csr_hold` | a write of mstatus right after a memory access | `exu/rv64im_core_alu.sv:346` |

The first three have violation runs of their own. In the other modules the exclusions are
antecedents of the properties and named there: `dev_intr` in `NoFalseAlarm`, the instructions next
to the ebreak in `GoodMeansRight`, `WellDefined` in `ValuePrinted`, `exact` in `TopIsLastCall`, the
last entry in `TwoOutcomesDecide`. `ProgAssumption` says that the first instructions of a program
are no memory accesses, `HandlerAssumption` that an interrupt handler is one in the way of
`tests/custom/timer128_interrupt_mret.S`: entered by interrupts alone, with a first instruction that
neither enables them nor ends the run, and no `mret` before it. In `Profiling` an interrupt may flush a
load while its consumer waits (`Flushed`): `OwnOutcome` then no longer speaks of the outcomes of served loads of
that address (`Misled`), and `Verdicts` lets the dependency observer return 1 (finding 14). The harnesses
run a program that enables no interrupt. `Simulator` holds a write-back for a load or a device in MEM and
leaves out the wait for a division in EX, in which `wb_sign` is low just as well.

## 4. The proofs

**`DCacheProofs`**: `Spec => []IInv` for all sets of tags, indexes, lanes, bytes and requests; from
it `TypeOK`, `OneHotHit`, `CleanMatchesMemory`, `AnsweredLineNotVictim`. Assumptions: the typing of
the constants (`ReqsAssumption`, `MemInitsAssumption`, `RamInitsAssumption`, `ZeroAssumption`,
`NoneAssumption`). Four ways and four banks are the code's. None of the properties is inductive:
"clean lines equal memory" needs to know that a refill has copied the beats behind its counter
(`RbusInv`), that a write-back has written them (`WbusInv`: the read pointer is one beat ahead), that
the missing line is in no way (`MissInv`), and that a refilled way's dirty bit, which is never
cleared, can only err on the safe side. There is one lemma per action. Facts about the PLRU tree
(`PlruTurnsAway`), the wrapping counters (`CounterStep`) and the refill beat (`RefillEffect`) are
lemmas of their own.

The second part of **`DCacheProofs`**: `Spec => ImplementsAtomicMemory`, under the same assumptions. The mapping
takes a line from the way that holds it and else from memory; a way that is being refilled holds
nothing. A hit is an acceptance that is performed at once, a miss an acceptance that the last refill
beat completes, and every write-back beat and other refill beat stutters. `IInv` is what makes the
mapping a function of what the master asked (`HeldLine`: one hit at most) and the beats invisible
(`SameMemory`: a line leaves its way only when memory has it, and `MissInv`: the missing line is
nowhere else).

The first part of **`PipelineProofs`**, the fetch unit on its own: `IfuSpec => []IfuInv`, and from it `DeliversWanted`, `DeliveryRequestsNext` and
`BufferMatchesPc`, for every address space, set of instructions, cache, pipeline and predictor.
Assumptions: at least one address, targets within the address space, and an I-cache that is ready
whenever it has no unanswered request (definition `i_if_req_rdy`, the cache's `o_mem_req_rdy`).
`PathInv` is the strengthening: what is outstanding or buffered is wanted, unless a redirection to
the wanted address is pending.

The second part of **`PipelineProofs`**: under `Situations = {}`, `Spec => []PipeInv`, and from it `ControlFlow`,
`OperandsFresh`, `ResultsArrive`, `AccessOwned` and `CsrCurrent`, for every set of registers, values,
addresses and instructions, with memory, predictions and interrupts free. The hypothesis is the
exclusion of section 3; each of its five situations breaks one of the properties. Assumptions: those
of `Ifu`, and the typing of instructions, values and the trap vector. `PipeInv` extends `IfuInv`:
`Stream` says that the addresses in EX, ID and fetch are consecutive along the predicted path and
that EX holds the program's next instruction; `Ownership` that the access in MEM is outstanding or
answered, not both, and that there is no other; `Operands` that an operand in EX is current, or is
what the load in MEM brings in this very cycle; `Csrs` that the CSRs are those of the program so far, but for a
held write of mepc; `Pairs` that no two neighbours are an excluded pair, which is where the hypothesis
enters. There is one lemma per clause, over the one action `Cycle`.

**`AxiBusProofs`**: `GolFairSpec => []BusInv` for all sets of lines and devices, every number of beats,
every script and all three kinds of slave; from it `OneClient`, `ReadsOwnAddress`, `WritesOwnBeat`, `DeviceReadOnce`,
the action property `ArStable`, and, for the harness and the simulator's memory, `CommitsOnce`.
Assumptions: `LastBeatAssumption`, and `AddrAssumption`: devices are no beats of lines. The merge
without arbitration is right because at most one client is busy and the load/store unit waits for it
(`Waited`). The answers are the right ones because an accepted read belongs to the I-cache exactly
when `m0_valid`, with one exception that the invariant has to admit: a leftover `m0_rget` reads the
I-cache's old address while the data side waits, and is harmless since no fetch starts meanwhile
(`ReadOwned`). `WriteOwned` ties the write channels to the slave's, and `ReadOnce` says that a device
that was read is still being answered.

**`DividerProofs`**: `Spec => []DivInv` and `Spec => []StopsInTime` for widths 2, 4, 8, 16, 32 and 64,
the code's. The division ends on an equality of two lengths' difference with a counter; it ends in
time because the counter is 0 whenever the divider is idle, the divisor of an iteration is not longer
than its dividend (`NotFastLonger`: otherwise the fast path is taken), and the length of a word is
the position of its leading one (`LeadingOne`). Powers of two are the operator `pow`, whose facts
are the lemmas `Powers` to `PowersGrow`.

**`UnitsProofs`**: `TimerOnTime` for every width of the CLINT's registers, `TwoOutcomesDecide` for every
number of entries, `TopIsLastCall` for every depth of the return stack, and `LastStoreLoaded` for
every sequence of stores. Each unit has a specification of its own (`ClintSpec`, `SatSpec`,
`RasSpec`, `LanesSpec`), whose steps are those a behaviour of `Units` takes while it uses that unit.
`ClintInv`: the history is the distance from mtime to mtimecmp. `SatInv`: after one outcome a counter
is not at the opposite end, after two equal ones it is on their side. `RasInv`: counted back from the
write pointer, modulo the depth, the valid slots are the calls not yet returned from (`Stacked`).
`LanesInv`: every lane holds the byte of the last store that covers it.
`ClintBitsAssumption` and `SizesAssumption` also say that a power of two is a positive natural
number, a fact of arithmetic that the backends do not have.

**`SimulatorProofs`**: `SimSpec => []NoFalseAlarm` and `SimSpec => []GoodMeansRight` for every program
and handler, every number of values and of interrupts. Assumptions: `ProgAssumption`,
`HandlerAssumption` (section 3) and `TValuesAssumption`. `SimSpec` is the loop under every sequence of
`cpu_exec` and `quit`; the debugger's other commands leave its variables alone. For the first
theorem, `SimInv` says that the reference is one write-back behind the core: its state, the
write-back it has not seen, and the right instructions in WB and MEM lead to the state of EX
(`Flight`), and an interrupt in flight has set `intr_buff` (`Announced`). The first two instructions are
a case of their own (`Starting`), because the first write-back is not compared. For the second,
`GoodInv` follows a wrong result from MEM through WB to the register file, where the next comparison finds it
(`Placed`); the only way past is behind an ebreak (`Tracked`), which is what the property allows.

**`DependencyProofs`, `ProfilingProofs`**: `Spec => []ExclusiveSums`, `[]SameWindow`, `[]OwnOutcome` and
`[]Verdicts`, for every set of environments (files, markers, write-backs, samples), every program and
every number of cycles. Assumptions: `EnvsAssumption` (types), and `SamplesOfCore`: what the probes of
`rv64im_core_top.sv` show in one cycle fits together (`CoreSample`), and the D-cache is not asked for a
device's address. Samples follow each other as `Follows` says. `ExclusiveSums` and `SameWindow` follow
from `WinInv`. It ties each observer's markers and flags to one phase of the run, before, in or after the window (`RoiIs`), its count of cycles to the
window's length and its labels to that count, call by call: between `cycle` and `sample` one label is
owed. In the harness it also balances starts and ends of refills against those that the window
cuts (`Balanced`). A start marker that retires again must find the phase past "before" in every observer
at once, which is why the properties cannot be proved one observer at a time. `OwnOutcome` follows from
`OutInv`: an episode without outcome that may still get one is the episode of the load that waits in EX,
and that load's address is its own, or it is misled: a load of its address was flushed in it or before
(`Owns`). So of the episodes that are not misled at most one waits, and the first one with the
address of an access is the right one, unless an earlier one, and then it too, is misled
(`SettlesOwn`, `MisledLater`); an episode of a device load waits forever and never meets an access.
The episode of a waiting load also cannot be begun twice, because `previous_exclusive` stays up
while it waits. `Verdicts` follows from both. `DependencyProofs` has the lemmas about one call of the
dependency observer, `ProfilingProofs` those about the other observers, the invariants and the theorems.

**Only model-checked**:

* liveness (`[]<>`, leads-to and fairness are outside the prover's reach);
* `DivisionRight`, `SignedWordRight`, `ProductRight`, `ValuePrinted`: what a loop or a recursion
  computes, which needs induction over data;
* `WatchpointsKept`: `Sdb` uses the recursive operators of `Expr`;
* `MarkersInOrder` and, of the observers, `NoUpdateLost`, `TraceMatchesCounts` and
  `EpisodesCoverStalls`: they filter or add up a sequence, and again need induction over it.

## 5. Findings

With a run:

1. `pipeline_mul_hit`: the load-use bubble is dropped on the D-cache's hit signal for multiplies too;
   the consumer executes with a stale operand.
2. `pipeline_uncached_use`: a load that waits in EX for its slave is flushed by the bubble its
   consumer asks for, and never executes.
3. `pipeline_irq_div`: an interrupt during a division discards the older instruction in MEM.

Seen with TLC: a property excludes them, as section 3 says, and is violated without the exclusion (4 to
8, 10, 11, 14; for 10 the expressions asked must also have two different numbers or registers, or a
dereference behind `*`), or states them (9, 12, 13). For 4 and 5 add the situation to
`Situations` of `MCPipelineTraps.cfg`; 5 also needs `Load(0, "mem")` in `TrapInsts`, a load the CSR
instruction does not depend on (the load-use bubble keeps a dependent one out of EX).

4. `irq_mret`: the pipeline jumps to `mtvec | mepc`.
5. `csr_hold`: a CSR instruction that is held writes early and reads back its own value.
6. `divuw`/`remuw` divide the full registers and are wrong for sign-extended words
   (`exu/rv64im_core_alu.sv:136`); `SignedWordRight` therefore speaks of the signed forms.
7. `sim_main.cpp:311`: a mismatch found in the iteration that sees the ebreak is overwritten by
   `NPC_END`: the run reports HIT GOOD TRAP and returns 0. An instruction behind the ebreak, and the last
   one if the ebreak is in WB while WB waits, are not compared.
8. `sim_main.cpp:281`: a device access that retires right before an interrupt. The skipped step
   gives the reference the handler's pc, the injected interrupt saves it as mepc, and the comparison
   fails at the mret.
9. `watchpoint.cpp:50`: a freed node replaces the first free one, which is lost; with none free `d`
   follows a null pointer and `w` fails its assertion.
10. `expr.cpp:227`, `:234`: hexadecimal numbers share one buffer and registers another, so that with
    two of a kind the last one counts for both; an unknown register (and `t6`: the search ends at 30,
    `sim_main.cpp:346`) takes what an earlier expression left at its position, or a null pointer; a
    dereference right after `*` or `/` is taken for the operator.
11. `ras.sv`, `alu.sv:264`: a call or return held in EX is pushed or popped once per cycle; a jalr that
    does both is written above the top. The last entry of the direction predictor is never
    written (`satcnt.sv:43`). Both cost time only.
12. Misaligned stores write nothing, misaligned loads return 0 and a misaligned `ld` the aligned
    doubleword, without an exception (`mem/rv64im_core_ls.sv:83`).
13. A device load that is waited for stays without outcome, and the dependency observer returns 1 for
    the run (`Verdicts`).
14. `dependency_observer.cpp:194`: an interrupt flushes a load in EX whose consumer waits
    (`core/rv64im_core_pipe_ctrl.sv:25`). Its episode goes on looking for an access. When the load is executed
    again and waited for again, its access settles the old episode, the first of its address, and its own
    stays without outcome; later loads of the address are one episode off, and the observer returns 1.
    `docs/experiments/03_loaduse_dse/source_notes/a2_dependency_counter_semantics.md:22` says that an episode
    "is correlated to its accepted D-cache load by aligned 32-bit address in program order". TLC shows it in
    four states (wait, flush, wait and miss) for `OwnOutcome` without `Misled`.

Read in the source, outside the models: `csrrc` sets bits (`alu.sv:349`, operator precedence);
`mret` clears mepc, mcause and mtval; the CLINT ignores the byte mask; `axi_w_last_o` is constantly 0;
`gol_profile_harness.cpp` gives the observer EX's pc and code as the producer's; `expr.cpp:69` does not
bound the number of tokens, and -2^31 / -1 traps; an ebreak killed by an interrupt ends the run
(`sim_top.sv:96` clears its pc and not its code). PLRU can evict a valid way while another is free,
although `dcache.sv:133` speaks of "the free way": this costs time and not correctness.

## 6. Not modelled

* Instruction decoding and ALU arithmetic other than multiplication and division: pure functions
  whose results are inputs here. csrrs and csrrc, the counters and the CSRs other than mstatus and
  mepc; the priority among the three interrupt sources, which only chooses mcause.
* Simulator start-up (options, image, log, ELF symbols), instruction and function traces, the
  disassembler, wall-clock time, and the commands that only print: input and output. The regular
  expressions that cut an expression into tokens.
* The samples of the load-use and I-cache monitors in `sim_main.cpp`: only their statuses, in `main`.
* Contents of the harness's and the simulator's memories (image loading, bytes of a doubleword):
  `CommitsOnce` says which write reaches them, `ByteLanes` which bytes it has.
* The AXI slave library under `sim/csrc/include/`, `Nto1`, `add4to2` and `cla4`: not instantiated.
* Directed test benches, replay models in Python, scripts, synthesis, workloads: no state of the system.
* Reset during operation, and X-propagation of registers without a reset other than the data RAM and
  its output register (arbitrary in `DCache`), the return stack's slots and the last predictor entry
  (arbitrary in `Predictor`); `Divider` starts its data registers at 0.
