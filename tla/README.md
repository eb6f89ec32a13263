# Verification of the AI inference accelerator SoC

TLA+ models of the RTL and the firmware of this repository, the TLC
configurations that check them on small instances, and TLAPS proofs of their
safety properties for every value of the parameters. `PROJECT.json` maps every
definition to the lines it models.

Run a model from this directory with

    tlc -workers 2 -config MCCommandQueue.cfg MCCommandQueue

and check the proofs with `tlapm CommandPathProofs.tla`, and likewise
`DmaSubsystem`, `DmaCopyProofs`, `FabricProofs`, `ControlPlaneProofs`,
`FirmwareProofs`, `AcceleratorProofs` and `PrimitiveProofs`.

## 1. The system

Software writes memory-mapped registers over AXI-Lite. A DMA engine copies
bytes between external memory (DRAM) and the scratchpad. Commands go through a
queue to a processor, which dispatches one at a time to the DMA engine (through
an adapter) or to one of three accelerators. All of these reach memory through
one fabric. Events end up in an interrupt controller; a cooperative firmware
scheduler serves the interrupts and drives the units.

| component | state | operations | how it interacts |
|---|---|---|---|
| command queue (`command_queue.sv`) | entries, valid bits, ages, round-robin index, selection lock, occupancy, high water | push, select and offer, pop, age, reset; all in one clock edge | pushed by the register block, popped by the processor |
| command processor (`command_processor.sv`) | state, active tags and target, cycle count, response register | dispatch, reject opcode, wait, complete, hold response | valid/ready to four executors; response to the register block; completion pulse to the interrupt controller |
| DMA engine (`dma_engine.sv`) | state, addresses, bytes remaining, burst index, read data, pulses | start (accept, refuse, reject), read beat, write beat, end, fail | two ports of the fabric |
| DMA adapter (`dma_command_adapter.sv`) | state, active ID, length, cycles, response | accept a queued command, wait for done, respond | shares the engine with direct starts from the register block |
| accelerators (`vector_accelerator.sv`, `reduction_accelerator.sv`, `gemm_accelerator.sv`) | state, addresses and indices, operand and result registers, accumulators, response | validate, read, compute, write, fail, respond | one fabric port each |
| memory fabric (`soc_memory_fabric.sv`, `scratchpad_ram.sv`, `simple_dual_port_ram.sv`) | state, owner, round-robin owner, latched request, local response, RAM | arbitrate, accept, access, respond | five initiators, one external port |
| register block (`soc_register_block.sv`) | configuration registers, sticky status, staged command, error status, pending AXI halves | MMIO reads and writes, hardware sets | everything |
| interrupt controller (`irq_controller.sv`) | pending bits, latency counter | set, acknowledge | firmware |
| timer (`soc_timer.sv`) | last configuration, count, armed, tick | restart, count, expire, disable | configured by the register block, ticks to the interrupt controller |
| performance counters (`performance_counters.sv`) | eleven saturating counters | count, keep maxima, clear | selected and read through the register block |
| firmware (`cooperative_scheduler.cpp`, `hardware_drivers.cpp`, `workload_api.cpp`) | task table, owner of the DMA engine, owner of the accelerator path | submit, run_once: serve interrupts, select, dispatch | MMIO and the interrupt line |
| FIFO, skid buffer (`sync_fifo.sv`, `skid_buffer.sv`) | small buffers | push, pop | not instantiated by `soc_top` |
| test programs (`sim/verilator/*_main.cpp`) and reference models (`models/cpp`) | memory images, port delays, expectations | drive a unit and compare | one unit each, or the whole SoC |

What is hard here: everything in the RTL happens in one clock edge, so push
and pop, set and clear, start and finish coincide; handshakes stall for any
number of cycles while inputs change; units share one engine, one memory port
and one completion wire without tags; accesses fail in the middle of a command;
lengths are not multiples of words and ranges end at region borders; counters
saturate; and the firmware does in many MMIO accesses what it thinks of as one
step, while the hardware goes on. `PROJECT.json` lists these hazards at their
lines, each with the properties that would catch it.

## 2. Modules and how they correspond to the code

One step of every RTL module is one clock edge. An operator named like a signal
or a function of the source (`free_index`, `command_ready`,
`data_range_is_legal`) is that signal or function; an action is one branch of
the `always_ff` block and includes every assignment of it, default pulses too.
A `...Reset` action is the reset branch, which may happen at any time.

| module | what it is |
|---|---|
| `CommandQueue` | the queue: `QueueClock` is the whole clock edge with its inputs as parameters |
| `SchedulerFairness` | the queue plus a history variable counting how often a slot is overtaken, with one policy and threshold per behaviour |
| `CommandPool` | abstract: a bounded bag with an offered descriptor |
| `CommandProcessor` | the processor, in terms of its input wires |
| `CommandPath` | queue, processor and four executors on one clock |
| `CommandLedger` | abstract: every admission answered exactly once under its own tags |
| `DmaEngine` | the engine, in terms of its input wires |
| `DmaCopy` | the engine with a byte memory and the history of the transfer |
| `DmaBench` | `dma_main.cpp`: its memory ports, counters and tests around `DmaCopy`, and the instance `dma_copy` checks |
| `DmaSubsystem` | engine, adapter and the start pulse of the register block, with its proofs |
| `MemoryFabric` | fabric, scratchpad RAM, external memory and initiators, with a history variable counting how often an initiator is overtaken |
| `SharedMemory` | abstract: one atomic word memory |
| `AcceleratorCore` | what the three accelerators share: arithmetic on elements, legality, the parts of a clock edge |
| `VectorAccelerator`, `ReductionAccelerator`, `GemmAccelerator` | one state machine each |
| `AcceleratorBench` | the fixture the three accelerator benches share (port delays, injected errors, held responses, reset) and the functions of `models/cpp`, which say what the tests expect |
| `VectorBench`, `ReductionBench`, `GemmBench` | the tests of `vector_main.cpp`, `reduction_main.cpp`, `gemm_main.cpp` |
| `Accelerators` | the three accelerators, in an open environment on any builds (the records `Vector`, `Reduction`, `Gemm`) and under their benches |
| `RegisterBlock` | AXI-Lite channels and all registers; a register is the set of its bits |
| `SocTimer`, `IrqController`, `PerformanceCounters` | the units around the register block |
| `ControlPlane` | driver calls, AXI-Lite manager, register block, timer, interrupts and counters on one clock, wired as in `soc_top.sv` |
| `SocBench` | register programs of `sim_main.cpp` as driver calls, and the instance `control_plane` checks |
| `BoundedChannel` | abstract: a lossless bounded channel |
| `Primitives` | FIFO and skid buffer, between any source and sink, and the directed and random tests of `primitive_main.cpp` for them |
| `WorkloadApi` | the submit functions, their checks, sizes, scratchpad slots, and the transfers and commands they lead to |
| `SocPlatform` | registers, interrupt controller and units as the firmware sees them, one MMIO access per step |
| `FirmwareScheduler` | the scheduler on `SocPlatform` |
| `CommandPathProofs` | theorems about `CommandQueue`, `SchedulerFairness` and `CommandPath` |
| `DmaCopyProofs`, `FabricProofs`, `ControlPlaneProofs`, `FirmwareProofs`, `AcceleratorProofs`, `PrimitiveProofs` | theorems about the module of that name (`MemoryFabric`, `FirmwareScheduler`, `Accelerators` and `Primitives` for the shortened ones) |
| `MC...` | the constants of a run |

Refinement mappings stand in the detailed module, where runs and proofs share
them: `Pool` in `CommandQueue`, `Ledger` in `CommandPath`, `Atomic` in
`MemoryFabric`, `Channel` in `Primitives`.

How they compose: `CommandPath` puts queue and processor on one clock;
`DmaSubsystem` the adapter, the engine and the register block's start pulse;
`ControlPlane` the four units software reaches directly, with the DMA engine
and the command path reduced to what they show on those ports; `SocPlatform`
reduces all hardware to its registers and interrupts, so that
`FirmwareScheduler` can be interleaved with it access by access.

In several modules an operator commented "Faulty variant" stands before the
definition it varies. It is a plausible mistake in that piece of code and is
used by nothing: putting it in the place of the definition makes TLC report the
property that `PROJECT.json` names with it, which shows that the property can
fail.

What is abstracted:

- A descriptor carries what the module tells apart: ID, opcode and priority in
  the command path, operands in the accelerators and the DMA model. The
  executors of `CommandPath` are their command and response handshakes; they
  finish after any number of cycles with any outcome.
- Accelerator addresses count elements, not bytes. Every command ID and cycle
  counter of an accelerator is left to `CommandPath` and `DmaSubsystem`, which
  model them for the executors they contain. `tile_accumulation_complete` of
  the GEMM accelerator, read only by an assertion, is left out.
- External memory fails or performs an access as a whole; in the fabric model
  it answers after any delay. The fabric's initiators keep a request up until
  it is accepted and are ready for the response, as all five do.
- Storage that reset does not clear starts with the value `Unwritten`; the
  properties show that it is never used.
- In `SocPlatform` a unit is the job it runs and the events it raises. The
  fabric's error event coincides with the failing unit's and is merged with
  it. An acknowledge takes effect one edge after the write and before the next
  MMIO access, because an AXI-Lite access takes several cycles. A submission
  is refused only while a descriptor is staged: the firmware has at most one
  command in the path, so the queue is never full, and it writes no invalid
  opcode.
- The firmware's statistics, error texts, and dispatch and completion orders
  are left out.
- In `ControlPlane` the DMA engine and the command processor finish at any
  time; the register values a program writes are small bit sets, and counters
  are split into halves of `HALF_WIDTH` bits where the source has 32.
- In the test programs a random draw is a choice from the range it is drawn
  from, thinned out to its ends and a middle value; lengths and address
  spaces are scaled down with the build; `cycle_` is kept modulo a common
  multiple of the blocking periods. A thrown expectation ends a test in step
  "failed". What only a report prints (names, cycle counts) is left out, and so
  are the timeouts: a test that would time out never passes, which the
  properties report. A poll of `sim_main.cpp` is not cut off after
  `kOperationTimeout` either.

## 3. What the runs check

| run | shows | bounds |
|---|---|---|
| `command_queue` | counters, lock and selection agree; an offer is stable from its first stalled cycle; the queue implements `CommandPool` | three slots, two descriptors of different priority, ages that saturate early, both policies, all inputs in every cycle |
| `scheduler_fairness` | under round robin, and under priority first once a slot is starved and until its age saturates, a slot is overtaken at most DEPTH - 1 times | three slots, ages up to 4, thresholds 1 and 2, each policy and threshold held throughout a behaviour: a change restarts the argument |
| `fairness_saturated` | **violated**: starvation protection with saturated ages | three slots, ages up to 3, threshold 2, execution enabled, no reset |
| `command_path` | one pulse per response, `CommandLedger` implemented, no descriptor waits for ever | two executors and an illegal opcode, depth 2, round robin, resets |
| `dma_copy` | bytes copied are exactly the requested ones; done without error means all; requests stay in the regions and the transfer's ranges; transfers end; the tests of `dma_main.cpp` pass | two regions behind a gap, two-byte words, bursts of two, operand triples at and beyond each limit, three transfers; the tests with all port delays and blocking patterns they draw from |
| `dma_subsystem` | direct and queued transfers do not take each other's completion or error code; a queued one is answered | one or two beats, zero length, misaligned; any number of transfers; resets |
| `firmware` | no completion lost, owners match blocked tasks, stages in order, a task fails only if its own job failed, no access of one task meets the scratchpad area another is using, every task terminates | two tasks made by any of ten calls of the workload API, five of them refused; the largest operands each kind admits; failing jobs and timer ticks at any time |
| `firmware_errors` | **violated**: errors are read and cleared | two one-source tasks |
| `memory_fabric` | `SharedMemory` implemented, an initiator is overtaken at most once by each other and answered | three initiators, one word of each memory, reads, partial writes, a misaligned address, failing external accesses, resets |
| `accelerators` | results equal their mathematical definition; failing accesses leave what they report; accesses stay in the scratchpad; commands end; the tests of the three benches pass | every 2- or 3-bit operand pair or every content of the source, signed and unsigned, saturating and wrapping, full and partial words and tiles, descriptors at and beyond every limit, each followed by a second command, with resets; the benches on a larger scratchpad with 3-bit elements |
| `control_plane` | each write executed once and in order; the queue receives what was submitted; both halves of a counter belong together; CTRL and SCHED_CTRL agree; unread interrupts stay; timer periods are exact; a running timer fires | nine short programs, each aimed at one way registers are shared, with address, data and responses in any order, completions in any cycle, resets; queue depth 2, halves of 2 bits, latencies up to 3 |
| `primitives` | both buffers implement `BoundedChannel`; the directed tests pass, and so does the random test: the FIFO agrees with its reference deque in every cycle | depths 1 to 4, two items, any source and sink, resets |

Why the bounds are enough: in the queue, the interesting cases are a full
queue, simultaneous push and pop, ties and saturation, all of which occur with
two slots and two age values; overtaking needs a third slot, and enough ages
between threshold and saturation for DEPTH dispatches. Element widths of two or
three bits reach every carry, sign and saturation case of one lane; two lanes
and lengths up to four give first, middle, last full and partial words. GEMM
tiles of 2 by 2 with dimensions up to 3 give full and partial tiles in every
dimension and a second tile that reuses the accumulators. In the fabric three
initiators, the DMA source and destination ports and an accelerator, give an
owner, a competitor and one more that must not be passed twice; each makes only
the kind of access its unit makes. Two firmware tasks occupy both units at once
and compete for either; with the largest operands they also fill their
scratchpad slots. In the control plane a program of a few calls is enough for an access to
meet every state a previous one left; intervals of 2 and 3 cycles let a tick
fall before, on and after an acknowledge. `Commands` (as many entries as
accelerator commands), `Programs`, `MaxTransfers` and `FIRMWARE_TASK_SLOT_COUNT` bound how many commands,
transfers and tasks a behaviour has; nothing in the code counts them otherwise.

Two kinds of checks meet in `dma_copy` and `accelerators`. In the open
environment (`step = "open"`) anything may stall, fail or be reset, and the
invariants compare with a mathematical definition. Under a bench the code's own
tests run with their own memory ports, and `DmaTestsPass` and `TestsPass` say
that each of them ends in "passed": the expectations, which the tests take from
`models/cpp`, agree with the RTL for every draw. The first kind cannot notice a
mistake in the reference models, the second can.

`ResultExact` of the vector accelerator requires that the destination does not
overlap, upwards, a source word that is still to be read (`ForwardSafe`): the
accelerator accepts such a descriptor, and what it then computes depends on
what it has overwritten. In place and downward overlap are exact.

### Two disagreements, and an observation

- `fairness_saturated`: README.md promises starvation protection. The age of a
  waiting descriptor saturates; among descriptors at the maximum the lowest
  slot wins. With lower slots refilled while a dispatch is stalled, a
  descriptor in a higher slot is never taken.
- `firmware_errors`: docs/firmware.md says that sticky errors are read and
  cleared. An error that is raised between the read of ERROR_STATUS and the
  acknowledge keeps its bit and loses its interrupt.
- docs/soc_integration.md gives direct starts priority in a cycle where both
  sources request an idle engine. The start pulse is registered, so a queued
  command that fires in the cycle of the DMA_CTRL write takes the engine first:
  in `DmaSubsystem` the engine then rejects the direct start with DMA_BUSY
  although the register block had accepted the write. The rejection is
  reported, and `RejectionNeverMasksCompletion` shows that it never disturbs the
  transfer that took the engine.

### Fairness

Liveness needs that the clock runs and that the environment does not stall for
ever; no fairness is put on what software or a competitor may decline to do.
A reset may drop what is in flight, so the liveness properties say that a wait
ends and leave what it ends with to the safety properties of the same run.

- `SchedulerFairness` (`StarvationProtection` only): the processor takes an
  offered descriptor again and again. It does, because it returns to idle after
  every command (`EveryCommandAnswered`).
- `CommandPath`: a cycle in which nobody stalls the path comes again and again
  (`Progress`): execution is enabled, an executor that works finishes (shown
  for each accelerator by `CommandEnds`, for the engine by `TransferEnds`),
  between two direct transfers there is a cycle in which a queued one can
  start, and the register block consumes responses (`rsp_ready` is constant
  while out of reset).
- `DmaCopy`, `DmaSubsystem`, accelerators: the memory accepts and answers
  (`RequestAnswered`), possibly with an error. A bench runs on: its `tick`
  loop ends only by passing, failing or timing out.
- `ControlPlane` (`TimerFires` only): the clock runs. `TimerAdvances` is a
  clock edge without reset, and weak fairness is asked of it alone; software
  may stop at any access.
- `MemoryFabric`: external memory accepts and answers.
- `FirmwareScheduler`: `run_once` is called for ever, as the firmware's main
  loop does, and each unit finishes its job.

## 4. What is proved

Every theorem holds for all values of the constants that satisfy the named
assumptions; TLC evaluates each assumption on the instance it checks. In each
case the inductive invariant says what the property alone does not, and the
lemmas before it say what one clock edge, or one branch of it, does.

**Command queue** (`CommandPathProofs`; any depth, age width, descriptors,
policies, thresholds. `QueueAssumption`: depth and age limit are positive,
thresholds do not exceed the age limit, priorities are natural, `Unwritten` is
no descriptor).

- `TypeCorrect`, `OccupancyCorrect`, `LockCorrect`, `OfferHeldCorrect`: the
  four properties of the run, from `IInv`. `TypeOK` alone is not inductive:
  that a push lands in a free slot needs that the counter agrees with the valid
  bits, that the counter follows needs that the popped slot was valid, and that
  needs the lock to name a valid slot. `OfferHeld` has two parts:
  `FirstStallLocks`, that the cycle in which an offer is first not taken locks
  the slot shown (`StallLocksOffer`: exactly one is shown, and no push goes
  there), and `LockedStays` for the cycles after it.
- `QueueImplementsPool`: the queue implements `CommandPool`. Every clock edge is
  an exchange of at most one descriptor in and one out (`ClockExchanges`), and
  the one that leaves is the one offered.
- `BypassIsBounded`: a descriptor is overtaken at most DEPTH - 1 times.
  Under round robin (`RoundRobinInv`), dispatches suffered plus the scan
  distance to the slot stay below DEPTH, unless a selection locked before the
  slot was filled lies beyond it, and then nothing has been counted yet. Under
  priority first (`PriorityInv`), dispatches suffered plus the number of older
  descriptors stay below DEPTH: only older ones are taken before a starved one,
  and no younger one becomes older while the age is not saturated.

**Command path** (`CommandPathProofs`; any queue, outcomes and executors.
`PathAssumption`: cycle counts are natural and the mark for "no response" is no
response).

- `ResponsesAnnouncedOnce`: one completion pulse per response.
- `ExecutorsServeActive`: an executor that is not idle holds the descriptor the
  processor waits for or the response to it. This is what the code relies on in
  pairing a response with the active tags, and what excludes that a command is
  answered by the outcome of another.
- `PathImplementsLedger`: every admitted descriptor is answered once, under its
  own tags. The ledger counts descriptors by their tags, since two commands may
  carry the same; the invariant `PathInv` is the queue's, that of the processor
  (`ProcessorInv`) and that of the executors (`ExecutorInv`).

**DMA** (`DmaSubsystem`, `DmaCopyProofs`; any word and burst size, regions and
transfers. `EngineAssumption`, `CopyAssumption`: sizes are positive, operands
natural, regions begin and end at word boundaries).

- `CompletionOwnership`, `RejectionSeparate`: from `DmaInv`, which says that from
  its start up to its done event a transfer is the queued one exactly while the
  adapter waits, and that a start pulse meets the engine idle or in its first
  request, never in a state that can end a transfer.
- `CopyIsExact`, `DoneIsCopied`, `RequestsStayInBounds`: from `CopyInv`, which ties
  the engine's registers to the bytes finished, the word held to the original
  source, and memory to the prefix copied. That the word read is original needs
  that accepted ranges do not overlap; that the last word stays in its region,
  that regions are whole words. A partial last word is read whole, beyond the
  source range but inside its region; `RequestsInBounds` says of a read that the
  bytes used lie in the source range, of a write that all its bytes lie in the
  destination range.
- `TransfersProgress`: what `TransferEnds` needs besides fairness. `CyclesLeft`,
  four for each byte remaining less what its current beat has done, is a natural
  number, 0 just when the engine is idle; no clock edge makes it greater, and one
  in which the memory accepts, answers or refuses makes it smaller. So the
  engine cannot cycle among its states: a transfer of n bytes meets at most
  4 n such edges. `CopyInv` is needed for it: that a beat is never empty.

**Memory fabric** (`FabricProofs`; any number of initiators and word size.
`FabricAssumption`: the two memories are disjoint, requests well formed).

- `OvertakingBounded`: an initiator is overtaken at most once by each other.
  `TurnsLeft` adds times overtaken and scan distance; `GrantIsFair` handles the
  cycle between a grant and its acceptance, in which requests may arrive that
  the grant did not consider.
- `FabricImplementsSharedMemory`: from `FabricInv`, whose part `OneTransaction` says
  that only the registered owner waits and that the latched request is the
  owner's, so that the access is one atomic step of `SharedMemory`.

**Control plane** (`ControlPlaneProofs`; any program of driver calls, queue
depth, intervals. `ControlAssumption`; `ProgramAssumption`: software acknowledges
only what it polled just before, as `service_interrupts` does, and reads a
counter as `PerformanceDriver::read` does, low half first).

- `PolicyStaysMirrored` (`PolicyInv`), `WritesExecuteOnce` (`BusInv`: what the bus
  has accepted belongs to the first access still unanswered),
  `AdmissionIsAsSubmitted` (`AdmissionInv`: a staged descriptor is not refused
  space by anything but itself).
- `InterruptsSurviveAcknowledge` (`SeenInv`: an acknowledge on its way clears only
  what software saw), `CounterReadsAreCoherent` (`CounterInv`: the snapshot is that
  of the low half read last). Both are false for software without the
  discipline above: the register block does not enforce it.
- `PeriodsAreExact` (`TimerInv`: between ticks the timer's count is the time since
  the last one). The interval is a sum over the bits of a register; that it
  is a natural number is shown by an induction on the bits, carried out with
  the least counterexample.

**Firmware** (`FirmwareProofs`; any calls of the workload API, table size, layout
of slots and hardware events. `LayoutAssumption`, `FirmwareAssumption`,
`BufferAssumption`: the parts of a slot hold the largest operands and are whole
words; applications keep their buffers outside the scratchpad, which the
interface does not check).

- `OwnersAreBlocked`, `WakeupsAreKept`, `StagesAreOrdered`, `FailuresAreOwn`: from
  `FirmwareInv`. Its parts say where a dispatch stands (`DispatchInv`), that an
  owner is blocked in the phase of its unit (`OwnerInv`), what is pending while
  interrupts are served (`ServiceInv`), and that a unit that is owned either has
  the owner's job or has its completion still to be seen (`DmaInv`, `CmdInv`).
  `StageInv` and `FailInv` relate the history of stages and failures to it.
- `TasksKeepApart`: with `ScratchInv`, which says that jobs are those of table
  entries; `OperandsFit` bounds the operands of every admitted workload by the
  part of its slot, and slots of different tasks are disjoint.

**Accelerators** (`AcceleratorProofs`; any element and word width, tile size,
limits, descriptors, contents. `ParametersValid` is the code's own
`validate_parameters`; `AddressesUnsigned`; `ContentsAreElements`: memory starts
with elements; `PowersOfTwo` states 2 ^ n = 2 * 2 ^ (n - 1) up to the widths of
the build, a fact of arithmetic that the provers' `^` does not come with).

- `AccessesAreLegal`: no access leaves the scratchpad. For vectors and
  reductions the addresses stand at the next word of a legal range. For GEMM,
  `GemmInv` says that a tile begins at a multiple of the tile size inside the
  matrix and that `outputs_written` counts the outputs before the tile and within
  it; without the count, nothing says that the command ends with its last tile,
  and the next tile would lie outside.
- `ResultsAreExact`, `FailuresLeaveReported`: from `IInv` and `DataInv`, which
  relates memory, registers and accumulators to the memory the command started
  from (`before`), one formula per accelerator.
  `VectorData`: the results reported are a correct prefix and every other cell
  is unchanged; the operand registers hold the elements of the word at hand,
  which under `ForwardSafe` no earlier word has overwritten.
  `ReductionData`: memory is untouched until the one write, and the accumulator
  is the sum of the elements read so far modulo its width, or their greatest.
  That lanes added modulo the width still give the sum (`SumAppends`), and that
  the width has room for the sum of `max_length` elements, so that conversion
  sees the sum itself (`ReductionSum`, from `ReductionParameters`), are lemmas.
  `GemmData`: the outputs written so far, which include every output the
  walk over the tiles has passed, are exact entries and nothing else
  changed; accumulator (row, column) of the tile is the inner product of the
  first `k_index` terms. Sources are never overwritten because
  `command_validation_error` rejects an overlap with the destination, and the
  inner product of `max_k` terms fits the accumulator (`GemmConverts`).
  The lemmas on finite sums (`SumsExist`, `SumRemove`, `SumGrows`, `SumBounded`)
  are about the `SumFunction` of the community modules; they use induction over
  the size of a set in the form of a least counterexample, which needs no
  operator as a parameter.
- `CommandsProgress`: what `CommandEnds` needs besides fairness. Three numbers say
  what remains of a command: elements or outputs, terms of the inner products
  of the tile at hand, and steps until one of these changes. Compared in this
  order they never grow, and shrink with every clock edge in which memory or
  the command processor answers and with every computation; none is left just
  when the accelerator is idle. From `IInv`: `GemmOutputsLeft` shows that
  `outputs_written` stays below m n while a tile is at hand, so the walk over the
  tiles cannot miss its end.

**FIFO and skid buffer** (`PrimitiveProofs`; any set of depths, any data.
`PrimitivesAssumption`: depths are positive, as `validate_parameters` demands, and
a datum differs from the absence of one).

- `UnitsAreChannels`: either buffer implements `BoundedChannel`, from `UnitInv`. For
  the FIFO `FifoInv` says that the pointers enclose the items: from the read
  pointer on, counted around the end of the storage, lie as many written slots
  as the occupancy says, and the write pointer is the next. With the pointers
  equal only the occupancy tells full from empty, which is why a full FIFO can
  take an item in the cycle in which it gives one away. `UnitInv` adds that an
  offer the sink left is still the oldest item, which makes a stalled output
  stable.
- `TestsPass`: no expectation of the bench fails. For the random test, at every
  depth and with every datum, the invariant is that the reference deque holds
  the items inside (`DequeStep`), so that the FIFO shows its front and shows
  nothing only when it is empty; `BoundedChannel` alone would allow a FIFO that
  withholds an item. A reset may restart the random test anywhere. The directed
  tests fix their depths and data and run without interruption, so for them the
  theorem says no more than the run: the tests send 1, 2, 3 and so on, `Courses`
  tabulates for their 34 cycles how many items have left before and how many
  are inside, `RowsFit` checks that every row expects what follows from them, and
  `CourseStep` that a clock edge leads from one row to the next.

Attempts that failed changed the model where it was wrong or too weak to reason
about: two arms of the status check in `complete_dma` overlapped; a threshold
that changes within a behaviour restarts the argument about overtaking; the
ledger took tags for unique; the history variable of the timer had a bound it
did not need; the channel's data were fixed to those of the tests; the
discipline of reading counters was implicit in the programs.

Only model-checked:

- liveness under fairness, which is out of the prover's reach (of
  `TransferEnds` and `CommandEnds` the proofs show all but the step from a measure
  that fairness keeps shrinking to an end):
  `EveryCommandAnswered`, `TransferEnds`, `DmaTestsPass`, `QueuedCommandAnswered`,
  `TasksTerminate`, `RequestAnswered`, `CommandEnds`, `TestsPass`, `TimerFires`,
  and `StarvationProtection`, which does not hold.

## 5. Not modelled

- the interface bundles of `rtl/interfaces`: wires and assertions without
  state; their handshakes are guards here;
- `command_main.cpp` and `services_main.cpp`: directed tests of units that run
  here under every input in every cycle; of `register_main.cpp` only the bus
  procedures, of `primitive_main.cpp` not the RAM tests, for the same reason;
- the workload tests of `sim_main.cpp`, which need the whole SoC in one state
  machine. That composition is out of TLC's reach: its parts are composed along
  their handshakes, and each liveness assumption of one is a property of
  another;
- `firmware_tests.cpp`, which runs the scheduler on a mock of MMIO, the UVM
  environment, the scripts, the reports;
- the firmware's statistics and `performance_snapshot`.
